-------------------------- MODULE ConsentCheckProofs --------------------------
(***************************************************************************)
(* What CheckConsent answers holds, for any number of questions beside any *)
(* number of calls of the engine.                                          *)
(*                                                                         *)
(* A question that is being answered holds copies of records, which the    *)
(* engine may write and the clock may outdate meanwhile.  What an answer   *)
(* says is either judged by the clock when it is given, or something that  *)
(* does not change once it was so: that the grant was confirmed on chain.  *)
(***************************************************************************)
EXTENDS ConsentCheck, ConsentEngineSerialProofs, FiniteSetTheorems

ReaderFields ==
    [records: SUBSET Consents, first: Consents \union {NoCID},
     answer: Answers, payload: Consents \union {NoCID}]

\* A question has no answer until it is answered, and no records from then on. What is
\* first of them was active when it was found. If expired records were left out then, one
\* that has expired since did so after all those that the questioner was told of.
ReaderOK(k) ==
    /\ ~Checking(k) => reader[k].records = {}
    /\ Checking(k) => /\ reader[k].answer = "none"
                      /\ reader[k].first \in reader[k].records
                      /\ "confirmed" \in grantTx[reader[k].first]
    /\ filters => lapses[k] <= Cardinality(expired)
    /\ filters /\ Checking(k) /\ reader[k].first \in expired =>
          lapses[k] < Cardinality(expired)

ReaderInv ==
    /\ filters \in BOOLEAN
    /\ reader \in [Readers -> ReaderFields]
    /\ lapses \in [Readers -> 0 .. MaxLapses]
    /\ IsFiniteSet(expired)
    /\ \A k \in Readers: ReaderOK(k)

CheckInv == TypeInv /\ BackedInv /\ ReaderInv

-----------------------------------------------------------------------------

LEMMA LapsesBound == MaxLapses \in Nat
BY FS_CardinalityType, ExpiringFiniteAssumption DEF MaxLapses

LEMMA CheckInitInv == CheckInit => CheckInv
<1> SUFFICES ASSUME CheckInit PROVE CheckInv
  OBVIOUS
<1>1. TypeInv /\ BackedInv
  BY InitTypeInv, InitBackedInv DEF CheckInit
<1>2. IsFiniteSet(expired) /\ Cardinality(expired) = 0
  BY FS_EmptySet DEF CheckInit, Init
<1>3. Reading({}, NoCID) \in ReaderFields
  BY DEF Reading, ReaderFields, Answers
<1>4. QED
  BY <1>1, <1>2, <1>3, LapsesBound
  DEF CheckInit, CheckInv, ReaderInv, ReaderOK, Checking, Reading

\* The engine, the mid-tier and the clock go on while questions are answered.
LEMMA EngineStepReaders ==
    ASSUME TypeInv, ReaderInv, [Next]_vars, UNCHANGED readVars
    PROVE  ReaderInv'
<1>1. ChainGrows
  BY NextTypeInv
<1>2. /\ IsFiniteSet(expired') /\ expired \subseteq expired'
      /\ Cardinality(expired) \in Nat /\ Cardinality(expired') \in Nat
      /\ expired' = expired \/ Cardinality(expired) < Cardinality(expired')
  <2>1. CASE \E c \in Expiring: Expire(c)
    <3>1. PICK c \in Expiring: c \notin expired /\ expired' = expired \union {c}
      BY <2>1 DEF Expire
    <3>2. /\ IsFiniteSet(expired \union {c})
          /\ Cardinality(expired \union {c}) = Cardinality(expired) + 1
      BY <3>1, FS_AddElement DEF ReaderInv
    <3>3. Cardinality(expired) \in Nat
      BY FS_CardinalityType DEF ReaderInv
    <3>4. QED
      BY <3>1, <3>2, <3>3
  <2>2. CASE UNCHANGED expired
    BY <2>2, FS_CardinalityType DEF ReaderInv
  <2>3. CASE \E t \in Calls: Start(t) \/ Progress(t) \/ Fail(t)
    <3>1. PICK t \in Calls: Start(t) \/ Progress(t) \/ Fail(t)
      BY <2>3
    <3>2. CASE Start(t)
      BY <2>2, <3>2 DEF Start, InboundGarbage, InboundReceive, Approve, Reject, Callback, Revoke,
         HandleXpubRequestByDID, SyncStart
    <3>3. CASE Progress(t)
      BY <2>2, <3>3 DEF Progress, Review, StoreSet, SubmitGrant, SubmitRevoke,
         OnTransactionUpdate, OnConsentRevoked, SyncFetch, SyncDone, SyncEvent, SyncHandle,
         SetSyncCursor
    <3>4. CASE Fail(t)
      BY <2>2, <3>4 DEF Fail, ReviewFails, OnTransactionUpdateFails, StoreFails, NetworkFails
    <3>5. QED
      BY <3>1, <3>2, <3>3, <3>4
  <2>4. QED
    BY <2>1, <2>2, <2>3 DEF Next, Crash, MidTierStep, vars
<1>3. ASSUME NEW k \in Readers
      PROVE  ReaderOK(k)'
  <2>1. ReaderOK(k) /\ lapses[k] \in Nat /\ reader[k] \in ReaderFields
    BY LapsesBound DEF ReaderInv
  <2>2. Checking(k) => "confirmed" \in grantTx'[reader[k].first]
    BY <1>1, <2>1 DEF ReaderOK, ReaderFields, ChainGrows, Checking
  <2>3. QED
    BY <1>2, <2>1, <2>2 DEF ReaderOK, Checking, readVars
<1>4. QED
  BY <1>2, <1>3 DEF ReaderInv, readVars

\* FindActive returns copies of records that are active now, and unexpired if it filters.
LEMMA CheckConsentInv ==
    ASSUME TypeInv, BackedInv, ReaderInv, NEW k \in Readers, NEW p \in Parties,
           NEW f \in Feeds, CheckConsent(k, p, f)
    PROVE  ReaderInv'
<1>1. FindActive(p, f) \subseteq Consents
  BY DEF FindActive
<1>2. \A c \in FindActive(p, f): "confirmed" \in grantTx[c] /\ (filters => c \notin expired)
  BY DEF FindActive, BackedInv, StoreIsBacked, Backed
<1>3. PICK r \in ReaderFields:
         /\ reader' = [reader EXCEPT ![k] = r]
         /\ r.first = NoCID => r.records = {}
         /\ r.first # NoCID => /\ r.answer = "none" /\ r.first \in r.records
                               /\ "confirmed" \in grantTx[r.first]
                               /\ filters => r.first \notin expired
  <2>1. CASE FindActive(p, f) = {}
    <3>1. Answered("not-found", NoCID) \in ReaderFields
      BY DEF Answered, ReaderFields, Answers
    <3>2. QED
      BY <2>1, <3>1 DEF CheckConsent, Answered
  <2>2. CASE FindActive(p, f) # {}
    <3>1. PICK c \in FindActive(p, f):
             reader' = [reader EXCEPT ![k] = Reading(FindActive(p, f), c)]
      BY <2>2 DEF CheckConsent
    <3>2. Reading(FindActive(p, f), c) \in ReaderFields
      BY <1>1 DEF Reading, ReaderFields, Answers
    <3>3. QED
      BY <1>1, <1>2, <3>1, <3>2, NoCIDAssumption DEF Reading
  <2>3. QED
    BY <2>1, <2>2
<1>4. UNCHANGED <<filters, lapses, expired, grantTx>>
  BY DEF CheckConsent, vars, mtVars
<1>5. ReaderOK(k)'
  BY <1>3, <1>4 DEF ReaderInv, ReaderOK, Checking
<1>6. ASSUME NEW j \in Readers, j # k
      PROVE  ReaderOK(j)'
  BY <1>3, <1>4, <1>6 DEF ReaderInv, ReaderOK, Checking
<1>7. QED
  BY <1>3, <1>4, <1>5, <1>6 DEF ReaderInv

\* The clock is read, and the question is over.
LEMMA AnswerInv ==
    ASSUME ReaderInv, NEW k \in Readers, Answer(k)
    PROVE  ReaderInv'
<1>1. ReaderOK(k) /\ reader[k] \in ReaderFields /\ lapses[k] \in 0 .. MaxLapses
  BY DEF ReaderInv
<1>2. UNCHANGED <<filters, expired, grantTx>>
  BY DEF Answer, vars, mtVars
<1>3. PICK r \in ReaderFields:
         reader' = [reader EXCEPT ![k] = r] /\ r.first = NoCID /\ r.records = {}
  <2>1. reader[k].first \in Consents
    BY <1>1 DEF Answer, Checking, ReaderFields
  <2>2. /\ Answered("expired", NoCID) \in ReaderFields
        /\ Answered("active", reader[k].first) \in ReaderFields
    BY <2>1 DEF Answered, ReaderFields, Answers
  <2>3. QED
    BY <2>2 DEF Answer, Answered
<1>4. PICK n \in 0 .. MaxLapses:
         /\ lapses' = [lapses EXCEPT ![k] = n]
         /\ filters => n <= Cardinality(expired)
  <2>1. CASE reader[k].first \in expired
    <3>1. filters => lapses[k] < Cardinality(expired)
      BY <1>1, <2>1 DEF ReaderOK, Answer
    <3>2. Cardinality(expired) \in Nat
      BY FS_CardinalityType DEF ReaderInv
    <3>3. CASE lapses[k] = MaxLapses
      BY <1>1, <2>1, <3>1, <3>2, <3>3 DEF Answer
    <3>4. CASE lapses[k] # MaxLapses
      <4>1. lapses[k] + 1 \in 0 .. MaxLapses
        BY <1>1, <3>4, LapsesBound
      <4>2. lapses' = [lapses EXCEPT ![k] = lapses[k] + 1]
        BY <2>1, <3>4 DEF Answer
      <4>3. PICK n \in 0 .. MaxLapses: n = lapses[k] + 1
        BY <4>1
      <4>4. filters => n <= Cardinality(expired)
        BY <1>1, <3>1, <3>2, <4>3, LapsesBound
      <4>5. QED
        BY <4>2, <4>3, <4>4
    <3>5. QED
      BY <3>3, <3>4
  <2>2. CASE reader[k].first \notin expired
    BY <1>1, <2>2 DEF Answer, ReaderOK, ReaderInv
  <2>3. QED
    BY <2>1, <2>2
<1>5. ReaderOK(k)'
  BY <1>2, <1>3, <1>4 DEF ReaderInv, ReaderOK, Checking
<1>6. ASSUME NEW j \in Readers, j # k
      PROVE  ReaderOK(j)'
  BY <1>2, <1>3, <1>4, <1>6 DEF ReaderInv, ReaderOK, Checking
<1>7. QED
  BY <1>2, <1>3, <1>4, <1>5, <1>6 DEF ReaderInv

\* A question is a stutter of the engine.
LEMMA CheckNextIsNext ==
    ASSUME [CheckNext]_checkVars
    PROVE  [Next]_vars
BY DEF CheckNext, CheckConsent, Answer, checkVars

LEMMA CheckNextInv ==
    ASSUME CheckInv, [CheckNext]_checkVars
    PROVE  CheckInv'
<1>1. TypeInv' /\ BackedInv'
  BY CheckNextIsNext, NextTypeInv, NextBackedInv DEF CheckInv
<1>2. ReaderInv'
  <2>1. CASE UNCHANGED readVars
    BY <2>1, CheckNextIsNext, EngineStepReaders DEF CheckInv
  <2>2. QED
    BY <2>1, CheckConsentInv, AnswerInv DEF CheckInv, CheckNext, checkVars
<1>3. QED
  BY <1>1, <1>2 DEF CheckInv

LEMMA CheckInductive == CheckSpec => []CheckInv
BY CheckInitInv, CheckNextInv, PTL DEF CheckSpec

-----------------------------------------------------------------------------

\* An answer is one of those that CheckConsent knows, and judges a record it has found.
THEOREM ReaderTypeCorrect == CheckSpec => []ReaderTypeOK
<1>1. CheckInv => ReaderTypeOK
  BY DEF CheckInv, ReaderInv, ReaderOK, ReaderTypeOK, ReaderFields
<1>2. QED
  BY <1>1, CheckInductive, PTL

\* "expired" is answered once at most for each consent that expires, if the store leaves
\* out what has expired (consent/check.go and the comment of FindActive in interfaces.go).
THEOREM ExpiredOnlyInPassing == CheckSpec => []ExpiredInPassing
<1>1. CheckInv => ExpiredInPassing
  BY DEF CheckInv, ReaderInv, ReaderOK, ExpiredInPassing
<1>2. QED
  BY <1>1, CheckInductive, PTL

\* Who is answered "active" gets the payload of a consent that was confirmed on chain and
\* is unexpired at that moment, whatever the engine does meanwhile (consent/check.go).
THEOREM ActiveHolds == CheckSpec => ActiveAnswersHold
<1>1. ASSUME CheckInv, [CheckNext]_checkVars
      PROVE  [\A k \in Readers:
                Checking(k) /\ reader'[k].answer = "active" =>
                  LET c == reader'[k].payload IN
                  c # NoCID /\ "confirmed" \in grantTx[c] /\ c \notin expired]_checkVars
  <2>1. ASSUME NEW k \in Readers, Checking(k), reader'[k].answer = "active"
        PROVE  LET c == reader'[k].payload IN
               c # NoCID /\ "confirmed" \in grantTx[c] /\ c \notin expired
    <3>1. ReaderOK(k) /\ reader[k].answer = "none" /\ reader \in [Readers -> ReaderFields]
      BY <1>1, <2>1 DEF CheckInv, ReaderInv, ReaderOK
    <3>2. Answer(k)
      <4>1. reader'[k] # reader[k]
        BY <2>1, <3>1
      <4>2. CASE \E j \in Readers, p \in Parties, f \in Feeds: CheckConsent(j, p, f)
        <5>1. PICK j \in Readers, p \in Parties, f \in Feeds: CheckConsent(j, p, f)
          BY <4>2
        <5>2. j # k
          BY <2>1, <5>1 DEF CheckConsent
        <5>3. QED
          BY <3>1, <4>1, <5>1, <5>2 DEF CheckConsent
      <4>3. CASE \E j \in Readers: Answer(j)
        BY <3>1, <4>1, <4>3 DEF Answer
      <4>4. QED
        BY <1>1, <4>1, <4>2, <4>3 DEF CheckNext, checkVars, readVars
    <3>3. /\ reader[k].first \notin expired
          /\ reader' = [reader EXCEPT ![k] = Answered("active", reader[k].first)]
      BY <2>1, <3>1, <3>2 DEF Answer, Answered
    <3>4. QED
      BY <2>1, <3>1, <3>3 DEF Answered, ReaderOK, Checking
  <2>2. QED
    BY <2>1
<1>2. QED
  BY <1>1, CheckInductive, PTL DEF CheckSpec, ActiveAnswersHold

\* A consent whose revocation was announced is found by no later question, as long as no
\* two calls are between the read and the write of one record and nothing is delivered
\* twice (interfaces.go, OnConsentRevoked).
THEOREM DeadNotFound ==
    ASSUME NoRedelivery
    PROVE  CheckSpec /\ []OneWriter => DeadIsNotFound
<1>1. CheckInit => LifeInv
  BY InitLifeInv DEF CheckInit
<1>2. OneWriter /\ CheckInv /\ LifeInv /\ [CheckNext]_checkVars => LifeInv'
  BY CheckNextIsNext, NextLifeInv DEF CheckInv
<1>3. ASSUME CheckInv, LifeInv, [CheckNext]_checkVars
      PROVE  [\A k \in Readers:
                ~Checking(k) => \A c \in reader'[k].records: notices[c] = 0]_checkVars
  <2>1. ASSUME NEW k \in Readers, ~Checking(k), NEW c \in reader'[k].records
        PROVE  notices[c] = 0
    <3>1. reader[k].records = {} /\ reader \in [Readers -> ReaderFields]
      BY <1>3, <2>1 DEF CheckInv, ReaderInv, ReaderOK
    <3>2. PICK p \in Parties, f \in Feeds: CheckConsent(k, p, f)
      <4>1. reader'[k] # reader[k]
        BY <2>1, <3>1
      <4>2. ~Answer(k)
        BY <2>1 DEF Answer
      <4>3. QED
        BY <1>3, <3>1, <4>1, <4>2
        DEF CheckNext, CheckConsent, Answer, checkVars, readVars
    <3>3. c \in FindActive(p, f)
      BY <2>1, <3>1, <3>2 DEF CheckConsent, Reading, Answered
    <3>4. store[c].status = "active" /\ c \in Consents
      BY <3>3 DEF FindActive
    <3>5. QED
      BY <1>3, <3>4 DEF LifeInv, CheckInv, TypeInv, TypeOK
  <2>2. QED
    BY <2>1
<1>4. QED
  BY <1>1, <1>2, <1>3, CheckInductive, PTL DEF CheckSpec, DeadIsNotFound

=============================================================================
