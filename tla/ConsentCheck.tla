---------------------------- MODULE ConsentCheck ----------------------------
(***************************************************************************)
(* CheckConsent (consent/check.go), beside the engine whose records it     *)
(* reads.  It takes no lock either: FindActive answers with copies, and    *)
(* only then is the clock read, so a record may expire, be revoked or be   *)
(* written again between the two.  Of what FindActive found, in whatever   *)
(* order, only the first record counts.                                    *)
(***************************************************************************)
EXTENDS ConsentEngine

CONSTANTS
    Readers,      \* calls of CheckConsent that may be in progress
    Feeds,        \* feed types
    FeedOf        \* the feed type of each consent's payload

ASSUME FeedOfAssumption == FeedOf \in [Consents -> Feeds]
ASSUME ExpiringFiniteAssumption == IsFiniteSet(Expiring)

VARIABLES
    filters,      \* does the store leave out what has expired? It should.
    reader,       \* reader[k]: what k has found, or was answered last
    lapses        \* history: how often k was answered "expired" (saturates)

readVars == <<filters, reader, lapses>>
checkVars == <<vars, readVars>>

Answers == {"none", "active", "expired", "not-found"}

\* records and first are what FindActive returned and the element it returned
\* first; payload is the consent whose payload went with the answer.
Reading(records, first) ==
    [records |-> records, first |-> first, answer |-> "none", payload |-> NoCID]

Answered(answer, payload) ==
    [records |-> {}, first |-> NoCID, answer |-> answer, payload |-> payload]

Checking(k) == reader[k].first # NoCID

\* Bound: one more "expired" than there are consents to expire.
MaxLapses == Cardinality(Expiring) + 1

CheckInit ==
    /\ Init
    /\ filters \in BOOLEAN
    /\ reader = [k \in Readers |-> Reading({}, NoCID)]
    /\ lapses = [k \in Readers |-> 0]

\* Slip: no expiry, whatever the store was asked for.
FindActiveUnfiltered(p, f) ==
    {c \in Consents : /\ PartyOf[c] = p /\ FeedOf[c] = f
                      /\ store[c].status = "active"}

FindActive(p, f) ==
    {c \in Consents : /\ PartyOf[c] = p /\ FeedOf[c] = f
                      /\ store[c].status = "active"
                      /\ filters => c \notin expired}

\* Up to FindActive. An empty answer needs no clock.
CheckConsent(k, p, f) ==
    /\ ~Checking(k)
    /\ LET found == FindActive(p, f) IN
         IF found = {}
         THEN reader' = [reader EXCEPT ![k] = Answered("not-found", NoCID)]
         ELSE \E c \in found: reader' = [reader EXCEPT ![k] = Reading(found, c)]
    /\ UNCHANGED <<vars, filters, lapses>>

\* Slip: the answer is the record's own status, in a store that shares its records.
AnswerStoredStatus(k) ==
    /\ Checking(k)
    /\ LET c == reader[k].first IN
         reader' = [reader EXCEPT ![k] = Answered(store[c].status, c)]
    /\ UNCHANGED <<vars, filters, lapses>>

\* Slip: the store is trusted with the expiry.
AnswerUnchecked(k) ==
    /\ Checking(k)
    /\ reader' = [reader EXCEPT ![k] = Answered("active", reader[k].first)]
    /\ UNCHANGED <<vars, filters, lapses>>

\* The clock is read, and the first record judged.
Answer(k) ==
    /\ Checking(k)
    /\ LET record == reader[k].first IN
         IF record \in expired
         THEN /\ reader' = [reader EXCEPT ![k] = Answered("expired", NoCID)]
              /\ lapses' = [lapses EXCEPT ![k] = IF @ = MaxLapses THEN @ ELSE @ + 1]
         ELSE /\ reader' = [reader EXCEPT ![k] = Answered("active", record)]
              /\ UNCHANGED lapses
    /\ UNCHANGED <<vars, filters>>

CheckNext ==
    \/ Next /\ UNCHANGED readVars
    \/ \E k \in Readers, p \in Parties, f \in Feeds: CheckConsent(k, p, f)
    \/ \E k \in Readers: Answer(k)

CheckSpec == CheckInit /\ [][CheckNext]_checkVars

-----------------------------------------------------------------------------
(* Properties *)

\* An answer is one of those CheckConsent knows, never a status of the store, and a
\* record is judged only if it was found.
ReaderTypeOK ==
    /\ filters \in BOOLEAN
    /\ reader \in [Readers -> [records: SUBSET Consents, first: Consents \union {NoCID},
                               answer: Answers, payload: Consents \union {NoCID}]]
    /\ lapses \in [Readers -> 0 .. MaxLapses]
    /\ \A k \in Readers: Checking(k) => reader[k].first \in reader[k].records

\* Whoever is answered "active" gets the payload of a consent that was confirmed
\* on chain and is unexpired at that moment, even if the store does not filter
\* (check.go: "a non-expired active consent exists; Payload is populated").
ActiveAnswersHold ==
    [][\A k \in Readers:
         Checking(k) /\ reader'[k].answer = "active" =>
             LET c == reader'[k].payload IN
             c # NoCID /\ "confirmed" \in grantTx[c] /\ c \notin expired]_checkVars

\* Once the application was told that a consent is dead (interfaces.go:
\* OnConsentRevoked), no later question finds it.
DeadIsNotFound ==
    [][\A k \in Readers:
         ~Checking(k) => \A c \in reader'[k].records: notices[c] = 0]_checkVars

\* With a store that keeps to interfaces.go ("whose expiry (if set) has not passed"),
\* "expired" is an answer in passing, given at most once for each consent that expires:
\* the expiry must fall between FindActive and the clock. So it cannot hide another, valid
\* consent for longer than one question, and an expired consent is "not-found".
ExpiredInPassing ==
    filters => \A k \in Readers: lapses[k] <= Cardinality(expired)

=============================================================================
