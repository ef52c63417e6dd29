------------------------- MODULE ConsentEngineProofs ------------------------
(***************************************************************************)
(* What holds of the engine however many calls run at once, whatever is    *)
(* lost, repeated or redelivered, and whatever fails.                      *)
(*                                                                         *)
(* The reason is the same throughout.  The mid-tier never takes back what  *)
(* it reported, so a statement of the form "the chain has seen ..." that   *)
(* was true of a record when it was read is still true when a stale copy   *)
(* of the record is written back.  The invariants below therefore speak of *)
(* the copies in the hands of the calls as well as of the store.           *)
(***************************************************************************)
EXTENDS ConsentEngine, TLAPS

Busys == {"review", "set", "submit_grant", "submit_revoke", "update", "revoked"}

\* Where a call is says what it holds: the consent it works on and, in a sync,
\* the events it has fetched.
CallOK(k) ==
    /\ k.pc \in Busys => k.id \in Consents
    /\ k.pc \in {"fetch", "event", "inner", "advance"} => k.op = "sync"
    /\ k.op = "sync" => k.next \in Nat \ {0} /\ k.upto <= Len(chainLog)
    /\ k.op = "sync" /\ k.pc \notin {"fetch", "event"} => k.next <= k.upto
    /\ k.pc = "submit_revoke" => k.sealed \in OwnRevocations

\* The log holds only what the transactions went through.
EventOK(e) ==
    /\ e.status \in GrantStatuses => e.cid = e.id /\ e.status \in grantTx[e.id]
    /\ e.status \in RevokeStatuses => /\ e.cid \in Revocations
                                      /\ revokeTx[e.cid].of = e.id
                                      /\ e.status \in revokeTx[e.cid].reached

MidTierInv ==
    /\ MidTierTypeOK
    /\ \A r \in Revocations: revokeTx[r].reached # {} => revokeTx[r].of \in Consents
    /\ \A i \in 1 .. Len(chainLog): EventOK(chainLog[i])

TypeInv ==
    /\ TypeOK
    /\ MidTierInv
    /\ \A t \in Calls: CallOK(call[t])

\* A record in hand is backed by the chain, and so is a revocation about to be
\* announced.
CallBacked(k) ==
    /\ k.pc \in {"set", "submit_revoke"} => Backed(k.id, k.rec)
    /\ k.pc \in {"set", "update", "revoked"} /\ k.status = "rev_confirmed" => Revoked(k.id)
    /\ k.pc = "revoked" => k.status = "rev_confirmed"

BackedInv ==
    /\ StoreIsBacked
    /\ NoticesAreBacked
    /\ RevocationsBindGrant
    /\ \A t \in Calls: CallBacked(call[t])

\* A grant about to be submitted was decided, stored and signed once; what
\* still awaits review is not signed.
SignedWith(k, records, decisions) ==
    /\ k.pc = "set" => k.rec.status # Unknown
    /\ k.pc = "set" /\ k.rec.status = "pending-review" => k.rec.sigs = 0
    /\ k.pc = "set" /\ k.op \in {"inbound", "approve"} /\ k.rec.status = "pending" =>
          k.id \in decisions /\ k.rec.sigs = 1
    /\ k.pc = "submit_grant" =>
          k.id \in decisions /\ k.rec.sigs = 1 /\ records[k.id] # NoRecord

SignedInv ==
    /\ \A c \in Consents: store[c] # NoRecord => store[c].status # Unknown
    /\ \A c \in Consents: store[c].status = "pending-review" => store[c].sigs = 0
    /\ GrantsAreAccounted
    /\ \A t \in Calls: SignedWith(call[t], store, decided)

-----------------------------------------------------------------------------
(* Type correctness *)

USE PartyOfAssumption, NoCIDAssumption, RevocationsAssumption

LEMMA StatusFacts ==
    /\ GrantStatuses \subseteq TransactionStatuses
    /\ RevokeStatuses \subseteq TransactionStatuses
    /\ GrantStatuses \intersect RevokeStatuses = {}
    /\ Foreign \notin TransactionStatuses
    /\ "ipfs_live" \in GrantStatuses
BY DEF GrantStatuses, RevokeStatuses, TransactionStatuses, Foreign

LEMMA RecordFacts ==
    /\ NoRecord \in Record
    /\ \A s \in ConsentStatuses, n \in Nat: NewRecord(s, n) \in Record
    /\ \A rec \in Record: CounterSign(rec) \in Record
    /\ \A rec \in Record, s \in ConsentStatuses: [rec EXCEPT !.status = s] \in Record
BY DEF NoRecord, Record, NewRecord, CounterSign, ConsentStatuses

LEMMA ApplyStatusType ==
    ASSUME NEW rec \in Record, NEW s, NEW cid,
           s = "ipfs_live" => cid \in Consents,
           s = "rev_ipfs_live" => cid \in Revocations
    PROVE  ApplyStatus(rec, s, cid) \in Record
<1>1. CASE s = "ipfs_live"
  BY <1>1 DEF ApplyStatus, Record
<1>2. CASE s = "rev_ipfs_live"
  BY <1>2 DEF ApplyStatus, Record
<1>3. CASE s = "confirmed"
  BY <1>3 DEF ApplyStatus, Record, ConsentStatuses
<1>4. CASE s = "rev_confirmed"
  BY <1>4 DEF ApplyStatus, Record, ConsentStatuses
<1>5. CASE s \notin {"ipfs_live", "rev_ipfs_live", "confirmed", "rev_confirmed"}
  BY <1>5 DEF ApplyStatus
<1>6. QED
  BY <1>1, <1>2, <1>3, <1>4, <1>5

LEMMA IdleFacts ==
    /\ Idle \in Call
    /\ CallOK(Idle)
BY RecordFacts DEF Idle, Busy, Call, PC, Ops, CallOK, Busys

LEMMA BusyFacts ==
    ASSUME NEW op \in {"inbound", "approve", "reject", "callback", "revoke"},
           NEW pc \in {"review", "set"},
           NEW c \in Consents, NEW rec \in Record
    PROVE  /\ Busy(op, pc, c, rec) \in Call
           /\ CallOK(Busy(op, pc, c, rec))
BY RecordFacts DEF Busy, Call, PC, Ops, CallOK, Busys

LEMMA PassingFacts ==
    ASSUME NEW pc \in {"fetch", "event", "inner", "advance"},
           NEW n \in Nat \ {0}, NEW upto \in Nat, upto <= Len(chainLog),
           pc \in {"inner", "advance"} => n <= upto
    PROVE  /\ Passing(pc, n, upto) \in Call
           /\ CallOK(Passing(pc, n, upto))
BY RecordFacts DEF Passing, Call, PC, Ops, CallOK, Busys

\* A report about c that the switch knows is fit to be applied.
LEMMA HandlingFacts ==
    ASSUME TypeInv, NEW t \in Calls, NEW op \in {"callback", "sync"}, NEW c \in Consents,
           NEW s \in TransactionStatuses, NEW cid,
           s = "ipfs_live" => cid \in Consents,
           s = "rev_ipfs_live" => cid \in Revocations,
           op = "sync" => CallOK(Passing("inner", call[t].next, call[t].upto))
    PROVE  /\ Handling(call[t], op, c, s, cid) \in Call
           /\ CallOK(Handling(call[t], op, c, s, cid))
<1> DEFINE k == Handling(call[t], op, c, s, cid)
<1>1. ApplyStatus(store[c], s, cid) \in Record
  BY ApplyStatusType DEF TypeInv, TypeOK
<1>2. k \in Call
  BY <1>1 DEF TypeInv, TypeOK, Handling, Call, PC, Ops
<1>3. CallOK(k)
  BY DEF Handling, CallOK, Busys, Passing
<1>4. QED
  BY <1>2, <1>3

LEMMA InitTypeInv == Init => TypeInv
<1> SUFFICES ASSUME Init PROVE TypeInv
  OBVIOUS
<1> USE InitialLogAssumption DEF Init, MidTierInit
<1>1. MidTierTypeOK
  BY DEF MidTierTypeOK, NoRevocation, Revocation, GrantStatuses
<1>2. TypeOK
  BY <1>1, RecordFacts, IdleFacts DEF TypeOK
<1>3. ASSUME NEW i \in 1 .. Len(chainLog)
      PROVE  EventOK(chainLog[i])
  <2> DEFINE e == InitialLog[i]
  <2>1. e \in Event /\ i \in 1 .. Len(InitialLog)
    OBVIOUS
  <2>2. e.id \in Consents /\ e.id \in Preexisting
    BY <2>1 DEF Event, Preexisting
  <2>3. /\ e.status \in {"ipfs_live", "submitted", "confirmed"}
        /\ e.cid = e.id
    OBVIOUS
  <2>4. grantTx[e.id] = {"pending", "ipfs_live", "submitted", "confirmed"}
    BY <2>2
  <2>5. QED
    BY <2>1, <2>3, <2>4 DEF EventOK, RevokeStatuses
<1>4. QED
  BY <1>1, <1>2, <1>3, IdleFacts DEF TypeInv, MidTierInv, NoRevocation

\* The mid-tier takes nothing back.
ChainGrows ==
    /\ \A c \in Consents: grantTx[c] \subseteq grantTx'[c]
    /\ \A r \in Revocations:
          revokeTx[r].of \in Consents =>
             /\ revokeTx'[r].of = revokeTx[r].of
             /\ revokeTx[r].reached \subseteq revokeTx'[r].reached
    /\ Len(chainLog) <= Len(chainLog')
    /\ \A i \in 1 .. Len(chainLog): chainLog'[i] = chainLog[i]

LEMMA MidTierUnchanged ==
    ASSUME MidTierInv, UNCHANGED mtVars
    PROVE  MidTierInv' /\ ChainGrows
BY DEF MidTierInv, MidTierTypeOK, EventOK, ChainGrows, mtVars

LEMMA ReceiveGrantInv ==
    ASSUME MidTierInv, NEW c, ReceiveGrant(c)
    PROVE  MidTierInv' /\ ChainGrows
<1> USE DEF MidTierInv, MidTierTypeOK, ReceiveGrant
<1>1. "pending" \in GrantStatuses
  BY DEF GrantStatuses
<1>2. grantTx' \in [Consents -> SUBSET GrantStatuses]
  BY <1>1
<1>3. ChainGrows
  BY DEF ChainGrows, Revocation
<1>4. \A i \in 1 .. Len(chainLog'): EventOK(chainLog[i])'
  BY <1>3 DEF EventOK, ChainGrows, Event
<1>5. QED
  BY <1>2, <1>3, <1>4

LEMMA ReceiveRevokeInv ==
    ASSUME MidTierInv, NEW r \in Revocations, NEW c \in Consents,
           NEW ref \in Consents \union {NoCID}, NEW inner \in Consents \union {NoCID},
           ReceiveRevoke(r, c, ref, inner)
    PROVE  MidTierInv' /\ ChainGrows
<1> USE DEF MidTierInv, MidTierTypeOK, ReceiveRevoke
<1>1. revokeTx' \in [Revocations -> Revocation]
  BY DEF Revocation, RevokeStatuses
<1>2. ChainGrows
  BY DEF ChainGrows, NoRevocation
<1>3. \A i \in 1 .. Len(chainLog'): EventOK(chainLog[i])'
  BY <1>2 DEF EventOK, ChainGrows, Event
<1>4. \A x \in Revocations: revokeTx'[x].reached # {} => revokeTx'[x].of \in Consents
  OBVIOUS
<1>5. QED
  BY <1>1, <1>2, <1>3, <1>4

LEMMA LogFacts ==
    ASSUME MidTierInv, NEW c \in Consents, NEW s \in TransactionStatuses \union {Foreign},
           NEW cid \in Consents \union Revocations, Log(c, s, cid)
    PROVE  /\ chainLog' \in Seq(Event)
           /\ Len(chainLog) <= Len(chainLog')
           /\ \A i \in 1 .. Len(chainLog): chainLog'[i] = chainLog[i]
           /\ \A i \in 1 .. Len(chainLog'):
                 \/ i \in 1 .. Len(chainLog)
                 \/ chainLog'[i] = [id |-> c, status |-> s, cid |-> cid]
<1>1. [id |-> c, status |-> s, cid |-> cid] \in Event
  BY DEF Event
<1>2. QED
  BY <1>1 DEF Log, MidTierInv, MidTierTypeOK

LEMMA GrantAdvancesInv ==
    ASSUME MidTierInv, NEW c \in Consents, GrantAdvances(c)
    PROVE  MidTierInv' /\ ChainGrows
<1> USE DEF MidTierInv, MidTierTypeOK
<1>1. PICK s \in GrantFollows(grantTx[c]) \ grantTx[c]:
         /\ grantTx' = [grantTx EXCEPT ![c] = @ \union {s}]
         /\ Log(c, s, c)
         /\ UNCHANGED revokeTx
  BY DEF GrantAdvances
<1>2. s \in GrantStatuses
  BY GrantEndsAssumption DEF GrantFollows, GrantStatuses
<1>3. grantTx' \in [Consents -> SUBSET GrantStatuses]
  BY <1>1, <1>2
<1>4. /\ chainLog' \in Seq(Event)
      /\ Len(chainLog) <= Len(chainLog')
      /\ \A i \in 1 .. Len(chainLog): chainLog'[i] = chainLog[i]
      /\ \A i \in 1 .. Len(chainLog'):
            \/ i \in 1 .. Len(chainLog)
            \/ chainLog'[i] = [id |-> c, status |-> s, cid |-> c]
  BY <1>1, <1>2, StatusFacts, LogFacts
<1>5. ChainGrows
  BY <1>1, <1>4 DEF ChainGrows
<1>6. ASSUME NEW i \in 1 .. Len(chainLog')
      PROVE  EventOK(chainLog[i])'
  <2>1. CASE i \in 1 .. Len(chainLog)
    BY <1>1, <1>4, <1>5, <2>1 DEF EventOK, ChainGrows, Event
  <2>2. CASE chainLog'[i] = [id |-> c, status |-> s, cid |-> c]
    BY <1>1, <1>2, <2>2, StatusFacts DEF EventOK
  <2>3. QED
    BY <1>4, <2>1, <2>2
<1>7. QED
  BY <1>1, <1>3, <1>4, <1>5, <1>6

LEMMA RevokeAdvancesInv ==
    ASSUME MidTierInv, NEW r \in Revocations, RevokeAdvances(r)
    PROVE  MidTierInv' /\ ChainGrows
<1> USE DEF MidTierInv, MidTierTypeOK
<1> DEFINE c == revokeTx[r].of
<1>1. PICK s \in RevokeFollows(revokeTx[r].reached) \ revokeTx[r].reached:
         /\ revokeTx' = [revokeTx EXCEPT ![r].reached = @ \union {s}]
         /\ Log(c, s, r)
         /\ UNCHANGED grantTx
  BY DEF RevokeAdvances
<1>2. s \in RevokeStatuses /\ c \in Consents
  BY <1>1 DEF RevokeFollows, RevokeStatuses
<1>3. revokeTx' \in [Revocations -> Revocation]
  BY <1>1, <1>2 DEF Revocation
<1>4. /\ chainLog' \in Seq(Event)
      /\ Len(chainLog) <= Len(chainLog')
      /\ \A i \in 1 .. Len(chainLog): chainLog'[i] = chainLog[i]
      /\ \A i \in 1 .. Len(chainLog'):
            \/ i \in 1 .. Len(chainLog)
            \/ chainLog'[i] = [id |-> c, status |-> s, cid |-> r]
  BY <1>1, <1>2, StatusFacts, LogFacts
<1>5. ChainGrows
  BY <1>1, <1>4 DEF ChainGrows, Revocation
<1>6. ASSUME NEW i \in 1 .. Len(chainLog')
      PROVE  EventOK(chainLog[i])'
  <2>1. CASE i \in 1 .. Len(chainLog)
    BY <1>1, <1>4, <1>5, <2>1 DEF EventOK, ChainGrows, Event
  <2>2. CASE chainLog'[i] = [id |-> c, status |-> s, cid |-> r]
    BY <1>1, <1>2, <2>2, StatusFacts DEF EventOK, Revocation
  <2>3. QED
    BY <1>4, <2>1, <2>2
<1>7. \A x \in Revocations: revokeTx'[x].reached # {} => revokeTx'[x].of \in Consents
  BY <1>1, <1>2 DEF Revocation
<1>8. QED
  BY <1>1, <1>3, <1>4, <1>5, <1>6, <1>7

LEMMA LogsForeignInv ==
    ASSUME MidTierInv, NEW c \in Consents, LogsForeign(c)
    PROVE  MidTierInv' /\ ChainGrows
<1> USE DEF MidTierInv, MidTierTypeOK, LogsForeign
<1>1. /\ chainLog' \in Seq(Event)
      /\ Len(chainLog) <= Len(chainLog')
      /\ \A i \in 1 .. Len(chainLog): chainLog'[i] = chainLog[i]
      /\ \A i \in 1 .. Len(chainLog'):
            \/ i \in 1 .. Len(chainLog)
            \/ chainLog'[i] = [id |-> c, status |-> Foreign, cid |-> c]
  BY LogFacts
<1>2. ChainGrows
  BY <1>1 DEF ChainGrows
<1>3. ASSUME NEW i \in 1 .. Len(chainLog')
      PROVE  EventOK(chainLog[i])'
  <2>1. CASE i \in 1 .. Len(chainLog)
    BY <1>1, <2>1 DEF EventOK
  <2>2. CASE chainLog'[i] = [id |-> c, status |-> Foreign, cid |-> c]
    BY <2>2, StatusFacts DEF EventOK
  <2>3. QED
    BY <1>1, <2>1, <2>2
<1>4. QED
  BY <1>1, <1>2, <1>3

LEMMA MidTierNextInv ==
    ASSUME MidTierInv, MidTierNext
    PROVE  MidTierInv' /\ ChainGrows
<1>1. ASSUME NEW r \in Revocations, NEW c \in Consents, OtherPartyRevokes(r, c)
      PROVE  MidTierInv' /\ ChainGrows
  BY <1>1, ReceiveRevokeInv DEF OtherPartyRevokes
<1>2. QED
  BY <1>1, GrantAdvancesInv, RevokeAdvancesInv, LogsForeignInv DEF MidTierNext

LEMMA CallsUnchanged ==
    ASSUME TypeInv, ChainGrows, UNCHANGED call
    PROVE  \A u \in Calls: CallOK(call[u])'
<1>1. Len(chainLog) \in Nat
  BY DEF TypeInv, TypeOK, MidTierTypeOK
<1>2. ASSUME NEW u \in Calls
      PROVE  CallOK(call[u])'
  <2>1. CallOK(call[u]) /\ call[u] \in Call
    BY DEF TypeInv, TypeOK
  <2>2. call[u].op = "sync" => /\ call[u].upto <= Len(chainLog')
                               /\ call[u].next \in 1 .. call[u].upto =>
                                     chainLog'[call[u].next] = chainLog[call[u].next]
    BY <1>1, <2>1 DEF CallOK, ChainGrows, Call
  <2>3. QED
    BY <2>1, <2>2 DEF CallOK, Call
<1>3. QED
  BY <1>2

\* A step of one call, from which the log does not change.
LEMMA CallStep ==
    ASSUME TypeInv, NEW t \in Calls, NEW k \in Call, CallOK(k),
           call' = [call EXCEPT ![t] = k],
           UNCHANGED chainLog
    PROVE  /\ call' \in [Calls -> Call]
           /\ \A u \in Calls: CallOK(call[u])'
<1> USE DEF TypeInv, TypeOK
<1>1. call' \in [Calls -> Call]
  OBVIOUS
<1>2. \A u \in Calls: CallOK(call[u])'
  BY DEF CallOK
<1>3. QED
  BY <1>1, <1>2

LEMMA CallbackFacts ==
    ASSUME MidTierInv, NEW c \in Consents, NEW m \in Callbacks(c)
    PROVE  /\ m.status \in GrantStatuses => m.cid = c /\ m.status \in grantTx[c]
           /\ m.status \in RevokeStatuses => /\ m.cid \in Revocations
                                             /\ revokeTx[m.cid].of = c
                                             /\ m.status \in revokeTx[m.cid].reached
           /\ m.status = "ipfs_live" => m.cid \in Consents
           /\ m.status = "rev_ipfs_live" => m.cid \in Revocations
<1> USE DEF MidTierInv, MidTierTypeOK
<1>1. CASE m \in {[status |-> s, cid |-> c] : s \in grantTx[c] \intersect Reported}
  <2>1. m.cid = c /\ m.status \in grantTx[c]
    BY <1>1
  <2>2. m.status \in GrantStatuses
    BY <2>1
  <2>3. QED
    BY <2>1, <2>2, StatusFacts DEF GrantStatuses
<1>2. ASSUME NEW r \in {x \in Revocations : revokeTx[x].of = c},
             m \in {[status |-> s, cid |-> r] : s \in revokeTx[r].reached \intersect Reported}
      PROVE  /\ m.cid \in Revocations
             /\ revokeTx[m.cid].of = c
             /\ m.status \in revokeTx[m.cid].reached
             /\ m.status \in RevokeStatuses
  BY <1>2 DEF Revocation
<1>3. QED
  BY <1>1, <1>2, StatusFacts DEF Callbacks

\* A step of one call that leaves the mid-tier alone.
LEMMA LocalStep ==
    ASSUME TypeInv, NEW t \in Calls, NEW k \in Call, CallOK(k),
           call' = [call EXCEPT ![t] = k],
           UNCHANGED <<mtVars, expired>>,
           store' \in [Consents -> Record], cursor' \in Nat,
           indexed' \subseteq Parties, xpubs' \subseteq Parties,
           decided' \subseteq Consents, notices' \in [Consents -> 0 .. 2]
    PROVE  TypeInv' /\ ChainGrows
<1>1. MidTierInv' /\ ChainGrows
  BY MidTierUnchanged DEF TypeInv
<1>2. UNCHANGED chainLog
  BY DEF mtVars
<1>3. call' \in [Calls -> Call] /\ \A u \in Calls: CallOK(call[u])'
  BY <1>2, CallStep
<1>4. QED
  BY <1>1, <1>3 DEF TypeInv, TypeOK, MidTierInv

LEMMA StartTypeInv ==
    ASSUME TypeInv, NEW t \in Calls, Start(t)
    PROVE  TypeInv' /\ ChainGrows
<1> USE DEF TypeInv, TypeOK, GetOrAssignIndex, Become, storeVars, dirVars, history
<1>1. ASSUME NEW c \in Consents, InboundGarbage(t, c)
      PROVE  TypeInv' /\ ChainGrows
  <2>1. call' = [call EXCEPT ![t] = call[t]] /\ call[t] \in Call /\ CallOK(call[t])
    BY <1>1 DEF InboundGarbage
  <2>2. indexed' \subseteq Parties
    BY <1>1 DEF InboundGarbage
  <2>3. QED
    BY <1>1, <2>1, <2>2, LocalStep DEF InboundGarbage
<1>2. ASSUME NEW c \in Consents, InboundReceive(t, c)
      PROVE  TypeInv' /\ ChainGrows
  <2>1. PICK k \in {call[t], Busy("inbound", "review", c, NoRecord)}:
           call' = [call EXCEPT ![t] = k]
    BY <1>2 DEF InboundReceive
  <2>2. k \in Call /\ CallOK(k)
    BY <2>1, BusyFacts, RecordFacts
  <2>3. indexed' \subseteq Parties /\ xpubs' \subseteq Parties
    BY <1>2 DEF InboundReceive
  <2>4. QED
    BY <1>2, <2>1, <2>2, <2>3, LocalStep DEF InboundReceive
<1>3. ASSUME NEW c \in Consents, Approve(t, c)
      PROVE  TypeInv' /\ ChainGrows
  <2> DEFINE rec == [CounterSign(store[c]) EXCEPT !.status = "pending"]
  <2>1. rec \in Record
    BY RecordFacts DEF ConsentStatuses
  <2>2. Busy("approve", "set", c, rec) \in Call /\ CallOK(Busy("approve", "set", c, rec))
    BY <2>1, BusyFacts
  <2>3. QED
    BY <1>3, <2>2, LocalStep DEF Approve
<1>4. ASSUME NEW c \in Consents, Reject(t, c)
      PROVE  TypeInv' /\ ChainGrows
  <2> DEFINE rec == [store[c] EXCEPT !.status = "rejected"]
  <2>1. rec \in Record
    BY RecordFacts DEF ConsentStatuses
  <2>2. Busy("reject", "set", c, rec) \in Call /\ CallOK(Busy("reject", "set", c, rec))
    BY <2>1, BusyFacts
  <2>3. QED
    BY <1>4, <2>2, LocalStep DEF Reject
<1>5. ASSUME NEW c \in Consents, Callback(t, c)
      PROVE  TypeInv' /\ ChainGrows
  <2>1. PICK m \in Callbacks(c):
           /\ Handles(store[c], m.status)
           /\ Become(t, Handling(call[t], "callback", c, m.status, m.cid))
    BY <1>5 DEF Callback
  <2> DEFINE k == Handling(call[t], "callback", c, m.status, m.cid)
  <2>2. /\ m.status = "ipfs_live" => m.cid \in Consents
        /\ m.status = "rev_ipfs_live" => m.cid \in Revocations
    BY CallbackFacts
  <2>3. m.status \in TransactionStatuses
    BY <2>1 DEF Handles
  <2>4. k \in Call /\ CallOK(k)
    BY <2>2, <2>3, HandlingFacts
  <2>5. QED
    BY <1>5, <2>1, <2>4, LocalStep DEF Callback
<1>6. ASSUME NEW c \in Consents, Revoke(t, c)
      PROVE  TypeInv' /\ ChainGrows
  <2>1. PICK r \in FreshRevocations:
           Become(t, [Busy("revoke", "submit_revoke", c, store[c]) EXCEPT !.sealed = r])
    BY <1>6 DEF Revoke
  <2> DEFINE k == [Busy("revoke", "submit_revoke", c, store[c]) EXCEPT !.sealed = r]
  <2>2. r \in OwnRevocations
    BY DEF FreshRevocations
  <2>3. k \in Call
    BY <2>2, IdleFacts DEF Call, Busy, Idle, PC, Ops
  <2>4. CallOK(k)
    BY <2>2 DEF CallOK, Busy, Idle, Busys
  <2>5. QED
    BY <1>6, <2>1, <2>3, <2>4, LocalStep DEF Revoke
<1>7. ASSUME SyncStart(t)
      PROVE  TypeInv' /\ ChainGrows
  <2> DEFINE k == Passing("fetch", cursor + 1, 0)
  <2>1. Len(chainLog) \in Nat
    BY DEF MidTierTypeOK
  <2>2. k \in Call /\ CallOK(k)
    BY <2>1, PassingFacts
  <2>3. QED
    BY <1>7, <2>2, LocalStep DEF SyncStart
<1>8. ASSUME NEW p \in Parties, HandleXpubRequestByDID(t, p)
      PROVE  TypeInv' /\ ChainGrows
  <2>1. call' = [call EXCEPT ![t] = call[t]] /\ call[t] \in Call /\ CallOK(call[t])
    BY <1>8 DEF HandleXpubRequestByDID
  <2>2. indexed' \subseteq Parties
    BY <1>8 DEF HandleXpubRequestByDID
  <2>3. QED
    BY <1>8, <2>1, <2>2, LocalStep DEF HandleXpubRequestByDID
<1>9. QED
  BY <1>1, <1>2, <1>3, <1>4, <1>5, <1>6, <1>7, <1>8 DEF Start

\* Return, wherever a call is: it holds nothing.
LEMMA ReturnTypeInv ==
    ASSUME TypeInv, NEW t \in Calls, Return(t),
           UNCHANGED <<mtVars, storeVars, dirVars, expired, history>>
    PROVE  TypeInv' /\ ChainGrows
<1>1. call' = [call EXCEPT ![t] = Idle]
  BY DEF Return, Become
<1>2. QED
  BY <1>1, IdleFacts, LocalStep DEF TypeInv, TypeOK, storeVars, dirVars, history

\* What a sync in progress knows of the log.
LEMMA SyncFacts ==
    ASSUME TypeInv, NEW t \in Calls, call[t].op = "sync"
    PROVE  /\ call[t].next \in Nat \ {0} /\ call[t].upto \in Nat
           /\ call[t].upto <= Len(chainLog) /\ Len(chainLog) \in Nat
           /\ call[t].pc \notin {"fetch", "event"} => call[t].next <= call[t].upto
           /\ call[t].next <= call[t].upto => chainLog[call[t].next] \in Event
BY DEF TypeInv, TypeOK, MidTierTypeOK, Call, CallOK

LEMMA AfterHandlerFacts ==
    ASSUME TypeInv, NEW t \in Calls, AfterHandler(t), call[t].pc \in {"update", "revoked"}
    PROVE  \E k \in {Idle, Passing("advance", call[t].next, call[t].upto)}:
              k \in Call /\ CallOK(k) /\ call' = [call EXCEPT ![t] = k]
<1>1. CASE call[t].op = "sync"
  BY <1>1, SyncFacts, PassingFacts DEF AfterHandler, Become
<1>2. CASE call[t].op # "sync"
  BY <1>2, IdleFacts DEF AfterHandler, Return, Become
<1>3. QED
  BY <1>1, <1>2

LEMMA ProgressTypeInv ==
    ASSUME TypeInv, NEW t \in Calls, Progress(t)
    PROVE  TypeInv' /\ ChainGrows
<1> USE DEF TypeInv, TypeOK, Become, At, storeVars, dirVars, history
<1>0. /\ call[t] \in Call /\ CallOK(call[t])
      /\ call[t].pc \in Busys => call[t].id \in Consents
  BY DEF CallOK
<1>1. ASSUME Review(t)
      PROVE  TypeInv' /\ ChainGrows
  <2>0. call[t].id \in Consents
    BY <1>0, <1>1 DEF Review, Busys
  <2>1. PICK rec \in {CounterSign(NewRecord("pending", 0)), NewRecord("rejected", 0),
                      NewRecord("pending-review", 0)}:
           call' = [call EXCEPT ![t] = Busy("inbound", "set", call[t].id, rec)]
    BY <1>1 DEF Review
  <2>2. rec \in Record
    BY RecordFacts DEF ConsentStatuses
  <2>3. decided' \subseteq Consents /\ notices' \in [Consents -> 0 .. 2]
    BY <1>1, <2>0 DEF Review
  <2>4. UNCHANGED <<mtVars, storeVars, dirVars, expired>>
    BY <1>1 DEF Review
  <2>5. QED
    BY <2>0, <2>1, <2>2, <2>3, <2>4, BusyFacts, LocalStep
<1>2. ASSUME StoreSet(t)
      PROVE  TypeInv' /\ ChainGrows
  <2>1. call[t].id \in Consents /\ call[t].rec \in Record
    BY <1>0, <1>2 DEF StoreSet, Busys, Call
  <2>2. store' \in [Consents -> Record]
    BY <1>2, <2>1 DEF StoreSet
  <2>3. AfterSet(call[t]) \in Call /\ CallOK(AfterSet(call[t]))
    <3>1. PICK pc \in {"update", "submit_grant"}:
             AfterSet(call[t]) \in {Idle, [call[t] EXCEPT !.pc = pc]}
      BY DEF AfterSet
    <3>2. [call[t] EXCEPT !.pc = pc] \in Call
      BY <1>0 DEF Call, PC
    <3>3. CallOK([call[t] EXCEPT !.pc = pc])
      BY <1>0, <1>2, <2>1 DEF StoreSet, CallOK, Call
    <3>4. QED
      BY <3>1, <3>2, <3>3, IdleFacts
  <2>4. QED
    BY <1>2, <2>2, <2>3, LocalStep DEF StoreSet
<1>3. ASSUME OnTransactionUpdate(t) \/ OnConsentRevoked(t)
      PROVE  TypeInv' /\ ChainGrows
  <2>1. call[t].pc \in {"update", "revoked"} /\ call[t].id \in Consents
    BY <1>0, <1>3 DEF OnTransactionUpdate, OnConsentRevoked, Busys
  <2>2. PICK k \in Call: CallOK(k) /\ call' = [call EXCEPT ![t] = k]
    <3>1. CASE AfterHandler(t)
      BY <2>1, <3>1, AfterHandlerFacts
    <3>2. CASE Return(t)
      BY <3>2, IdleFacts DEF Return
    <3>3. CASE Goto(t, "revoked")
      <4>1. [call[t] EXCEPT !.pc = "revoked"] \in Call
        BY <1>0 DEF Call, PC
      <4>2. CallOK([call[t] EXCEPT !.pc = "revoked"])
        BY <1>0, <2>1 DEF CallOK, Call
      <4>3. QED
        BY <3>3, <4>1, <4>2 DEF Goto
    <3>4. QED
      BY <1>3, <3>1, <3>2, <3>3 DEF OnTransactionUpdate, OnConsentRevoked
  <2>3. notices' \in [Consents -> 0 .. 2]
    BY <1>3 DEF OnTransactionUpdate, OnConsentRevoked
  <2>4. /\ UNCHANGED <<mtVars, expired>>
        /\ store' \in [Consents -> Record] /\ cursor' \in Nat
        /\ indexed' \subseteq Parties /\ xpubs' \subseteq Parties
        /\ decided' \subseteq Consents
    BY <1>3 DEF OnTransactionUpdate, OnConsentRevoked
  <2>5. QED
    BY <2>2, <2>3, <2>4, LocalStep
<1>4. ASSUME SubmitGrant(t)
      PROVE  TypeInv' /\ ChainGrows
  <2>1. MidTierInv' /\ ChainGrows
    BY <1>4, ReceiveGrantInv DEF SubmitGrant
  <2>2. call' \in [Calls -> Call] /\ \A u \in Calls: CallOK(call[u])'
    BY <1>4, IdleFacts, CallStep DEF SubmitGrant, ReceiveGrant, Return
  <2>3. QED
    BY <1>4, <2>1, <2>2 DEF SubmitGrant, MidTierInv
<1>5. ASSUME SubmitRevoke(t)
      PROVE  TypeInv' /\ ChainGrows
  <2>1. /\ call[t].sealed \in Revocations /\ call[t].id \in Consents
        /\ call[t].rec.cid \in Consents \union {NoCID}
    BY <1>0, <1>5 DEF SubmitRevoke, CallOK, Busys, Call, Record
  <2>2. GrantRef(call[t].id, call[t].rec) \in Consents \union {NoCID}
    BY <2>1 DEF GrantRef
  <2>3. MidTierInv' /\ ChainGrows
    BY <1>5, <2>1, <2>2, ReceiveRevokeInv DEF SubmitRevoke
  <2>4. call' \in [Calls -> Call] /\ \A u \in Calls: CallOK(call[u])'
    BY <1>5, IdleFacts, CallStep DEF SubmitRevoke, ReceiveRevoke, Return
  <2>5. QED
    BY <1>5, <2>3, <2>4 DEF SubmitRevoke, MidTierInv
<1>6. ASSUME SyncFetch(t)
      PROVE  TypeInv' /\ ChainGrows
  <2>1. call[t].op = "sync"
    BY <1>0, <1>6 DEF SyncFetch, CallOK
  <2> DEFINE k == Passing("event", call[t].next, LastEvent)
  <2>2. k \in Call /\ CallOK(k)
    BY <2>1, SyncFacts, PassingFacts DEF LastEvent
  <2>3. QED
    BY <1>6, <2>2, LocalStep DEF SyncFetch
<1>7. ASSUME SyncDone(t)
      PROVE  TypeInv' /\ ChainGrows
  BY <1>7, ReturnTypeInv DEF SyncDone
<1>8. ASSUME SyncEvent(t)
      PROVE  TypeInv' /\ ChainGrows
  <2>1. call[t].op = "sync" /\ call[t].next <= call[t].upto
    BY <1>0, <1>8 DEF SyncEvent, CallOK
  <2>2. CASE Return(t)
    BY <1>8, <2>2, ReturnTypeInv DEF SyncEvent
  <2>3. ASSUME NEW pc \in {"advance", "inner"},
               call' = [call EXCEPT ![t] = [call[t] EXCEPT !.pc = pc]]
        PROVE  TypeInv' /\ ChainGrows
    <3>1. [call[t] EXCEPT !.pc = pc] \in Call
      BY <1>0 DEF Call, PC
    <3>2. CallOK([call[t] EXCEPT !.pc = pc])
      BY <1>0, <2>1 DEF CallOK, Call, Busys
    <3>3. QED
      BY <1>8, <2>3, <3>1, <3>2, LocalStep DEF SyncEvent
  <2>4. QED
    BY <1>8, <2>2, <2>3 DEF SyncEvent, Goto
<1>9. ASSUME SyncHandle(t)
      PROVE  TypeInv' /\ ChainGrows
  <2> DEFINE e == chainLog[call[t].next]
             k == Handling(call[t], "sync", e.id, e.status, e.cid)
  <2>1. call[t].op = "sync" /\ call[t].next <= call[t].upto
    BY <1>0, <1>9 DEF SyncHandle, CallOK
  <2>2. e \in Event /\ call[t].next \in 1 .. Len(chainLog)
    BY <2>1, SyncFacts
  <2>3. CASE Handles(store[e.id], e.status)
    <3>1. EventOK(e) /\ e.status \in TransactionStatuses /\ e.id \in Consents
      BY <2>2, <2>3 DEF MidTierInv, Handles, Event
    <3>2. /\ e.status = "ipfs_live" => e.cid \in Consents
          /\ e.status = "rev_ipfs_live" => e.cid \in Revocations
      BY <3>1 DEF EventOK, GrantStatuses, RevokeStatuses
    <3>3. CallOK(Passing("inner", call[t].next, call[t].upto))
      BY <2>1, SyncFacts, PassingFacts
    <3>4. k \in Call /\ CallOK(k)
      BY <3>1, <3>2, <3>3, HandlingFacts
    <3>5. QED
      BY <1>9, <2>3, <3>4, LocalStep DEF SyncHandle
  <2>4. CASE ~Handles(store[e.id], e.status)
    BY <1>9, <2>4, ReturnTypeInv DEF SyncHandle
  <2>5. QED
    BY <2>3, <2>4
<1>10. ASSUME SetSyncCursor(t)
       PROVE  TypeInv' /\ ChainGrows
  <2>1. call[t].op = "sync"
    BY <1>0, <1>10 DEF SetSyncCursor, CallOK
  <2>2. cursor' \in Nat /\ call[t].next + 1 \in Nat \ {0}
    BY <1>10, <2>1, SyncFacts DEF SetSyncCursor
  <2>3. QED
    BY <1>10, <2>1, <2>2, SyncFacts, PassingFacts, LocalStep DEF SetSyncCursor
<1>11. QED
  BY <1>1, <1>2, <1>3, <1>4, <1>5, <1>6, <1>7, <1>8, <1>9, <1>10 DEF Progress

LEMMA FailTypeInv ==
    ASSUME TypeInv, NEW t \in Calls, Fail(t)
    PROVE  TypeInv' /\ ChainGrows
BY ReturnTypeInv DEF Fail, ReviewFails, OnTransactionUpdateFails, StoreFails, NetworkFails

LEMMA NextTypeInv ==
    ASSUME TypeInv, [Next]_vars
    PROVE  TypeInv' /\ ChainGrows
<1>1. ASSUME Crash
      PROVE  TypeInv' /\ ChainGrows
  <2>1. MidTierInv' /\ ChainGrows
    BY <1>1, MidTierUnchanged DEF Crash, TypeInv
  <2>2. call' \in [Calls -> Call] /\ \A u \in Calls: CallOK(call[u])'
    <3>1. CallOK(Idle)'
      BY IdleFacts DEF CallOK, Idle, Busy, Busys
    <3>2. QED
      BY <1>1, <3>1, IdleFacts DEF Crash
  <2>3. QED
    BY <1>1, <2>1, <2>2
    DEF Crash, TypeInv, TypeOK, MidTierInv, storeVars, dirVars, history
<1>2. ASSUME NEW c \in Expiring, Expire(c), c \in Consents
      PROVE  TypeInv' /\ ChainGrows
  <2>1. MidTierInv' /\ ChainGrows
    BY <1>2, MidTierUnchanged DEF Expire, TypeInv
  <2>2. \A u \in Calls: CallOK(call[u])'
    BY <1>2, <2>1, CallsUnchanged DEF Expire
  <2>3. QED
    BY <1>2, <2>1, <2>2
    DEF Expire, TypeInv, TypeOK, MidTierInv, storeVars, dirVars, history
<1>3. ASSUME MidTierStep
      PROVE  TypeInv' /\ ChainGrows
  <2>1. MidTierInv' /\ ChainGrows
    BY <1>3, MidTierNextInv DEF MidTierStep, TypeInv
  <2>2. \A u \in Calls: CallOK(call[u])'
    BY <1>3, <2>1, CallsUnchanged DEF MidTierStep
  <2>3. QED
    BY <1>3, <2>1, <2>2
    DEF MidTierStep, TypeInv, TypeOK, MidTierInv, storeVars, dirVars, history
<1>4. ASSUME UNCHANGED vars
      PROVE  TypeInv' /\ ChainGrows
  <2>1. MidTierInv' /\ ChainGrows
    BY <1>4, MidTierUnchanged DEF vars, TypeInv
  <2>2. \A u \in Calls: CallOK(call[u])'
    BY <1>4, <2>1, CallsUnchanged DEF vars
  <2>3. QED
    BY <1>4, <2>1, <2>2
    DEF vars, TypeInv, TypeOK, MidTierInv, storeVars, dirVars, history
<1>5. QED
  BY <1>1, <1>2, <1>3, <1>4, StartTypeInv, ProgressTypeInv, FailTypeInv, ExpiringAssumption
  DEF Next

\* The states of the engine are what their declarations say, in particular
\* every record in store or in hand has one of the stored statuses.
THEOREM TypeCorrect == Spec => []TypeOK
<1>1. TypeInv /\ [Next]_vars => TypeInv'
  BY NextTypeInv
<1>2. TypeInv => TypeOK
  BY DEF TypeInv
<1>3. QED
  BY InitTypeInv, <1>1, <1>2, PTL DEF Spec

-----------------------------------------------------------------------------
(* What the store says of the chain *)

LEMMA InitBackedInv == Init => BackedInv
BY DEF Init, MidTierInit, BackedInv, StoreIsBacked, NoticesAreBacked, RevocationsBindGrant,
       Backed, NoRecord, CallBacked, Idle, Busy, Unknown

\* The mid-tier takes nothing back, so what was backed stays backed.
LEMMA StillBacked ==
    ASSUME TypeInv, ChainGrows
    PROVE  /\ \A c \in Consents: Revoked(c) => Revoked(c)'
           /\ \A c \in Consents, rec \in Record: Backed(c, rec) => Backed(c, rec)'
<1>1. ASSUME NEW c \in Consents, Revoked(c)
      PROVE  Revoked(c)'
  BY <1>1 DEF Revoked, ChainGrows
<1>2. ASSUME NEW c \in Consents, NEW rec \in Record, Backed(c, rec)
      PROVE  Backed(c, rec)'
  <2>1. rec.status = "active" => "confirmed" \in grantTx'[c]
    BY <1>2 DEF Backed, ChainGrows
  <2>2. rec.status = "revoked" => Revoked(c)'
    BY <1>1, <1>2 DEF Backed
  <2>3. rec.cid # NoCID => rec.cid = c /\ "ipfs_live" \in grantTx'[c]
    BY <1>2 DEF Backed, ChainGrows
  <2>4. rec.revokeCID # NoCID =>
           /\ revokeTx'[rec.revokeCID].of = c
           /\ "rev_ipfs_live" \in revokeTx'[rec.revokeCID].reached
    BY <1>2 DEF Backed, ChainGrows, Record
  <2>5. QED
    BY <2>1, <2>2, <2>3, <2>4 DEF Backed
<1>3. QED
  BY <1>1, <1>2

\* Steps that may move the mid-tier, and of the calls only end some.
LEMMA ChainStepBacked ==
    ASSUME TypeInv, BackedInv, ChainGrows, UNCHANGED <<store, notices>>,
           \A u \in Calls: call'[u] \in {call[u], Idle},
           RevocationsBindGrant'
    PROVE  BackedInv'
<1> USE DEF BackedInv
<1>1. StoreIsBacked'
  BY StillBacked DEF StoreIsBacked, TypeInv, TypeOK
<1>2. NoticesAreBacked'
  BY StillBacked DEF NoticesAreBacked
<1>3. ASSUME NEW u \in Calls
      PROVE  CallBacked(call[u])'
  <2>1. CASE call'[u] = Idle
    BY <2>1 DEF CallBacked, Idle, Busy
  <2>2. CASE call'[u] = call[u]
    <3>1. call[u] \in Call /\ CallOK(call[u]) /\ CallBacked(call[u])
      BY DEF TypeInv, TypeOK
    <3>2. /\ call[u].pc \in {"set", "submit_revoke"} => Backed(call[u].id, call[u].rec)'
          /\ call[u].pc \in {"set", "update", "revoked"} /\ call[u].status = "rev_confirmed" =>
                Revoked(call[u].id)'
      <4>1. call[u].rec \in Record
        BY <3>1 DEF Call
      <4>2. call[u].pc \in {"set", "submit_revoke", "update", "revoked"} => call[u].id \in Consents
        BY <3>1 DEF CallOK, Busys
      <4>3. QED
        BY <2>2, <3>1, <4>1, <4>2, StillBacked DEF CallBacked
    <3>3. QED
      BY <2>2, <3>1, <3>2 DEF CallBacked
  <2>3. QED
    BY <2>1, <2>2
<1>4. QED
  BY <1>1, <1>2, <1>3

\* A step of one call that leaves the mid-tier alone.
LEMMA LocalStepBacked ==
    ASSUME TypeInv, BackedInv, UNCHANGED mtVars,
           NEW t \in Calls, NEW k, CallBacked(k), call' = [call EXCEPT ![t] = k],
           \A c \in Consents: store'[c] = store[c] \/ Backed(c, store'[c]),
           \A c \in Consents: notices'[c] > 0 => notices[c] > 0 \/ Revoked(c)
    PROVE  BackedInv'
<1> USE DEF BackedInv, mtVars
<1>1. StoreIsBacked'
  BY DEF StoreIsBacked, Backed, Revoked
<1>2. NoticesAreBacked'
  BY DEF NoticesAreBacked, Revoked
<1>3. RevocationsBindGrant'
  BY DEF RevocationsBindGrant
<1>4. ASSUME NEW u \in Calls
      PROVE  CallBacked(call[u])'
  <2>1. CallBacked(call'[u])
    BY DEF TypeInv, TypeOK
  <2>2. QED
    BY <2>1 DEF CallBacked, Backed, Revoked
<1>5. QED
  BY <1>1, <1>2, <1>3, <1>4

\* A report the chain stands behind keeps a backed record backed.
LEMMA HandlingBacked ==
    ASSUME TypeInv, BackedInv, NEW k, NEW op, NEW c \in Consents,
           NEW s \in TransactionStatuses, NEW cid,
           s \in GrantStatuses => cid = c /\ s \in grantTx[c],
           s \in RevokeStatuses => /\ cid \in Revocations
                                   /\ revokeTx[cid].of = c
                                   /\ s \in revokeTx[cid].reached
    PROVE  CallBacked(Handling(k, op, c, s, cid))
<1>1. Backed(c, store[c]) /\ store[c] \in Record
  BY DEF BackedInv, StoreIsBacked, TypeInv, TypeOK
<1>2. Backed(c, ApplyStatus(store[c], s, cid))
  <2>1. CASE s = "ipfs_live"
    BY <1>1, <2>1 DEF ApplyStatus, Backed, Record, GrantStatuses
  <2>2. CASE s = "rev_ipfs_live"
    BY <1>1, <2>2 DEF ApplyStatus, Backed, Record, RevokeStatuses
  <2>3. CASE s = "confirmed"
    BY <1>1, <2>3 DEF ApplyStatus, Backed, Record, GrantStatuses
  <2>4. CASE s = "rev_confirmed"
    BY <1>1, <2>4 DEF ApplyStatus, Backed, Record, RevokeStatuses, Revoked
  <2>5. CASE s \notin {"ipfs_live", "rev_ipfs_live", "confirmed", "rev_confirmed"}
    BY <1>1, <2>5 DEF ApplyStatus
  <2>6. QED
    BY <2>1, <2>2, <2>3, <2>4, <2>5
<1>3. s = "rev_confirmed" => Revoked(c)
  BY DEF Revoked, RevokeStatuses
<1>4. QED
  BY <1>2, <1>3 DEF CallBacked, Handling

\* A fresh record says nothing of the chain, nor does a decision on an old one.
LEMMA DecisionsAreBacked ==
    ASSUME BackedInv, NEW c \in Consents, store[c] \in Record
    PROVE  /\ \A s \in {"pending", "rejected", "pending-review"}:
                 Backed(c, NewRecord(s, 0)) /\ Backed(c, CounterSign(NewRecord(s, 0)))
           /\ Backed(c, [store[c] EXCEPT !.status = "rejected"])
           /\ Backed(c, [CounterSign(store[c]) EXCEPT !.status = "pending"])
<1>1. Backed(c, store[c])
  BY DEF BackedInv, StoreIsBacked
<1>2. \A s \in {"pending", "rejected", "pending-review"}:
         Backed(c, NewRecord(s, 0)) /\ Backed(c, CounterSign(NewRecord(s, 0)))
  BY DEF Backed, NewRecord, CounterSign
<1>3. Backed(c, [store[c] EXCEPT !.status = "rejected"])
  BY <1>1 DEF Backed, Record
<1>4. Backed(c, [CounterSign(store[c]) EXCEPT !.status = "pending"])
  BY <1>1 DEF Backed, Record, CounterSign
<1>5. QED
  BY <1>2, <1>3, <1>4

LEMMA StartBacked ==
    ASSUME TypeInv, BackedInv, NEW t \in Calls, Start(t)
    PROVE  BackedInv'
<1> USE DEF TypeInv, TypeOK, Become, storeVars, history
<1>1. ASSUME NEW c \in Consents, InboundGarbage(t, c)
      PROVE  BackedInv'
  <2>1. call' = [call EXCEPT ![t] = call[t]] /\ CallBacked(call[t])
    BY <1>1 DEF InboundGarbage, BackedInv
  <2>2. QED
    BY <1>1, <2>1, LocalStepBacked DEF InboundGarbage
<1>2. ASSUME NEW c \in Consents, InboundReceive(t, c)
      PROVE  BackedInv'
  <2>1. PICK k \in {call[t], Busy("inbound", "review", c, NoRecord)}:
           call' = [call EXCEPT ![t] = k]
    BY <1>2 DEF InboundReceive
  <2>2. CallBacked(k)
    BY <2>1 DEF BackedInv, CallBacked, Busy
  <2>3. QED
    BY <1>2, <2>1, <2>2, LocalStepBacked DEF InboundReceive
<1>3. ASSUME NEW c \in Consents, Approve(t, c)
      PROVE  BackedInv'
  <2> DEFINE k == Busy("approve", "set", c, [CounterSign(store[c]) EXCEPT !.status = "pending"])
  <2>1. CallBacked(k)
    BY DecisionsAreBacked DEF CallBacked, Busy, Foreign
  <2>2. QED
    BY <1>3, <2>1, LocalStepBacked DEF Approve
<1>4. ASSUME NEW c \in Consents, Reject(t, c)
      PROVE  BackedInv'
  <2> DEFINE k == Busy("reject", "set", c, [store[c] EXCEPT !.status = "rejected"])
  <2>1. CallBacked(k)
    BY DecisionsAreBacked DEF CallBacked, Busy, Foreign
  <2>2. QED
    BY <1>4, <2>1, LocalStepBacked DEF Reject
<1>5. ASSUME NEW c \in Consents, Callback(t, c)
      PROVE  BackedInv'
  <2>1. PICK m \in Callbacks(c):
           /\ Handles(store[c], m.status)
           /\ Become(t, Handling(call[t], "callback", c, m.status, m.cid))
    BY <1>5 DEF Callback
  <2> DEFINE k == Handling(call[t], "callback", c, m.status, m.cid)
  <2>2. m.status \in TransactionStatuses
    BY <2>1 DEF Handles
  <2>3. CallBacked(k)
    BY <2>2, CallbackFacts, HandlingBacked
  <2>4. QED
    BY <1>5, <2>1, <2>3, LocalStepBacked DEF Callback
<1>6. ASSUME NEW c \in Consents, Revoke(t, c)
      PROVE  BackedInv'
  <2>1. PICK r \in FreshRevocations:
           Become(t, [Busy("revoke", "submit_revoke", c, store[c]) EXCEPT !.sealed = r])
    BY <1>6 DEF Revoke
  <2> DEFINE k == [Busy("revoke", "submit_revoke", c, store[c]) EXCEPT !.sealed = r]
  <2>2. CallBacked(k)
    BY DEF CallBacked, Busy, BackedInv, StoreIsBacked
  <2>3. QED
    BY <1>6, <2>1, <2>2, LocalStepBacked DEF Revoke
<1>7. ASSUME SyncStart(t)
      PROVE  BackedInv'
  <2> DEFINE k == Passing("fetch", cursor + 1, 0)
  <2>1. CallBacked(k)
    BY DEF CallBacked, Passing
  <2>2. QED
    BY <1>7, <2>1, LocalStepBacked DEF SyncStart
<1>8. ASSUME NEW p \in Parties, HandleXpubRequestByDID(t, p)
      PROVE  BackedInv'
  <2>1. call' = [call EXCEPT ![t] = call[t]] /\ CallBacked(call[t])
    BY <1>8 DEF HandleXpubRequestByDID, BackedInv
  <2>2. QED
    BY <1>8, <2>1, LocalStepBacked DEF HandleXpubRequestByDID
<1>9. QED
  BY <1>1, <1>2, <1>3, <1>4, <1>5, <1>6, <1>7, <1>8 DEF Start

LEMMA ReturnBacked ==
    ASSUME TypeInv, BackedInv, NEW t \in Calls, Return(t),
           UNCHANGED <<mtVars, storeVars, dirVars, expired, history>>
    PROVE  BackedInv'
<1>1. CallBacked(Idle)
  BY DEF CallBacked, Idle, Busy
<1>2. QED
  BY <1>1, LocalStepBacked DEF Return, Become, storeVars, history

LEMMA AfterHandlerBacked ==
    ASSUME NEW t \in Calls, AfterHandler(t)
    PROVE  \E k \in {Idle, Passing("advance", call[t].next, call[t].upto)}:
              CallBacked(k) /\ call' = [call EXCEPT ![t] = k]
<1>1. CallBacked(Idle) /\ CallBacked(Passing("advance", call[t].next, call[t].upto))
  BY DEF CallBacked, Idle, Busy, Passing
<1>2. QED
  BY <1>1 DEF AfterHandler, Return, Become

LEMMA ProgressBacked ==
    ASSUME TypeInv, BackedInv, NEW t \in Calls, Progress(t)
    PROVE  BackedInv'
<1> USE DEF TypeInv, TypeOK, Become, At, storeVars, dirVars, history
<1>0. /\ call[t] \in Call /\ CallOK(call[t]) /\ CallBacked(call[t])
      /\ call[t].pc \in Busys => call[t].id \in Consents
  BY DEF CallOK, BackedInv
<1>1. ASSUME Review(t)
      PROVE  BackedInv'
  <2>0. call[t].id \in Consents
    BY <1>0, <1>1 DEF Review, Busys
  <2>1. PICK rec \in {CounterSign(NewRecord("pending", 0)), NewRecord("rejected", 0),
                      NewRecord("pending-review", 0)}:
           call' = [call EXCEPT ![t] = Busy("inbound", "set", call[t].id, rec)]
    BY <1>1 DEF Review
  <2>2. CallBacked(Busy("inbound", "set", call[t].id, rec))
    BY <2>0, DecisionsAreBacked DEF CallBacked, Busy, Foreign
  <2>3. QED
    BY <1>1, <2>1, <2>2, LocalStepBacked DEF Review
<1>2. ASSUME StoreSet(t)
      PROVE  BackedInv'
  <2>1. /\ call[t].id \in Consents
        /\ Backed(call[t].id, call[t].rec)
        /\ call[t].status = "rev_confirmed" => Revoked(call[t].id)
    BY <1>0, <1>2 DEF StoreSet, Busys, CallBacked
  <2>2. \A c \in Consents: store'[c] = store[c] \/ Backed(c, store'[c])
    BY <1>2, <2>1 DEF StoreSet
  <2>3. CallBacked(AfterSet(call[t]))
    BY <1>0, <2>1 DEF AfterSet, CallBacked, Idle, Busy, Call
  <2>4. QED
    BY <1>2, <2>2, <2>3, LocalStepBacked DEF StoreSet
<1>3. ASSUME OnTransactionUpdate(t)
      PROVE  BackedInv'
  <2>1. CASE AfterHandler(t)
    BY <1>3, <2>1, AfterHandlerBacked, LocalStepBacked DEF OnTransactionUpdate
  <2>2. CASE Goto(t, "revoked") /\ call[t].status = "rev_confirmed"
    <3>1. CallBacked([call[t] EXCEPT !.pc = "revoked"])
      BY <1>0, <1>3, <2>2 DEF OnTransactionUpdate, CallBacked, Call
    <3>2. QED
      BY <1>3, <2>2, <3>1, LocalStepBacked DEF OnTransactionUpdate, Goto
  <2>3. QED
    BY <1>3, <2>1, <2>2 DEF OnTransactionUpdate
<1>4. ASSUME OnConsentRevoked(t)
      PROVE  BackedInv'
  <2>1. call[t].id \in Consents /\ Revoked(call[t].id)
    BY <1>0, <1>4 DEF OnConsentRevoked, Busys, CallBacked
  <2>2. \A c \in Consents: notices'[c] > 0 => notices[c] > 0 \/ Revoked(c)
    BY <1>4, <2>1 DEF OnConsentRevoked
  <2>3. PICK k: CallBacked(k) /\ call' = [call EXCEPT ![t] = k]
    BY <1>4, AfterHandlerBacked DEF OnConsentRevoked, Return, CallBacked, Idle, Busy
  <2>4. QED
    BY <1>4, <2>2, <2>3, LocalStepBacked DEF OnConsentRevoked
<1>5. ASSUME SubmitGrant(t)
      PROVE  BackedInv'
  <2>1. ChainGrows /\ RevocationsBindGrant'
    BY <1>5, ReceiveGrantInv
    DEF SubmitGrant, ReceiveGrant, BackedInv, RevocationsBindGrant
  <2>2. QED
    BY <1>5, <2>1, ChainStepBacked DEF SubmitGrant, Return
<1>6. ASSUME SubmitRevoke(t)
      PROVE  BackedInv'
  <2> DEFINE c == call[t].id
             ref == GrantRef(c, call[t].rec)
  <2>1. /\ call[t].sealed \in Revocations /\ c \in Consents
        /\ call[t].rec.cid \in Consents \union {NoCID}
    BY <1>0, <1>6 DEF SubmitRevoke, CallOK, Busys, Call, Record
  <2>2. ref = c
    BY <1>0, <1>6 DEF SubmitRevoke, CallBacked, Backed, GrantRef
  <2>3. ChainGrows
    BY <1>6, <2>1, <2>2, ReceiveRevokeInv DEF SubmitRevoke
  <2>4. RevocationsBindGrant'
    BY <1>6, <2>1, <2>2 DEF SubmitRevoke, ReceiveRevoke, BackedInv, RevocationsBindGrant,
                            MidTierTypeOK
  <2>5. QED
    BY <1>6, <2>3, <2>4, ChainStepBacked DEF SubmitRevoke, Return
<1>7. ASSUME SyncFetch(t) \/ SyncEvent(t) \/ SetSyncCursor(t)
      PROVE  BackedInv'
  <2>1. PICK k: CallBacked(k) /\ call' = [call EXCEPT ![t] = k]
    <3>1. CASE SyncEvent(t)
      <4>1. \A pc \in {"advance", "inner"}: CallBacked([call[t] EXCEPT !.pc = pc])
        BY <1>0 DEF CallBacked, Call
      <4>2. CallBacked(Idle)
        BY DEF CallBacked, Idle, Busy
      <4>3. QED
        BY <3>1, <4>1, <4>2 DEF SyncEvent, Goto, Return
    <3>2. CASE SyncFetch(t) \/ SetSyncCursor(t)
      BY <3>2 DEF SyncFetch, SetSyncCursor, CallBacked, Passing
    <3>3. QED
      BY <1>7, <3>1, <3>2
  <2>2. UNCHANGED <<mtVars, store, notices>>
    BY <1>7 DEF SyncFetch, SyncEvent, SetSyncCursor
  <2>3. QED
    BY <2>1, <2>2, LocalStepBacked
<1>8. ASSUME SyncDone(t)
      PROVE  BackedInv'
  BY <1>8, ReturnBacked DEF SyncDone
<1>9. ASSUME SyncHandle(t)
      PROVE  BackedInv'
  <2> DEFINE e == chainLog[call[t].next]
             k == Handling(call[t], "sync", e.id, e.status, e.cid)
  <2>1. e \in Event /\ EventOK(e)
    BY <1>0, <1>9, SyncFacts DEF SyncHandle, CallOK, MidTierInv
  <2>2. CASE Handles(store[e.id], e.status)
    <3>1. e.id \in Consents /\ e.status \in TransactionStatuses
      BY <2>1, <2>2 DEF Handles, Event
    <3>2. CallBacked(k)
      BY <2>1, <3>1, HandlingBacked DEF EventOK
    <3>3. QED
      BY <1>9, <2>2, <3>2, LocalStepBacked DEF SyncHandle
  <2>3. CASE ~Handles(store[e.id], e.status)
    BY <1>9, <2>3, ReturnBacked DEF SyncHandle
  <2>4. QED
    BY <2>2, <2>3
<1>10. QED
  BY <1>1, <1>2, <1>3, <1>4, <1>5, <1>6, <1>7, <1>8, <1>9 DEF Progress

LEMMA NextBackedInv ==
    ASSUME TypeInv, BackedInv, [Next]_vars
    PROVE  BackedInv'
<1>1. ChainGrows
  BY NextTypeInv
<1>2. ASSUME NEW t \in Calls, Fail(t)
      PROVE  BackedInv'
  BY <1>2, ReturnBacked
  DEF Fail, ReviewFails, OnTransactionUpdateFails, StoreFails, NetworkFails
<1>3. ASSUME Crash \/ (\E c \in Expiring: Expire(c)) \/ UNCHANGED vars
      PROVE  BackedInv'
  <2>1. UNCHANGED <<mtVars, store, notices>> /\ \A u \in Calls: call'[u] \in {call[u], Idle}
    BY <1>3 DEF Crash, Expire, vars, storeVars, history
  <2>2. RevocationsBindGrant'
    BY <2>1 DEF BackedInv, RevocationsBindGrant, mtVars
  <2>3. QED
    BY <1>1, <2>1, <2>2, ChainStepBacked
<1>4. ASSUME MidTierStep
      PROVE  BackedInv'
  <2>1. RevocationsBindGrant'
    <3> USE DEF BackedInv, RevocationsBindGrant, TypeInv, TypeOK, MidTierTypeOK
    <3>1. ASSUME NEW c \in Consents, GrantAdvances(c) \/ LogsForeign(c)
          PROVE  RevocationsBindGrant'
      BY <3>1 DEF GrantAdvances, LogsForeign
    <3>2. ASSUME NEW r \in Revocations, RevokeAdvances(r)
          PROVE  RevocationsBindGrant'
      <4>1. revokeTx[r] # NoRevocation
        BY <3>2 DEF RevokeAdvances, RevokeFollows, NoRevocation
      <4>2. QED
        BY <3>2, <4>1 DEF RevokeAdvances, Revocation
    <3>3. ASSUME NEW r \in Revocations, NEW c \in Consents, OtherPartyRevokes(r, c)
          PROVE  RevocationsBindGrant'
      BY <3>3 DEF OtherPartyRevokes, ReceiveRevoke
    <3>4. QED
      BY <1>4, <3>1, <3>2, <3>3 DEF MidTierStep, MidTierNext
  <2>2. QED
    BY <1>1, <1>4, <2>1, ChainStepBacked DEF MidTierStep, storeVars, history
<1>5. QED
  BY <1>2, <1>3, <1>4, StartBacked, ProgressBacked DEF Next

LEMMA SpecBacked == Spec => [](TypeInv /\ BackedInv)
<1>1. TypeInv /\ BackedInv /\ [Next]_vars => (TypeInv /\ BackedInv)'
  BY NextTypeInv, NextBackedInv
<1>2. QED
  BY InitTypeInv, InitBackedInv, <1>1, PTL DEF Spec

\* A stored record is active only if its grant was confirmed, revoked only if a
\* revocation of it was, and names only CIDs published for it: no interleaving
\* of calls that hold stale copies can break that.
THEOREM StoreBacked == Spec => []StoreIsBacked
<1>1. BackedInv => StoreIsBacked
  BY DEF BackedInv
<1>2. QED
  BY SpecBacked, <1>1, PTL

\* OnConsentRevoked never announces a revocation the chain does not have.
THEOREM NoticesBacked == Spec => []NoticesAreBacked
<1>1. BackedInv => NoticesAreBacked
  BY DEF BackedInv
<1>2. QED
  BY SpecBacked, <1>1, PTL

\* What the revoker signs always names the grant it revokes.
THEOREM RevocationsBound == Spec => []RevocationsBindGrant
<1>1. BackedInv => RevocationsBindGrant
  BY DEF BackedInv
<1>2. QED
  BY SpecBacked, <1>1, PTL

-----------------------------------------------------------------------------
(* What the mid-tier is sent *)

LEMMA InitSignedInv == Init => SignedInv
<1> SUFFICES ASSUME Init PROVE SignedInv
  OBVIOUS
<1>1. GrantsAreAccounted
  BY DEF Init, MidTierInit, GrantsAreAccounted, Tracked
<1>2. QED
  BY <1>1 DEF Init, SignedInv, SignedWith, NoRecord, Idle, Busy, Unknown

\* The form every step has: records are replaced only by proper ones, a
\* decision is never taken back, and a new grant was accounted for.
LEMMA StepSigned ==
    ASSUME TypeInv, SignedInv,
           \A c \in Consents:
              \/ store'[c] = store[c]
              \/ /\ store'[c].status # Unknown
                 /\ store'[c].status = "pending-review" => store'[c].sigs = 0,
           decided \subseteq decided',
           \A c \in Consents:
              grantTx'[c] # {} => grantTx[c] # {} \/ (c \in decided /\ store[c] # NoRecord),
           \A u \in Calls: call'[u] = call[u] \/ SignedWith(call'[u], store', decided')
    PROVE  SignedInv'
<1>1. \A c \in Consents: store[c] # NoRecord => store'[c] # NoRecord
  BY DEF SignedInv, NoRecord
<1>2. GrantsAreAccounted'
  BY <1>1 DEF SignedInv, GrantsAreAccounted, Tracked, Preexisting
<1>3. \A c \in Consents: /\ store'[c] # NoRecord => store'[c].status # Unknown
                         /\ store'[c].status = "pending-review" => store'[c].sigs = 0
  BY DEF SignedInv
<1>4. ASSUME NEW u \in Calls
      PROVE  SignedWith(call'[u], store', decided')
  <2>1. CASE call'[u] = call[u]
    <3>1. call[u].pc = "submit_grant" => call[u].id \in Consents
      BY DEF TypeInv, CallOK, Busys
    <3>2. SignedWith(call[u], store, decided)
      BY DEF SignedInv
    <3>3. QED
      BY <1>1, <2>1, <3>1, <3>2 DEF SignedWith
  <2>2. QED
    BY <2>1
<1>5. QED
  BY <1>2, <1>3, <1>4 DEF SignedInv

\* A step of one call that writes no record and submits no grant.
LEMMA LocalStepSigned ==
    ASSUME TypeInv, SignedInv, NEW t \in Calls, NEW k, call' = [call EXCEPT ![t] = k],
           UNCHANGED <<store, grantTx>>, decided \subseteq decided',
           SignedWith(k, store, decided')
    PROVE  SignedInv'
<1>1. \A u \in Calls: call'[u] = call[u] \/ SignedWith(call'[u], store', decided')
  BY DEF TypeInv, TypeOK
<1>2. QED
  BY <1>1, StepSigned

LEMMA AwaySigned ==
    ASSUME NEW k, NEW records, NEW decisions, k.pc \notin {"set", "submit_grant"}
    PROVE  SignedWith(k, records, decisions)
BY DEF SignedWith

LEMMA HandlingSigned ==
    ASSUME TypeInv, SignedInv, NEW k, NEW op \in {"callback", "sync"}, NEW c \in Consents,
           NEW s, NEW cid, Handles(store[c], s)
    PROVE  SignedWith(Handling(k, op, c, s, cid), store, decided)
<1> DEFINE rec == ApplyStatus(store[c], s, cid)
<1>1. store[c].status # Unknown /\ store[c] \in Record
  BY DEF Handles, SignedInv, TypeInv, TypeOK
<1>2. rec.status # Unknown /\ (rec.status = "pending-review" => rec.sigs = 0)
  <2>1. CASE s = "ipfs_live"
    BY <1>1, <2>1 DEF ApplyStatus, Record, SignedInv
  <2>2. CASE s = "rev_ipfs_live"
    BY <1>1, <2>2 DEF ApplyStatus, Record, SignedInv
  <2>3. CASE s = "confirmed"
    BY <1>1, <2>3 DEF ApplyStatus, Record, Unknown
  <2>4. CASE s = "rev_confirmed"
    BY <1>1, <2>4 DEF ApplyStatus, Record, Unknown
  <2>5. CASE s \notin {"ipfs_live", "rev_ipfs_live", "confirmed", "rev_confirmed"}
    BY <1>1, <2>5 DEF ApplyStatus, SignedInv
  <2>6. QED
    BY <2>1, <2>2, <2>3, <2>4, <2>5
<1>3. QED
  BY <1>2 DEF SignedWith, Handling

LEMMA StartSigned ==
    ASSUME TypeInv, SignedInv, NEW t \in Calls, Start(t)
    PROVE  SignedInv'
<1> USE DEF TypeInv, TypeOK, Become, storeVars, history, mtVars
<1>1. ASSUME NEW c \in Consents, InboundGarbage(t, c)
      PROVE  SignedInv'
  BY <1>1, StepSigned DEF InboundGarbage
<1>2. ASSUME NEW c \in Consents, InboundReceive(t, c)
      PROVE  SignedInv'
  <2> DEFINE k == Busy("inbound", "review", c, NoRecord)
  <2>1. SignedWith(k, store, decided)
    BY DEF SignedWith, Busy
  <2>2. CASE call' = [call EXCEPT ![t] = k]
    BY <1>2, <2>1, <2>2, LocalStepSigned DEF InboundReceive
  <2>3. CASE UNCHANGED call
    BY <1>2, <2>3, StepSigned DEF InboundReceive
  <2>4. QED
    BY <1>2, <2>2, <2>3 DEF InboundReceive
<1>3. ASSUME NEW c \in Consents, Approve(t, c)
      PROVE  SignedInv'
  <2> DEFINE rec == [CounterSign(store[c]) EXCEPT !.status = "pending"]
             k == Busy("approve", "set", c, rec)
  <2>1. store[c] \in Record /\ store[c].sigs = 0
    BY <1>3 DEF Approve, SignedInv
  <2>2. rec.status = "pending" /\ rec.sigs = 1
    BY <2>1 DEF CounterSign, Record
  <2>3. c \in decided' /\ decided \subseteq decided'
    BY <1>3 DEF Approve
  <2>4. SignedWith(k, store, decided')
    BY <2>2, <2>3 DEF SignedWith, Busy, Unknown
  <2>5. QED
    BY <1>3, <2>3, <2>4, LocalStepSigned DEF Approve
<1>4. ASSUME NEW c \in Consents, Reject(t, c)
      PROVE  SignedInv'
  <2> DEFINE rec == [store[c] EXCEPT !.status = "rejected"]
             k == Busy("reject", "set", c, rec)
  <2>1. rec.status = "rejected"
    BY DEF Record
  <2>2. SignedWith(k, store, decided)
    BY <2>1 DEF SignedWith, Busy, Unknown
  <2>3. QED
    BY <1>4, <2>2, LocalStepSigned DEF Reject
<1>5. ASSUME NEW c \in Consents, Callback(t, c)
      PROVE  SignedInv'
  <2>1. PICK m \in Callbacks(c):
           /\ Handles(store[c], m.status)
           /\ Become(t, Handling(call[t], "callback", c, m.status, m.cid))
    BY <1>5 DEF Callback
  <2> DEFINE k == Handling(call[t], "callback", c, m.status, m.cid)
  <2>2. SignedWith(k, store, decided)
    BY <2>1, HandlingSigned
  <2>3. QED
    BY <1>5, <2>1, <2>2, LocalStepSigned DEF Callback
<1>6. ASSUME NEW c \in Consents, Revoke(t, c)
      PROVE  SignedInv'
  <2>1. PICK r \in FreshRevocations:
           Become(t, [Busy("revoke", "submit_revoke", c, store[c]) EXCEPT !.sealed = r])
    BY <1>6 DEF Revoke
  <2> DEFINE k == [Busy("revoke", "submit_revoke", c, store[c]) EXCEPT !.sealed = r]
  <2>2. SignedWith(k, store, decided)
    BY DEF SignedWith, Busy
  <2>3. QED
    BY <1>6, <2>1, <2>2, LocalStepSigned DEF Revoke
<1>7. ASSUME SyncStart(t)
      PROVE  SignedInv'
  <2> DEFINE k == Passing("fetch", cursor + 1, 0)
  <2>1. SignedWith(k, store, decided)
    BY DEF SignedWith, Passing
  <2>2. QED
    BY <1>7, <2>1, LocalStepSigned DEF SyncStart
<1>8. ASSUME NEW p \in Parties, HandleXpubRequestByDID(t, p)
      PROVE  SignedInv'
  BY <1>8, StepSigned DEF HandleXpubRequestByDID
<1>9. QED
  BY <1>1, <1>2, <1>3, <1>4, <1>5, <1>6, <1>7, <1>8 DEF Start

LEMMA ReturnSigned ==
    ASSUME TypeInv, SignedInv, NEW t \in Calls, Return(t),
           UNCHANGED <<mtVars, storeVars, dirVars, expired, history>>
    PROVE  SignedInv'
<1>1. SignedWith(Idle, store, decided)
  BY DEF SignedWith, Idle, Busy
<1>2. QED
  BY <1>1, LocalStepSigned DEF Return, Become, storeVars, history, mtVars

LEMMA ProgressSigned ==
    ASSUME TypeInv, SignedInv, NEW t \in Calls, Progress(t)
    PROVE  SignedInv'
<1> USE DEF TypeInv, TypeOK, Become, At, storeVars, dirVars, history, mtVars
<1>0. /\ call[t] \in Call /\ CallOK(call[t]) /\ SignedWith(call[t], store, decided)
      /\ call[t].pc \in Busys => call[t].id \in Consents
  BY DEF CallOK, SignedInv
<1>1. ASSUME Review(t)
      PROVE  SignedInv'
  <2> DEFINE Reviewed(rec) == Busy("inbound", "set", call[t].id, rec)
  <2>1. CASE /\ call' = [call EXCEPT ![t] = Reviewed(CounterSign(NewRecord("pending", 0)))]
             /\ decided' = decided \union {call[t].id}
    <3>1. SignedWith(Reviewed(CounterSign(NewRecord("pending", 0))), store, decided')
      BY <2>1 DEF SignedWith, Busy, CounterSign, NewRecord, Unknown
    <3>2. QED
      BY <1>1, <2>1, <3>1, LocalStepSigned DEF Review
  <2>2. ASSUME NEW s \in {"rejected", "pending-review"},
               call' = [call EXCEPT ![t] = Reviewed(NewRecord(s, 0))], UNCHANGED decided
        PROVE  SignedInv'
    <3>1. SignedWith(Reviewed(NewRecord(s, 0)), store, decided)
      BY DEF SignedWith, Busy, NewRecord, Unknown
    <3>2. QED
      BY <1>1, <2>2, <3>1, LocalStepSigned DEF Review
  <2>3. QED
    BY <1>1, <2>1, <2>2 DEF Review
<1>2. ASSUME StoreSet(t)
      PROVE  SignedInv'
  <2> DEFINE k == call[t]
  <2>1. /\ k.id \in Consents /\ k.pc = "set"
        /\ k.rec.status # Unknown
        /\ k.rec.status = "pending-review" => k.rec.sigs = 0
    BY <1>0, <1>2 DEF StoreSet, Busys, SignedWith
  <2>2. /\ store'[k.id] = k.rec
        /\ \A c \in Consents: \/ store'[c] = store[c]
                              \/ /\ store'[c].status # Unknown
                                 /\ store'[c].status = "pending-review" => store'[c].sigs = 0
    BY <1>2, <2>1 DEF StoreSet
  <2>3. SignedWith(AfterSet(k), store', decided')
    <3>1. CASE AfterSet(k) = [k EXCEPT !.pc = "submit_grant"] /\ k.op \in {"inbound", "approve"}
               /\ k.rec.status = "pending"
      <4>1. k.id \in decided /\ k.rec.sigs = 1
        BY <1>0, <2>1, <3>1 DEF SignedWith
      <4>2. store'[k.id] # NoRecord
        BY <2>1, <2>2 DEF NoRecord
      <4>3. QED
        BY <1>0, <1>2, <3>1, <4>1, <4>2 DEF SignedWith, StoreSet, Call
    <3>2. CASE AfterSet(k) \in {Idle, [k EXCEPT !.pc = "update"]}
      BY <1>0, <3>2 DEF SignedWith, Idle, Busy, Call
    <3>3. QED
      BY <3>1, <3>2 DEF AfterSet
  <2>4. \A u \in Calls: call'[u] = call[u] \/ SignedWith(call'[u], store', decided')
    BY <1>2, <2>3 DEF StoreSet
  <2>5. QED
    BY <1>2, <2>2, <2>4, StepSigned DEF StoreSet
<1>3. ASSUME OnTransactionUpdate(t) \/ OnConsentRevoked(t)
      PROVE  SignedInv'
  <2>1. PICK k \in {Idle, Passing("advance", call[t].next, call[t].upto),
                    [call[t] EXCEPT !.pc = "revoked"]}:
           call' = [call EXCEPT ![t] = k]
    BY <1>3 DEF OnTransactionUpdate, OnConsentRevoked, AfterHandler, Return, Goto
  <2>2. SignedWith(k, store, decided)
    BY <1>0, <2>1 DEF SignedWith, Idle, Busy, Passing, Call
  <2>3. UNCHANGED <<store, grantTx, decided>>
    BY <1>3 DEF OnTransactionUpdate, OnConsentRevoked
  <2>4. QED
    BY <2>1, <2>2, <2>3, LocalStepSigned
<1>4. ASSUME SubmitGrant(t)
      PROVE  SignedInv'
  <2>1. \A c \in Consents:
           grantTx'[c] # {} => grantTx[c] # {} \/ (c \in decided /\ store[c] # NoRecord)
    BY <1>0, <1>4 DEF SubmitGrant, ReceiveGrant, SignedWith, MidTierTypeOK
  <2>2. \A u \in Calls: call'[u] = call[u] \/ SignedWith(call'[u], store', decided')
    BY <1>4 DEF SubmitGrant, Return, SignedWith, Idle, Busy
  <2>3. QED
    BY <1>4, <2>1, <2>2, StepSigned DEF SubmitGrant
<1>5. ASSUME SubmitRevoke(t)
      PROVE  SignedInv'
  <2>1. \A u \in Calls: call'[u] = call[u] \/ SignedWith(call'[u], store', decided')
    BY <1>5 DEF SubmitRevoke, Return, SignedWith, Idle, Busy
  <2>2. QED
    BY <1>5, <2>1, StepSigned DEF SubmitRevoke, ReceiveRevoke
<1>6. ASSUME SyncFetch(t) \/ SetSyncCursor(t)
      PROVE  SignedInv'
  <2>1. \A u \in Calls: call'[u] = call[u] \/ SignedWith(call'[u], store', decided')
    BY <1>6 DEF SyncFetch, SetSyncCursor, SignedWith, Passing
  <2>2. QED
    BY <1>6, <2>1, StepSigned DEF SyncFetch, SetSyncCursor
<1>7. ASSUME SyncDone(t)
      PROVE  SignedInv'
  BY <1>7, ReturnSigned DEF SyncDone
<1>8. ASSUME SyncEvent(t)
      PROVE  SignedInv'
  <2>1. CASE Return(t)
    BY <1>8, <2>1, ReturnSigned DEF SyncEvent
  <2>2. ASSUME NEW pc \in {"advance", "inner"},
               call' = [call EXCEPT ![t] = [call[t] EXCEPT !.pc = pc]]
        PROVE  SignedInv'
    <3>1. SignedWith([call[t] EXCEPT !.pc = pc], store, decided)
      BY <1>0 DEF SignedWith, Call
    <3>2. QED
      BY <1>8, <2>2, <3>1, LocalStepSigned DEF SyncEvent
  <2>3. QED
    BY <1>8, <2>1, <2>2 DEF SyncEvent, Goto
<1>9. ASSUME SyncHandle(t)
      PROVE  SignedInv'
  <2> DEFINE e == chainLog[call[t].next]
             k == Handling(call[t], "sync", e.id, e.status, e.cid)
  <2>1. e.id \in Consents
    BY <1>0, <1>9, SyncFacts DEF SyncHandle, CallOK, Event
  <2>2. CASE Handles(store[e.id], e.status)
    <3>1. SignedWith(k, store, decided)
      BY <2>1, <2>2, HandlingSigned
    <3>2. QED
      BY <1>9, <2>2, <3>1, LocalStepSigned DEF SyncHandle
  <2>3. CASE ~Handles(store[e.id], e.status)
    BY <1>9, <2>3, ReturnSigned DEF SyncHandle
  <2>4. QED
    BY <2>2, <2>3
<1>10. QED
  BY <1>1, <1>2, <1>3, <1>4, <1>5, <1>6, <1>7, <1>8, <1>9 DEF Progress

LEMMA NextSignedInv ==
    ASSUME TypeInv, SignedInv, [Next]_vars
    PROVE  SignedInv'
<1> USE DEF storeVars, dirVars, history, mtVars
<1>1. ASSUME NEW t \in Calls, Fail(t)
      PROVE  SignedInv'
  BY <1>1, ReturnSigned
  DEF Fail, ReviewFails, OnTransactionUpdateFails, StoreFails, NetworkFails
<1>2. ASSUME Crash
      PROVE  SignedInv'
  <2>1. \A u \in Calls: call'[u] = call[u] \/ SignedWith(call'[u], store', decided')
    BY <1>2 DEF Crash, SignedWith, Idle, Busy
  <2>2. QED
    BY <1>2, <2>1, StepSigned DEF Crash
<1>3. ASSUME (\E c \in Expiring: Expire(c)) \/ UNCHANGED vars
      PROVE  SignedInv'
  BY <1>3, StepSigned DEF Expire, vars
<1>4. ASSUME MidTierStep
      PROVE  SignedInv'
  <2> USE DEF TypeInv, TypeOK, MidTierTypeOK
  <2>1. ASSUME NEW c \in Consents, GrantAdvances(c)
        PROVE  grantTx[c] # {}
    BY <2>1 DEF GrantAdvances, GrantFollows
  <2>2. \A c \in Consents: grantTx'[c] # {} => grantTx[c] # {}
    BY <1>4, <2>1 DEF MidTierStep, MidTierNext, GrantAdvances, LogsForeign, RevokeAdvances,
                      OtherPartyRevokes, ReceiveRevoke
  <2>3. QED
    BY <1>4, <2>2, StepSigned DEF MidTierStep
<1>5. QED
  BY <1>1, <1>2, <1>3, <1>4, StartSigned, ProgressSigned DEF Next

LEMMA SpecSigned == Spec => []SignedInv
<1>1. TypeInv /\ SignedInv /\ [Next]_vars => (TypeInv /\ SignedInv)'
  BY NextTypeInv, NextSignedInv
<1>2. QED
  BY InitTypeInv, InitSignedInv, <1>1, PTL DEF Spec

\* The mid-tier holds no grant nobody decided for, and none whose record is
\* not stored: no callback of it can find the record missing.
THEOREM GrantsAccounted == Spec => []GrantsAreAccounted
<1>1. SignedInv => GrantsAreAccounted
  BY DEF SignedInv
<1>2. QED
  BY SpecSigned, <1>1, PTL

\* No grant is submitted unsigned or signed twice by the engine.
THEOREM SignedOnce == Spec => []SubmittedSignedOnce
<1>1. SignedInv => SubmittedSignedOnce
  BY DEF SignedInv, SignedWith, SubmittedSignedOnce, At
<1>2. QED
  BY SpecSigned, <1>1, PTL

=============================================================================
