----------------------- MODULE ConsentEngineSerialProofs -----------------------
(***************************************************************************)
(* What holds of the engine as long as no two calls are between the read   *)
(* and the write of the same record and no consent is delivered twice,     *)
(* however many calls run at once, whatever is lost, repeated, reordered   *)
(* or fails, and wherever the process dies.                                *)
(*                                                                         *)
(* Then the record that a call read is still the one in the store when the *)
(* copy is written back, so the guard that was tested on reading still     *)
(* holds on writing.  What a call does before and after may be overtaken   *)
(* by others, and the invariants below say what it can still rely on at    *)
(* each place it may be at.  Both conditions are needed: the runs race and *)
(* redelivery violate what is proved here without the one and without the  *)
(* other.                                                                  *)
(***************************************************************************)
EXTENDS ConsentEngineProofs

NoRedelivery == Redelivery = FALSE

\* What the mid-tier knows of a consent.
OnChain(c) ==
    \/ grantTx[c] # {}
    \/ \E r \in Revocations: revokeTx[r].of = c
    \/ \E i \in 1 .. Len(chainLog): chainLog[i].id = c

\* Neither undecided nor rejected.
Live(c) == store[c].status \in {"pending", "active", "revoked"}

\* About to announce a revocation.
Tells(k) == k.pc \in {"update", "revoked"} /\ k.status = "rev_confirmed"

\* What call k may still rely on. Between a read and the write that follows, the record
\* is the one that was read; before and after, others may write it, but not back.
HeldOK(k) ==
    /\ k.pc = "review" => k.op = "inbound" /\ store[k.id] = NoRecord
    /\ k.pc = "set" => k.op \in {"inbound", "approve", "reject", "callback", "sync"}
    /\ k.pc = "set" /\ k.op = "inbound" =>
          /\ store[k.id] = NoRecord
          /\ k.rec.status \in {"pending", "pending-review", "rejected"}
    /\ k.pc = "set" /\ k.op \in {"approve", "reject"} =>
          /\ store[k.id].status = "pending-review"
          /\ k.rec.status = IF k.op = "approve" THEN "pending" ELSE "rejected"
    /\ k.pc = "set" /\ k.op \in {"callback", "sync"} =>
          /\ Handles(store[k.id], k.status)
          /\ k.id \in Tracked => OnChain(k.id)
          /\ \E cid \in Consents \union Revocations:
                k.rec = ApplyStatus(store[k.id], k.status, cid)
    /\ k.pc \in {"submit_grant", "submit_revoke"} => Live(k.id)
    /\ Tells(k) => store[k.id].status = "revoked" /\ notices[k.id] = 0

\* Two calls on one record neither ingest it both nor announce its revocation both.
ApartFrom(k, l) ==
    k.id = l.id =>
        /\ ~(k.op = "inbound" /\ l.op = "inbound")
        /\ ~(Tells(k) /\ Tells(l))

\* The mid-tier has nothing of a tracked consent that is undecided or rejected, and a
\* revocation was announced once at most, after it was recorded.
LifeInv ==
    /\ \A c \in Tracked: OnChain(c) => Live(c)
    /\ \A c \in Consents: /\ notices[c] <= 1
                          /\ notices[c] = 1 => store[c].status = "revoked"
    /\ \A t \in Calls: HeldOK(call[t])
    /\ \A t, u \in Calls: t # u => ApartFrom(call[t], call[u])

ReflectedTo(n) == \A i \in 1 .. n: chainLog[i].id \in Tracked => Reflects(chainLog[i])

\* A sync has reflected every event before the one it is at, and that one as well once
\* it is written or skipped.
SyncOK(k) ==
    k.op = "sync" =>
        /\ k.next - 1 <= Len(chainLog)
        /\ ReflectedTo(k.next - 1)
        /\ k.pc \in {"set", "update", "revoked"} =>
              k.id = chainLog[k.next].id /\ k.status = chainLog[k.next].status
        /\ k.pc \in {"update", "revoked", "advance"} => ReflectedTo(k.next)

SyncInv ==
    /\ cursor <= Len(chainLog)
    /\ SyncedIsReflected
    /\ \A t \in Calls: SyncOK(call[t])

\* The report that a revocation is pinned comes before the report of its confirmation.
PinnedFirst ==
    /\ \A r \in Revocations:
          "rev_submitted" \in revokeTx[r].reached => "rev_ipfs_live" \in revokeTx[r].reached
    /\ \A r \in Revocations:
          "rev_ipfs_live" \in revokeTx[r].reached =>
             \E i \in 1 .. Len(chainLog): /\ chainLog[i].id = revokeTx[r].of
                                          /\ chainLog[i].status = "rev_ipfs_live"
    /\ \A i \in 1 .. Len(chainLog):
          chainLog[i].status = "rev_confirmed" =>
             \E j \in 1 .. i - 1: /\ chainLog[j].id = chainLog[i].id
                                  /\ chainLog[j].status = "rev_ipfs_live"

\* The CID of a revocation of consent c that was published.
Published(cid, c) ==
    /\ cid \in Revocations
    /\ revokeTx[cid].of = c
    /\ "rev_ipfs_live" \in revokeTx[cid].reached

\* The record a sync revokes has the CID of such a revocation.
KnowsCID(k) ==
    /\ k.op = "sync" /\ k.pc \in {"set", "update", "revoked"}
    /\ k.status = "rev_confirmed" /\ k.id \in Tracked
    => Published(k.rec.revokeCID, k.id)

CIDInv ==
    /\ PinnedFirst
    /\ \A t \in Calls: KnowsCID(call[t])

-----------------------------------------------------------------------------
(* The chain has nothing new of a consent nobody submitted *)

\* What is new in the log is about c.
LogGrows(c) ==
    \A i \in 1 .. Len(chainLog'):
        \/ i \in 1 .. Len(chainLog) /\ chainLog'[i] = chainLog[i]
        \/ chainLog'[i].id = c

LEMMA LogGrowth ==
    ASSUME MidTierInv, NEW c \in Consents, NEW s \in TransactionStatuses \union {Foreign},
           NEW cid \in Consents \union Revocations, Log(c, s, cid)
    PROVE  LogGrows(c)
<1>1. /\ \A i \in 1 .. Len(chainLog): chainLog'[i] = chainLog[i]
      /\ \A i \in 1 .. Len(chainLog'):
            \/ i \in 1 .. Len(chainLog)
            \/ chainLog'[i] = [id |-> c, status |-> s, cid |-> cid]
  BY LogFacts
<1>2. QED
  BY <1>1 DEF LogGrows

LEMMA MidTierOnChain ==
    ASSUME MidTierInv, MidTierNext
    PROVE  \A c \in Consents: OnChain(c)' => OnChain(c)
<1> USE DEF MidTierInv, MidTierTypeOK
<1>1. ASSUME NEW d \in Consents, GrantAdvances(d)
      PROVE  \A c \in Consents: OnChain(c)' => OnChain(c)
  <2>1. PICK s \in GrantFollows(grantTx[d]) \ grantTx[d]:
           /\ grantTx' = [grantTx EXCEPT ![d] = @ \union {s}]
           /\ Log(d, s, d)
           /\ UNCHANGED revokeTx
    BY <1>1 DEF GrantAdvances
  <2>2. s \in TransactionStatuses \union {Foreign}
    BY <2>1, GrantEndsAssumption, StatusFacts DEF GrantFollows, GrantStatuses
  <2>3. grantTx[d] # {}
    BY <2>1 DEF GrantFollows
  <2>4. LogGrows(d)
    BY <2>1, <2>2, LogGrowth
  <2>5. QED
    BY <2>1, <2>3, <2>4 DEF OnChain, LogGrows
<1>2. ASSUME NEW d \in Consents, LogsForeign(d)
      PROVE  \A c \in Consents: OnChain(c)' => OnChain(c)
  <2>1. LogGrows(d)
    BY <1>2, LogGrowth DEF LogsForeign
  <2>2. QED
    BY <1>2, <2>1 DEF OnChain, LogsForeign, LogGrows
<1>3. ASSUME NEW r \in Revocations, RevokeAdvances(r)
      PROVE  \A c \in Consents: OnChain(c)' => OnChain(c)
  <2> DEFINE d == revokeTx[r].of
  <2>1. PICK s \in RevokeFollows(revokeTx[r].reached) \ revokeTx[r].reached:
           /\ revokeTx' = [revokeTx EXCEPT ![r].reached = @ \union {s}]
           /\ Log(d, s, r)
           /\ UNCHANGED grantTx
    BY <1>3 DEF RevokeAdvances
  <2>2. s \in TransactionStatuses \union {Foreign} /\ d \in Consents
    BY <2>1, StatusFacts DEF RevokeFollows, RevokeStatuses
  <2>3. \A x \in Revocations: revokeTx'[x].of = revokeTx[x].of
    BY <2>1 DEF Revocation
  <2>4. LogGrows(d)
    BY <2>1, <2>2, LogGrowth
  <2>5. QED
    BY <2>1, <2>3, <2>4 DEF OnChain, LogGrows
<1>4. ASSUME NEW r \in Revocations, NEW d \in Consents, OtherPartyRevokes(r, d)
      PROVE  \A c \in Consents: OnChain(c)' => OnChain(c)
  <2>1. grantTx[d] # {} /\ UNCHANGED <<grantTx, chainLog>>
    BY <1>4 DEF OtherPartyRevokes, ReceiveRevoke
  <2>2. \A x \in Revocations: revokeTx'[x].of \in {revokeTx[x].of, d}
    BY <1>4 DEF OtherPartyRevokes, ReceiveRevoke
  <2>3. QED
    BY <2>1, <2>2 DEF OnChain
<1>5. QED
  BY <1>1, <1>2, <1>3, <1>4 DEF MidTierNext

\* What is on chain stays there.
LEMMA StillOnChain ==
    ASSUME MidTierInv, ChainGrows, NEW c \in Consents, OnChain(c)
    PROVE  OnChain(c)'
<1> USE DEF MidTierInv, MidTierTypeOK, ChainGrows
<1>1. CASE grantTx[c] # {}
  BY <1>1 DEF OnChain
<1>2. ASSUME NEW r \in Revocations, revokeTx[r].of = c
      PROVE  OnChain(c)'
  BY <1>2 DEF OnChain
<1>3. ASSUME NEW i \in 1 .. Len(chainLog), chainLog[i].id = c
      PROVE  OnChain(c)'
  <2>1. i \in 1 .. Len(chainLog') /\ chainLog'[i] = chainLog[i]
    OBVIOUS
  <2>2. QED
    BY <1>3, <2>1 DEF OnChain
<1>4. QED
  BY <1>1, <1>2, <1>3 DEF OnChain

-----------------------------------------------------------------------------
(* No write undoes another *)

LEMMA InitLifeInv == Init => LifeInv
<1> SUFFICES ASSUME Init PROVE LifeInv
  OBVIOUS
<1> USE DEF Init, MidTierInit
<1>1. ASSUME NEW c \in Tracked PROVE ~OnChain(c)
  BY NoCIDAssumption DEF OnChain, Tracked, Preexisting, NoRevocation
<1>2. QED
  BY <1>1 DEF LifeInv, HeldOK, Tells, ApartFrom, Idle, Busy

\* A step of one call leaves the others where they are.
LEMMA OneCallMoves ==
    ASSUME TypeInv, NEW t \in Calls, NEW k, call' = [call EXCEPT ![t] = k]
    PROVE  call'[t] = k /\ \A u \in Calls: u # t => call'[u] = call[u]
BY DEF TypeInv, TypeOK

\* What is to be shown of a step of one call.
LEMMA LifeParts ==
    ASSUME TypeInv, LifeInv, NEW t \in Calls, NEW k, call' = [call EXCEPT ![t] = k],
           HeldOK(k)',
           \A u \in Calls: u # t => HeldOK(call[u])' /\ ApartFrom(k, call[u]),
           \A c \in Tracked: OnChain(c)' => Live(c)',
           \A c \in Consents: notices'[c] <= 1 /\ (notices'[c] = 1 => store'[c].status = "revoked")
    PROVE  LifeInv'
<1>1. call'[t] = k /\ \A u \in Calls: u # t => call'[u] = call[u]
  BY OneCallMoves
<1>2. \A u \in Calls: HeldOK(call[u])'
  BY <1>1
<1>3. \A u, v \in Calls: u # v => ApartFrom(call'[u], call'[v])
  BY <1>1 DEF LifeInv, ApartFrom
<1>4. (\A u, v \in Calls: u # v => ApartFrom(call[u], call[v]))'
  BY <1>3 DEF ApartFrom, Tells
<1>5. QED
  BY <1>2, <1>4 DEF LifeInv, Tracked

\* k ingests or announces nothing that l did not.
Continues(k, l) ==
    /\ k.op = "inbound" => l.op = "inbound" /\ k.id = l.id
    /\ Tells(k) => Tells(l) /\ k.id = l.id

LEMMA StaysApart ==
    ASSUME LifeInv, NEW t \in Calls, NEW k, Continues(k, call[t])
    PROVE  \A u \in Calls: u # t => ApartFrom(k, call[u])
BY DEF LifeInv, Continues, ApartFrom

\* A step of a call that leaves the mid-tier, the store and the history alone.
LEMMA LocalLife ==
    ASSUME TypeInv, LifeInv, NEW t \in Calls, NEW k, HeldOK(k),
           \/ Continues(k, call[t])
           \/ \A u \in Calls: u # t => ApartFrom(k, call[u]),
           call' = [call EXCEPT ![t] = k], UNCHANGED <<mtVars, store, notices>>
    PROVE  LifeInv'
<1>1. \A l: HeldOK(l) => HeldOK(l)'
  BY DEF HeldOK, OnChain, Live, Tells, mtVars
<1>2. \A c \in Consents: OnChain(c)' => OnChain(c)
  BY DEF OnChain, mtVars
<1>3. \A u \in Calls: u # t => HeldOK(call[u])'
  BY <1>1, OneCallMoves DEF LifeInv
<1>4. \A c \in Tracked: OnChain(c)' => Live(c)'
  BY <1>2 DEF LifeInv, Live, Tracked
<1>5. \A u \in Calls: u # t => ApartFrom(k, call[u])
  BY StaysApart
<1>6. HeldOK(k)'
  BY <1>1
<1>7. \A c \in Consents: notices'[c] <= 1 /\ (notices'[c] = 1 => store'[c].status = "revoked")
  BY DEF LifeInv
<1>8. QED
  BY <1>3, <1>4, <1>5, <1>6, <1>7, LifeParts

\* Steps that may move the mid-tier, and of the calls only end some.
LEMMA ChainStepLife ==
    ASSUME TypeInv, LifeInv, ChainGrows, UNCHANGED <<store, notices>>,
           \A u \in Calls: call'[u] \in {call[u], Idle},
           \A c \in Tracked: OnChain(c)' => OnChain(c) \/ Live(c)
    PROVE  LifeInv'
<1>1. ASSUME NEW u \in Calls
      PROVE  HeldOK(call[u])'
  <2>1. CASE call'[u] = Idle
    BY <2>1 DEF HeldOK, Tells, Idle, Busy
  <2>2. CASE call'[u] = call[u]
    <3>1. HeldOK(call[u])
      BY DEF LifeInv
    <3>2. \A c \in Consents: OnChain(c) => OnChain(c)'
      BY StillOnChain DEF TypeInv
    <3>3. QED
      BY <2>2, <3>1, <3>2 DEF HeldOK, Live, Tells, Tracked
  <2>3. QED
    BY <2>1, <2>2
<1>2. \A u, v \in Calls: u # v => ApartFrom(call[u], call[v])'
  BY DEF LifeInv, ApartFrom, Tells, Idle, Busy
<1>3. QED
  BY <1>1, <1>2 DEF LifeInv, Live, Tracked

LEMMA ReturnLife ==
    ASSUME TypeInv, LifeInv, NEW t \in Calls, Return(t),
           UNCHANGED <<mtVars, storeVars, dirVars, expired, history>>
    PROVE  LifeInv'
<1>1. HeldOK(Idle) /\ Continues(Idle, call[t])
  BY DEF HeldOK, Continues, Tells, Idle, Busy
<1>2. QED
  BY <1>1, LocalLife DEF Return, Become, storeVars, history

\* What a report may be handled of is on chain.
LEMMA CallbackOnChain ==
    ASSUME MidTierInv, NEW c \in Consents, NEW m \in Callbacks(c)
    PROVE  OnChain(c) /\ m.cid \in Consents \union Revocations
<1>1. CASE m \in {[status |-> s, cid |-> c] : s \in grantTx[c] \intersect Reported}
  BY <1>1 DEF OnChain
<1>2. ASSUME NEW r \in {x \in Revocations : revokeTx[x].of = c},
             m \in {[status |-> s, cid |-> r] : s \in revokeTx[r].reached \intersect Reported}
      PROVE  OnChain(c) /\ m.cid \in Revocations
  BY <1>2 DEF OnChain
<1>3. QED
  BY <1>1, <1>2 DEF Callbacks

LEMMA HandlingLife ==
    ASSUME NEW k, NEW l, NEW op \in {"callback", "sync"}, NEW c \in Consents, NEW s,
           NEW cid \in Consents \union Revocations,
           Handles(store[c], s), OnChain(c)
    PROVE  HeldOK(Handling(k, op, c, s, cid)) /\ Continues(Handling(k, op, c, s, cid), l)
BY DEF HeldOK, Continues, Tells, Handling

LEMMA StartLife ==
    ASSUME NoRedelivery, TypeInv, LifeInv, NEW t \in Calls, Start(t)
    PROVE  LifeInv'
<1> USE DEF TypeInv, TypeOK, Become, storeVars, history
<1>1. ASSUME \/ \E c \in Consents: InboundGarbage(t, c)
             \/ \E p \in Parties: HandleXpubRequestByDID(t, p)
      PROVE  LifeInv'
  <2>1. call' = [call EXCEPT ![t] = call[t]] /\ HeldOK(call[t])
    BY <1>1 DEF InboundGarbage, HandleXpubRequestByDID, LifeInv
  <2>2. QED
    BY <1>1, <2>1, LocalLife DEF InboundGarbage, HandleXpubRequestByDID, Continues
<1>2. ASSUME NEW c \in Consents, InboundReceive(t, c)
      PROVE  LifeInv'
  <2>1. PICK k \in {call[t], Busy("inbound", "review", c, NoRecord)}:
           call' = [call EXCEPT ![t] = k]
    BY <1>2 DEF InboundReceive
  <2>2. store[c] = NoRecord /\ \A u \in Calls: call[u].op = "inbound" => call[u].id # c
    BY <1>2 DEF InboundReceive, FirstDelivery, NoRedelivery
  <2>3. HeldOK(k)
    BY <2>1, <2>2 DEF HeldOK, Tells, Busy, LifeInv
  <2>4. Continues(k, call[t]) \/ \A u \in Calls: ApartFrom(k, call[u])
    BY <2>1, <2>2 DEF Continues, ApartFrom, Tells, Busy
  <2>5. QED
    BY <1>2, <2>1, <2>3, <2>4, LocalLife DEF InboundReceive
<1>3. ASSUME NEW c \in Consents, Approve(t, c)
      PROVE  LifeInv'
  <2> DEFINE k == Busy("approve", "set", c, [CounterSign(store[c]) EXCEPT !.status = "pending"])
  <2>1. HeldOK(k) /\ Continues(k, call[t])
    BY <1>3 DEF Approve, HeldOK, Continues, Tells, Busy, CounterSign, Record
  <2>2. QED
    BY <1>3, <2>1, LocalLife DEF Approve
<1>4. ASSUME NEW c \in Consents, Reject(t, c)
      PROVE  LifeInv'
  <2> DEFINE k == Busy("reject", "set", c, [store[c] EXCEPT !.status = "rejected"])
  <2>1. HeldOK(k) /\ Continues(k, call[t])
    BY <1>4 DEF Reject, HeldOK, Continues, Tells, Busy, Record
  <2>2. QED
    BY <1>4, <2>1, LocalLife DEF Reject
<1>5. ASSUME NEW c \in Consents, Callback(t, c)
      PROVE  LifeInv'
  <2>1. PICK m \in Callbacks(c):
           /\ Handles(store[c], m.status)
           /\ Become(t, Handling(call[t], "callback", c, m.status, m.cid))
    BY <1>5 DEF Callback
  <2> DEFINE k == Handling(call[t], "callback", c, m.status, m.cid)
  <2>2. HeldOK(k) /\ Continues(k, call[t])
    BY <2>1, CallbackOnChain, HandlingLife
  <2>3. QED
    BY <1>5, <2>1, <2>2, LocalLife DEF Callback
<1>6. ASSUME NEW c \in Consents, Revoke(t, c)
      PROVE  LifeInv'
  <2>1. PICK r \in FreshRevocations:
           Become(t, [Busy("revoke", "submit_revoke", c, store[c]) EXCEPT !.sealed = r])
    BY <1>6 DEF Revoke
  <2> DEFINE k == [Busy("revoke", "submit_revoke", c, store[c]) EXCEPT !.sealed = r]
  <2>2. HeldOK(k) /\ Continues(k, call[t])
    BY <1>6 DEF Revoke, HeldOK, Live, Continues, Tells, Busy
  <2>3. QED
    BY <1>6, <2>1, <2>2, LocalLife DEF Revoke
<1>7. ASSUME SyncStart(t)
      PROVE  LifeInv'
  <2>1. HeldOK(Passing("fetch", cursor + 1, 0)) /\ Continues(Passing("fetch", cursor + 1, 0), call[t])
    BY DEF HeldOK, Continues, Tells, Passing
  <2>2. QED
    BY <1>7, <2>1, LocalLife DEF SyncStart
<1>8. QED
  BY <1>1, <1>2, <1>3, <1>4, <1>5, <1>6, <1>7 DEF Start

\* What the write of a record does to that record.
LEMMA WriteFacts ==
    ASSUME TypeInv, LifeInv, NEW t \in Calls, StoreSet(t)
    PROVE  LET k == call[t]
               c == k.id
           IN /\ k \in Call /\ HeldOK(k) /\ k.pc = "set" /\ c \in Consents
              /\ store' = [store EXCEPT ![c] = k.rec]
              /\ store[c] \in Record /\ ~IsTerminal(store[c])
              /\ \/ /\ k.op \in {"inbound", "approve", "reject"}
                    /\ ~Live(c) /\ k.rec.status \in {"pending", "pending-review", "rejected"}
                    /\ k.op = "inbound" \/ store[c] # NoRecord
                 \/ /\ k.op \in {"callback", "sync"}
                    /\ k.rec.status \in {store[c].status, "active", "revoked"}
                    /\ k.status = "rev_confirmed" => k.rec.status = "revoked"
                    /\ c \in Tracked => Live(c)
                    /\ store[c] # NoRecord
<1> DEFINE k == call[t]
           c == k.id
<1>1. /\ k \in Call /\ HeldOK(k) /\ k.pc = "set" /\ c \in Consents
      /\ store' = [store EXCEPT ![c] = k.rec] /\ store[c] \in Record
  BY DEF TypeInv, TypeOK, LifeInv, CallOK, Busys, StoreSet, At
<1>2. CASE k.op \in {"inbound", "approve", "reject"}
  BY <1>1, <1>2 DEF HeldOK, Live, NoRecord, IsTerminal, TerminalStatuses, Unknown
<1>3. CASE k.op \in {"callback", "sync"}
  <2>1. PICK cid \in Consents \union Revocations:
           k.rec = ApplyStatus(store[c], k.status, cid)
    BY <1>1, <1>3 DEF HeldOK
  <2>2. /\ k.rec.status \in {store[c].status, "active", "revoked"}
        /\ k.status = "rev_confirmed" => k.rec.status = "revoked"
    BY <1>1, <2>1 DEF ApplyStatus, Record
  <2>3. Handles(store[c], k.status) /\ (c \in Tracked => Live(c))
    BY <1>1, <1>3 DEF HeldOK, LifeInv
  <2>4. QED
    BY <1>1, <1>3, <2>2, <2>3 DEF Handles
<1>4. QED
  BY <1>1, <1>2, <1>3 DEF HeldOK

\* A consent that is live stays so, and what is revoked or missing is not touched by a
\* write that does not ingest it.
LEMMA OthersHold ==
    ASSUME OneWriter, TypeInv, LifeInv, NEW t \in Calls, StoreSet(t),
           NEW u \in Calls, u # t, call'[u] = call[u]
    PROVE  HeldOK(call[u])'
<1>0. store \in [Consents -> Record] /\ UNCHANGED <<grantTx, revokeTx, chainLog, notices>>
  BY DEF StoreSet, mtVars, history, TypeInv, TypeOK
<1>1. PICK l \in Call: l = call[u] /\ l = call'[u] /\ CallOK(l) /\ HeldOK(l)
  BY DEF TypeInv, TypeOK, LifeInv
<1>2. PICK k \in Call, c \in Consents:
         /\ k = call[t] /\ c = k.id /\ k.pc = "set"
         /\ store' = [store EXCEPT ![c] = k.rec]
         /\ ~IsTerminal(store[c])
         /\ k.op = "inbound" \/ store[c] # NoRecord
         /\ Live(c) => k.rec.status \in {store[c].status, "active", "revoked"}
  BY WriteFacts
<1> SUFFICES HeldOK(l)'
  BY <1>1
<1>3. CASE l.pc \notin Busys
  BY <1>3 DEF HeldOK, Tells, Busys
<1>4. CASE l.pc \in Busys /\ l.id # c
  <2>1. l.id \in Consents /\ store'[l.id] = store[l.id]
    BY <1>0, <1>1, <1>2, <1>4 DEF CallOK
  <2>2. QED
    BY <1>0, <1>1, <2>1 DEF HeldOK, Tells, Live, OnChain
<1>5. CASE l.pc \in Busys /\ l.id = c
  <2>1. l.pc # "set"
    BY <1>1, <1>2, <1>5 DEF OneWriter, At
  <2>2. l.pc # "review"
    <3>1. ~(l.op = "inbound" /\ k.op = "inbound")
      BY <1>1, <1>2, <1>5 DEF LifeInv, ApartFrom
    <3>2. QED
      BY <1>1, <1>2, <1>5, <3>1 DEF HeldOK
  <2>3. ~Tells(l)
    BY <1>1, <1>2, <1>5 DEF HeldOK, IsTerminal, TerminalStatuses
  <2>4. Live(c) => Live(c)'
    BY <1>0, <1>2 DEF Live
  <2>5. QED
    BY <1>1, <1>5, <2>1, <2>2, <2>3, <2>4 DEF HeldOK, Tells
<1>6. QED
  BY <1>3, <1>4, <1>5

\* One record is replaced, and the call goes on where it does not write again.
LEMMA WrittenLife ==
    ASSUME OneWriter, TypeInv, LifeInv, NEW t \in Calls, StoreSet(t)
    PROVE  LifeInv'
<1>0. PICK k \in Call, c \in Consents:
         /\ k = call[t] /\ c = k.id /\ k.pc = "set"
         /\ store' = [store EXCEPT ![c] = k.rec]
         /\ ~IsTerminal(store[c])
         /\ Live(c) => k.rec.status \in {store[c].status, "active", "revoked"}
         /\ k.op \in {"callback", "sync"} /\ k.status = "rev_confirmed" => k.rec.status = "revoked"
  BY WriteFacts
<1>1. /\ store'[c] = k.rec /\ store[c].status # "revoked"
      /\ UNCHANGED <<grantTx, revokeTx, chainLog, notices>>
  BY <1>0 DEF StoreSet, mtVars, history, IsTerminal, TerminalStatuses, TypeInv, TypeOK
<1>2. \A d \in Consents: OnChain(d)' => OnChain(d)
  BY <1>1 DEF OnChain
<1>3. PICK after: after = AfterSet(k) /\ call' = [call EXCEPT ![t] = after]
  BY <1>0 DEF StoreSet, Become
<1>4. notices[c] = 0
  BY <1>1 DEF LifeInv, TypeInv, TypeOK
<1>5. Live(c) => Live(c)'
  BY <1>0, <1>1 DEF Live
<1>6. \/ after = Idle
      \/ after = [k EXCEPT !.pc = "update"] /\ k.op \in {"callback", "sync"}
      \/ after = [k EXCEPT !.pc = "submit_grant"] /\ k.rec.status = "pending"
  BY <1>3 DEF AfterSet
<1>7. HeldOK(after)'
  <2>1. CASE after = Idle
    BY <2>1 DEF HeldOK, Tells, Idle, Busy
  <2>2. CASE after = [k EXCEPT !.pc = "update"] /\ k.op \in {"callback", "sync"}
    BY <1>0, <1>1, <1>4, <2>2 DEF HeldOK, Tells, Call
  <2>3. CASE after = [k EXCEPT !.pc = "submit_grant"] /\ k.rec.status = "pending"
    BY <1>0, <1>1, <2>3 DEF HeldOK, Tells, Call, Live
  <2>4. QED
    BY <1>6, <2>1, <2>2, <2>3
<1>8. ASSUME NEW u \in Calls, u # t
      PROVE  HeldOK(call[u])' /\ ApartFrom(after, call[u])
  <2>1. HeldOK(call[u])'
    BY <1>3, <1>8, OneCallMoves, OthersHold
  <2>2. ApartFrom(k, call[u])
    BY <1>0, <1>8 DEF LifeInv
  <2>3. Tells(call[u]) => call[u].id # c
    BY <1>1 DEF LifeInv, HeldOK
  <2>4. (after.op = "none" /\ ~Tells(after)) \/ (after.id = c /\ after.op = k.op)
    BY <1>0, <1>6 DEF Call, Idle, Busy, Tells
  <2>5. QED
    BY <1>0, <2>1, <2>2, <2>3, <2>4 DEF ApartFrom
<1>9. \A d \in Tracked: OnChain(d)' => Live(d)'
  <2>1. \A d \in Consents: Live(d) => Live(d)'
    BY <1>0, <1>1, <1>5 DEF Live, TypeInv, TypeOK
  <2>2. QED
    BY <1>2, <2>1 DEF LifeInv, Tracked
<1>10. \A d \in Consents: notices'[d] <= 1 /\ (notices'[d] = 1 => store'[d].status = "revoked")
  BY <1>0, <1>1, <1>4 DEF LifeInv, TypeInv, TypeOK
<1>11. QED
  BY <1>3, <1>7, <1>8, <1>9, <1>10, LifeParts

\* The one call that may announce a revocation does it.
LEMMA AnnouncedLife ==
    ASSUME TypeInv, BackedInv, LifeInv, NEW t \in Calls, OnConsentRevoked(t)
    PROVE  LifeInv'
<1> DEFINE c == call[t].id
<1>1. PICK k \in {Idle, Passing("advance", call[t].next, call[t].upto)}:
         call' = [call EXCEPT ![t] = k]
  BY DEF OnConsentRevoked, AfterHandler, Return, Become
<1>2. HeldOK(k)' /\ Continues(k, call[t])
  BY <1>1 DEF HeldOK, Continues, Tells, Idle, Busy, Passing
<1>3. Tells(call[t]) /\ call[t].pc \in Busys
  BY DEF OnConsentRevoked, At, Tells, BackedInv, CallBacked, Busys
<1>4. c \in Consents /\ store[c].status = "revoked" /\ notices[c] = 0
  BY <1>3 DEF LifeInv, HeldOK, TypeInv, CallOK
<1>5. /\ notices' = [notices EXCEPT ![c] = 1] /\ notices \in [Consents -> 0 .. 2]
      /\ UNCHANGED <<store, grantTx, revokeTx, chainLog>>
  BY <1>4 DEF OnConsentRevoked, storeVars, mtVars, TypeInv, TypeOK
<1>6. ASSUME NEW u \in Calls, u # t
      PROVE  HeldOK(call[u])'
  <2>1. PICK l: l = call[u] /\ l = call'[u] /\ HeldOK(l) /\ CallOK(l)
    BY <1>1, <1>6, OneCallMoves DEF LifeInv, TypeInv
  <2>2. Tells(l) => l.id # c /\ l.id \in Consents
    BY <1>3, <1>6, <2>1 DEF LifeInv, ApartFrom, CallOK, Busys, Tells
  <2>3. Tells(l) => notices'[l.id] = notices[l.id]
    BY <1>5, <2>2
  <2>4. HeldOK(l)'
    BY <1>5, <2>1, <2>3 DEF HeldOK, Live, OnChain, Tells
  <2>5. QED
    BY <2>1, <2>4
<1>7. \A d \in Consents: notices'[d] <= 1 /\ (notices'[d] = 1 => store'[d].status = "revoked")
  BY <1>4, <1>5 DEF LifeInv
<1>8. \A d \in Tracked: OnChain(d)' => Live(d)'
  BY <1>5 DEF OnChain, Live, LifeInv
<1>9. QED
  BY <1>1, <1>2, <1>6, <1>7, <1>8, StaysApart, LifeParts

\* A request reaches the mid-tier: of a consent that is live.
LEMMA SubmittedLife ==
    ASSUME TypeInv, LifeInv, NEW t \in Calls, SubmitGrant(t) \/ SubmitRevoke(t)
    PROVE  LifeInv'
<1>1. Live(call[t].id)
  BY DEF SubmitGrant, SubmitRevoke, At, LifeInv, HeldOK
<1>2. \A c \in Consents: OnChain(c)' => OnChain(c) \/ c = call[t].id
  <2>1. CASE SubmitGrant(t)
    BY <2>1 DEF SubmitGrant, ReceiveGrant, OnChain, TypeInv, TypeOK, MidTierTypeOK
  <2>2. CASE SubmitRevoke(t)
    <3>1. \A r \in Revocations: revokeTx'[r].of \in {revokeTx[r].of, call[t].id}
      BY <2>2 DEF SubmitRevoke, ReceiveRevoke, TypeInv, TypeOK, MidTierTypeOK
    <3>2. QED
      BY <2>2, <3>1 DEF SubmitRevoke, ReceiveRevoke, OnChain
  <2>3. QED
    BY <2>1, <2>2
<1>3. ChainGrows
  BY ProgressTypeInv DEF Progress
<1>4. \A u \in Calls: call'[u] \in {call[u], Idle}
  BY DEF SubmitGrant, SubmitRevoke, Return, Become, TypeInv, TypeOK
<1>5. UNCHANGED <<store, notices>>
  BY DEF SubmitGrant, SubmitRevoke, storeVars, history
<1>6. QED
  BY <1>1, <1>2, <1>3, <1>4, <1>5, ChainStepLife DEF Tracked

LEMMA ProgressLife ==
    ASSUME OneWriter, TypeInv, BackedInv, LifeInv, NEW t \in Calls, Progress(t)
    PROVE  LifeInv'
<1> USE DEF TypeInv, TypeOK, Become, At, storeVars, dirVars, history
<1>0. /\ call[t] \in Call /\ CallOK(call[t]) /\ HeldOK(call[t])
      /\ call[t].pc \in Busys => call[t].id \in Consents
  BY DEF CallOK, LifeInv
<1>1. ASSUME Review(t)
      PROVE  LifeInv'
  <2>1. PICK rec \in {CounterSign(NewRecord("pending", 0)), NewRecord("rejected", 0),
                      NewRecord("pending-review", 0)}:
           call' = [call EXCEPT ![t] = Busy("inbound", "set", call[t].id, rec)]
    BY <1>1 DEF Review
  <2>2. /\ HeldOK(Busy("inbound", "set", call[t].id, rec))
        /\ Continues(Busy("inbound", "set", call[t].id, rec), call[t])
    BY <1>0, <1>1 DEF Review, HeldOK, Continues, Tells, Busy, CounterSign, NewRecord
  <2>3. QED
    BY <1>1, <2>1, <2>2, LocalLife DEF Review
<1>2. ASSUME OnTransactionUpdate(t)
      PROVE  LifeInv'
  <2>1. PICK k \in {Idle, Passing("advance", call[t].next, call[t].upto),
                    [call[t] EXCEPT !.pc = "revoked"]}:
           call' = [call EXCEPT ![t] = k]
    BY <1>2 DEF OnTransactionUpdate, AfterHandler, Return, Goto
  <2>2. HeldOK(k) /\ Continues(k, call[t])
    BY <1>0, <1>2, <2>1
    DEF OnTransactionUpdate, HeldOK, Continues, Tells, Live, Idle, Busy, Passing, Call
  <2>3. QED
    BY <1>2, <2>1, <2>2, LocalLife DEF OnTransactionUpdate
<1>3. ASSUME SyncFetch(t) \/ SetSyncCursor(t)
      PROVE  LifeInv'
  <2>1. PICK k: HeldOK(k) /\ Continues(k, call[t]) /\ call' = [call EXCEPT ![t] = k]
    BY <1>3 DEF SyncFetch, SetSyncCursor, HeldOK, Continues, Tells, Passing
  <2>2. QED
    BY <1>3, <2>1, LocalLife DEF SyncFetch, SetSyncCursor
<1>4. ASSUME SyncDone(t)
      PROVE  LifeInv'
  BY <1>4, ReturnLife DEF SyncDone
<1>5. ASSUME SyncEvent(t)
      PROVE  LifeInv'
  <2>1. CASE Return(t)
    BY <1>5, <2>1, ReturnLife DEF SyncEvent
  <2>2. ASSUME NEW pc \in {"advance", "inner"},
               call' = [call EXCEPT ![t] = [call[t] EXCEPT !.pc = pc]]
        PROVE  LifeInv'
    <3>1. HeldOK([call[t] EXCEPT !.pc = pc]) /\ Continues([call[t] EXCEPT !.pc = pc], call[t])
      BY <1>0 DEF HeldOK, Continues, Tells, Call
    <3>2. QED
      BY <1>5, <2>2, <3>1, LocalLife DEF SyncEvent
  <2>3. QED
    BY <1>5, <2>1, <2>2 DEF SyncEvent, Goto
<1>6. ASSUME SyncHandle(t)
      PROVE  LifeInv'
  <2> DEFINE e == chainLog[call[t].next]
             k == Handling(call[t], "sync", e.id, e.status, e.cid)
  <2>1. e \in Event /\ call[t].next \in 1 .. Len(chainLog)
    BY <1>0, <1>6, SyncFacts DEF SyncHandle, CallOK
  <2>2. e.id \in Consents /\ e.cid \in Consents \union Revocations /\ OnChain(e.id)
    BY <2>1 DEF Event, OnChain
  <2>3. CASE Handles(store[e.id], e.status)
    <3>1. HeldOK(k) /\ Continues(k, call[t])
      BY <2>2, <2>3, HandlingLife
    <3>2. QED
      BY <1>6, <2>3, <3>1, LocalLife DEF SyncHandle
  <2>4. CASE ~Handles(store[e.id], e.status)
    BY <1>6, <2>4, ReturnLife DEF SyncHandle
  <2>5. QED
    BY <2>3, <2>4
<1>7. QED
  BY <1>1, <1>2, <1>3, <1>4, <1>5, <1>6, WrittenLife, AnnouncedLife, SubmittedLife
  DEF Progress

LEMMA NextLifeInv ==
    ASSUME OneWriter, NoRedelivery, TypeInv, BackedInv, LifeInv, [Next]_vars
    PROVE  LifeInv'
<1>1. ASSUME NEW t \in Calls, Fail(t)
      PROVE  LifeInv'
  BY <1>1, ReturnLife
  DEF Fail, ReviewFails, OnTransactionUpdateFails, StoreFails, NetworkFails
<1>2. ASSUME Crash \/ (\E c \in Expiring: Expire(c)) \/ MidTierStep \/ UNCHANGED vars
      PROVE  LifeInv'
  <2>1. ChainGrows
    BY NextTypeInv
  <2>2. /\ UNCHANGED <<store, notices>>
        /\ \A u \in Calls: call'[u] \in {call[u], Idle}
    BY <1>2 DEF Crash, Expire, MidTierStep, vars, storeVars, history
  <2>3. \A c \in Tracked: OnChain(c)' => OnChain(c)
    <3>1. CASE MidTierStep
      BY <3>1, MidTierOnChain DEF MidTierStep, TypeInv, Tracked
    <3>2. CASE UNCHANGED mtVars
      BY <3>2 DEF OnChain, mtVars
    <3>3. QED
      BY <1>2, <3>1, <3>2 DEF Crash, Expire, vars
  <2>4. QED
    BY <2>1, <2>2, <2>3, ChainStepLife
<1>3. QED
  BY <1>1, <1>2, StartLife, ProgressLife DEF Next

-----------------------------------------------------------------------------
(* The cursor passes nothing *)

LEMMA InitSyncInv == Init => SyncInv
<1> SUFFICES ASSUME Init PROVE SyncInv
  OBVIOUS
<1>1. Len(chainLog) \in Nat /\ cursor = 0
  BY InitialLogAssumption DEF Init, MidTierInit
<1>2. \A t \in Calls: SyncOK(call[t])
  BY DEF Init, SyncOK, Idle, Busy
<1>3. QED
  BY <1>1, <1>2 DEF SyncInv, SyncedIsReflected

\* Whatever is in the log of a tracked consent is about a live record.
LEMMA LoggedIsLive ==
    ASSUME TypeInv, LifeInv, NEW i \in 1 .. Len(chainLog), chainLog[i].id \in Tracked
    PROVE  Live(chainLog[i].id) /\ chainLog[i] \in Event
BY DEF TypeInv, TypeOK, MidTierTypeOK, LifeInv, OnChain

\* A record that shows a report shows it after every later write, and the write that
\* handles a report makes it show that one too.
LEMMA WrittenReflects ==
    ASSUME TypeInv, LifeInv, NEW t \in Calls, StoreSet(t),
           NEW i \in 1 .. Len(chainLog), chainLog[i].id \in Tracked,
           \/ Reflects(chainLog[i])
           \/ /\ call[t].op = "sync"
              /\ call[t].id = chainLog[i].id /\ call[t].status = chainLog[i].status
    PROVE  Reflects(chainLog[i])'
<1> USE DEF TypeInv, TypeOK
<1> DEFINE c == call[t].id
<1>1. PICK e \in Event: e = chainLog[i] /\ e = chainLog'[i] /\ Live(e.id)
  BY LoggedIsLive DEF StoreSet, mtVars
<1>2. /\ HeldOK(call[t]) /\ call[t].pc = "set" /\ c \in Consents
      /\ store' = [store EXCEPT ![c] = call[t].rec] /\ store[c] \in Record
  BY DEF StoreSet, At, LifeInv, CallOK, Busys
<1> SUFFICES Reflects(e)'
  BY <1>1
<1>3. CASE e.id # c
  <2>1. store'[e.id] = store[e.id]
    BY <1>2, <1>3
  <2>2. QED
    BY <1>1, <1>3, <2>1 DEF Reflects
<1>4. CASE e.id = c
  <2>1. call[t].op \in {"callback", "sync"}
    BY <1>1, <1>2, <1>4 DEF HeldOK, Live, NoRecord, Unknown
  <2>2. PICK cid \in Consents \union Revocations:
           store'[c] = ApplyStatus(store[c], call[t].status, cid)
    BY <1>2, <2>1 DEF HeldOK
  <2>3. cid # NoCID /\ ~IsTerminal(store[c]) /\ call[t].status \in TransactionStatuses
    BY <1>2, <2>1, NoCIDAssumption DEF HeldOK, Handles
  <2>4. Reflects(e) \/ e.status = call[t].status
    BY <1>1
  <2> DEFINE s == call[t].status
  <2>5. CASE s = "ipfs_live"
    <3>1. store'[c] = [store[c] EXCEPT !.cid = cid]
      BY <2>2, <2>5 DEF ApplyStatus
    <3>2. QED
      BY <1>2, <1>4, <2>3, <2>4, <2>5, <3>1 DEF Reflects, IsTerminal, Record
  <2>6. CASE s = "rev_ipfs_live"
    <3>1. store'[c] = [store[c] EXCEPT !.revokeCID = cid]
      BY <2>2, <2>6 DEF ApplyStatus
    <3>2. QED
      BY <1>2, <1>4, <2>3, <2>4, <2>6, <3>1 DEF Reflects, IsTerminal, Record
  <2>7. CASE s = "confirmed"
    <3>1. store'[c] = [store[c] EXCEPT !.status = "active"]
      BY <2>2, <2>7 DEF ApplyStatus
    <3>2. QED
      BY <1>2, <1>4, <2>3, <2>4, <2>7, <3>1 DEF Reflects, IsTerminal, Record
  <2>8. CASE s = "rev_confirmed"
    <3>1. store'[c] = [store[c] EXCEPT !.status = "revoked"]
      BY <2>2, <2>8 DEF ApplyStatus
    <3>2. QED
      BY <1>2, <1>4, <3>1 DEF Reflects, IsTerminal, TerminalStatuses, Record
  <2>9. CASE s \notin {"ipfs_live", "rev_ipfs_live", "confirmed", "rev_confirmed"}
    <3>1. store'[c] = store[c]
      BY <2>2, <2>9 DEF ApplyStatus
    <3>2. QED
      BY <1>4, <2>3, <2>4, <2>9, <3>1 DEF Reflects
  <2>10. QED
    BY <2>5, <2>6, <2>7, <2>8, <2>9
<1>5. QED
  BY <1>3, <1>4

\* A log that grows shows its old events where they were.
LEMMA StillReflected ==
    ASSUME TypeInv, ChainGrows, UNCHANGED store, NEW n \in Int, n <= Len(chainLog),
           ReflectedTo(n)
    PROVE  ReflectedTo(n)'
<1>1. ASSUME NEW i \in 1 .. n, chainLog'[i].id \in Tracked
      PROVE  Reflects(chainLog[i])'
  <2>1. chainLog'[i] = chainLog[i]
    BY DEF ChainGrows, TypeInv, TypeOK, MidTierTypeOK
  <2>2. Reflects(chainLog[i])
    BY <1>1, <2>1 DEF ReflectedTo
  <2>3. QED
    BY <2>1, <2>2 DEF Reflects
<1>2. QED
  BY <1>1 DEF ReflectedTo, Tracked

\* Again of steps that may move the mid-tier, and of the calls only end some.
LEMMA ChainStepSync ==
    ASSUME TypeInv, SyncInv, ChainGrows, UNCHANGED <<store, cursor>>,
           \A u \in Calls: call'[u] \in {call[u], Idle}
    PROVE  SyncInv'
<1> USE DEF TypeInv, TypeOK, MidTierTypeOK
<1>1. cursor' <= Len(chainLog')
  BY DEF SyncInv, ChainGrows
<1>2. SyncedIsReflected'
  <2>1. \A n \in Int: n <= Len(chainLog) /\ ReflectedTo(n) => ReflectedTo(n)'
    BY StillReflected
  <2>2. PICK n \in Int: n = cursor /\ n = cursor'
    OBVIOUS
  <2>3. ReflectedTo(n) /\ n <= Len(chainLog)
    BY <2>2 DEF SyncInv, SyncedIsReflected, ReflectedTo
  <2>4. QED
    BY <2>1, <2>2, <2>3 DEF SyncedIsReflected, ReflectedTo
<1>3. ASSUME NEW u \in Calls
      PROVE  SyncOK(call[u])'
  <2>1. CASE call'[u] = Idle
    BY <2>1 DEF SyncOK, Idle, Busy
  <2>2. CASE call'[u] = call[u]
    <3>1. PICK k \in Call: k = call[u] /\ k = call'[u] /\ CallOK(k) /\ SyncOK(k)
      BY <2>2 DEF SyncInv
    <3>2. CASE k.op = "sync"
      <4>1. /\ k.next \in Int /\ k.next - 1 <= Len(chainLog)
            /\ k.pc \in {"set", "update", "revoked", "advance"} =>
                  k.next \in 1 .. Len(chainLog)
        <5>1. /\ call[u].next \in Nat /\ call[u].upto \in Nat /\ Len(chainLog) \in Nat
              /\ call[u].upto <= Len(chainLog)
              /\ call[u].pc \notin {"fetch", "event"} => call[u].next <= call[u].upto
              /\ call[u].next # 0
          BY <3>1, <3>2, SyncFacts
        <5>2. QED
          BY <3>1, <3>2, <5>1 DEF SyncOK
      <4>2. ReflectedTo(k.next - 1)'
        BY <3>1, <3>2, <4>1, StillReflected DEF SyncOK
      <4>3. k.pc \in {"update", "revoked", "advance"} => ReflectedTo(k.next)'
        BY <3>1, <3>2, <4>1, StillReflected DEF SyncOK
      <4>4. k.pc \in {"set", "update", "revoked"} => chainLog'[k.next] = chainLog[k.next]
        BY <4>1 DEF ChainGrows
      <4>5. SyncOK(k)'
        BY <3>1, <3>2, <4>1, <4>2, <4>3, <4>4 DEF SyncOK, ChainGrows
      <4>6. QED
        BY <3>1, <4>5
    <3>3. QED
      BY <3>1, <3>2 DEF SyncOK
  <2>3. QED
    BY <2>1, <2>2
<1>4. QED
  BY <1>1, <1>2, <1>3 DEF SyncInv

\* A step of a call that leaves the mid-tier, the store and the cursor alone.
LEMMA LocalSync ==
    ASSUME TypeInv, SyncInv, NEW t \in Calls, NEW k, SyncOK(k),
           call' = [call EXCEPT ![t] = k], UNCHANGED <<mtVars, store, cursor>>
    PROVE  SyncInv'
<1>1. \A l: SyncOK(l) => SyncOK(l)'
  BY DEF SyncOK, ReflectedTo, Reflects, Tracked, mtVars
<1>2. SyncedIsReflected' /\ cursor' <= Len(chainLog')
  BY DEF SyncInv, SyncedIsReflected, Reflects, Tracked, mtVars
<1>3. \A u \in Calls: SyncOK(call[u])'
  BY <1>1, OneCallMoves DEF SyncInv
<1>4. QED
  BY <1>2, <1>3 DEF SyncInv

LEMMA ReturnSync ==
    ASSUME TypeInv, SyncInv, NEW t \in Calls, Return(t),
           UNCHANGED <<mtVars, storeVars, dirVars, expired, history>>
    PROVE  SyncInv'
<1>1. SyncOK(Idle)
  BY DEF SyncOK, Idle, Busy
<1>2. QED
  BY <1>1, LocalSync DEF Return, Become, storeVars

LEMMA StartSync ==
    ASSUME TypeInv, SyncInv, NEW t \in Calls, Start(t)
    PROVE  SyncInv'
<1> USE DEF Become, storeVars
<1>1. CASE SyncStart(t)
  <2>1. cursor \in Nat /\ Len(chainLog) \in Nat /\ cursor <= Len(chainLog)
    BY DEF TypeInv, TypeOK, MidTierTypeOK, SyncInv
  <2>2. ReflectedTo(cursor) /\ cursor + 1 - 1 = cursor
    BY <2>1 DEF SyncInv, SyncedIsReflected, ReflectedTo
  <2>3. SyncOK(Passing("fetch", cursor + 1, 0))
    BY <2>1, <2>2 DEF SyncOK, Passing
  <2>4. QED
    BY <1>1, <2>3, LocalSync DEF SyncStart
<1>2. CASE ~SyncStart(t)
  <2>1. PICK k: /\ k = call[t] \/ k.op # "sync"
                /\ call' = [call EXCEPT ![t] = k]
                /\ UNCHANGED <<mtVars, store, cursor>>
    <3>1. ASSUME \/ \E c \in Consents: InboundGarbage(t, c) \/ InboundReceive(t, c)
                 \/ \E p \in Parties: HandleXpubRequestByDID(t, p)
          PROVE  /\ call' \in {[call EXCEPT ![t] = call[t]]}
                              \union {[call EXCEPT ![t] = Busy("inbound", "review", c, NoRecord)] :
                                        c \in Consents}
                 /\ UNCHANGED <<mtVars, store, cursor>>
      BY <3>1 DEF InboundGarbage, InboundReceive, HandleXpubRequestByDID, TypeInv, TypeOK
    <3>2. ASSUME NEW c \in Consents, Approve(t, c) \/ Reject(t, c) \/ Callback(t, c) \/ Revoke(t, c)
          PROVE  /\ \E k: k.op # "sync" /\ call' = [call EXCEPT ![t] = k]
                 /\ UNCHANGED <<mtVars, store, cursor>>
      BY <3>2 DEF Approve, Reject, Callback, Revoke, Busy, Handling
    <3>3. QED
      BY <1>2, <3>1, <3>2 DEF Start, Busy
  <2>2. SyncOK(k)
    BY <2>1 DEF SyncOK, SyncInv
  <2>3. QED
    BY <2>1, <2>2, LocalSync
<1>3. QED
  BY <1>1, <1>2

LEMMA WrittenSync ==
    ASSUME TypeInv, LifeInv, SyncInv, NEW t \in Calls, StoreSet(t)
    PROVE  SyncInv'
<1> USE DEF TypeInv, TypeOK, MidTierTypeOK
<1>1. /\ call[t].pc = "set" /\ UNCHANGED <<chainLog, cursor>>
      /\ call[t] \in Call /\ CallOK(call[t]) /\ SyncOK(call[t])
  BY DEF StoreSet, At, mtVars, SyncInv
<1>2. ASSUME NEW n \in Int, n <= Len(chainLog), ReflectedTo(n)
      PROVE  ReflectedTo(n)'
  <2>1. ASSUME NEW i \in 1 .. n, chainLog'[i].id \in Tracked
        PROVE  Reflects(chainLog[i])'
    BY <1>1, <1>2, <2>1, WrittenReflects DEF ReflectedTo
  <2>2. QED
    BY <2>1 DEF ReflectedTo, Tracked
<1>3. cursor' <= Len(chainLog') /\ SyncedIsReflected'
  <2>1. PICK n \in Int: n = cursor /\ n = cursor'
    BY <1>1
  <2>2. ReflectedTo(n) /\ n <= Len(chainLog)
    BY <2>1 DEF SyncInv, SyncedIsReflected, ReflectedTo
  <2>3. QED
    BY <1>1, <1>2, <2>1, <2>2 DEF SyncedIsReflected, ReflectedTo
<1>4. PICK after: after = AfterSet(call[t]) /\ call' = [call EXCEPT ![t] = after]
  BY DEF StoreSet, Become
<1>5. SyncOK(after)'
  <2>1. CASE call[t].op = "sync"
    <3>1. PICK n \in Nat: n = call[t].next
      BY <1>1 DEF Call
    <3>2. n \in 1 .. Len(chainLog) /\ n - 1 \in Int
      BY <1>1, <2>1, <3>1, SyncFacts
    <3>3. /\ after.op = "sync" /\ after.pc = "update" /\ after.next = n
          /\ after.id = call[t].id /\ after.status = call[t].status
      BY <1>1, <1>4, <2>1, <3>1 DEF AfterSet, Call
    <3>4. /\ ReflectedTo(n - 1) /\ n - 1 <= Len(chainLog)
          /\ call[t].id = chainLog[n].id /\ call[t].status = chainLog[n].status
      BY <1>1, <2>1, <3>1 DEF SyncOK
    <3>5. ReflectedTo(n - 1)'
      BY <1>2, <3>2, <3>4
    <3>6. chainLog[n].id \in Tracked => Reflects(chainLog[n])'
      BY <2>1, <3>2, <3>4, WrittenReflects
    <3>7. ReflectedTo(n)'
      BY <1>1, <3>2, <3>5, <3>6 DEF ReflectedTo, Tracked
    <3>8. QED
      BY <1>1, <3>3, <3>4, <3>5, <3>7 DEF SyncOK
  <2>2. CASE call[t].op # "sync"
    BY <1>1, <1>4, <2>2 DEF AfterSet, SyncOK, Idle, Busy, Call
  <2>3. QED
    BY <2>1, <2>2
<1>6. ASSUME NEW u \in Calls, u # t
      PROVE  SyncOK(call[u])'
  <2>1. PICK k \in Call: k = call[u] /\ k = call'[u] /\ SyncOK(k)
    BY <1>4, <1>6, OneCallMoves DEF SyncInv
  <2>2. k.op = "sync" =>
           /\ k.next \in Nat /\ k.upto \in Nat /\ Len(chainLog) \in Nat
           /\ k.upto <= Len(chainLog)
           /\ k.pc \notin {"fetch", "event"} => k.next <= k.upto
    BY <2>1, SyncFacts
  <2>3. SyncOK(k)'
    BY <1>1, <1>2, <2>1, <2>2 DEF SyncOK
  <2>4. QED
    BY <2>1, <2>3
<1>7. \A u \in Calls: SyncOK(call[u])'
  BY <1>4, <1>5, <1>6, OneCallMoves
<1>8. QED
  BY <1>3, <1>7 DEF SyncInv

LEMMA ProgressSync ==
    ASSUME TypeInv, LifeInv, SyncInv, NEW t \in Calls, Progress(t)
    PROVE  SyncInv'
<1> USE DEF Become, At, storeVars
<1>0. /\ call[t] \in Call /\ CallOK(call[t]) /\ SyncOK(call[t])
      /\ cursor \in Nat /\ Len(chainLog) \in Nat
  BY DEF TypeInv, TypeOK, MidTierTypeOK, SyncInv
<1>1. ASSUME Review(t)
      PROVE  SyncInv'
  <2>1. PICK k: k.op # "sync" /\ call' = [call EXCEPT ![t] = k]
    BY <1>1 DEF Review, Busy
  <2>2. SyncOK(k)
    BY <2>1 DEF SyncOK
  <2>3. QED
    BY <1>1, <2>1, <2>2, LocalSync DEF Review
<1>2. ASSUME OnTransactionUpdate(t) \/ OnConsentRevoked(t)
      PROVE  SyncInv'
  <2>1. PICK k: /\ call' = [call EXCEPT ![t] = k]
                /\ \/ k = Idle
                   \/ k = [call[t] EXCEPT !.pc = "revoked"]
                   \/ k = Passing("advance", call[t].next, call[t].upto) /\ call[t].op = "sync"
    BY <1>2 DEF OnTransactionUpdate, OnConsentRevoked, AfterHandler, Return, Goto
  <2>2. SyncOK(k)
    BY <1>0, <1>2, <2>1
    DEF OnTransactionUpdate, OnConsentRevoked, SyncOK, Idle, Busy, Passing, Call
  <2>3. QED
    BY <1>2, <2>1, <2>2, LocalSync DEF OnTransactionUpdate, OnConsentRevoked
<1>3. ASSUME SubmitGrant(t) \/ SubmitRevoke(t)
      PROVE  SyncInv'
  <2>1. ChainGrows
    BY ProgressTypeInv
  <2>2. \A u \in Calls: call'[u] \in {call[u], Idle}
    BY <1>3 DEF SubmitGrant, SubmitRevoke, Return, TypeInv, TypeOK
  <2>3. QED
    BY <1>3, <2>1, <2>2, ChainStepSync DEF SubmitGrant, SubmitRevoke
<1>4. ASSUME SyncFetch(t)
      PROVE  SyncInv'
  <2>1. SyncOK(Passing("event", call[t].next, LastEvent))
    BY <1>0, <1>4 DEF SyncFetch, SyncOK, Passing, CallOK
  <2>2. QED
    BY <1>4, <2>1, LocalSync DEF SyncFetch
<1>5. ASSUME SyncDone(t)
      PROVE  SyncInv'
  BY <1>5, ReturnSync DEF SyncDone
<1>6. ASSUME SyncEvent(t)
      PROVE  SyncInv'
  <2> DEFINE n == call[t].next
             rec == store[chainLog[n].id]
  <2>1. call[t].op = "sync"
    BY <1>0, <1>6 DEF SyncEvent, CallOK
  <2>2. n \in 1 .. Len(chainLog)
    <3>1. n \in Nat \ {0} /\ call[t].upto \in Nat /\ call[t].upto <= Len(chainLog)
      BY <2>1, SyncFacts
    <3>2. QED
      BY <1>0, <1>6, <3>1 DEF SyncEvent
  <2>3. CASE Return(t)
    BY <1>6, <2>3, ReturnSync DEF SyncEvent
  <2>4. CASE Goto(t, "inner")
    <3>1. SyncOK([call[t] EXCEPT !.pc = "inner"])
      BY <1>0 DEF SyncOK, Call
    <3>2. QED
      BY <1>6, <2>4, <3>1, LocalSync DEF SyncEvent, Goto
  <2>5. CASE Goto(t, "advance") /\ Skipped(rec)
    <3>1. chainLog[n].id \in Tracked => Reflects(chainLog[n])
      <4>1. chainLog[n].id \in Tracked => Live(chainLog[n].id)
        BY <2>2, LoggedIsLive
      <4>2. Skipped(rec) /\ rec.status \in {"pending", "active", "revoked"}
              => rec.status = "revoked"
        BY DEF Skipped, IsTerminal, TerminalStatuses, NoRecord, Unknown
      <4>3. QED
        BY <2>5, <4>1, <4>2 DEF Live, IsTerminal, TerminalStatuses, Reflects
    <3>2. ReflectedTo(n - 1) /\ n - 1 \in Int
      BY <1>0, <2>1, <2>2 DEF SyncOK
    <3>3. ReflectedTo(n)
      BY <2>2, <3>1, <3>2 DEF ReflectedTo
    <3>4. SyncOK([call[t] EXCEPT !.pc = "advance"])
      BY <1>0, <3>3 DEF SyncOK, Call
    <3>5. QED
      BY <1>6, <2>5, <3>4, LocalSync DEF SyncEvent, Goto
  <2>6. QED
    BY <1>6, <2>3, <2>4, <2>5 DEF SyncEvent
<1>7. ASSUME SyncHandle(t)
      PROVE  SyncInv'
  <2> DEFINE e == chainLog[call[t].next]
             k == Handling(call[t], "sync", e.id, e.status, e.cid)
  <2>1. call[t].op = "sync"
    BY <1>0, <1>7 DEF SyncHandle, CallOK
  <2>2. SyncOK(k)
    BY <1>0, <2>1 DEF SyncOK, Handling
  <2>3. CASE Handles(store[e.id], e.status)
    BY <1>7, <2>2, <2>3, LocalSync DEF SyncHandle
  <2>4. CASE ~Handles(store[e.id], e.status)
    BY <1>7, <2>4, ReturnSync DEF SyncHandle
  <2>5. QED
    BY <2>3, <2>4
<1>8. ASSUME SetSyncCursor(t)
      PROVE  SyncInv'
  <2>1. call[t].op = "sync" /\ call[t].pc = "advance"
    BY <1>0, <1>8 DEF SetSyncCursor, CallOK
  <2>2. PICK n \in 1 .. Len(chainLog): n = call[t].next
    <3>1. /\ call[t].next \in Nat \ {0} /\ call[t].upto \in Nat
          /\ call[t].next <= call[t].upto /\ call[t].upto <= Len(chainLog)
      BY <2>1, SyncFacts
    <3>2. QED
      BY <1>0, <3>1
  <2>3. ReflectedTo(n)
    BY <1>0, <2>1, <2>2 DEF SyncOK
  <2>4. PICK m \in {n, cursor}: cursor' = m
    BY <1>8, <2>2 DEF SetSyncCursor
  <2>5. SyncedIsReflected' /\ cursor' <= Len(chainLog')
    BY <1>0, <1>8, <2>3, <2>4
    DEF SyncInv, SetSyncCursor, mtVars, SyncedIsReflected, ReflectedTo, Reflects, Tracked
  <2>6. PICK k: k = Passing("event", n + 1, call[t].upto) /\ call' = [call EXCEPT ![t] = k]
    BY <1>8, <2>2 DEF SetSyncCursor
  <2>7. SyncOK(k)'
    <3>1. n + 1 - 1 = n /\ n <= Len(chainLog)
      BY <1>0
    <3>2. ReflectedTo(n)'
      BY <1>8, <2>3 DEF SetSyncCursor, mtVars, ReflectedTo, Reflects, Tracked
    <3>3. UNCHANGED chainLog
      BY <1>8 DEF SetSyncCursor, mtVars
    <3>4. QED
      BY <2>6, <3>1, <3>2, <3>3 DEF SyncOK, Passing
  <2>8. ASSUME NEW u \in Calls, u # t
        PROVE  SyncOK(call[u])'
    <3>1. PICK l: l = call[u] /\ l = call'[u] /\ SyncOK(l)
      BY <2>6, <2>8, OneCallMoves DEF SyncInv
    <3>2. SyncOK(l)'
      BY <1>8, <3>1 DEF SetSyncCursor, mtVars, SyncOK, ReflectedTo, Reflects, Tracked
    <3>3. QED
      BY <3>1, <3>2
  <2>9. \A u \in Calls: SyncOK(call[u])'
    BY <2>6, <2>7, <2>8, OneCallMoves
  <2>10. QED
    BY <2>5, <2>9 DEF SyncInv
<1>9. QED
  BY <1>1, <1>2, <1>3, <1>4, <1>5, <1>6, <1>7, <1>8, WrittenSync DEF Progress

LEMMA NextSyncInv ==
    ASSUME TypeInv, LifeInv, SyncInv, [Next]_vars
    PROVE  SyncInv'
<1>1. ASSUME NEW t \in Calls, Fail(t)
      PROVE  SyncInv'
  BY <1>1, ReturnSync
  DEF Fail, ReviewFails, OnTransactionUpdateFails, StoreFails, NetworkFails
<1>2. ASSUME Crash \/ (\E c \in Expiring: Expire(c)) \/ MidTierStep \/ UNCHANGED vars
      PROVE  SyncInv'
  <2>1. ChainGrows
    BY NextTypeInv
  <2>2. \A u \in Calls: call'[u] \in {call[u], Idle}
    BY <1>2 DEF Crash, Expire, MidTierStep, vars
  <2>3. UNCHANGED <<store, cursor>>
    BY <1>2 DEF Crash, Expire, MidTierStep, vars, storeVars
  <2>4. QED
    BY <2>1, <2>2, <2>3, ChainStepSync
<1>3. QED
  BY <1>1, <1>2, StartSync, ProgressSync DEF Next

-----------------------------------------------------------------------------
(* What that gives an application *)

SerialInv == TypeInv /\ BackedInv /\ LifeInv /\ SyncInv

LEMMA InitOneWriter == Init => OneWriter
BY DEF Init, OneWriter, At, Idle, Busy

LEMMA AtomicStep ==
    ASSUME OneWriter, [Next /\ OneWriter']_vars
    PROVE  [Next]_vars /\ OneWriter'
BY DEF OneWriter, At, vars

\* An application that runs one call at a time does what AtomicSpec asks of it.
LEMMA OneAtATimeIsAtomic ==
    ASSUME \A t, u \in Calls: t = u
    PROVE  Spec => AtomicSpec
<1>1. OneWriter'
  BY DEF OneWriter
<1>2. [Next]_vars => [Next /\ OneWriter']_vars
  BY <1>1
<1>3. QED
  BY <1>2, PTL DEF Spec, AtomicSpec

LEMMA SpecSerial ==
    ASSUME NoRedelivery
    PROVE  AtomicSpec => [](SerialInv /\ OneWriter)
<1>1. Init => SerialInv
  BY InitTypeInv, InitBackedInv, InitLifeInv, InitSyncInv DEF SerialInv
<1>2. OneWriter /\ SerialInv /\ [Next]_vars => SerialInv'
  BY NextTypeInv, NextBackedInv, NextLifeInv, NextSyncInv DEF SerialInv
<1>3. OneWriter /\ [Next /\ OneWriter']_vars => [Next]_vars /\ OneWriter'
  BY AtomicStep
<1>4. QED
  BY <1>1, <1>2, <1>3, InitOneWriter, PTL DEF AtomicSpec

\* OnConsentRevoked fires once for a consent, however often the revocation is reported.
THEOREM NoticeOnce ==
    ASSUME NoRedelivery
    PROVE  AtomicSpec => []RevokedNoticeOnce
<1>1. SerialInv => RevokedNoticeOnce
  BY DEF SerialInv, LifeInv, RevokedNoticeOnce
<1>2. QED
  BY SpecSerial, <1>1, PTL

\* What was rejected, by the reviewer or by the application, is never submitted.
THEOREM RejectedKeptBack ==
    ASSUME NoRedelivery
    PROVE  AtomicSpec => []RejectedNeverSubmitted
<1>1. SerialInv => RejectedNeverSubmitted
  BY DEF SerialInv, LifeInv, OnChain, Live, RejectedNeverSubmitted
<1>2. QED
  BY SpecSerial, <1>1, PTL

\* A sync leaves nothing behind its cursor that the store does not reflect.
THEOREM SyncedReflected ==
    ASSUME NoRedelivery
    PROVE  AtomicSpec => []SyncedIsReflected
<1>1. SerialInv => SyncedIsReflected
  BY DEF SerialInv, SyncInv
<1>2. QED
  BY SpecSerial, <1>1, PTL

\* The only steps that write a record or announce a revocation.
LEMMA QuietSteps ==
    ASSUME [Next]_vars, \A t \in Calls: ~StoreSet(t)
    PROVE  store' = store
<1>1. ASSUME NEW t \in Calls, Start(t) \/ Progress(t) \/ Fail(t)
      PROVE  store' = store
  BY <1>1
  DEF Start, InboundGarbage, InboundReceive, Approve, Reject, Callback, Revoke,
      HandleXpubRequestByDID, SyncStart, Progress, Review, SubmitGrant, SubmitRevoke,
      OnTransactionUpdate, OnConsentRevoked, SyncFetch, SyncDone, SyncEvent, SyncHandle,
      SetSyncCursor, Fail, ReviewFails, OnTransactionUpdateFails, StoreFails, NetworkFails,
      storeVars
<1>2. QED
  BY <1>1 DEF Next, Crash, Expire, MidTierStep, vars, storeVars

LEMMA UntoldSteps ==
    ASSUME [Next]_vars, \A t \in Calls: ~OnConsentRevoked(t)
    PROVE  notices' = notices
<1>1. ASSUME NEW t \in Calls, Start(t) \/ Progress(t) \/ Fail(t)
      PROVE  notices' = notices
  BY <1>1
  DEF Start, InboundGarbage, InboundReceive, Approve, Reject, Callback, Revoke,
      HandleXpubRequestByDID, SyncStart, Progress, Review, StoreSet, SubmitGrant, SubmitRevoke,
      OnTransactionUpdate, SyncFetch, SyncDone, SyncEvent, SyncHandle,
      SetSyncCursor, Fail, ReviewFails, OnTransactionUpdateFails, StoreFails, NetworkFails,
      history
<1>2. QED
  BY <1>1 DEF Next, Crash, Expire, MidTierStep, vars, history

\* What a write does to the status of a record.
LEMMA WriteMoves ==
    ASSUME SerialInv, NEW t \in Calls, StoreSet(t)
    PROVE  LET c == call[t].id
               was == store[c].status
               is == store'[c].status
           IN /\ c \in Consents /\ store' = [store EXCEPT ![c] = call[t].rec]
              /\ ~IsTerminal(store[c])
              /\ \/ was = Unknown /\ is \in {"pending", "pending-review", "rejected"}
                 \/ was = "pending-review" /\ is \in {"pending", "rejected"}
                 \/ /\ is \in {was, "active", "revoked"}
                    /\ c \in Tracked => was \in {"pending", "active"}
<1> DEFINE k == call[t]
           c == k.id
<1>1. /\ HeldOK(k) /\ k.pc = "set" /\ c \in Consents /\ store[c] \in Record
      /\ store' = [store EXCEPT ![c] = k.rec] /\ store'[c] = k.rec
      /\ ~IsTerminal(store[c])
  BY WriteFacts DEF SerialInv, TypeInv, TypeOK
<1>2. CASE k.op \in {"inbound", "approve", "reject"}
  BY <1>1, <1>2 DEF HeldOK, NoRecord
<1>3. CASE k.op \in {"callback", "sync"}
  <2>1. k.rec.status \in {store[c].status, "active", "revoked"} /\ (c \in Tracked => Live(c))
    BY <1>3, WriteFacts DEF SerialInv
  <2>2. QED
    BY <1>1, <2>1 DEF IsTerminal, TerminalStatuses, Live
<1>4. QED
  BY <1>1, <1>2, <1>3 DEF HeldOK

\* Revoked and rejected are terminal: no step writes such a record with anything else.
THEOREM TerminalFinal ==
    ASSUME NoRedelivery
    PROVE  AtomicSpec => TerminalIsFinal
<1>1. ASSUME SerialInv, [Next]_vars
      PROVE  \A c \in Consents: IsTerminal(store[c]) => store'[c] = store[c]
  <2>1. ASSUME NEW t \in Calls, StoreSet(t)
        PROVE  \A c \in Consents: IsTerminal(store[c]) => store'[c] = store[c]
    BY <1>1, <2>1, WriteMoves DEF SerialInv, TypeInv, TypeOK
  <2>2. QED
    BY <1>1, <2>1, QuietSteps
<1>2. QED
  BY <1>1, AtomicStep, SpecSerial, PTL DEF AtomicSpec, TerminalIsFinal

\* A sync is ahead of the stored cursor.
AheadInv ==
    /\ TypeInv
    /\ \A t \in Calls: call[t].op = "sync" => cursor < call[t].next

\* k is no sync, or at the event that l is at.
KeepsPlace(k, l) == k.op # "sync" \/ (l.op = "sync" /\ k.next = l.next)

LEMMA NextAhead ==
    ASSUME OneSync, AheadInv, [Next]_vars
    PROVE  AheadInv' /\ cursor' >= cursor
<1>0. /\ cursor \in Nat /\ TypeInv' /\ call \in [Calls -> Call]
      /\ \A t \in Calls: CallOK(call[t])
  BY NextTypeInv DEF AheadInv, TypeInv, TypeOK
<1>1. ASSUME NEW t \in Calls, SetSyncCursor(t)
      PROVE  AheadInv' /\ cursor' >= cursor
  <2>1. PICK n \in Nat: /\ n = call[t].next /\ cursor < n /\ call[t].op = "sync"
                        /\ call' = [call EXCEPT ![t] = Passing("event", n + 1, call[t].upto)]
    BY <1>0, <1>1 DEF AheadInv, SetSyncCursor, Become, At, CallOK, Call
  <2>2. cursor' \in {n, cursor}
    BY <1>1, <2>1 DEF SetSyncCursor
  <2>3. \A u \in Calls: u # t => call'[u].op # "sync"
    BY <1>0, <2>1 DEF OneSync
  <2>4. call'[t].next = n + 1
    BY <1>0, <2>1 DEF Passing
  <2>5. QED
    BY <1>0, <2>1, <2>2, <2>3, <2>4 DEF AheadInv
<1>2. ASSUME UNCHANGED cursor,
             \A t \in Calls: \/ call'[t].next = cursor + 1
                             \/ KeepsPlace(call'[t], call[t])
      PROVE  AheadInv' /\ cursor' >= cursor
  BY <1>0, <1>2 DEF AheadInv, KeepsPlace
<1>3. ASSUME NEW t \in Calls, Start(t) \/ Progress(t) \/ Fail(t), ~SetSyncCursor(t)
      PROVE  AheadInv' /\ cursor' >= cursor
  <2>1. UNCHANGED cursor
    BY <1>3
    DEF Start, InboundGarbage, InboundReceive, Approve, Reject, Callback, Revoke,
        HandleXpubRequestByDID, SyncStart, Progress, Review, StoreSet, SubmitGrant,
        SubmitRevoke, OnTransactionUpdate, OnConsentRevoked, SyncFetch, SyncDone, SyncEvent,
        SyncHandle, Fail, ReviewFails, OnTransactionUpdateFails, StoreFails, NetworkFails,
        storeVars
  <2>2. PICK k: /\ call' = [call EXCEPT ![t] = k]
                /\ k.next = cursor + 1 \/ KeepsPlace(k, call[t])
    <3>1. CASE Start(t)
      <4>1. ASSUME \/ \E c \in Consents: InboundGarbage(t, c) \/ InboundReceive(t, c)
                   \/ \E p \in Parties: HandleXpubRequestByDID(t, p)
            PROVE  \/ call' = [call EXCEPT ![t] = call[t]]
                   \/ \E c: call' = [call EXCEPT ![t] = Busy("inbound", "review", c, NoRecord)]
        BY <1>0, <4>1 DEF InboundGarbage, InboundReceive, HandleXpubRequestByDID, Become
      <4>2. ASSUME NEW c \in Consents, Approve(t, c) \/ Reject(t, c) \/ Callback(t, c) \/ Revoke(t, c)
            PROVE  \E k: k.op # "sync" /\ call' = [call EXCEPT ![t] = k]
        BY <4>2 DEF Approve, Reject, Callback, Revoke, Busy, Handling, Become
      <4>3. CASE SyncStart(t)
        <5>1. Passing("fetch", cursor + 1, 0).next = cursor + 1
          BY DEF Passing
        <5>2. QED
          BY <4>3, <5>1 DEF SyncStart, Become
      <4>4. QED
        BY <3>1, <4>1, <4>2, <4>3 DEF Start, Busy, KeepsPlace
    <3>2. ASSUME Progress(t) \/ Fail(t)
          PROVE  \E k: call' = [call EXCEPT ![t] = k] /\ KeepsPlace(k, call[t])
      <4>0. call[t] \in Call /\ CallOK(call[t])
        BY <1>0
      <4>1. /\ KeepsPlace(Idle, call[t])
            /\ \A c, rec: KeepsPlace(Busy("inbound", "set", c, rec), call[t])
            /\ \A pc: KeepsPlace([call[t] EXCEPT !.pc = pc], call[t])
        BY <4>0 DEF KeepsPlace, Idle, Busy, Call
      <4>2. call[t].op = "sync" =>
               /\ \A pc, m: KeepsPlace(Passing(pc, call[t].next, m), call[t])
               /\ \A c, s, cid: KeepsPlace(Handling(call[t], "sync", c, s, cid), call[t])
        BY DEF KeepsPlace, Passing, Handling
      <4>3. CASE Review(t)
        BY <4>1, <4>3 DEF Review, Become
      <4>4. CASE SubmitGrant(t) \/ SubmitRevoke(t) \/ Fail(t)
        BY <4>1, <4>4 DEF SubmitGrant, SubmitRevoke, Fail, ReviewFails,
                          OnTransactionUpdateFails, StoreFails, NetworkFails, Return, Become
      <4>5. CASE StoreSet(t)
        <5>1. KeepsPlace(AfterSet(call[t]), call[t])
          BY <4>1 DEF AfterSet
        <5>2. QED
          BY <4>5, <5>1 DEF StoreSet, Become
      <4>6. CASE OnTransactionUpdate(t) \/ OnConsentRevoked(t)
        BY <4>1, <4>2, <4>6
        DEF OnTransactionUpdate, OnConsentRevoked, AfterHandler, Goto, Return, Become
      <4>7. CASE SyncFetch(t) \/ SyncDone(t) \/ SyncEvent(t) \/ SyncHandle(t)
        <5>1. call[t].op = "sync"
          BY <4>0, <4>7 DEF SyncFetch, SyncDone, SyncEvent, SyncHandle, At, CallOK
        <5>2. QED
          BY <4>1, <4>2, <4>7, <5>1
          DEF SyncFetch, SyncDone, SyncEvent, SyncHandle, Goto, Return, Become
      <4>8. QED
        BY <1>3, <3>2, <4>3, <4>4, <4>5, <4>6, <4>7 DEF Progress
    <3>3. QED
      BY <1>3, <3>1, <3>2
  <2>3. call'[t] = k /\ \A u \in Calls: u # t => call'[u] = call[u]
    BY <2>2, OneCallMoves DEF AheadInv
  <2>4. \A u \in Calls: KeepsPlace(call[u], call[u])
    BY DEF KeepsPlace
  <2>5. QED
    BY <1>2, <2>1, <2>2, <2>3, <2>4
<1>4. ASSUME Crash \/ (\E c \in Expiring: Expire(c)) \/ MidTierStep \/ UNCHANGED vars
      PROVE  AheadInv' /\ cursor' >= cursor
  <2>1. UNCHANGED cursor /\ \A t \in Calls: call'[t] \in {call[t], Idle}
    BY <1>4 DEF Crash, Expire, MidTierStep, vars, storeVars
  <2>2. QED
    BY <1>2, <2>1 DEF Idle, Busy, KeepsPlace
<1>5. QED
  BY <1>1, <1>3, <1>4 DEF Next

\* A pass stores the cursors of its events in their order, and none that is behind the
\* stored one: as long as no two passes overlap, whatever else does, and however often a
\* consent is delivered.
THEOREM CursorAdvances == Spec /\ []OneSync => CursorNeverRewinds
<1>1. Init => AheadInv
  BY InitTypeInv DEF Init, AheadInv, Idle, Busy
<1>2. AheadInv /\ OneSync /\ [Next]_vars => AheadInv' /\ [cursor' >= cursor]_vars
  BY NextAhead
<1>3. QED
  BY <1>1, <1>2, PTL DEF Spec, CursorNeverRewinds

-----------------------------------------------------------------------------
(* The engine keeps the promises of ConsentLifecycle *)

\* The lifecycle as the refinement sees it.
Statuses == [c \in Tracked |-> store[c].status]
Told == [c \in Tracked |-> notices[c]]

LEMMA InitLifecycle == Init => Lifecycle!Init
BY DEF Init, Lifecycle!Init, Lifecycle!Unknown, NoRecord, Unknown, Tracked

\* A write takes a tracked consent along one edge of the lifecycle, or none.
LEMMA WriteIsLifecycle ==
    ASSUME SerialInv, NEW t \in Calls, StoreSet(t)
    PROVE  Lifecycle!Next \/ UNCHANGED <<Statuses, Told>>
<1> DEFINE k == call[t]
           c == k.id
           was == store[c].status
           is == store'[c].status
<1>1. UNCHANGED Told
  BY DEF StoreSet, history, Told
<1>2. /\ c \in Consents /\ store' = [store EXCEPT ![c] = k.rec]
      /\ \/ was = Unknown /\ is \in {"pending", "pending-review", "rejected"}
         \/ was = "pending-review" /\ is \in {"pending", "rejected"}
         \/ /\ is \in {was, "active", "revoked"}
            /\ c \in Tracked => was \in {"pending", "active"}
  BY WriteMoves
<1>3. store' \in [Consents -> Record] /\ store \in [Consents -> Record]
  BY <1>2, NextTypeInv DEF SerialInv, TypeInv, TypeOK, CallOK, Busys, Call, StoreSet, At
<1>4. CASE c \notin Tracked
  <2>1. Statuses' = Statuses
    BY <1>2, <1>3, <1>4 DEF Statuses, Tracked
  <2>2. QED
    BY <1>1, <2>1
<1>5. CASE c \in Tracked
  <2>1. Statuses' = [Statuses EXCEPT ![c] = is]
    BY <1>2, <1>3, <1>5 DEF Statuses, Tracked
  <2>2. Statuses[c] = was
    BY <1>5 DEF Statuses
  <2>3. \A s: is = s => Lifecycle!Becomes(c, s)
    BY <1>1, <2>1 DEF Lifecycle!Becomes, Statuses, Told
  <2>4. CASE was = Unknown /\ is \in {"pending", "pending-review", "rejected"}
    BY <1>5, <2>2, <2>3, <2>4
    DEF Lifecycle!Next, Lifecycle!Ingest, Lifecycle!Unknown, Unknown, Statuses
  <2>5. CASE was = "pending-review" /\ is \in {"pending", "rejected"}
    BY <1>5, <2>2, <2>3, <2>5 DEF Lifecycle!Next, Lifecycle!Decide, Statuses
  <2>6. CASE was \in {"pending", "active"} /\ is \in {was, "active", "revoked"}
    <3>1. CASE is = was
      BY <1>1, <1>3, <1>5, <2>1, <3>1 DEF Statuses
    <3>2. CASE was = "pending" /\ is = "active"
      BY <1>5, <2>2, <2>3, <3>2 DEF Lifecycle!Next, Lifecycle!Confirm, Statuses
    <3>3. CASE is = "revoked"
      BY <1>5, <2>2, <2>3, <2>6, <3>3 DEF Lifecycle!Next, Lifecycle!Revoke, Statuses
    <3>4. QED
      BY <2>6, <3>1, <3>2, <3>3
  <2>7. QED
    BY <1>2, <1>5, <2>4, <2>5, <2>6
<1>6. QED
  BY <1>4, <1>5

\* So does an announcement: of a revoked consent, and for the first time.
LEMMA AnnouncementIsLifecycle ==
    ASSUME SerialInv, NEW t \in Calls, OnConsentRevoked(t)
    PROVE  Lifecycle!Next \/ UNCHANGED <<Statuses, Told>>
<1>1. PICK c \in Consents: c = call[t].id /\ store[c].status = "revoked" /\ notices[c] = 0
  BY DEF SerialInv, TypeInv, CallOK, Busys, BackedInv, CallBacked, LifeInv, HeldOK, Tells,
         OnConsentRevoked, At
<1>2. UNCHANGED Statuses
  BY DEF OnConsentRevoked, storeVars, Statuses
<1>3. notices' = [notices EXCEPT ![c] = 1] /\ notices \in [Consents -> 0 .. 2]
  BY <1>1 DEF OnConsentRevoked, SerialInv, TypeInv, TypeOK
<1>4. CASE c \notin Tracked
  <2>1. Told' = Told
    BY <1>3, <1>4 DEF Told, Tracked
  <2>2. QED
    BY <1>2, <2>1
<1>5. CASE c \in Tracked
  <2>1. Told' = [Told EXCEPT ![c] = 1]
    BY <1>3, <1>5 DEF Told, Tracked
  <2>2. Statuses[c] = "revoked" /\ Told[c] = 0
    BY <1>1, <1>5 DEF Statuses, Told
  <2>3. Lifecycle!Tell(c)
    BY <1>2, <2>1, <2>2 DEF Lifecycle!Tell, Statuses, Told
  <2>4. QED
    BY <1>5, <2>3 DEF Lifecycle!Next
<1>6. QED
  BY <1>4, <1>5

\* The engine implements ConsentLifecycle: a consent is decided once, becomes active only
\* from pending, ends revoked or rejected for good, and its revocation is announced at
\* most once and after it was recorded.
THEOREM LifecycleKept ==
    ASSUME NoRedelivery
    PROVE  AtomicSpec => KeepsLifecycle
<1>1. SerialInv /\ [Next]_vars => [Lifecycle!Next]_(Lifecycle!lifecycleVars)
  <2> SUFFICES ASSUME SerialInv, [Next]_vars
               PROVE  Lifecycle!Next \/ UNCHANGED <<Statuses, Told>>
    BY DEF Lifecycle!lifecycleVars, Statuses, Told
  <2>1. CASE \E t \in Calls: StoreSet(t)
    BY <2>1, WriteIsLifecycle
  <2>2. CASE \E t \in Calls: OnConsentRevoked(t)
    BY <2>2, AnnouncementIsLifecycle
  <2>3. CASE \A t \in Calls: ~StoreSet(t) /\ ~OnConsentRevoked(t)
    BY <2>3, QuietSteps, UntoldSteps DEF Statuses, Told
  <2>4. QED
    BY <2>1, <2>2, <2>3
<1>2. QED
  BY <1>1, InitLifecycle, AtomicStep, SpecSerial, PTL
  DEF AtomicSpec, KeepsLifecycle, Lifecycle!Spec

-----------------------------------------------------------------------------
(* The CID that an announcement comes with *)

\* The log of a mid-tier that reports pinned revocations.
PinsLogged == "rev_ipfs_live" \in Logged

LEMMA InitCIDInv == Init => CIDInv
<1> SUFFICES ASSUME Init PROVE CIDInv
  OBVIOUS
<1> USE DEF Init, MidTierInit
<1>1. \A r \in Revocations: revokeTx[r].reached = {}
  BY DEF NoRevocation
<1>2. \A i \in 1 .. Len(chainLog): chainLog[i].status # "rev_confirmed"
  BY InitialLogAssumption
<1>3. \A t \in Calls: KnowsCID(call[t])
  BY DEF KnowsCID, Idle, Busy
<1>4. QED
  BY <1>1, <1>2, <1>3 DEF CIDInv, PinnedFirst

\* No revocation reaches a status, and the log stays.
LEMMA PinnedKept ==
    ASSUME PinnedFirst, UNCHANGED chainLog,
           \A r \in Revocations:
              \/ revokeTx'[r] = revokeTx[r]
              \/ {"rev_submitted", "rev_ipfs_live"} \intersect revokeTx'[r].reached = {}
    PROVE  PinnedFirst'
<1>1. \A r \in Revocations:
         "rev_submitted" \in revokeTx'[r].reached => "rev_ipfs_live" \in revokeTx'[r].reached
  BY DEF PinnedFirst
<1>2. \A r \in Revocations:
         "rev_ipfs_live" \in revokeTx'[r].reached =>
            \E i \in 1 .. Len(chainLog'): /\ chainLog'[i].id = revokeTx'[r].of
                                          /\ chainLog'[i].status = "rev_ipfs_live"
  BY DEF PinnedFirst
<1>3. QED
  BY <1>1, <1>2 DEF PinnedFirst

\* The log grows by a report of another kind, and no revocation reaches a status.
LEMMA PinnedLogged ==
    ASSUME MidTierInv, PinnedFirst, UNCHANGED revokeTx, NEW c \in Consents,
           NEW s \in TransactionStatuses \union {Foreign}, s # "rev_confirmed",
           NEW cid \in Consents \union Revocations, Log(c, s, cid)
    PROVE  PinnedFirst'
<1>1. /\ Len(chainLog) \in Nat /\ Len(chainLog) <= Len(chainLog')
      /\ \A i \in 1 .. Len(chainLog): chainLog'[i] = chainLog[i]
      /\ \A i \in 1 .. Len(chainLog'):
            \/ i \in 1 .. Len(chainLog)
            \/ chainLog'[i] = [id |-> c, status |-> s, cid |-> cid]
      /\ Len(chainLog') \in Nat
  <2>1. chainLog \in Seq(Event) /\ chainLog' \in Seq(Event)
    BY LogFacts DEF MidTierInv, MidTierTypeOK
  <2>2. Len(chainLog) \in Nat /\ Len(chainLog') \in Nat
    BY <2>1
  <2>3. QED
    BY <2>2, LogFacts
<1>2. \A r \in Revocations:
         "rev_ipfs_live" \in revokeTx[r].reached =>
            \E i \in 1 .. Len(chainLog'): /\ chainLog'[i].id = revokeTx[r].of
                                          /\ chainLog'[i].status = "rev_ipfs_live"
  BY <1>1 DEF PinnedFirst
<1>3. ASSUME NEW i \in 1 .. Len(chainLog'), chainLog'[i].status = "rev_confirmed"
      PROVE  \E j \in 1 .. i - 1: /\ chainLog'[j].id = chainLog'[i].id
                                  /\ chainLog'[j].status = "rev_ipfs_live"
  <2>1. i \in 1 .. Len(chainLog) /\ chainLog'[i] = chainLog[i]
    BY <1>1, <1>3
  <2>2. PICK j \in 1 .. i - 1: /\ chainLog[j].id = chainLog[i].id
                               /\ chainLog[j].status = "rev_ipfs_live"
    BY <1>3, <2>1 DEF PinnedFirst
  <2>3. j \in 1 .. Len(chainLog)
    BY <1>1, <2>1, <2>2
  <2>4. QED
    BY <1>1, <2>1, <2>2, <2>3
<1>4. QED
  BY <1>2, <1>3 DEF PinnedFirst

LEMMA PinnedAdvances ==
    ASSUME PinsLogged, MidTierInv, PinnedFirst, NEW r \in Revocations, RevokeAdvances(r)
    PROVE  PinnedFirst'
<1> USE DEF MidTierInv, MidTierTypeOK
<1> DEFINE c == revokeTx[r].of
<1>1. PICK s \in RevokeFollows(revokeTx[r].reached) \ revokeTx[r].reached:
         /\ revokeTx' = [revokeTx EXCEPT ![r].reached = @ \union {s}]
         /\ Log(c, s, r)
  BY DEF RevokeAdvances
<1>2. /\ s \in {"rev_ipfs_live", "rev_submitted", "rev_confirmed"}
      /\ s \in RevokeStatuses /\ s \in TransactionStatuses \union {Foreign} /\ c \in Consents
      /\ s = "rev_submitted" => "rev_ipfs_live" \in revokeTx[r].reached
      /\ s = "rev_confirmed" => "rev_submitted" \in revokeTx[r].reached
  BY <1>1, StatusFacts DEF RevokeFollows, RevokeStatuses
<1> DEFINE e == [id |-> c, status |-> s, cid |-> r]
<1>3. e \in Event
  BY <1>2 DEF Event
<1>4. \/ chainLog' = Append(chainLog, e)
      \/ s # "rev_ipfs_live" /\ chainLog' = chainLog
  BY <1>1 DEF Log, PinsLogged
<1> HIDE DEF e
<1>5. /\ Len(chainLog) \in Nat /\ Len(chainLog') \in Nat
      /\ \A i \in 1 .. Len(chainLog): i \in 1 .. Len(chainLog') /\ chainLog'[i] = chainLog[i]
      /\ \A i \in 1 .. Len(chainLog'):
            i \in 1 .. Len(chainLog) \/ (i = Len(chainLog) + 1 /\ chainLog'[i] = e)
      /\ s = "rev_ipfs_live" =>
            Len(chainLog) + 1 \in 1 .. Len(chainLog') /\ chainLog'[Len(chainLog) + 1] = e
  <2>1. CASE chainLog' = Append(chainLog, e)
    BY <1>3, <2>1
  <2>2. CASE s # "rev_ipfs_live" /\ chainLog' = chainLog
    BY <2>2
  <2>3. QED
    BY <1>4, <2>1, <2>2
<1>6. \A x \in Revocations: /\ revokeTx'[x].of = revokeTx[x].of
                            /\ x # r => revokeTx'[x].reached = revokeTx[x].reached
                            /\ x = r => revokeTx'[x].reached = revokeTx[x].reached \union {s}
  BY <1>1 DEF Revocation
<1>7. \A x \in Revocations:
         "rev_submitted" \in revokeTx'[x].reached => "rev_ipfs_live" \in revokeTx'[x].reached
  BY <1>2, <1>6 DEF PinnedFirst
<1>8. ASSUME NEW x \in Revocations, "rev_ipfs_live" \in revokeTx'[x].reached
      PROVE  \E i \in 1 .. Len(chainLog'): /\ chainLog'[i].id = revokeTx'[x].of
                                           /\ chainLog'[i].status = "rev_ipfs_live"
  <2>1. CASE "rev_ipfs_live" \in revokeTx[x].reached
    BY <1>5, <1>6, <2>1 DEF PinnedFirst
  <2>2. CASE x = r /\ s = "rev_ipfs_live"
    BY <1>5, <1>6, <2>2 DEF e
  <2>3. QED
    BY <1>6, <1>8, <2>1, <2>2
<1>9. ASSUME NEW i \in 1 .. Len(chainLog'), chainLog'[i].status = "rev_confirmed"
      PROVE  \E j \in 1 .. i - 1: /\ chainLog'[j].id = chainLog'[i].id
                                  /\ chainLog'[j].status = "rev_ipfs_live"
  <2>1. CASE i \in 1 .. Len(chainLog)
    <3>1. chainLog'[i] = chainLog[i]
      BY <1>5, <2>1
    <3>2. PICK j \in 1 .. i - 1: /\ chainLog[j].id = chainLog[i].id
                                 /\ chainLog[j].status = "rev_ipfs_live"
      BY <1>9, <2>1, <3>1 DEF PinnedFirst
    <3>3. j \in 1 .. Len(chainLog)
      BY <1>5, <2>1, <3>2
    <3>4. QED
      BY <1>5, <3>1, <3>2, <3>3
  <2>2. CASE i = Len(chainLog) + 1 /\ chainLog'[i] = e
    <3>1. PICK j \in 1 .. Len(chainLog): /\ chainLog[j].id = c
                                         /\ chainLog[j].status = "rev_ipfs_live"
      BY <1>2, <1>9, <2>2 DEF PinnedFirst, e
    <3>2. j \in 1 .. i - 1
      BY <1>5, <2>2
    <3>3. QED
      BY <1>5, <2>2, <3>1, <3>2 DEF e
  <2>3. QED
    BY <1>5, <2>1, <2>2
<1>10. QED
  BY <1>7, <1>8, <1>9 DEF PinnedFirst

LEMMA NextPinned ==
    ASSUME PinsLogged, TypeInv, PinnedFirst, [Next]_vars
    PROVE  PinnedFirst'
<1> USE DEF TypeInv
<1>1. ASSUME MidTierStep
      PROVE  PinnedFirst'
  <2>1. ASSUME NEW c \in Consents, GrantAdvances(c)
        PROVE  PinnedFirst'
    <3>1. PICK s \in GrantFollows(grantTx[c]): Log(c, s, c) /\ UNCHANGED revokeTx
      BY <2>1 DEF GrantAdvances
    <3>2. s \in TransactionStatuses /\ s # "rev_confirmed"
      BY <3>1, GrantEndsAssumption, StatusFacts DEF GrantFollows, GrantStatuses
    <3>3. QED
      BY <3>1, <3>2, PinnedLogged
  <2>2. ASSUME NEW c \in Consents, LogsForeign(c)
        PROVE  PinnedFirst'
    BY <2>2, PinnedLogged DEF LogsForeign, Foreign
  <2>3. ASSUME NEW r \in Revocations, NEW c \in Consents, OtherPartyRevokes(r, c)
        PROVE  PinnedFirst'
    BY <2>3, PinnedKept DEF OtherPartyRevokes, ReceiveRevoke, MidTierInv, MidTierTypeOK
  <2>4. QED
    BY <1>1, <2>1, <2>2, <2>3, PinnedAdvances DEF MidTierStep, MidTierNext
<1>2. ASSUME NEW t \in Calls, SubmitRevoke(t)
      PROVE  PinnedFirst'
  BY <1>2, PinnedKept DEF SubmitRevoke, ReceiveRevoke, MidTierInv, MidTierTypeOK
<1>3. ASSUME NEW t \in Calls, Start(t) \/ Progress(t) \/ Fail(t), ~SubmitRevoke(t)
      PROVE  UNCHANGED <<revokeTx, chainLog>>
  BY <1>3
  DEF Start, InboundGarbage, InboundReceive, Approve, Reject, Callback, Revoke,
      HandleXpubRequestByDID, SyncStart, Progress, Review, StoreSet, SubmitGrant, ReceiveGrant,
      OnTransactionUpdate, OnConsentRevoked, SyncFetch, SyncDone, SyncEvent, SyncHandle,
      SetSyncCursor, Fail, ReviewFails, OnTransactionUpdateFails, StoreFails, NetworkFails,
      mtVars
<1>4. QED
  BY <1>1, <1>2, <1>3, PinnedKept DEF Next, Crash, Expire, vars, mtVars

\* When a sync reaches a confirmed revocation, it has recorded the pinned one before.
LEMMA HandledKnowsCID ==
    ASSUME TypeInv, BackedInv, SyncInv, PinnedFirst, NEW t \in Calls, SyncHandle(t)
    PROVE  \E k: KnowsCID(k) /\ call' = [call EXCEPT ![t] = k]
<1>1. /\ call[t] \in Call /\ CallOK(call[t]) /\ SyncOK(call[t]) /\ call[t].op = "sync"
      /\ call[t].pc = "inner"
  BY DEF TypeInv, TypeOK, SyncInv, CallOK, SyncHandle, At
<1>2. PICK n \in 1 .. Len(chainLog): n = call[t].next /\ chainLog[n] \in Event
  <2>1. /\ call[t].next \in Nat \ {0} /\ call[t].upto \in Nat /\ Len(chainLog) \in Nat
        /\ call[t].next <= call[t].upto /\ call[t].upto <= Len(chainLog)
        /\ call[t].next <= call[t].upto => chainLog[call[t].next] \in Event
    BY <1>1, SyncFacts
  <2>2. QED
    BY <2>1
<1> DEFINE e == chainLog[n]
           k == Handling(call[t], "sync", e.id, e.status, e.cid)
<1>3. CASE ~Handles(store[e.id], e.status)
  BY <1>2, <1>3 DEF SyncHandle, Become, Return, KnowsCID, Idle, Busy
<1>4. CASE Handles(store[e.id], e.status)
  <2>1. call' = [call EXCEPT ![t] = k]
    BY <1>2, <1>4 DEF SyncHandle, Become
  <2>2. ASSUME e.status = "rev_confirmed", e.id \in Tracked
        PROVE  Published(k.rec.revokeCID, k.id)
    <3>1. PICK j \in 1 .. n - 1: /\ chainLog[j].id = e.id
                                 /\ chainLog[j].status = "rev_ipfs_live"
      BY <2>2 DEF PinnedFirst
    <3>2. ReflectedTo(n - 1)
      BY <1>1, <1>2 DEF SyncOK
    <3>3. Reflects(chainLog[j])
      BY <2>2, <3>1, <3>2 DEF ReflectedTo
    <3>4. store[e.id].revokeCID # NoCID
      BY <1>4, <3>1, <3>3 DEF Reflects, Handles
    <3>5. store[e.id] \in Record
      BY <1>2 DEF TypeInv, TypeOK, Event
    <3>6. k.rec = [store[e.id] EXCEPT !.status = "revoked"]
      BY <2>2 DEF Handling, ApplyStatus
    <3>7. k.rec.revokeCID = store[e.id].revokeCID /\ k.id = e.id
      BY <3>5, <3>6 DEF Record, Handling
    <3>8. Backed(e.id, store[e.id])
      BY <1>2 DEF BackedInv, StoreIsBacked, Event
    <3>9. QED
      BY <3>4, <3>5, <3>7, <3>8 DEF Backed, Published, Record
  <2>3. KnowsCID(k)
    BY <2>2 DEF KnowsCID, Handling
  <2>4. QED
    BY <2>1, <2>3
<1>5. QED
  BY <1>3, <1>4

\* What was published stays so.
LEMMA StillKnown ==
    ASSUME TypeInv, [Next]_vars, \A u \in Calls: KnowsCID(call'[u])
    PROVE  \A u \in Calls: KnowsCID(call[u])'
<1>1. ASSUME NEW c \in Tracked, NEW cid, Published(cid, c)
      PROVE  Published(cid, c)'
  BY <1>1, NextTypeInv DEF ChainGrows, Published, Tracked
<1>2. QED
  BY <1>1 DEF KnowsCID, Tracked

LEMMA NextCIDInv ==
    ASSUME PinsLogged, TypeInv, BackedInv, SyncInv, CIDInv, [Next]_vars
    PROVE  CIDInv'
<1> USE DEF TypeInv, TypeOK, CIDInv, Become, At
<1>1. PinnedFirst'
  BY NextPinned
<1>2. ASSUME NEW t \in Calls, Start(t)
      PROVE  \E k: KnowsCID(k) /\ call' = [call EXCEPT ![t] = k]
  <2>1. ASSUME \/ \E c \in Consents: InboundGarbage(t, c) \/ InboundReceive(t, c)
               \/ \E p \in Parties: HandleXpubRequestByDID(t, p)
        PROVE  \/ call' = [call EXCEPT ![t] = call[t]]
               \/ \E c: call' = [call EXCEPT ![t] = Busy("inbound", "review", c, NoRecord)]
    BY <2>1 DEF InboundGarbage, InboundReceive, HandleXpubRequestByDID
  <2>2. ASSUME \/ \E c \in Consents: \/ Approve(t, c) \/ Reject(t, c)
                                     \/ Callback(t, c) \/ Revoke(t, c)
               \/ SyncStart(t)
        PROVE  \E k: (k.op # "sync" \/ k.pc = "fetch") /\ call' = [call EXCEPT ![t] = k]
    BY <2>2 DEF Approve, Reject, Callback, Revoke, SyncStart, Busy, Handling, Passing
  <2>3. QED
    BY <1>2, <2>1, <2>2 DEF Start, KnowsCID, Busy
<1>3. ASSUME NEW t \in Calls, Progress(t) \/ Fail(t)
      PROVE  \E k: KnowsCID(k) /\ call' = [call EXCEPT ![t] = k]
  <2>0. call[t] \in Call /\ KnowsCID(call[t])
    OBVIOUS
  <2>1. \A n, m: /\ KnowsCID(Idle)
                 /\ KnowsCID(Passing("event", n, m)) /\ KnowsCID(Passing("advance", n, m))
    BY DEF KnowsCID, Idle, Busy, Passing
  <2>2. /\ \A pc \in {"advance", "inner"}: KnowsCID([call[t] EXCEPT !.pc = pc])
        /\ call[t].pc = "update" => KnowsCID([call[t] EXCEPT !.pc = "revoked"])
        /\ call[t].pc = "set" => KnowsCID(AfterSet(call[t]))
    BY <2>0, <2>1 DEF KnowsCID, AfterSet, Call
  <2>3. CASE Review(t)
    BY <2>3 DEF Review, KnowsCID, Busy
  <2>4. CASE SyncHandle(t)
    BY <2>4, HandledKnowsCID
  <2>5. CASE \/ StoreSet(t) \/ SubmitGrant(t) \/ SubmitRevoke(t)
             \/ OnTransactionUpdate(t) \/ OnConsentRevoked(t) \/ Fail(t)
    BY <2>1, <2>2, <2>5
    DEF StoreSet, SubmitGrant, SubmitRevoke, OnTransactionUpdate, OnConsentRevoked,
        AfterHandler, Goto, Return, Fail, ReviewFails, OnTransactionUpdateFails, StoreFails,
        NetworkFails
  <2>6. CASE SyncFetch(t) \/ SyncDone(t) \/ SyncEvent(t) \/ SetSyncCursor(t)
    BY <2>1, <2>2, <2>6 DEF SyncFetch, SyncDone, SyncEvent, SetSyncCursor, Goto, Return
  <2>7. QED
    BY <1>3, <2>3, <2>4, <2>5, <2>6 DEF Progress
<1>4. ASSUME NEW t \in Calls, NEW k, KnowsCID(k), call' = [call EXCEPT ![t] = k]
      PROVE  CIDInv'
  <2>1. \A u \in Calls: KnowsCID(call'[u])
    BY <1>4, OneCallMoves
  <2>2. QED
    BY <1>1, <2>1, StillKnown
<1>5. ASSUME Crash \/ UNCHANGED call
      PROVE  CIDInv'
  <2>1. \A u \in Calls: KnowsCID(call'[u])
    BY <1>5 DEF Crash, KnowsCID, Idle, Busy
  <2>2. QED
    BY <1>1, <2>1, StillKnown
<1>6. QED
  BY <1>2, <1>3, <1>4, <1>5 DEF Next, Expire, MidTierStep, vars

\* A revocation that Synchronize announces comes with the CID of a revocation that was
\* published for that very consent, if GetConsentsSince reports pinned revocations.
THEOREM SyncCIDAnnounced ==
    ASSUME NoRedelivery, PinsLogged
    PROVE  AtomicSpec => []SyncAnnouncesCID
<1>1. SerialInv /\ CIDInv /\ [Next]_vars => CIDInv'
  BY NextCIDInv DEF SerialInv
<1>2. CIDInv /\ SerialInv => SyncAnnouncesCID
  BY DEF CIDInv, SerialInv, BackedInv, CallBacked, KnowsCID, Published, SyncAnnouncesCID, At
<1>3. QED
  BY <1>1, <1>2, InitCIDInv, AtomicStep, SpecSerial, PTL DEF AtomicSpec

=============================================================================
