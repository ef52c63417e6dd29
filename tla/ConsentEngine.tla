---------------------------- MODULE ConsentEngine ---------------------------
(***************************************************************************)
(* The consent engine (consent/): inbound grants, review, approval,        *)
(* rejection, mid-tier callbacks, revocation and catch-up synchronisation. *)
(*                                                                         *)
(* The engine has no goroutine and no lock of its own: an application      *)
(* calls its methods from request handlers and timers, and all its state   *)
(* is behind interfaces.  A member of Calls is one such activation.  A     *)
(* method is cut at its calls through the interfaces, so whatever it read  *)
(* before a cut may be stale after it.  A call that fails without changing *)
(* anything is a stutter and has no action.  The step that reads also      *)
(* computes the record to write, as nothing shared is read in between.     *)
(***************************************************************************)
EXTENDS MidTier, FiniteSets

CONSTANTS
    Calls,        \* activations that may be in progress at the same time
    Parties,      \* party keys of the counterparties
    PartyOf,      \* the counterparty that sealed each consent
    Expiring,     \* consents whose payload has an ExpiresAt
    Redelivery,   \* may a consent be delivered again once it was ingested?
    MissingIsError, \* does the store's Get fail on a missing record, or answer nil?
    Faults        \* which of FaultKinds may happen

FaultKinds == {"crash", "store", "network", "handler"}

ASSUME PartyOfAssumption == PartyOf \in [Consents -> Parties]
ASSUME ExpiringAssumption == Expiring \subseteq Consents
ASSUME NoCIDAssumption == NoCID \notin Consents \union Revocations
ASSUME RevocationsAssumption == OwnRevocations \subseteq Revocations
ASSUME InitialLogAssumption ==
    /\ InitialLog \in Seq(Event)
    /\ \A i \in 1 .. Len(InitialLog):
          /\ InitialLog[i].status \in {"ipfs_live", "submitted", "confirmed"}
          /\ InitialLog[i].cid = InitialLog[i].id
ASSUME SwitchAssumption ==
    Redelivery \in BOOLEAN /\ MissingIsError \in BOOLEAN /\ Faults \subseteq FaultKinds

VARIABLES
    store,        \* ConsentStore: the record with each ID
    cursor,       \* ConsentStore: the sync cursor, a position of chainLog
    indexed,      \* CounterpartyDirectory: parties that have an HD index
    xpubs,        \* CounterpartyDirectory: parties whose xpub is stored
    expired,      \* consents whose ExpiresAt has passed
    call,         \* call[t]: where t is and what it holds in local variables
    decided,      \* history: consents that were accepted or approved
    notices       \* history: OnConsentRevoked calls per consent (saturates at 2)

dirVars == <<indexed, xpubs>>
storeVars == <<store, cursor>>
history == <<decided, notices>>
vars == <<mtVars, storeVars, dirVars, expired, call, history>>

-----------------------------------------------------------------------------
(* Data *)

\* A ConsentRecord, up to the fields the lifecycle reads or writes. sigs
\* counts the engine's own counter-signatures.
Record == [status: ConsentStatuses \union {Unknown},
           cid: Consents \union {NoCID},
           revokeCID: Revocations \union {NoCID},
           sigs: Nat]

NoRecord == [status |-> Unknown, cid |-> NoCID, revokeCID |-> NoCID, sigs |-> 0]

\* The record HandleInboundConsent builds. CID and RevokeCID are zero values.
NewRecord(status, sigs) ==
    [status |-> status, cid |-> NoCID, revokeCID |-> NoCID, sigs |-> sigs]

\* counterSign appends one signature to the record it is given.
CounterSign(rec) == [rec EXCEPT !.sigs = @ + 1]

\* Slip: a grant counts as active once it is pinned.
ApplyStatusActiveWhenPinned(rec, status, cid) ==
    IF status = "ipfs_live" THEN [rec EXCEPT !.cid = cid, !.status = "active"] ELSE rec

\* Slip: the report that a revocation is pinned changes nothing.
ApplyStatusNoRevokeCID(rec, status, cid) ==
    CASE status = "ipfs_live"     -> [rec EXCEPT !.cid = cid]
      [] status = "confirmed"     -> [rec EXCEPT !.status = "active"]
      [] status = "rev_confirmed" -> [rec EXCEPT !.status = "revoked"]
      [] OTHER                    -> rec

\* The status switch of HandleTransactionCallback.
ApplyStatus(rec, status, cid) ==
    CASE status = "ipfs_live"     -> [rec EXCEPT !.cid = cid]
      [] status = "rev_ipfs_live" -> [rec EXCEPT !.revokeCID = cid]
      [] status = "confirmed"     -> [rec EXCEPT !.status = "active"]
      [] status = "rev_confirmed" -> [rec EXCEPT !.status = "revoked"]
      [] OTHER                    -> rec

PC == {"idle", "review", "set", "submit_grant", "submit_revoke", "update",
       "revoked", "fetch", "event", "inner", "advance"}

Ops == {"none", "inbound", "approve", "reject", "callback", "revoke", "sync"}

\* rec is the *ConsentRecord in hand, sealed the revocation about to be
\* submitted, status the transaction status being handled, next .. upto what
\* is left of the events a sync fetched.
Call == [pc: PC, op: Ops, id: Consents \union {NoCID}, rec: Record,
         sealed: OwnRevocations \union {NoCID},
         status: TransactionStatuses \union {Foreign},
         next: Nat, upto: Nat]

Busy(op, pc, c, rec) ==
    [pc |-> pc, op |-> op, id |-> c, rec |-> rec,
     sealed |-> NoCID, status |-> Foreign, next |-> 0, upto |-> 0]

\* Between two of the events of a sync.
Passing(pc, next, upto) ==
    [pc |-> pc, op |-> "sync", id |-> NoCID, rec |-> NoRecord,
     sealed |-> NoCID, status |-> Foreign, next |-> next, upto |-> upto]

Idle == Busy("none", "idle", NoCID, NoRecord)

Become(t, state) == call' = [call EXCEPT ![t] = state]
Goto(t, pc) == Become(t, [call[t] EXCEPT !.pc = pc])
Return(t) == Become(t, Idle)
At(t, pc) == call[t].pc = pc

GetOrAssignIndex(p) == indexed' = indexed \union {p}

\* Slip: revoked is forgotten.
IsTerminalOnlyRejected(rec) == rec.status = "rejected"

IsTerminal(rec) == rec.status \in TerminalStatuses

Init ==
    /\ MidTierInit
    /\ store = [c \in Consents |-> NoRecord]
    /\ cursor = 0
    /\ indexed = {} /\ xpubs = {}
    /\ expired = {}
    /\ call = [t \in Calls |-> Idle]
    /\ decided = {}
    /\ notices = [c \in Consents |-> 0]

-----------------------------------------------------------------------------
(* HandleXpubRequestByDID: gives a party of the application's choice an index,
   and answers with an xpub of the wallet. HandleXpubRequest changes nothing. *)

HandleXpubRequestByDID(t, p) ==
    /\ At(t, "idle")
    /\ GetOrAssignIndex(p)
    /\ UNCHANGED <<mtVars, storeVars, xpubs, expired, call, history>>

-----------------------------------------------------------------------------
(* HandleInboundConsent *)

\* The payload does not decrypt or decode: only the index was assigned.
InboundGarbage(t, c) ==
    /\ At(t, "idle")
    /\ GetOrAssignIndex(PartyOf[c])
    /\ UNCHANGED <<mtVars, storeVars, xpubs, expired, call, history>>

\* No record of this consent, and nobody about to write one.
FirstDelivery(c) ==
    /\ store[c] = NoRecord
    /\ \A t \in Calls: call[t].op = "inbound" => call[t].id # c

\* Index, decrypt, decode and keep the grantor's xpub (optional in the
\* payload, and a failing StoreXpub is ignored); then the expiry check.
InboundReceive(t, c) ==
    /\ At(t, "idle")
    /\ Redelivery \/ FirstDelivery(c)
    /\ GetOrAssignIndex(PartyOf[c])
    /\ xpubs' \in {xpubs, xpubs \union {PartyOf[c]}}
    /\ IF c \in expired THEN UNCHANGED call
                        ELSE Become(t, Busy("inbound", "review", c, NoRecord))
    /\ UNCHANGED <<mtVars, storeVars, expired, history>>

\* Slip: the decision is stored where a status belongs.
ReviewStoresDecision(t) ==
    /\ At(t, "review")
    /\ \E s \in {"accept", "reject", "defer"}:
          Become(t, Busy("inbound", "set", call[t].id, NewRecord(s, 0)))
    /\ UNCHANGED <<mtVars, storeVars, dirVars, expired, history>>

\* ConsentReviewer.Review answers; the record is built, and counter-signed
\* when accepted.
Review(t) ==
    /\ At(t, "review")
    /\ \/ /\ Become(t, Busy("inbound", "set", call[t].id,
                            CounterSign(NewRecord("pending", 0))))
          /\ decided' = decided \union {call[t].id}
       \/ /\ \E s \in {"rejected", "pending-review"}:
                Become(t, Busy("inbound", "set", call[t].id, NewRecord(s, 0)))
          /\ UNCHANGED decided
    /\ UNCHANGED <<mtVars, storeVars, dirVars, expired, notices>>

\* The reviewer fails, or answers with an unknown decision.
ReviewFails(t) ==
    /\ At(t, "review")
    /\ "handler" \in Faults
    /\ Return(t)
    /\ UNCHANGED <<mtVars, storeVars, dirVars, expired, history>>

-----------------------------------------------------------------------------
(* ApproveConsent, RejectConsent: read the record, change it, write it back *)

\* Slip: a pending consent may be approved again, to retry its submission.
ApproveAgain(t, c) ==
    /\ At(t, "idle")
    /\ store[c].status \in {"pending-review", "pending"}
    /\ GetOrAssignIndex(PartyOf[c])
    /\ Become(t, Busy("approve", "set", c,
                      [CounterSign(store[c]) EXCEPT !.status = "pending"]))
    /\ decided' = decided \union {c}
    /\ UNCHANGED <<mtVars, storeVars, xpubs, expired, notices>>

Approve(t, c) ==
    /\ At(t, "idle")
    /\ store[c].status = "pending-review"
    /\ GetOrAssignIndex(PartyOf[c])
    /\ Become(t, Busy("approve", "set", c,
                      [CounterSign(store[c]) EXCEPT !.status = "pending"]))
    /\ decided' = decided \union {c}
    /\ UNCHANGED <<mtVars, storeVars, xpubs, expired, notices>>

\* Slip: anything that is not terminal may be rejected.
RejectAnyLive(t, c) ==
    /\ At(t, "idle")
    /\ store[c] # NoRecord /\ ~IsTerminal(store[c])
    /\ Become(t, Busy("reject", "set", c, [store[c] EXCEPT !.status = "rejected"]))
    /\ UNCHANGED <<mtVars, storeVars, dirVars, expired, history>>

Reject(t, c) ==
    /\ At(t, "idle")
    /\ store[c].status = "pending-review"
    /\ Become(t, Busy("reject", "set", c, [store[c] EXCEPT !.status = "rejected"]))
    /\ UNCHANGED <<mtVars, storeVars, dirVars, expired, history>>

-----------------------------------------------------------------------------
(* HandleTransactionCallback, called by the mid-tier or by Synchronize *)

\* Slip: no terminal check.
HandlesTerminal(rec, status) == rec # NoRecord /\ status \in TransactionStatuses

\* Neither missing nor terminal, and a status the switch knows.
Handles(rec, status) ==
    /\ rec # NoRecord
    /\ ~IsTerminal(rec)
    /\ status \in TransactionStatuses

\* Call k goes on to write what the report makes of the record it just read.
Handling(k, op, c, status, cid) ==
    [pc |-> "set", op |-> op, id |-> c, rec |-> ApplyStatus(store[c], status, cid),
     sealed |-> NoCID, status |-> status, next |-> k.next, upto |-> k.upto]

Callback(t, c) ==
    /\ At(t, "idle")
    /\ \E m \in Callbacks(c):
          /\ Handles(store[c], m.status)
          /\ Become(t, Handling(call[t], "callback", c, m.status, m.cid))
    /\ UNCHANGED <<mtVars, storeVars, dirVars, expired, history>>

\* Where a handler goes when it is done: Synchronize goes on to its cursor.
AfterHandler(t) ==
    IF call[t].op = "sync" THEN Become(t, Passing("advance", call[t].next, call[t].upto))
                           ELSE Return(t)

\* Slip: the transaction type is tested in place of its status.
OnTransactionUpdateByType(t) ==
    /\ At(t, "update")
    /\ IF call[t].status \in RevokeStatuses THEN Goto(t, "revoked") ELSE AfterHandler(t)
    /\ UNCHANGED <<mtVars, storeVars, dirVars, expired, history>>

OnTransactionUpdate(t) ==
    /\ At(t, "update")
    /\ IF call[t].status = "rev_confirmed" THEN Goto(t, "revoked") ELSE AfterHandler(t)
    /\ UNCHANGED <<mtVars, storeVars, dirVars, expired, history>>

\* The handler sees the event whether or not it then returns an error.
OnConsentRevoked(t) ==
    /\ At(t, "revoked")
    /\ notices' = [notices EXCEPT ![call[t].id] = IF @ = 2 THEN 2 ELSE @ + 1]
    /\ \/ AfterHandler(t)
       \/ "handler" \in Faults /\ Return(t)
    /\ UNCHANGED <<mtVars, storeVars, dirVars, expired, decided>>

OnTransactionUpdateFails(t) ==
    /\ At(t, "update")
    /\ "handler" \in Faults
    /\ Return(t)
    /\ UNCHANGED <<mtVars, storeVars, dirVars, expired, history>>

-----------------------------------------------------------------------------
(* store.Set and SubmitGrant, reached from several methods *)

\* Slip: a deferred grant is submitted as well.
AfterSetSubmitsDeferred(k) ==
    CASE k.op \in {"callback", "sync"} -> [k EXCEPT !.pc = "update"]
      [] k.op \in {"inbound", "approve"} /\ k.rec.status # "rejected" ->
             [k EXCEPT !.pc = "submit_grant"]
      [] OTHER -> Idle

AfterSet(k) ==
    CASE k.op \in {"callback", "sync"} -> [k EXCEPT !.pc = "update"]
      [] k.op \in {"inbound", "approve"} /\ k.rec.status = "pending" ->
             [k EXCEPT !.pc = "submit_grant"]
      [] OTHER -> Idle

StoreSet(t) ==
    /\ At(t, "set")
    /\ store' = [store EXCEPT ![call[t].id] = call[t].rec]
    /\ Become(t, AfterSet(call[t]))
    /\ UNCHANGED <<mtVars, cursor, dirVars, expired, history>>

StoreFails(t) ==
    /\ call[t].pc \in {"set", "event", "inner", "advance"}
    /\ "store" \in Faults
    /\ Return(t)
    /\ UNCHANGED <<mtVars, storeVars, dirVars, expired, history>>

\* The mid-tier has the grant even if its answer was lost: the error of a
\* delivered request returns from the method just as success does.
SubmitGrant(t) ==
    /\ At(t, "submit_grant")
    /\ ReceiveGrant(call[t].id)
    /\ Return(t)
    /\ UNCHANGED <<storeVars, dirVars, expired, history>>

\* Slip: no fallback.
GrantRefOnlyCID(c, rec) == rec.cid

\* The grant CID bound by the revoker's signature: record.ID when the
\* ipfs_live callback was missed. The payload's own GrantCID has no fallback.
GrantRef(c, rec) == IF rec.cid = NoCID THEN c ELSE rec.cid

SubmitRevoke(t) ==
    /\ At(t, "submit_revoke")
    /\ ReceiveRevoke(call[t].sealed, call[t].id, GrantRef(call[t].id, call[t].rec),
                     call[t].rec.cid)
    /\ Return(t)
    /\ UNCHANGED <<storeVars, dirVars, expired, history>>

\* The request, or the answer to GetConsentsSince, does not get through.
NetworkFails(t) ==
    /\ call[t].pc \in {"submit_grant", "submit_revoke", "fetch"}
    /\ "network" \in Faults
    /\ Return(t)
    /\ UNCHANGED <<mtVars, storeVars, dirVars, expired, history>>

-----------------------------------------------------------------------------
(* RevokeConsent: reads the record and leaves it as it is *)

\* The payload and the notary block carry the time of the request, so that every sealed
\* revocation has a CID of its own (unless two of them fall into the same second).
FreshRevocations ==
    {r \in OwnRevocations : /\ revokeTx[r] = NoRevocation
                            /\ \A u \in Calls: call[u].sealed # r}

Revoke(t, c) ==
    /\ At(t, "idle")
    /\ store[c].status \in {"pending", "active"}
    /\ GetOrAssignIndex(PartyOf[c])
    /\ PartyOf[c] \in xpubs
    /\ \E r \in FreshRevocations:
          Become(t, [Busy("revoke", "submit_revoke", c, store[c]) EXCEPT !.sealed = r])
    /\ UNCHANGED <<mtVars, storeVars, xpubs, expired, history>>

-----------------------------------------------------------------------------
(* Synchronize *)

SyncStart(t) ==
    /\ At(t, "idle")
    /\ Become(t, Passing("fetch", cursor + 1, 0))
    /\ UNCHANGED <<mtVars, storeVars, dirVars, expired, history>>

SyncFetch(t) ==
    /\ At(t, "fetch")
    /\ Become(t, Passing("event", call[t].next, LastEvent))
    /\ UNCHANGED <<mtVars, storeVars, dirVars, expired, history>>

SyncDone(t) ==
    /\ At(t, "event")
    /\ call[t].next > call[t].upto
    /\ Return(t)
    /\ UNCHANGED <<mtVars, storeVars, dirVars, expired, history>>

\* Slip: only active records are thought to expect events.
SkippedUnlessActive(rec) == rec.status # "active"

\* Get answers a missing record with an error, as interfaces.go has it; the
\* methods also expect nil, and treat it as not found.
GetFails(rec) == rec = NoRecord /\ MissingIsError

\* applySyncEvent looks the record up: events of unknown and terminal
\* records are skipped.
Skipped(rec) == rec = NoRecord \/ IsTerminal(rec)

\* Slip: a skipped event leaves the pass before its cursor is stored.
SyncEventSkipsCursor(t) ==
    /\ At(t, "event")
    /\ call[t].next <= call[t].upto
    /\ IF Skipped(store[chainLog[call[t].next].id]) THEN Return(t) ELSE Goto(t, "inner")
    /\ UNCHANGED <<mtVars, storeVars, dirVars, expired, history>>

SyncEvent(t) ==
    /\ At(t, "event")
    /\ call[t].next <= call[t].upto
    /\ LET rec == store[chainLog[call[t].next].id] IN
         IF GetFails(rec) THEN Return(t)
                          ELSE Goto(t, IF Skipped(rec) THEN "advance" ELSE "inner")
    /\ UNCHANGED <<mtVars, storeVars, dirVars, expired, history>>

\* HandleTransactionCallback for that event: it looks the record up again,
\* and its error ends the whole pass.
SyncHandle(t) ==
    /\ At(t, "inner")
    /\ LET e == chainLog[call[t].next] IN
         IF Handles(store[e.id], e.status)
         THEN Become(t, Handling(call[t], "sync", e.id, e.status, e.cid))
         ELSE Return(t)
    /\ UNCHANGED <<mtVars, storeVars, dirVars, expired, history>>

HasCursor(i) == chainLog[i].status \notin Uncursored

\* Slip: the cursor of the whole batch is stored with its first event.
SetSyncCursorOfBatch(t) ==
    /\ At(t, "advance")
    /\ cursor' = call[t].upto
    /\ Become(t, Passing("event", call[t].next + 1, call[t].upto))
    /\ UNCHANGED <<mtVars, store, dirVars, expired, history>>

\* Slip: an event without a cursor empties the stored one.
SetSyncCursorToEmpty(t) ==
    /\ At(t, "advance")
    /\ cursor' = IF HasCursor(call[t].next) THEN call[t].next ELSE 0
    /\ Become(t, Passing("event", call[t].next + 1, call[t].upto))
    /\ UNCHANGED <<mtVars, store, dirVars, expired, history>>

SetSyncCursor(t) ==
    /\ At(t, "advance")
    /\ cursor' = IF HasCursor(call[t].next) THEN call[t].next ELSE cursor
    /\ Become(t, Passing("event", call[t].next + 1, call[t].upto))
    /\ UNCHANGED <<mtVars, store, dirVars, expired, history>>

-----------------------------------------------------------------------------
(* The rest of the world *)

\* The process dies and is restarted: the store, the directory and the
\* mid-tier keep what they have.
Crash ==
    /\ "crash" \in Faults
    /\ \E t \in Calls: ~At(t, "idle")
    /\ call' = [t \in Calls |-> Idle]
    /\ UNCHANGED <<mtVars, storeVars, dirVars, expired, history>>

Expire(c) ==
    /\ c \in Expiring \ expired
    /\ expired' = expired \union {c}
    /\ UNCHANGED <<mtVars, storeVars, dirVars, call, history>>

MidTierStep == MidTierNext /\ UNCHANGED <<storeVars, dirVars, expired, call, history>>

Start(t) ==
    \/ \E c \in Consents: \/ InboundGarbage(t, c) \/ InboundReceive(t, c)
                          \/ Approve(t, c) \/ Reject(t, c)
                          \/ Callback(t, c) \/ Revoke(t, c)
    \/ \E p \in Parties: HandleXpubRequestByDID(t, p)
    \/ SyncStart(t)

Progress(t) ==
    \/ Review(t)
    \/ StoreSet(t)
    \/ SubmitGrant(t) \/ SubmitRevoke(t)
    \/ OnTransactionUpdate(t) \/ OnConsentRevoked(t)
    \/ SyncFetch(t) \/ SyncDone(t) \/ SyncEvent(t) \/ SyncHandle(t) \/ SetSyncCursor(t)

Fail(t) ==
    ReviewFails(t) \/ OnTransactionUpdateFails(t) \/ StoreFails(t) \/ NetworkFails(t)

Next ==
    \/ \E t \in Calls: Start(t) \/ Progress(t) \/ Fail(t)
    \/ Crash
    \/ \E c \in Expiring: Expire(c)
    \/ MidTierStep

Spec == Init /\ [][Next]_vars

\* What the engine leaves to its application and to the store, as it has no lock: that
\* no two calls are between the read and the write of the same record. Calls may still
\* overlap everywhere else, and on other records.
OneWriter ==
    \A t, u \in Calls:
        At(t, "set") /\ At(u, "set") /\ call[t].id = call[u].id => t = u

AtomicSpec == Init /\ [][Next /\ OneWriter']_vars

\* No two synchronisations overlap, whatever else does.
OneSync == \A t, u \in Calls: call[t].op = "sync" /\ call[u].op = "sync" => t = u

-----------------------------------------------------------------------------
(* Properties *)

\* Type correctness of the stores, of the history and of every activation.
TypeOK ==
    /\ MidTierTypeOK
    /\ store \in [Consents -> Record]
    /\ cursor \in Nat
    /\ indexed \subseteq Parties
    /\ xpubs \subseteq Parties
    /\ expired \subseteq Consents
    /\ call \in [Calls -> Call]
    /\ decided \subseteq Consents
    /\ notices \in [Consents -> 0 .. 2]

\* Consents whose whole history falls in the life of this store.
Tracked == Consents \ Preexisting

Revoked(c) == \E r \in Revocations: /\ revokeTx[r].of = c
                                    /\ "rev_confirmed" \in revokeTx[r].reached

\* What a record says of the chain is, or was, so.
Backed(c, rec) ==
    /\ rec.status = "active" => "confirmed" \in grantTx[c]
    /\ rec.status = "revoked" => Revoked(c)
    /\ rec.cid # NoCID => rec.cid = c /\ "ipfs_live" \in grantTx[c]
    /\ rec.revokeCID # NoCID =>
          /\ revokeTx[rec.revokeCID].of = c
          /\ "rev_ipfs_live" \in revokeTx[rec.revokeCID].reached

\* Whatever callbacks and syncs race, whatever is lost, repeated or redelivered:
\* a stored record is active only if its grant was confirmed on chain, revoked
\* only if a revocation of that very consent was, and names only CIDs that were
\* published for it. Every writer works on a copy that may be stale.
StoreIsBacked == \A c \in Consents: Backed(c, store[c])

\* OnConsentRevoked never announces a revocation the chain does not have.
NoticesAreBacked == \A c \in Consents: notices[c] > 0 => Revoked(c)

\* A grant reaches the mid-tier only after somebody decided for it and after
\* its record is stored, so none of its callbacks finds the record missing.
GrantsAreAccounted ==
    \A c \in Tracked:
        grantTx[c] # {} => c \in decided /\ store[c] # NoRecord

\* What the reviewer or the application rejected never reaches the mid-tier,
\* not even by way of a rejection that follows an approval.
RejectedNeverSubmitted ==
    \A c \in Tracked: store[c].status = "rejected" => grantTx[c] = {}

\* A pending consent with no call at work on it was submitted to the mid-tier
\* (types.go:46: pending is set once the consent is approved and submitted).
PendingIsSubmitted ==
    \A c \in Tracked:
        store[c].status = "pending" /\ (\A t \in Calls: call[t].id # c) => grantTx[c] # {}

\* The mid-tier never gets a grant without the engine's counter-signature, nor
\* with two of them, however often the grant is approved or delivered.
SubmittedSignedOnce ==
    \A t \in Calls: At(t, "submit_grant") => call[t].rec.sigs = 1

\* A submitted revocation is bound to the grant it revokes even when the
\* ipfs_live callback was missed (the fallback of revoke.go).
RevocationsBindGrant ==
    \A r \in Revocations: revokeTx[r] # NoRevocation => revokeTx[r].ref = revokeTx[r].of

\* The encrypted payload of a revocation names the grant it revokes
\* (types/payloads/feedrevocation/payload.go: GrantCID binds it to the grant).
PayloadsNameGrant ==
    \A r \in Revocations: revokeTx[r] # NoRevocation => revokeTx[r].inner = revokeTx[r].of

\* Revoked and rejected are terminal: such a record is never written again
\* with anything else (types.go on both statuses).
TerminalIsFinal == [][\A c \in Consents: IsTerminal(store[c]) => store'[c] = store[c]]_vars

\* In particular a revoked consent stays revoked (types.go:53).
RevokedIsFinal ==
    [][\A c \in Consents: store[c].status = "revoked" => store'[c].status = "revoked"]_vars

\* OnConsentRevoked fires once for a consent (interfaces.go).
RevokedNoticeOnce == \A c \in Consents: notices[c] <= 1

\* A revocation that Synchronize announces comes with the CID of a revocation that was
\* published for that very consent (types.go:139), as the log has every report of it in
\* order and the cursor passes none unapplied. An announcement after a callback may come
\* without one: the handler takes it from the record, which knows it from another report.
SyncAnnouncesCID ==
    \A t \in Calls:
        At(t, "revoked") /\ call[t].op = "sync" /\ call[t].id \in Tracked =>
            LET r == call[t].rec.revokeCID IN
            /\ r \in Revocations
            /\ revokeTx[r].of = call[t].id
            /\ "rev_ipfs_live" \in revokeTx[r].reached

\* The record shows what the event reported, or something later. Of a report that
\* the engine has no name for it shows nothing.
Reflects(e) ==
    LET rec == store[e.id] IN
    \/ IsTerminal(rec) /\ (e.status = "rev_confirmed" => rec.status = "revoked")
    \/ e.status = "ipfs_live" /\ rec.cid # NoCID
    \/ e.status = "confirmed" /\ rec.status = "active"
    \/ e.status = "rev_ipfs_live" /\ rec.revokeCID # NoCID
    \/ e.status \in TransactionStatuses
                    \ {"ipfs_live", "confirmed", "rev_ipfs_live", "rev_confirmed"}

\* The cursor never passes an event of a tracked consent that the store does
\* not reflect, whatever failed or crashed in between: what a sync has left
\* behind it need never be fetched again.
SyncedIsReflected ==
    \A i \in 1 .. cursor: chainLog[i].id \in Tracked => Reflects(chainLog[i])

\* A pass never moves the cursor back to an event that was already handled.
CursorNeverRewinds == [][cursor' >= cursor]_vars

\* For every consent whose whole history the store has seen, the engine keeps
\* the promises of ConsentLifecycle (types.go, README.md).
Lifecycle == INSTANCE ConsentLifecycle
                 WITH Consents <- Tracked,
                      status <- [c \in Tracked |-> store[c].status],
                      told <- [c \in Tracked |-> notices[c]]

KeepsLifecycle == Lifecycle!Spec

-----------------------------------------------------------------------------
(* Liveness *)

\* The application calls Synchronize again and again (README.md: "periodically
\* (e.g. every 60 s)"), a started call runs on, and what can fail does not fail
\* for ever: each step of a pass that is tried over and over succeeds some time.
\* Nothing is assumed of callbacks, which may all be lost, of the mid-tier, or
\* of users.
Fairness ==
    \A t \in Calls:
        /\ WF_vars(Progress(t))
        /\ SF_vars(SyncStart(t))
        /\ SF_vars(SyncFetch(t))
        /\ SF_vars(SyncEvent(t))
        /\ SF_vars(SyncHandle(t))
        /\ SF_vars(call[t].op = "sync" /\ StoreSet(t))
        /\ SF_vars(call[t].op = "sync" /\ OnTransactionUpdate(t))
        /\ SF_vars(call[t].op = "sync" /\ OnConsentRevoked(t))
        /\ SF_vars(SetSyncCursor(t))

FairSpec == Spec /\ Fairness

\* Each transaction logs each of its statuses at most once.
MaxEvents == Len(InitialLog) + Cardinality(Logged) * Cardinality(Consents \union Revocations)

InLog(c, s) == \E i \in 1 .. Len(chainLog): chainLog[i].id = c /\ chainLog[i].status = s

\* Every outcome on chain reaches the record in the end, with callbacks lost
\* and with crashes and failures in between (README.md: Synchronize recovers
\* from missed callbacks).
CatchesUp ==
    \A c \in Tracked:
        /\ InLog(c, "confirmed") ~> (store[c].status \in {"active", "revoked"})
        /\ InLog(c, "rev_confirmed") ~> (store[c].status = "revoked")

\* No event holds the cursor up for ever, neither by itself nor by what the batch goes
\* on with (sync.go: "a single bad event cannot stall the entire sync"): every cursor
\* that an event comes with is stored in the end, or a later one.
CursorMovesOn ==
    \A n \in 1 .. MaxEvents:
        (Len(chainLog) >= n /\ HasCursor(n)) ~> (cursor >= n)

\* An application is told of every revocation that was recorded (interfaces.go:
\* OnConsentRevoked fires when a revoke transaction reaches Confirmed).
RevocationIsTold ==
    \A c \in Consents: (store[c].status = "revoked") ~> (notices[c] > 0)

=============================================================================
