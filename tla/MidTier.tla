------------------------------- MODULE MidTier ------------------------------
(***************************************************************************)
(* The environment of the consent engine: the mid-tier service that pins   *)
(* records on IPFS and drives grant and revoke transactions on chain.  It  *)
(* is not in the repository; it is modelled from how consent/ uses it.     *)
(*                                                                         *)
(* A transaction is the set of statuses it has reached.  Status reports    *)
(* travel two ways.  Callbacks may be lost, delayed, repeated and          *)
(* reordered: any reached status may be delivered at any later time, any   *)
(* number of times, or never.  chainLog is what GetConsentsSince returns:  *)
(* one event per reached status of the kinds in Logged, in order; an       *)
(* event's cursor, if it has one, is its position.                         *)
(***************************************************************************)
EXTENDS ConsentTypes, Integers, Sequences

CONSTANTS
    Consents,     \* sealed consents, each named by its CID
    Revocations,  \* sealed revocations, each named by its CID
    OwnRevocations, \* those sealed by this engine; the other party seals the rest
    NoCID,        \* the empty CID string
    GrantEnds,    \* how a submitted grant may go on: confirmed, rejected, delayed
    Reported,     \* the statuses callbacks report
    Logged,       \* the statuses GetConsentsSince reports
    Uncursored,   \* those of them whose events come without a cursor
    InitialLog    \* the history of this wallet from before this store existed

ASSUME GrantEndsAssumption == GrantEnds \subseteq {"confirmed", "rejected", "delayed"}

VARIABLES
    grantTx,      \* grantTx[c]: the statuses the grant of c has reached
    revokeTx,     \* revokeTx[r]: the revocation r and the statuses it reached
    chainLog      \* the ordered events of GetConsentsSince

mtVars == <<grantTx, revokeTx, chainLog>>

Event == [id: Consents,
          status: TransactionStatuses \union {Foreign},
          cid: Consents \union Revocations]

\* What a revocation says of the grant it kills: the binding the revoker signs
\* (ref) and the GrantCID inside the encrypted payload (inner).
Revocation == [of: Consents \union {NoCID},
               ref: Consents \union {NoCID},
               inner: Consents \union {NoCID},
               reached: SUBSET RevokeStatuses]

NoRevocation == [of |-> NoCID, ref |-> NoCID, inner |-> NoCID, reached |-> {}]

\* Consents whose history predates this store.
Preexisting == {InitialLog[i].id : i \in 1 .. Len(InitialLog)}

MidTierTypeOK ==
    /\ grantTx \in [Consents -> SUBSET GrantStatuses]
    /\ revokeTx \in [Revocations -> Revocation]
    /\ chainLog \in Seq(Event)

MidTierInit ==
    /\ grantTx = [c \in Consents |->
                    IF c \in Preexisting
                    THEN {"pending", "ipfs_live", "submitted", "confirmed"} ELSE {}]
    /\ revokeTx = [r \in Revocations |-> NoRevocation]
    /\ chainLog = InitialLog

Log(c, s, cid) ==
    chainLog' = IF s \in Logged
                THEN Append(chainLog, [id |-> c, status |-> s, cid |-> cid])
                ELSE chainLog

-----------------------------------------------------------------------------
(* Requests from the engine *)

\* PUT /api/v3/grant. Submitting a grant the mid-tier already has changes nothing.
ReceiveGrant(c) ==
    /\ grantTx' = [grantTx EXCEPT ![c] = @ \union {"pending"}]
    /\ UNCHANGED <<revokeTx, chainLog>>

\* DELETE /api/v3/grant. Each sealed revocation is new: it carries the time of the request.
ReceiveRevoke(r, c, ref, inner) ==
    /\ revokeTx[r] = NoRevocation
    /\ revokeTx' = [revokeTx EXCEPT ![r] = [of |-> c, ref |-> ref, inner |-> inner,
                                            reached |-> {"rev_pending"}]]
    /\ UNCHANGED <<grantTx, chainLog>>

-----------------------------------------------------------------------------
(* Transactions advance:
     pending -> ipfs_live -> submitted -> confirmed | rejected, perhaps delayed on the way
     rev_pending -> rev_ipfs_live -> rev_submitted -> rev_confirmed *)

GrantFollows(reached) ==
    (IF "pending" \in reached THEN {"ipfs_live"} ELSE {})
      \union (IF "ipfs_live" \in reached THEN {"submitted"} ELSE {})
      \union (IF "submitted" \in reached /\ reached \intersect {"confirmed", "rejected"} = {}
              THEN GrantEnds ELSE {})

RevokeFollows(reached) ==
    (IF "rev_pending" \in reached THEN {"rev_ipfs_live"} ELSE {})
      \union (IF "rev_ipfs_live" \in reached THEN {"rev_submitted"} ELSE {})
      \union (IF "rev_submitted" \in reached THEN {"rev_confirmed"} ELSE {})

GrantAdvances(c) ==
    \E s \in GrantFollows(grantTx[c]) \ grantTx[c]:
        /\ grantTx' = [grantTx EXCEPT ![c] = @ \union {s}]
        /\ Log(c, s, c)
        /\ UNCHANGED revokeTx

\* The contract accepts a revocation only of a consent it holds.
RevokeAdvances(r) ==
    \E s \in RevokeFollows(revokeTx[r].reached) \ revokeTx[r].reached:
        /\ s = "rev_confirmed" => "confirmed" \in grantTx[revokeTx[r].of]
        /\ revokeTx' = [revokeTx EXCEPT ![r].reached = @ \union {s}]
        /\ Log(revokeTx[r].of, s, r)
        /\ UNCHANGED grantTx

\* Any signer of the consent may revoke it, so the other party may as well.
OtherPartyRevokes(r, c) ==
    /\ r \notin OwnRevocations
    /\ "confirmed" \in grantTx[c]
    /\ ReceiveRevoke(r, c, c, c)

\* The mid-tier reports something this version of the engine has no name for.
LogsForeign(c) ==
    /\ Foreign \in Logged
    /\ grantTx[c] # {}
    /\ \A i \in 1 .. Len(chainLog): chainLog[i].status # Foreign
    /\ Log(c, Foreign, c)
    /\ UNCHANGED <<grantTx, revokeTx>>

MidTierNext ==
    \/ \E c \in Consents: GrantAdvances(c) \/ LogsForeign(c)
    \/ \E r \in Revocations: RevokeAdvances(r)
    \/ \E r \in Revocations, c \in Consents: OtherPartyRevokes(r, c)

-----------------------------------------------------------------------------
(* Status reports about c that a callback may carry *)

Callbacks(c) ==
    {[status |-> s, cid |-> c] : s \in grantTx[c] \intersect Reported}
      \union UNION {{[status |-> s, cid |-> r] : s \in revokeTx[r].reached \intersect Reported} :
                       r \in {x \in Revocations : revokeTx[x].of = c}}

\* GetConsentsSince(cursor): the positions after the cursor, up to the last event.
LastEvent == Len(chainLog)

=============================================================================
