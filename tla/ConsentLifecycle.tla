-------------------------- MODULE ConsentLifecycle --------------------------
(***************************************************************************)
(* What the consent engine promises of each consent, with no call, store   *)
(* copy, network or cursor in sight: the lifecycle of types.go and of      *)
(* consent/README.md.  A decision is taken at most once, only a decided    *)
(* consent becomes active, revoked and rejected are final, and the         *)
(* application is told of a revocation at most once, after it is recorded. *)
(***************************************************************************)
EXTENDS ConsentTypes, Integers

CONSTANTS Consents

VARIABLES
    status,     \* status[c], Unknown before the consent is ingested
    told        \* how many times OnConsentRevoked was called for c

lifecycleVars == <<status, told>>

Init ==
    /\ status = [c \in Consents |-> Unknown]
    /\ told = [c \in Consents |-> 0]

Becomes(c, s) == status' = [status EXCEPT ![c] = s] /\ UNCHANGED told

Ingest(c) ==
    /\ status[c] = Unknown
    /\ \E s \in {"pending-review", "pending", "rejected"}: Becomes(c, s)

Decide(c) ==
    /\ status[c] = "pending-review"
    /\ \E s \in {"pending", "rejected"}: Becomes(c, s)

Confirm(c) ==
    /\ status[c] = "pending"
    /\ Becomes(c, "active")

\* The report of the grant's confirmation may have been missed.
Revoke(c) ==
    /\ status[c] \in {"pending", "active"}
    /\ Becomes(c, "revoked")

Tell(c) ==
    /\ status[c] = "revoked"
    /\ told[c] = 0
    /\ told' = [told EXCEPT ![c] = 1]
    /\ UNCHANGED status

Next == \E c \in Consents: Ingest(c) \/ Decide(c) \/ Confirm(c) \/ Revoke(c) \/ Tell(c)

Spec == Init /\ [][Next]_lifecycleVars

=============================================================================
