--------------------------- MODULE MCConsentEngine --------------------------
(* Small instances of ConsentEngine for TLC. *)
EXTENDS ConsentEngine, TLC

CONSTANTS c1, c2, r1, r2, p1, t1, t2

\* One counterparty sealed everything.
OneParty == [c \in Consents |-> p1]

NoHistory == << >>

\* c2 was granted and confirmed before this store was set up.
EarlierGrant == <<[id |-> c2, status |-> "confirmed", cid |-> c2]>>

\* "pending" stands for every status that changes no field of a record.
OneQuietStatus == {"pending", "ipfs_live", "confirmed", "rev_ipfs_live", "rev_confirmed"}

OnlyOutcomes == {"confirmed", "rev_confirmed"}
OutcomesAndRevokePin == OnlyOutcomes \union {"rev_ipfs_live"}
OutcomesAndForeign == OnlyOutcomes \union {Foreign}

Symmetry == Permutations(Calls)

=============================================================================
