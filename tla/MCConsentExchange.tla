--------------------------- MODULE MCConsentExchange ---------------------------
(***************************************************************************)
(* Model values for the parties and contracts of ConsentExchange, which no *)
(* definition tells apart.                                                 *)
(***************************************************************************)
EXTENDS Examples, TLC

Symmetry == Permutations(Parties) \union Permutations(Contracts)

=============================================================================
