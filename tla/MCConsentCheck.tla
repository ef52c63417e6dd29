--------------------------- MODULE MCConsentCheck ---------------------------
(* A small instance of ConsentCheck, with the model values of MCConsentEngine. *)
EXTENDS MCConsentEngine, ConsentCheck

CONSTANTS k1, f1, f2

\* Both consents may answer the same question.
OneFeed == [c \in Consents |-> f1]

OnlyReports == {"confirmed", "rev_confirmed"}

BothConsents == Permutations(Consents)

=============================================================================
