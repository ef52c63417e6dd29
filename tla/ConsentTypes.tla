---------------------------- MODULE ConsentTypes ----------------------------
(***************************************************************************)
(* The vocabulary of the consent engine: the statuses a transaction and a  *)
(* stored record go through (consent/types.go).  Statuses keep the text of *)
(* the source's constants.                                                 *)
(***************************************************************************)

GrantStatuses == {"pending", "ipfs_live", "submitted", "confirmed", "rejected", "delayed"}

RevokeStatuses == {"rev_pending", "rev_ipfs_live", "rev_submitted", "rev_confirmed"}

\* What HandleTransactionCallback recognises.
TransactionStatuses == GrantStatuses \union RevokeStatuses

\* A status of some other vintage of the mid-tier: the status field is an
\* unconstrained string on the wire.
Foreign == "foreign"

\* The statuses a record is stored with. "expired" and "not-found" are answers
\* of CheckConsent and are never stored.
ConsentStatuses == {"pending-review", "pending", "active", "revoked", "rejected"}

\* The status standing for "Get finds no record".
Unknown == "unknown"

TerminalStatuses == {"revoked", "rejected"}

=============================================================================
