\* Each party has a counterparty besides the other, so that slot 0 may be either's.
CONSTANTS
    Parties = {a, b}
    Others = {m}
    Notary = notary
    Chains = {1}
    Contracts = {k, l}
    Schemes = {"EC", "PQ"}
    Unassigned = Unassigned
    Failed = Failed
    MaxIndex = 1
    MaxGrants = 2
    MaxRevocations = 1
SPECIFICATION Spec
INVARIANTS TypeOK OnlySlotZeroIsClosed NotaryBlocksOpen RevocationsVerify SealingKeysAreFresh BlocksAreDetected
    ECExampleAuthorises PQExampleTurnsSignerAway
PROPERTY KeepsRegistry
CHECK_DEADLOCK FALSE
SYMMETRY Symmetry
