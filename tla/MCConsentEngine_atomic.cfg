\* Two calls that are not both between the read and the write of one record, on a new and
\* on a pre-existing consent; every fault.
CONSTANTS
    c1 = c1  c2 = c2  r1 = r1  r2 = r2  p1 = p1  t1 = t1  t2 = t2
    Consents = {c1, c2}
    Revocations = {r1}
    OwnRevocations = {}
    NoCID = NoCID
    GrantEnds = {"confirmed"}
    Reported <- OnlyOutcomes
    Logged <- OutcomesAndRevokePin
    Uncursored = {"confirmed"}
    InitialLog <- EarlierGrant
    Calls = {t1, t2}
    Parties = {p1}
    PartyOf <- OneParty
    Expiring = {}
    Redelivery = FALSE
    MissingIsError = FALSE
    Faults = {"crash", "store", "network", "handler"}
SPECIFICATION AtomicSpec
SYMMETRY Symmetry
INVARIANTS RevokedNoticeOnce SyncAnnouncesCID SyncedIsReflected RejectedNeverSubmitted
PROPERTIES KeepsLifecycle TerminalIsFinal
