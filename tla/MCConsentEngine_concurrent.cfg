\* Two calls at a time on one consent, every fault, redelivered grants.
CONSTANTS
    c1 = c1  c2 = c2  r1 = r1  r2 = r2  p1 = p1  t1 = t1  t2 = t2
    Consents = {c1}
    Revocations = {r1}
    OwnRevocations = {r1}
    NoCID = NoCID
    GrantEnds = {"confirmed"}
    Reported <- OneQuietStatus
    Logged <- OnlyOutcomes
    Uncursored = {}
    InitialLog <- NoHistory
    Calls = {t1, t2}
    Parties = {p1}
    PartyOf <- OneParty
    Expiring = {}
    Redelivery = TRUE
    MissingIsError = FALSE
    Faults = {"crash", "store", "network", "handler"}
SPECIFICATION Spec
SYMMETRY Symmetry
INVARIANTS TypeOK StoreIsBacked NoticesAreBacked GrantsAreAccounted SubmittedSignedOnce RevocationsBindGrant
