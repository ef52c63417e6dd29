\* One call at a time, fair Synchronize, every fault, callbacks that may all be lost, a store whose Get
\* fails on a missing record.
CONSTANTS
    c1 = c1  c2 = c2  r1 = r1  r2 = r2  p1 = p1  t1 = t1  t2 = t2
    Consents = {c1}
    Revocations = {r1}
    OwnRevocations = {}
    NoCID = NoCID
    GrantEnds = {"confirmed", "rejected", "delayed"}
    Reported <- OneQuietStatus
    Logged <- OnlyOutcomes
    Uncursored = {"rev_confirmed"}
    InitialLog <- NoHistory
    Calls = {t1}
    Parties = {p1}
    PartyOf <- OneParty
    Expiring = {c1}
    Redelivery = FALSE
    MissingIsError = TRUE
    Faults = {"crash", "store", "network", "handler"}
SPECIFICATION FairSpec
PROPERTIES CatchesUp CursorMovesOn CursorNeverRewinds
