\* One call at a time, nothing fails, a revoked grant is delivered again.
CONSTANTS
    c1 = c1  c2 = c2  r1 = r1  r2 = r2  p1 = p1  t1 = t1  t2 = t2
    Consents = {c1}
    Revocations = {r1}
    OwnRevocations = {}
    NoCID = NoCID
    GrantEnds = {"confirmed"}
    Reported <- OneQuietStatus
    Logged <- OnlyOutcomes
    Uncursored = {}
    InitialLog <- NoHistory
    Calls = {t1}
    Parties = {p1}
    PartyOf <- OneParty
    Expiring = {}
    Redelivery = TRUE
    MissingIsError = FALSE
    Faults = {}
SPECIFICATION Spec
PROPERTY TerminalIsFinal
