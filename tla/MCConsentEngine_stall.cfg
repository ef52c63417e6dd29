\* The log holds one event with a status the engine does not know.
CONSTANTS
    c1 = c1  c2 = c2  r1 = r1  r2 = r2  p1 = p1  t1 = t1  t2 = t2
    Consents = {c1}
    Revocations = {r1}
    OwnRevocations = {}
    NoCID = NoCID
    GrantEnds = {"confirmed"}
    Reported <- OneQuietStatus
    Logged <- OutcomesAndForeign
    Uncursored = {}
    InitialLog <- NoHistory
    Calls = {t1}
    Parties = {p1}
    PartyOf <- OneParty
    Expiring = {}
    Redelivery = FALSE
    MissingIsError = FALSE
    Faults = {}
SPECIFICATION FairSpec
PROPERTY CursorMovesOn
