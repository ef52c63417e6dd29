\* Two consents for one party and feed, either of which may expire; one call of the
\* engine and one question at a time, no event log, and a store of either kind.
CONSTANTS
    c1 = c1  c2 = c2  r1 = r1  r2 = r2  p1 = p1  t1 = t1  t2 = t2
    k1 = k1  f1 = f1  f2 = f2
    Consents = {c1, c2}
    Revocations = {r1}
    OwnRevocations = {}
    NoCID = NoCID
    GrantEnds = {"confirmed"}
    Reported <- OnlyReports
    Logged = {}
    Uncursored = {}
    InitialLog <- NoHistory
    Calls = {t1}
    Parties = {p1}
    PartyOf <- OneParty
    Expiring = {c1, c2}
    Redelivery = FALSE
    MissingIsError = FALSE
    Faults = {"handler"}
    Readers = {k1}
    Feeds = {f1, f2}
    FeedOf <- OneFeed
SPECIFICATION CheckSpec
SYMMETRY BothConsents
INVARIANTS ReaderTypeOK ExpiredInPassing
PROPERTIES ActiveAnswersHold DeadIsNotFound
