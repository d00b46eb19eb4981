CONSTANTS
    HeaderLength = 100
    LineLengths = {780, 4100}
    LineCount = 5
    p1 = p1
    p2 = p2
    p3 = p3
    t1 = t1
    t2 = t2
    t3 = t3
    Person = {p1, p2, p3}
    Team = {t1, t2, t3}
    Unknown = Unknown
    Muted = {p3}
    Orgs <- MCOrgs
    BugSets <- MCBugSets
    Message <- MCMessage
    Texts <- MCTexts
    MaxTicks = 2
    MaxFaults = 2
SPECIFICATION FairSpec
INVARIANTS
    AtMostOncePerTick
    DebugStaysPrivate
    ReportsToAll
    LosesNothing
PROPERTIES
    TickIsReported
CHECK_DEADLOCK FALSE
