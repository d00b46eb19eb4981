CONSTANTS
    c1 = c1
    d1 = d1
    t1 = t1
    t2 = t2
    Team = {t1, t2}
    Component = {c1}
    Subcomponent = {}
    DefaultTag = DefaultTag
    NoSubcomponent = NoSubcomponent
    Unknown = Unknown
    ID = {b1, b2}
    Detail = {d1}
    NoLabels = NoLabels
    Orgs <- MCOrgs
    NilOrg = NilOrg
    InitialBugs <- MCInitialBugs
    Metrics = Metrics
    Handlers = {h1}
    MaxChanges = 1
    MaxFaults = 1
SPECIFICATION FairSpec
INVARIANTS
    TypeOK
    TeamMapFaithful
    PublishOnlyAnswers
PROPERTIES
    RefinesGauge
    GaugeConverges
