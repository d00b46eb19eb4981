CONSTANTS
    t1 = t1
    t2 = t2
    c1 = c1
    c2 = c2
    b1 = b1
    b2 = b2
    r1 = r1
    Team = {t1, t2}
    Component = {c1, c2}
    Subcomponent = {}
    DefaultTag = DefaultTag
    NoSubcomponent = NoSubcomponent
    Unknown = Unknown
    ID = {b1, b2}
    Unparsable = Unparsable
    Orgs <- MCOrgs
    NilOrg = NilOrg
    InitialBugs <- MCInitialBugs
    EditedBugs <- MCEditedBugs
    MaxChanges = 1
    MaxFaults = 1
SPECIFICATION FairSpec
INVARIANTS
    TypeOK
    CountsBounded
PROPERTIES
    ExactWhenUndisturbed
    KeepsAnswering
    ResultsConverge
