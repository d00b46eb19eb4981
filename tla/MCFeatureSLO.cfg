CONSTANTS
    c1 = c1
    c2 = c2
    c3 = c3
    t1 = t1
    t2 = t2
    Team = {t1, t2}
    Component = {c1, c2, c3}
    Subcomponent = {}
    DefaultTag = DefaultTag
    NoSubcomponent = NoSubcomponent
    Unknown = Unknown
    Nil = Nil
    Pulls <- MCPulls
    Orgs <- MCOrgs
    Results <- MCResults
    PageSize = 2
    MaxChanges = 2
    MaxFaults = 1
SPECIFICATION Spec
INVARIANTS
    VerdictsJustified
    SearchNearlyComplete
CHECK_DEADLOCK FALSE
