CONSTANTS
    c1 = c1
    s1 = s1
    t1 = t1
    t2 = t2
    t3 = t3
    IgnoreTag = IgnoreTag
    Team = {t1, t2, t3}
    Component = {c1, IgnoreTag}
    Subcomponent = {s1}
    DefaultTag = DefaultTag
    NoSubcomponent = NoSubcomponent
    Unknown = Unknown
    History <- MCHistory
    FlagSets <- MCFlagSets
    MaxChanges = 2
    MaxFaults = 1
SPECIFICATION FairSpec
INVARIANTS
    TypeOK
    OverridePrevails
    MixtureIsOrdered
PROPERTIES
    NeverBackwards
    ChangeIsNoticed
    ServesCurrent
