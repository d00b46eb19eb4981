CONSTANTS
    c1 = c1
    s1 = s1
    s2 = s2
    Team = {t1, t2, t3}
    Component = {c1}
    Subcomponent = {s1, s2}
    DefaultTag = DefaultTag
    NoSubcomponent = NoSubcomponent
    Unknown = Unknown
    Nil = Nil
    Orgs <- MCOrgs
SPECIFICATION Spec
INVARIANTS
    AnswerIsClaimed
