CONSTANTS
    BugID = {b1, b2}
    Job = {j1, j2}
    Selected = {}
    InitialBugs <- MCFewBugs
    EditedBugs <- MCFewBugs
    Locked = {b2}
    MaxEdits = 1
    MaxFaults = 1
SPECIFICATION FairSpec
INVARIANTS
    TypeOK
    TwoRunsSuffice
    FewComments
PROPERTIES
    AllComeToRest
