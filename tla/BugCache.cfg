CONSTANTS
    BugID = {b1}
    Kind = {bug, comments}
    BugKind = bug
    Caller = {g1, g2}
    Nothing = Nothing
    Garbage = Garbage
    MaxRevision = 3
SPECIFICATION CacheSpec
INVARIANT CacheInv
PROPERTY CallsAnswer
