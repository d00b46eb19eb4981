CONSTANTS
    Issues = {1, 2, 3}
    PageSize = 1
    MaxDays = 2
    MaxMoves = 2
    MaxFailures = 2
SPECIFICATION FairJiraSpec
INVARIANTS
    JiraTypeOK
    DiffHonest
    DamageNeedsFault
PROPERTIES
    SnapshotCatchesUp
