CONSTANTS
    MaxCommits = 3
    MaxFailures = 2
    MaxManual = 1
SPECIFICATION FairWatchSpec
INVARIANTS
    OneWaiting
    NoNeedlessBuilds
PROPERTIES
    HeadIsTried
