CONSTANTS
    NoVersion = NoVersion
    Releases <- MCReleases
SPECIFICATION Spec
INVARIANTS
    ReturnsLowest
CHECK_DEADLOCK FALSE
