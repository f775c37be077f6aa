SPECIFICATION FairSpec
CONSTANTS
    MaxInits = 2
    MaxSends = 1
    Libraries <- MCLibraries
    MayFail = {"net"}
INVARIANTS
    NoUseAfterDelete
    CallsKnown
    FirstInitServes
PROPERTIES
    ExitEndsThreads
\* the caller may make no more calls
CHECK_DEADLOCK FALSE
