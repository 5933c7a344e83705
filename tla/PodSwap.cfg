SPECIFICATION FairSpec
CONSTANTS
    Create = {c1, c2, c3}
    Edit = {c2, c3}
    Resent = {}
    None = None
    MaxMishaps = 1
    MaxTimeouts = 1
INVARIANTS CopyKept NeverBothRun EditUndone DeletedIsGone InspectorOff
PROPERTIES DeleteAnswered KeepsContract
CHECK_DEADLOCK FALSE
