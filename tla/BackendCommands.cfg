SPECIFICATION Spec
CONSTANTS
    Command = {c1}
    Job = {j1, j2, j3}
    NoJob = NoJob
    ClaimTTL = 3
    MaxFaults = 2
    MaxRestarts = 2
    Overtaking = FALSE
CHECK_DEADLOCK FALSE
SYMMETRY JobSymmetry
INVARIANTS ExecutionsAccounted
PROPERTIES IgnoredOnlyForLiveJob AnswerKeptToItsTTL
