SPECIFICATION Spec
CONSTANTS
    Pod = {p1}
    Job = {j1, j2, j3, j4}
    NoJob = NoJob
    MaxResumes = 1
    MaxFaults = 1
    MaxRestarts = 3
    Retries = FALSE
    InOrder = TRUE
SYMMETRY Symmetry
CHECK_DEADLOCK FALSE
INVARIANTS DeletedPodHasCreate ResumeBound RunningCreateRecorded NobodyWaitsInVain NoCreateOutlivesDelete
