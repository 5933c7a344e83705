SPECIFICATION Spec
CONSTANTS
    Pod = {p1}
    Job = {j1, j2}
    NoJob = NoJob
    MaxResumes = 1
    MaxFaults = 0
    MaxRestarts = 0
    Retries = FALSE
    InOrder = FALSE
SYMMETRY Symmetry
CHECK_DEADLOCK FALSE
INVARIANTS NoCreateOutlivesDelete
