SPECIFICATION FairSpec
CONSTANTS
    Command = {c1}
    Job = {j1, j2, j3}
    NoJob = NoJob
    ClaimTTL = 3
    MaxFaults = 1
    MaxRestarts = 1
    Overtaking = TRUE
CHECK_DEADLOCK FALSE
INVARIANTS ClaimIsTheJobs OneRunPerClaim
PROPERTIES StaleClaimGoes
