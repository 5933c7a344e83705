SPECIFICATION FairSpec
CONSTANTS
    Node = {n1}
    Miner = {m1}
    Batch = {b1, b2}
    MinerOf <- MCMinerOf
    Known = {}
    NoBatch = NoBatch
    MaxInFlight = 1
    MaxPerMiner = 1
    MaxAttempts = 2
    MaxRuns = 2
    MaxRechecks = 1
    MaxFaults = 0
PROPERTY OnlyUnpublished
