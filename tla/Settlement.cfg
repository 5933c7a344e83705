SPECIFICATION FairSpec
CONSTANTS
    MaxTempo = 2
    MaxCycles = 2
    MaxLives = 2
    Cap = 1
    MaxFaults = 1
    MaxKills = 1
INVARIANTS WindowsAccounted ReportsAccounted IdsAreTheSummed
PROPERTIES NextWindowWaits WindowsReported
