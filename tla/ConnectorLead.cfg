SPECIFICATION FairSpec
CONSTANTS
    Connector = {c1, c2, c3}
    Nobody = Nobody
    Orphan = Orphan
    TTL = 3
    MaxFaults = 5
    MaxKills = 2
INVARIANTS LeaderHoldsLock LapseTakesMissedRenewals BackendWaitBounded
PROPERTIES AlwaysLedAgain OvertakenKeeperStops
