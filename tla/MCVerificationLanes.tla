-------------------------- MODULE MCVerificationLanes --------------------------
\* Every node of the instance belongs to the one miner.
EXTENDS VerificationLanes

MCMinerOf == [n \in Node |-> CHOOSE m \in Miner : TRUE]
================================================================================
