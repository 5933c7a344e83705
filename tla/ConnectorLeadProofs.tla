------------------------- MODULE ConnectorLeadProofs -------------------------
(***************************************************************************)
(* For any set of connectors, any TTL and any number of faults and kills:  *)
(* a leader whose lock did not expire holds it, the lock does not expire   *)
(* before TTL - 1 renewals were missed, until then at most one connector   *)
(* leads, and a waiting connector waits at most one TTL and one more per   *)
(* fault.                                                                  *)
(***************************************************************************)
EXTENDS ConnectorLead, TLAPS

\* A keeper that found its lock gone does not hold it, and neither does one that ended.
KeeperKnows ==
    \A c \in Connector :
        /\ keeper[c] \in {"retake", "dead"} => c \in lapsed /\ holder # c
        /\ c \in lapsed => pc[c] = "leading" /\ holder # c

\* What is missing of the leader's TTL was missed by faults.
MissedByFaults ==
    \A c \in Connector :
        (pc[c] = "leading" /\ holder = c) =>
            faults >= TTL - left - (IF c \in acted THEN 0 ELSE 1)

Led == \E c \in Connector : pc[c] = "leading"

Paid(f) == TTL * (1 + f)

\* While nobody leads, the gap and what is left of the lock fit in the bound.
GapAndLock ==
    /\ Led => gap = 0
    /\ ~Led => gap + left <= Paid(faults)

\* At most one connector leads as long as fewer than TTL - 1 calls, loops or processes failed,
\* however many rollouts kill and start them.
OneLeader ==
    faults < TTL - 1 =>
        \A c, d \in Connector : pc[c] = "leading" /\ pc[d] = "leading" => c = d

IInv ==
    /\ TypeOK /\ LeaderHoldsLock /\ KeeperKnows /\ MissedByFaults
    /\ LapseTakesMissedRenewals

\* Init establishes the invariants: nobody runs.
LEMMA InitIInv == Init => IInv /\ GapAndLock
<1> SUFFICES ASSUME Init PROVE IInv /\ GapAndLock
  BY Zenon
<1>1. IInv
  BY LeadAssumption DEF Init, IInv, TypeOK, LeaderHoldsLock, KeeperKnows, MissedByFaults,
     LapseTakesMissedRenewals
<1>2. TTL * (1 + 0) = TTL
  BY LeadAssumption
<1>3. GapAndLock
  BY <1>2, LeadAssumption DEF Init, GapAndLock, Led, Paid
<1> QED
  BY Zenon, <1>1, <1>3

\* Every step keeps the lock with its leader and the count of missed renewals.
LEMMA StepIInv == IInv /\ [Next]_vars => IInv'
<1> SUFFICES ASSUME IInv, [Next]_vars PROVE IInv'
  BY Zenon
<1> USE LeadAssumption DEF IInv, TypeOK, LeaderHoldsLock, KeeperKnows, MissedByFaults,
        LapseTakesMissedRenewals, redisVars, historyVars, Fault, Dies, Acts
<1>1. ASSUME NEW c \in Connector, Start(c) \/ MarkReady(c) \/ AcquireFails(c)
      PROVE  IInv'
  BY <1>1 DEF Start, MarkReady, AcquireFails
<1>2. ASSUME NEW c \in Connector, Acquire(c) PROVE IInv'
  BY <1>2 DEF Acquire
<1>3. ASSUME NEW c \in Connector, Orphaned(c) PROVE IInv'
  BY <1>3 DEF Orphaned
<1>4. ASSUME NEW c \in Connector, Renew(c) PROVE IInv'
  BY <1>4 DEF Renew
<1>5. ASSUME NEW c \in Connector, NotOwned(c) PROVE IInv'
  BY Zenon, <1>5 DEF NotOwned
<1>6. ASSUME NEW c \in Connector, RenewFails(c) PROVE IInv'
  BY <1>6 DEF RenewFails
<1>7. ASSUME NEW c \in Connector, Retake(c) PROVE IInv'
  BY <1>7 DEF Retake
<1>8. ASSUME NEW c \in Connector, RetakeRaises(c) PROVE IInv'
  BY <1>8 DEF RetakeRaises
<1>9. ASSUME NEW c \in Connector, Kill(c) \/ Crash(c) PROVE IInv'
  BY <1>9 DEF Kill, Crash
<1>10. CASE Tick
  BY <1>10 DEF Tick, IntervalOver, Counted
<1>11. CASE UNCHANGED vars
  BY Zenon, <1>11 DEF vars
<1> QED
  BY Zenon, <1>1, <1>2, <1>3, <1>4, <1>5, <1>6, <1>7, <1>8, <1>9, <1>10, <1>11 DEF Next, Step

\* One more fault pays for one more TTL.
LEMMA PaidFacts ==
    ASSUME NEW f \in Nat
    PROVE  /\ Paid(f) \in Nat /\ Paid(f) >= TTL
           /\ Paid(f + 1) = Paid(f) + TTL
  BY LeadAssumption DEF Paid

\* Every step keeps the gap within the bound.
LEMMA StepGap == IInv /\ GapAndLock /\ [Next]_vars => GapAndLock'
<1> SUFFICES ASSUME IInv, GapAndLock, [Next]_vars
             PROVE  /\ Led' => gap' = 0
                    /\ ~Led' => gap' + left' <= Paid(faults')
  BY Zenon DEF GapAndLock
<1> USE LeadAssumption DEF redisVars, historyVars, Dies, Acts
<1>a. TypeOK /\ Paid(faults) \in Nat /\ Paid(faults) >= TTL
  BY Zenon, PaidFacts DEF IInv, TypeOK
<1>b. Fault => Paid(faults') = Paid(faults) + TTL
  BY Zenon, <1>a, PaidFacts DEF Fault, TypeOK
<1>c. /\ Led => gap = 0
      /\ ~Led => gap + left <= Paid(faults)
  BY Zenon DEF GapAndLock
<1> DEFINE Goal == /\ Led' => gap' = 0
                   /\ ~Led' => gap' + left' <= Paid(faults')
<1> USE <1>a, <1>b, <1>c DEF TypeOK, Led
<1>1. ASSUME NEW c \in Connector, Start(c) \/ MarkReady(c) \/ AcquireFails(c)
      PROVE  Goal
  BY <1>1 DEF Start, MarkReady, AcquireFails, Fault
<1>2. ASSUME NEW c \in Connector, Acquire(c) PROVE Goal
  BY Zenon, <1>2 DEF Acquire
<1>3. ASSUME NEW c \in Connector, Orphaned(c) PROVE Goal
  BY <1>3 DEF Orphaned, Fault
<1>4. ASSUME NEW c \in Connector, Renew(c) \/ NotOwned(c) PROVE Goal
  BY Zenon, <1>4 DEF Renew, NotOwned
<1>5. ASSUME NEW c \in Connector, RenewFails(c) \/ RetakeRaises(c) PROVE Goal
  BY Zenon, <1>5 DEF RenewFails, RetakeRaises, Fault
<1>6. ASSUME NEW c \in Connector, Retake(c) PROVE Goal
  BY <1>6 DEF Retake
<1>7. ASSUME NEW c \in Connector, Kill(c) PROVE Goal
  BY <1>7 DEF Kill
<1>8. ASSUME NEW c \in Connector, Crash(c) PROVE Goal
  BY <1>8 DEF Crash, Fault
<1>9. CASE Tick
  BY <1>9 DEF Tick, IntervalOver, Counted
<1>10. CASE UNCHANGED vars
  BY Zenon, <1>10 DEF vars
<1> QED
  BY Zenon, <1>1, <1>2, <1>3, <1>4, <1>5, <1>6, <1>7, <1>8, <1>9, <1>10 DEF Next, Step

\* The bound on the gap follows.
LEMMA GapBounds == TypeOK /\ GapAndLock => BackendWaitBounded
<1> SUFFICES ASSUME TypeOK, GapAndLock PROVE BackendWaitBounded
  BY Zenon
<1>1. TTL * (1 + faults) \in Nat
  BY LeadAssumption DEF TypeOK
<1> QED
  BY <1>1, LeadAssumption DEF TypeOK, GapAndLock, Led, Paid, BackendWaitBounded

\* Every reachable state satisfies the invariants.
LEMMA LeadInvariant == Spec => [](IInv /\ GapAndLock)
<1>1. Init => IInv /\ GapAndLock
  BY Zenon, InitIInv
<1>2. (IInv /\ GapAndLock) /\ [Next]_vars => (IInv /\ GapAndLock)'
  BY Zenon, StepIInv, StepGap
<1> QED
  BY <1>1, <1>2, PTL DEF Spec

\* The lock, the processes and their keepers keep their types, and exactly the leaders
\* have a keeper.
THEOREM TypeCorrect == Spec => []TypeOK
<1>1. IInv => TypeOK
  BY Zenon DEF IInv
<1> QED
  BY <1>1, LeadInvariant, PTL

\* A connector that leads and whose lock never expired holds the lock.
THEOREM LeaderSafety == Spec => []LeaderHoldsLock
<1>1. IInv => LeaderHoldsLock
  BY Zenon DEF IInv
<1> QED
  BY <1>1, LeadInvariant, PTL

\* A leader loses the lock only after TTL - 1 missed renewals.
THEOREM LapseSafety == Spec => []LapseTakesMissedRenewals
<1>1. IInv => LapseTakesMissedRenewals
  BY Zenon DEF IInv
<1> QED
  BY <1>1, LeadInvariant, PTL

\* The backend is without a leading connector, while one waits, for at most one TTL and
\* one more per fault.
THEOREM WaitBounded == Spec => []BackendWaitBounded
<1>1. IInv /\ GapAndLock => BackendWaitBounded
  BY Zenon, GapBounds DEF IInv
<1> QED
  BY <1>1, LeadInvariant, PTL

\* Two connectors never lead together before TTL - 1 renewals were missed (take_connector_lead,
\* _keep_connector_lead): each leader holds the one lock.
THEOREM LeadersAreAlone == Spec => []OneLeader
<1>1. IInv => OneLeader
  <2> SUFFICES ASSUME IInv, faults < TTL - 1 PROVE \A c, d \in Connector :
                  pc[c] = "leading" /\ pc[d] = "leading" => c = d
    BY Zenon DEF OneLeader
  <2>1. lapsed = {}
    BY LeadAssumption DEF IInv, TypeOK, LapseTakesMissedRenewals
  <2> QED
    BY Zenon, <2>1 DEF IInv, LeaderHoldsLock
<1> QED
  BY <1>1, LeadInvariant, PTL
=============================================================================
