------------------------- MODULE BackendCommandsProofs -------------------------
(***************************************************************************)
(* Proofs about BackendCommands, for every set of commands and jobs, every *)
(* TTL and every number of faults and restarts.                            *)
(***************************************************************************)
EXTENDS BackendCommands, FiniteSetTheorems, TLAPS

\* While no connector is overtaken, the only live jobs are the leading
\* connector's, and it has none before its start's clear is over.
OneConnector ==
    ~Overtaking => \A j \in Job : pc[j] \in Live => phase = "serving" /\ home[j] = epoch

\* A claim is the claim of a job that delivers its command.
OwnerDelivers == \A c \in Command : owner[c] \in Job => cmd[owner[c]] = c

\* The clear deletes one key at a time, which has not become an answer meanwhile.
SeenIsNoAnswer ==
    \A c \in seen :
        phase = "clearing" /\ seen = {c} /\ (~Overtaking => state[c] # "finished")

\* Without faults a running claim is a live job's, or the clear still meets it.
ClaimAttended ==
    ~Overtaking /\ faults = 0 =>
        \A c \in Command : state[c] = "running" =>
            \/ phase = "serving" /\ pc[owner[c]] \in Claimed
            \/ phase = "clearing" /\ c \in scan \cup seen

IInv ==
    /\ TypeOK /\ ClaimIsTheJobs /\ OwnerDelivers
    /\ OneConnector /\ SeenIsNoAnswer /\ ClaimAttended

-----------------------------------------------------------------------------
\* An empty Redis and a connector without jobs satisfy the invariant.
LEMMA InitIInv == Init => IInv
BY JobAssumption, BoundAssumption
DEF Init, IInv, TypeOK, ClaimIsTheJobs, OwnerDelivers, OneConnector, SeenIsNoAnswer,
    ClaimAttended, HoldsClaim, Claimed, Live, PCs

\* Changing one value of a Boolean function to a Boolean keeps its type.
LEMMA BooleanUpdate ==
    ASSUME NEW S, NEW f \in [S -> BOOLEAN], NEW x \in S, NEW b \in BOOLEAN
    PROVE  [f EXCEPT ![x] = b] \in [S -> BOOLEAN]
BY Zenon

\* The invariant is inductive.
LEMMA StepIInv == IInv /\ [Next]_vars => IInv'
<1> SUFFICES ASSUME IInv, [Next]_vars PROVE IInv'
  BY Zenon
<1> USE JobAssumption, BoundAssumption
<1> USE DEF IInv, TypeOK, ClaimIsTheJobs, OwnerDelivers, OneConnector, SeenIsNoAnswer,
            ClaimAttended, HoldsClaim, Claimed, Live, PCs, redis, connector
<1>1. ASSUME NEW j \in Job, Deliver(j) PROVE IInv'
  BY <1>1 DEF Deliver
<1>2. ASSUME NEW j \in Job, ClaimSet(j) PROVE IInv'
  <2>1. CASE state[cmd[j]] = "absent"
    BY <1>2, <2>1 DEF ClaimSet, PutClaim
  <2>2. CASE state[cmd[j]] # "absent"
    BY <1>2, <2>2 DEF ClaimSet
  <2> QED
    BY Zenon, <2>1, <2>2
<1>3. ASSUME NEW j \in Job, ClaimSetReplyLost(j) PROVE IInv'
  BY <1>3 DEF ClaimSetReplyLost, PutClaim, Fault
<1>4. ASSUME NEW j \in Job, ClaimGet(j) PROVE IInv'
  BY <1>4 DEF ClaimGet, HoldsClaim
<1>5. ASSUME NEW j \in Job, ReplayFailsOpen(j) PROVE IInv'
  BY <1>5 DEF ReplayFailsOpen, Fault
<1>6. ASSUME NEW j \in Job, ClaimFailsOpen(j) PROVE IInv'
  BY SMTT(60), <1>6 DEF ClaimFailsOpen, PutClaim, Fault
<1>7. ASSUME NEW j \in Job, Answer(j) PROVE IInv'
  BY <1>7 DEF Answer
<1>8. ASSUME NEW j \in Job, JobEnds(j) PROVE IInv'
  BY <1>8 DEF JobEnds
<1>9. ASSUME NEW j \in Job, Finish(j) PROVE IInv'
  <2>1. TypeOK'
    <3>1. remembered' \in [Command -> BOOLEAN]
      <4>1. (j \in answered) \in BOOLEAN /\ FALSE \in BOOLEAN /\ cmd[j] \in Command
        OBVIOUS
      <4>2. \/ remembered' = [remembered EXCEPT ![cmd[j]] = j \in answered]
            \/ remembered' = [remembered EXCEPT ![cmd[j]] = FALSE]
            \/ remembered' = remembered
        BY <1>9, Zenon DEF Finish, Drop
      <4> QED
        BY <4>1, <4>2, BooleanUpdate, ZenonT(60)
    <3>2. /\ state' \in [Command -> {"absent", "running", "finished"}]
          /\ owner' \in [Command -> Job \cup {NoJob}]
          /\ \A c \in Command : state'[c] = "running" <=> owner'[c] \in Job
      BY <1>9 DEF Finish, Drop
    <3>3. age' \in [Command -> 0..(ClaimTTL - 1)] /\ pc' \in [Job -> PCs]
      BY <1>9 DEF Finish, Drop
    <3> QED
      BY Zenon, <1>9, <3>1, <3>2, <3>3 DEF Finish
  <2>2. ClaimIsTheJobs'
    BY <1>9 DEF Finish, Drop, Remembers
  <2>3. OneConnector'
    BY <1>9 DEF Finish, Drop, Remembers
  <2>4. SeenIsNoAnswer'
    BY Zenon, <1>9 DEF Finish, Drop, Remembers
  <2>5. ClaimAttended'
    BY <1>9 DEF Finish, Drop, Remembers
  <2>6. OwnerDelivers'
    BY <1>9 DEF Finish, Drop, Remembers
  <2> QED
    BY Zenon, <2>1, <2>2, <2>3, <2>4, <2>5, <2>6
<1>10. ASSUME NEW j \in Job, FinishFails(j) PROVE IInv'
  BY <1>10 DEF FinishFails, Fault
<1>11. ASSUME NEW c \in Command, Refresh(c) PROVE IInv'
  BY <1>11 DEF Refresh, Beating
<1>12. ASSUME NEW c \in Command, Missed(c) PROVE IInv'
  BY <1>12 DEF Missed, Attended, Fault
<1>13. ASSUME NEW c \in Command, Expire(c) PROVE IInv'
  BY <1>13 DEF Expire, Drop, Takes
<1>14. ASSUME NEW c \in Command, Forget(c) PROVE IInv'
  BY <1>14 DEF Forget, Drop
<1>15. ASSUME NEW c \in Command, ClearGet(c) PROVE IInv'
  BY <1>15 DEF ClearGet
<1>16. ASSUME NEW c \in Command, ClearDel(c) PROVE IInv'
  <2>1. TypeOK'
    BY <1>16 DEF ClearDel, Drop, Takes
  <2>2. ClaimIsTheJobs'
    BY ZenonT(60), <1>16 DEF ClearDel, Drop, Takes
  <2>3. OneConnector'
    BY Zenon, <1>16 DEF ClearDel, Drop, Takes
  <2>4. SeenIsNoAnswer'
    BY Zenon, <1>16 DEF ClearDel, Drop, Takes
  <2>5. ClaimAttended'
    BY <1>16 DEF ClearDel, Drop, Takes
  <2>6. OwnerDelivers'
    BY <1>16 DEF ClearDel, Drop, Takes
  <2> QED
    BY Zenon, <2>1, <2>2, <2>3, <2>4, <2>5, <2>6
<1>17. CASE Restart
  BY <1>17 DEF Restart, StartNext, Killed
<1>18. CASE Overtaken
  BY <1>18 DEF Overtaken, StartNext
<1>19. CASE ClearEnds
  BY Zenon, <1>19 DEF ClearEnds
<1>20. CASE ClearFails
  BY <1>20 DEF ClearFails, Fault
<1>21. ASSUME NEW e \in 0..MaxRestarts, OvertakenExits(e) PROVE IInv'
  BY <1>21 DEF OvertakenExits, Killed
<1>22. CASE UNCHANGED vars
  BY Zenon, <1>22 DEF vars
<1> QED
  BY ZenonT(60), <1>1, <1>2, <1>3, <1>4, <1>5, <1>6, <1>7, <1>8, <1>9, <1>10, <1>11, <1>12, <1>13,
     <1>14, <1>15, <1>16, <1>17, <1>18, <1>19, <1>20, <1>21, <1>22 DEF Next, JobStep, KeyStep

\* Every reachable state satisfies it.
LEMMA IInvInvariant == Spec => []IInv
BY InitIInv, StepIInv, PTL DEF Spec

\* The connector's state keeps its type.
THEOREM TypeCorrect == Spec => []TypeOK
<1>1. IInv => TypeOK
  BY Zenon DEF IInv
<1> QED
  BY <1>1, IInvInvariant, PTL

\* A job that was not told its claim lapsed finds its own claim in Redis, whatever
\* deliveries, faults, expiries, restarts and overtaken connectors do.
THEOREM ClaimSafety == Spec => []ClaimIsTheJobs
<1>1. IInv => ClaimIsTheJobs
  BY Zenon DEF IInv
<1> QED
  BY <1>1, IInvInvariant, PTL

\* miner_driver runs a command under one claim at a time: two claimed runs of one
\* command mean that the claim of one of them lapsed.
THEOREM RunSafety == Spec => []OneRunPerClaim
<1>1. IInv => OneRunPerClaim
  BY Zenon DEF IInv, ClaimIsTheJobs, OneRunPerClaim, HoldsClaim
<1> QED
  BY <1>1, IInvInvariant, PTL

\* While no connector is overtaken, the clear at a connector's start deletes no answer:
\* a remembered answer leaves Redis at its TTL and in no other way.
THEOREM AnswersKept ==
    ASSUME ~Overtaking
    PROVE  Spec => AnswerKeptToItsTTL
<1>1. ASSUME IInv, [Next]_vars, NEW c \in Command, state[c] = "finished", state'[c] # "finished"
      PROVE  Forget(c)
  <2> USE JobAssumption, <1>1
  <2> USE DEF IInv, TypeOK, redis, connector
  <2>1. ASSUME NEW j \in Job, JobStep(j) PROVE FALSE
    BY Zenon, <2>1 DEF JobStep, Deliver, ClaimSet, ClaimSetReplyLost, ClaimGet, ReplayFailsOpen,
       ClaimFailsOpen, Answer, JobEnds, Finish, FinishFails, PutClaim, Drop, HoldsClaim
  <2>2. ASSUME NEW k \in Command, KeyStep(k) PROVE Forget(c)
    <3>1. CASE Forget(k)
      BY ZenonT(60), <2>2, <3>1 DEF Forget, Drop
    <3>2. CASE ClearDel(k)
      BY Zenon, <2>2, <3>2 DEF ClearDel, Drop, SeenIsNoAnswer
    <3> QED
      BY Zenon, <2>2, <3>1, <3>2 DEF KeyStep, Refresh, Missed, Expire, ClearGet, Drop
  <2>3. CASE Restart \/ Overtaken \/ ClearEnds \/ ClearFails
    BY Zenon, <2>3 DEF Restart, Overtaken, StartNext, ClearEnds, ClearFails
  <2>4. ASSUME NEW e \in 0..MaxRestarts, OvertakenExits(e) PROVE FALSE
    BY Zenon, <2>4 DEF OvertakenExits
  <2>5. CASE UNCHANGED vars
    BY Zenon, <2>5 DEF vars
  <2> QED
    BY Zenon, <2>1, <2>2, <2>3, <2>4, <2>5 DEF Next
<1>2. IInv /\ [Next]_vars
      => [\A c \in Command : state[c] = "finished" /\ state'[c] # "finished" => Forget(c)]_vars
  BY Zenon, <1>1
<1> QED
  BY <1>2, IInvInvariant, PTL DEF Spec, AnswerKeptToItsTTL

\* While no connector is overtaken and no Redis call fails, a delivery is dropped
\* as a running duplicate only beside the live job it duplicates.
THEOREM DuplicatesAnswered ==
    ASSUME ~Overtaking
    PROVE  Spec => IgnoredOnlyForLiveJob
<1>1. ASSUME IInv, [Next]_vars, NEW j \in Job, pc[j] = "get", pc'[j] = "ignored"
      PROVE  owner[cmd[j]] # j /\ (faults > 0 \/ pc[owner[cmd[j]]] \in Claimed)
  <2> USE <1>1
  <2> USE DEF IInv, TypeOK, Live, Claimed
  <2>1. ClaimGet(j) /\ state[cmd[j]] = "running" /\ owner[cmd[j]] # j
    <3>1. ASSUME NEW k \in Job, JobStep(k)
          PROVE  ClaimGet(j) /\ state[cmd[j]] = "running" /\ owner[cmd[j]] # j
      BY ZenonT(60), <3>1 DEF JobStep, Deliver, ClaimSet, ClaimSetReplyLost, ClaimGet, ReplayFailsOpen,
         ClaimFailsOpen, Answer, JobEnds, Finish, FinishFails, HoldsClaim
    <3>2. ASSUME NEW c \in Command, KeyStep(c) PROVE FALSE
      BY Zenon, <3>2 DEF KeyStep, Refresh, Missed, Expire, Forget, ClearGet, ClearDel
    <3>3. CASE Restart \/ Overtaken \/ ClearEnds \/ ClearFails
      BY Zenon, <3>3 DEF Restart, Overtaken, StartNext, ClearEnds, ClearFails, Killed
    <3>4. ASSUME NEW e \in 0..MaxRestarts, OvertakenExits(e) PROVE FALSE
      BY Zenon, <3>4 DEF OvertakenExits, Killed
    <3>5. CASE UNCHANGED vars
      BY Zenon, <3>5 DEF vars
    <3> QED
      BY Zenon, <3>1, <3>2, <3>3, <3>4, <3>5 DEF Next
  <2>2. phase = "serving"
    BY Zenon DEF OneConnector
  <2> QED
    BY <2>1, <2>2 DEF ClaimAttended
<1>2. IInv /\ [Next]_vars
      => [\A j \in Job : pc[j] = "get" /\ pc'[j] = "ignored" =>
            owner[cmd[j]] # j /\ (faults > 0 \/ pc[owner[cmd[j]]] \in Claimed)]_vars
  BY Zenon, <1>1
<1> QED
  BY <1>2, IInvInvariant, PTL DEF Spec, IgnoredOnlyForLiveJob
-----------------------------------------------------------------------------
(* Executions are paid for.                                               *)

\* The jobs of a command that answered or still may: those that run, and one that may
\* find its own claim in Redis.
Payable(c) ==
    {j \in Job : /\ cmd[j] = c
                 /\ \/ j \in answered
                    \/ pc[j] = "open" \/ pc[j] \in Claimed
                    \/ owner[c] = j /\ pc[j] \in {"set", "get"}}

\* One execution is free while its answer is remembered, or its claim is attended and
\* missed no refresh: only a fault or a death leads from there to another claim.
Free(c) ==
    IF \/ state[c] = "finished"
       \/ state[c] = "running" /\ Attended(c) /\ age[c] = 0
    THEN 1 ELSE 0

Paid(c) ==
    c \notin forgotten =>
        /\ IsFiniteSet(Payable(c))
        /\ Cardinality(Payable(c)) <= epoch + faults + Free(c)

\* A claim is the claim of a job that was delivered.
OwnerSent == \A c \in Command : owner[c] \in Job => pc[owner[c]] # "idle"

PaidInv == OwnerSent /\ \A c \in Command : Paid(c)

\* What a job's set of payable executions and the means to pay for them may become in a step.
LEMMA PaidSets ==
    ASSUME NEW P, IsFiniteSet(P), NEW Q, NEW n \in Nat, NEW m \in Nat,
           Cardinality(P) <= n,
           \/ Q \subseteq P /\ m >= n
           \/ \E j : Q \subseteq P \cup {j} /\ m >= n + 1
           \/ \E j \in P : Q \subseteq P \ {j} /\ m + 1 >= n
    PROVE  IsFiniteSet(Q) /\ Cardinality(Q) <= m
<1>1. Cardinality(P) \in Nat
  BY Zenon, FS_CardinalityType
<1>2. CASE Q \subseteq P /\ m >= n
  <2>1. IsFiniteSet(Q) /\ Cardinality(Q) <= Cardinality(P) /\ Cardinality(Q) \in Nat
    BY Zenon, <1>2, FS_Subset, FS_CardinalityType
  <2> QED
    BY <1>1, <1>2, <2>1
<1>3. ASSUME NEW j, Q \subseteq P \cup {j}, m >= n + 1 PROVE IsFiniteSet(Q) /\ Cardinality(Q) <= m
  <2>1. IsFiniteSet(P \cup {j}) /\ Cardinality(P \cup {j}) <= Cardinality(P) + 1
    BY <1>1, FS_AddElement
  <2>2. IsFiniteSet(Q) /\ Cardinality(Q) <= Cardinality(P \cup {j}) /\ Cardinality(Q) \in Nat
        /\ Cardinality(P \cup {j}) \in Nat
    BY Zenon, <1>3, <2>1, FS_Subset, FS_CardinalityType
  <2> QED
    BY <1>1, <1>3, <2>1, <2>2
<1>4. ASSUME NEW j \in P, Q \subseteq P \ {j}, m + 1 >= n PROVE IsFiniteSet(Q) /\ Cardinality(Q) <= m
  <2>1. IsFiniteSet(P \ {j}) /\ Cardinality(P \ {j}) = Cardinality(P) - 1
    BY Zenon, <1>4, FS_RemoveElement
  <2>2. IsFiniteSet(Q) /\ Cardinality(Q) <= Cardinality(P \ {j}) /\ Cardinality(Q) \in Nat
    BY Zenon, <1>4, <2>1, FS_Subset, FS_CardinalityType
  <2> QED
    BY <1>1, <1>4, <2>1, <2>2
<1> QED
  BY Zenon, <1>2, <1>3, <1>4

\* While no connector is overtaken and a claim survives a missed refresh, every step that
\* makes another execution possible is a fault, a death, or takes a free claim.
LEMMA StepPaid ==
    ASSUME ~Overtaking, ClaimTTL > 1, IInv, IInv', PaidInv, [Next]_vars
    PROVE  PaidInv'
<1>o. OwnerSent'
  <2>t. /\ OwnerSent /\ pc \in [Job -> PCs] /\ cmd \in [Job -> Command]
        /\ owner \in [Command -> Job \cup {NoJob}] /\ NoJob \notin Job
    BY Zenon, JobAssumption DEF PaidInv, IInv, TypeOK
  <2>1. ASSUME NEW j \in Job, JobStep(j) PROVE OwnerSent'
    <3> USE DEF JobStep, Deliver, ClaimSet, ClaimSetReplyLost, ClaimGet, ReplayFailsOpen,
            ClaimFailsOpen, Answer, JobEnds, Finish, FinishFails, PutClaim, Drop, redis
    <3>1. UNCHANGED pc \/ \E l \in PCs \ {"idle"} : pc' = [pc EXCEPT ![j] = l]
      BY Zenon, <2>1 DEF PCs, Live, Claimed
    <3>2. \/ UNCHANGED owner \/ owner' = [owner EXCEPT ![cmd[j]] = NoJob]
          \/ owner' = [owner EXCEPT ![cmd[j]] = j] /\ pc[j] = "set"
      BY Zenon, <2>1
    <3> QED
      BY <2>t, <3>1, <3>2 DEF OwnerSent
  <2>2. ASSUME NEW k \in Command, KeyStep(k) PROVE OwnerSent'
    <3>1. UNCHANGED pc /\ (UNCHANGED owner \/ owner' = [owner EXCEPT ![k] = NoJob])
      BY Zenon, <2>2 DEF KeyStep, Refresh, Missed, Expire, Forget, ClearGet, ClearDel, Drop, redis
    <3> QED
      BY Zenon, <2>t, <3>1 DEF OwnerSent
  <2>3. ASSUME UNCHANGED owner, UNCHANGED pc \/ \E e : pc' = Killed(e) PROVE OwnerSent'
    BY Zenon, <2>t, <2>3 DEF OwnerSent, Killed
  <2>4. CASE Restart \/ Overtaken \/ ClearEnds \/ ClearFails \/ (\E e \in 0..MaxRestarts : OvertakenExits(e))
             \/ UNCHANGED vars
    BY Zenon, <2>3, <2>4 DEF Restart, Overtaken, StartNext, OvertakenExits, ClearEnds, ClearFails, vars, redis
  <2> QED
    BY Zenon, <2>1, <2>2, <2>4 DEF Next
<1> SUFFICES ASSUME NEW c \in Command, (c \notin forgotten)'
             PROVE  IsFiniteSet(Payable(c)') /\ Cardinality(Payable(c)') <= (epoch + faults + Free(c))'
  BY Zenon, <1>o DEF PaidInv, Paid
<1> DEFINE n == epoch + faults + Free(c)
           m == epoch' + faults' + Free(c)'
           P == Payable(c)
           Q == Payable(c)'
           Shrinks == Q \subseteq P /\ m >= n
           Grows(j) == Q \subseteq P \cup {j} /\ m >= n + 1
           Frees(j) == Q \subseteq P \ {j} /\ j \in P /\ m + 1 >= n
<1>n. /\ faults \in Nat /\ faults' \in Nat /\ epoch \in Nat /\ epoch' \in Nat
      /\ Free(c) \in {0, 1} /\ Free(c)' \in {0, 1}
  BY Zenon DEF IInv, TypeOK, Free
<1>t. n \in Nat /\ m \in Nat /\ c \notin forgotten
  <2>1. forgotten \subseteq forgotten'
    BY Zenon DEF Next, JobStep, Deliver, ClaimSet, ClaimSetReplyLost, ClaimGet, ReplayFailsOpen,
       ClaimFailsOpen, Answer, JobEnds, Finish, FinishFails, KeyStep, Refresh, Missed, Expire, Forget,
       ClearGet, ClearDel, Restart, Overtaken, StartNext, OvertakenExits, ClearEnds, ClearFails, vars
  <2> QED
    BY <1>n, <2>1
<1> SUFFICES Shrinks \/ \E j \in Job : Grows(j) \/ Frees(j)
  <2>1. IsFiniteSet(P) /\ Cardinality(P) <= n
    BY Zenon, <1>t DEF PaidInv, Paid
  <2> HIDE DEF n, m, P, Q
  <2>2. \/ Q \subseteq P /\ m >= n
        \/ \E j : Q \subseteq P \cup {j} /\ m >= n + 1
        \/ \E j \in P : Q \subseteq P \ {j} /\ m + 1 >= n
    BY Zenon
  <2>3. IsFiniteSet(Q) /\ Cardinality(Q) <= m
    BY Zenon, PaidSets, <1>t, <2>1, <2>2
  <2> QED
    BY Zenon, <2>3 DEF m, Q
<1>f. /\ state \in [Command -> {"absent", "running", "finished"}]
      /\ owner \in [Command -> Job \cup {NoJob}] /\ NoJob \notin Job
      /\ \A k \in Command : state[k] = "running" <=> owner[k] \in Job
      /\ age \in [Command -> 0..(ClaimTTL - 1)] /\ ClaimTTL \in Nat
      /\ pc \in [Job -> PCs] /\ cmd \in [Job -> Command] /\ answered \subseteq Job
  BY Zenon, JobAssumption, BoundAssumption DEF IInv, TypeOK
<1>g. OwnerDelivers /\ ClaimIsTheJobs /\ OneConnector /\ SeenIsNoAnswer /\ OwnerSent
  BY Zenon DEF IInv, PaidInv
<1> HIDE DEF IInv, PaidInv
<1> USE <1>f, <1>n
<1> USE DEF HoldsClaim, Claimed, redis, connector, Payable, Free, Attended
<1>s. ASSUME UNCHANGED <<state, owner, pc, cmd, answered>> PROVE Q = P
  BY Zenon, <1>s
<1>1. ASSUME NEW j \in Job, Deliver(j) PROVE Shrinks
  BY <1>1, <1>g DEF Deliver, OwnerSent
<1>2. ASSUME NEW j \in Job, ClaimSet(j) PROVE Shrinks \/ Grows(j)
  BY <1>2 DEF ClaimSet, PutClaim
<1>3. ASSUME NEW j \in Job, ClaimSetReplyLost(j) PROVE Shrinks \/ Grows(j)
  BY <1>3 DEF ClaimSetReplyLost, PutClaim, Fault
<1>4. ASSUME NEW j \in Job, ClaimGet(j) PROVE Shrinks
  BY <1>4, <1>g DEF ClaimGet, OwnerDelivers
<1>5. ASSUME NEW j \in Job, ReplayFailsOpen(j) PROVE Grows(j)
  BY <1>5, <1>g DEF ReplayFailsOpen, Fault, OwnerDelivers
<1>6. ASSUME NEW j \in Job, ClaimFailsOpen(j) PROVE Shrinks \/ Grows(j)
  BY <1>6 DEF ClaimFailsOpen, PutClaim, Fault
<1>7. ASSUME NEW j \in Job, Answer(j) PROVE Shrinks
  BY <1>7 DEF Answer
<1>8. ASSUME NEW j \in Job, JobEnds(j) PROVE Shrinks
  BY <1>8 DEF JobEnds
<1>9. ASSUME NEW j \in Job, Finish(j) PROVE Shrinks \/ Frees(j)
  <2>1. CASE HoldsClaim(j) /\ Remembers(j)
    BY <1>9, <1>g, <2>1 DEF Finish, OwnerDelivers
  <2>2. CASE HoldsClaim(j) /\ ~Remembers(j)
    BY <1>9, <1>g, <2>2 DEF Finish, Drop, Remembers, OwnerDelivers
  <2>3. CASE ~HoldsClaim(j)
    BY <1>9, <1>g, <2>3 DEF Finish, OwnerDelivers
  <2> HIDE DEF HoldsClaim, Shrinks, Frees
  <2> QED
    BY Zenon, <2>1, <2>2, <2>3
<1>10. ASSUME NEW j \in Job, FinishFails(j) PROVE Shrinks
  BY <1>10 DEF FinishFails, Fault
<1>11. ASSUME NEW k \in Command, Refresh(k) PROVE Shrinks
  BY <1>11 DEF Refresh
<1>12. ASSUME NEW k \in Command, Missed(k) PROVE Shrinks
  <2>1. Q = P
    BY Zenon, <1>s, <1>12 DEF Missed
  <2>2. /\ UNCHANGED <<state, owner, pc, epoch>>
        /\ k # c => UNCHANGED age[c]
        /\ faults' >= faults /\ (Attended(k) => faults' = faults + 1)
    BY <1>12 DEF Missed, Fault
  <2>3. m >= n
    <3> HIDE DEF Attended
    <3>1. Attended(c)' <=> Attended(c)
      BY Zenon, <2>2 DEF Attended
    <3>2. Free(c)' >= Free(c) \/ faults' >= faults + 1
      BY <1>12, <2>2, <3>1 DEF Missed
    <3> HIDE DEF Free, IInv
    <3> QED
      BY <1>n, <2>2, <3>2
  <2> QED
    BY Zenon, <2>1, <2>3
<1>13. ASSUME NEW k \in Command, Expire(k) PROVE Shrinks
  BY <1>13 DEF Expire, Drop
<1>14. ASSUME NEW k \in Command, Forget(k) PROVE Shrinks
  BY <1>14 DEF Forget, Drop
<1>15. ASSUME NEW k \in Command, ClearGet(k) PROVE Shrinks
  BY <1>15 DEF ClearGet
<1>16. ASSUME NEW k \in Command, ClearDel(k) PROVE Shrinks
  BY <1>16, <1>g DEF ClearDel, Drop, SeenIsNoAnswer, OneConnector, Live
<1>17. CASE Restart
  <2>1. /\ epoch' = epoch + 1 /\ UNCHANGED <<state, owner, age, cmd, answered, faults>>
        /\ \A j \in Job : pc'[j] \in {pc[j], "dead"}
    BY Zenon, <1>17 DEF Restart, StartNext, Killed
  <2>2. Q \subseteq P
    BY Zenon, <2>1
  <2> HIDE DEF Free, P, Q, IInv
  <2> QED
    BY <1>n, <2>1, <2>2
<1>18. CASE ClearEnds \/ ClearFails
  <2>1. UNCHANGED <<redis, epoch, pc, cmd, answered>> /\ faults' >= faults
    BY <1>18 DEF ClearEnds, ClearFails, Fault
  <2>2. Q = P /\ Free(c)' = Free(c)
    BY Zenon, <1>s, <2>1
  <2> HIDE DEF Free, P, Q, IInv
  <2> QED
    BY <1>n, <2>1, <2>2
<1>19. ASSUME NEW e \in 0..MaxRestarts, OvertakenExits(e) PROVE FALSE
  BY <1>19, <1>g DEF OvertakenExits, OneConnector
<1>20. CASE UNCHANGED vars
  BY <1>20 DEF vars
<1> HIDE DEF IInv, Shrinks, Grows, Frees
<1> QED
  BY ZenonT(60), <1>1, <1>2, <1>3, <1>4, <1>5, <1>6, <1>7, <1>8, <1>9, <1>10, <1>11, <1>12, <1>13,
     <1>14, <1>15, <1>16, <1>17, <1>18, <1>19, <1>20 DEF Next, JobStep, KeyStep, Overtaken

\* While no connector is overtaken and a claim survives one missed refresh, every answer
\* beyond a command's first is accounted for by a connector that died or a call that failed.
THEOREM ExecutionsPaid ==
    ASSUME ~Overtaking, ClaimTTL > 1
    PROVE  Spec => []ExecutionsAccounted
<1>1. Init => PaidInv
  <2> SUFFICES ASSUME Init, NEW c \in Command PROVE Paid(c)
    BY JobAssumption DEF PaidInv, OwnerSent, Init
  <2>1. Payable(c) = {} /\ Free(c) = 0 /\ epoch + faults + Free(c) = 0
    BY JobAssumption DEF Init, Payable, Free, Claimed
  <2> QED
    BY <2>1, FS_EmptySet DEF Paid
<1>2. IInv /\ IInv' /\ PaidInv /\ [Next]_vars => PaidInv'
  BY Zenon, StepPaid
<1>3. IInv /\ PaidInv => ExecutionsAccounted
  <2> SUFFICES ASSUME IInv, PaidInv, NEW c \in Command, c \notin forgotten
               PROVE  Cardinality({j \in answered : cmd[j] = c}) <= 1 + epoch + faults
    BY Zenon DEF ExecutionsAccounted
  <2>1. {j \in answered : cmd[j] = c} \subseteq Payable(c)
    BY Zenon DEF IInv, TypeOK, Payable
  <2>2. IsFiniteSet(Payable(c)) /\ Cardinality(Payable(c)) <= epoch + faults + Free(c)
    BY Zenon DEF PaidInv, Paid
  <2>3. Cardinality({j \in answered : cmd[j] = c}) <= Cardinality(Payable(c))
        /\ Cardinality({j \in answered : cmd[j] = c}) \in Nat /\ Cardinality(Payable(c)) \in Nat
    BY Zenon, <2>1, <2>2, FS_Subset, FS_CardinalityType
  <2>4. Free(c) \in {0, 1} /\ epoch \in Nat /\ faults \in Nat
    BY Zenon DEF Free, IInv, TypeOK
  <2> QED
    BY <2>2, <2>3, <2>4
<1> QED
  BY <1>1, <1>2, <1>3, IInvInvariant, PTL DEF Spec
=============================================================================
