------------------------ MODULE VerificationLanesProofs ------------------------
(***************************************************************************)
(* Proofs about the two lanes, for every set of nodes, miners and batches. *)
(***************************************************************************)
EXTENDS VerificationLanes, FiniteSetTheorems, TLAPS

\* What the claims are functions of.
LaneTypes ==
    /\ inFlight \in [Node -> Lane] /\ ver \in [Node -> Verification]
    /\ req \in [Batch -> [Miner -> Request]] /\ claims \in [Batch -> [Miner -> SUBSET Node]]
    /\ listed \subseteq Node /\ listing \subseteq Node /\ chosen \subseteq Node

\* Requests ask and run only in the wave of their own cycle, what they run is claimed for the
\* cycle, and what the lane runs is claimed for the lane.
LaneInv ==
    /\ LaneTypes
    /\ \A b \in Batch, m \in Miner :
          /\ req[b][m] \in {"asked", "running"} => b = cycle /\ stage = "wave"
          /\ req[b][m] = "running" => \A n \in claims[b][m] : inFlight[n] \in {"cycle", "done"}
    /\ \A n \in Node : ver[n] # "no" => inFlight[n] = "express"

\* The verifications that use the files of a batch.
Users(b) == {n \in Node : ver[n] # "no" /\ inputs[n] = b}

\* _directories_in_use counts them, and their files are there.
FilesInv ==
    /\ dirs \subseteq Batch /\ lost \subseteq Batch
    /\ inputs \in [Node -> Batch \cup {NoBatch}] /\ holds \in [Batch -> Nat]
    /\ \A b \in Batch : holds[b] = Cardinality(Users(b))
    /\ FilesKept

\* What the lane runs, and the caps of it (EXPRESS_LANE_MAX_IN_FLIGHT and its share of one miner).
Running == {n \in Node : inFlight[n] = "express"}

Capped(S) ==
    /\ Cardinality(S) <= MaxInFlight
    /\ \A m \in Miner : Cardinality({n \in S : MinerOf[n] = m}) <= MaxPerMiner

\* However many nodes register at once, the lane never runs more than the caps allow: the room a
\* tick found when it selected is still there when it launches.
WithinCaps == Capped(Running)

\* What a tick has selected fits beside what runs.
CapsInv == Capped(Running \cup chosen)

--------------------------------------------------------------------------------
\* What a launch does to the nodes it starts: they are free ones, and they use the files of the
\* current cycle.
LEMMA LaunchStarts ==
  ASSUME LaneTypes, Launch
  PROVE  \E T \in SUBSET Node :
            /\ T \subseteq chosen /\ \A n \in T : inFlight[n] = "no"
            /\ inFlight' = [n \in Node |-> IF n \in T THEN "express" ELSE inFlight[n]]
            /\ ver' = [n \in Node |-> IF n \in T THEN "run" ELSE ver[n]]
            /\ \/ /\ cycle \in dirs /\ holds' = [holds EXCEPT ![cycle] = @ + Cardinality(T)]
                  /\ inputs' = [n \in Node |-> IF n \in T THEN cycle ELSE inputs[n]]
               \/ T = {} /\ UNCHANGED <<inputs, holds>>
<1>1. CASE cycle \in dirs
  <2>1. PICK G : Start(UNION {Launchable(m) : m \in Miner \ G})
    BY Zenon, <1>1 DEF Launch
  <2> DEFINE T == UNION {Launchable(m) : m \in Miner \ G}
  <2>2. T \in SUBSET Node /\ T \subseteq chosen /\ \A n \in T : inFlight[n] = "no"
    BY ZenonT(60) DEF Launchable, LaneTypes
  <2> USE <2>2
  <2> WITNESS T \in SUBSET Node
  <2> QED
    BY Zenon, <1>1, <2>1, <2>2 DEF Start, Held
<1>2. CASE cycle \notin dirs
  <2>1. UNCHANGED <<inFlight, ver, inputs, holds>>
    BY Zenon, <1>2 DEF Launch, verification
  <2>2. /\ inFlight' = [n \in Node |-> IF n \in {} THEN "express" ELSE inFlight[n]]
        /\ ver' = [n \in Node |-> IF n \in {} THEN "run" ELSE ver[n]]
    BY Zenon, <2>1 DEF LaneTypes
  <2> WITNESS {} \in SUBSET Node
  <2> QED
    BY Zenon, <2>1, <2>2
<1> QED
  BY ZenonT(60), <1>1, <1>2

\* Every step keeps each node with one lane.
LEMMA LanesStep == LaneInv /\ [Next]_vars => LaneInv'
<1> SUFFICES ASSUME LaneInv, [Next]_vars PROVE LaneInv'
  BY Zenon
<1> USE DEF vars, redis, sync, wave, queue, lane, verification, Lane, Request, Verification
<1>1. CASE WaveStep
  <2>1. ASSUME NEW b \in Batch, StartCycle(b) PROVE LaneInv'
    <3>1. \A c \in Batch, m \in Miner : req[c][m] \notin {"asked", "running"}
      BY Zenon, <2>1 DEF StartCycle, LaneInv
    <3>2. /\ req' \in [Batch -> [Miner -> Request]]
          /\ \A c \in Batch, m \in Miner : req'[c][m] # "running"
          /\ \A c \in Batch, m \in Miner : req'[c][m] = "asked" => c = b /\ stage' = "wave"
      <4>1. CASE UNCHANGED req
        BY ZenonT(60), <3>1, <4>1 DEF LaneInv, LaneTypes
      <4>2. CASE stage' = "wave" /\ AskAll(b)
        BY ZenonT(60), <3>1, <4>2 DEF AskAll, LaneInv, LaneTypes
      <4> QED
        BY <2>1, <4>1, <4>2, Zenon DEF StartCycle
    <3> QED
      BY Zenon, <2>1, <3>2 DEF StartCycle, LaneInv, LaneTypes
  <2>2. CASE FirstTick
    BY Zenon, <2>2 DEF FirstTick, AskAll, LaneInv, LaneTypes
  <2>3. CASE WaveEnds
    BY ZenonT(60), <2>3 DEF WaveEnds, LaneInv, LaneTypes
  <2>4. CASE MarkValidated
    BY Zenon, <2>4 DEF MarkValidated, LaneInv, LaneTypes
  <2>5. CASE CycleFails
    BY Zenon, <2>5 DEF CycleFails, LaneInv, LaneTypes
  <2>6. CASE ForgetCycleDone
    BY Zenon, <2>6 DEF ForgetCycleDone, Forgotten, LaneInv, LaneTypes
  <2>7. CASE TimePasses
    BY ZenonT(60), <2>7 DEF TimePasses, LaneInv, LaneTypes
  <2>8. ASSUME NEW b \in Batch, NEW m \in Miner, Claim(b, m) PROVE LaneInv'
    <3>1. PICK L : /\ claims' = [claims EXCEPT ![b][m] = Claimable(L)]
                   /\ inFlight' = [n \in Node |-> IF n \in Claimable(L) THEN "cycle" ELSE inFlight[n]]
                   /\ L \in SUBSET {n \in listed : MinerOf[n] = m}
      BY Zenon, <2>8 DEF Claim
    <3>2. req' = [req EXCEPT ![b][m] = "running"] /\ req[b][m] = "asked"
      BY ZenonT(60), <2>8 DEF Claim
    <3>3. UNCHANGED <<listed, listing, chosen, ver, cycle, stage>>
      BY Zenon, <2>8 DEF Claim
    <3>4. Claimable(L) \in SUBSET Node /\ \A n \in Claimable(L) : inFlight[n] # "express"
      BY Zenon, <3>1 DEF Claimable, LaneInv, LaneTypes
    <3>5. LaneTypes'
      BY ZenonT(60), <3>1, <3>2, <3>3, <3>4 DEF LaneInv, LaneTypes
    <3>6. \A n \in Node : ver'[n] # "no" => inFlight'[n] = "express"
      BY ZenonT(60), <3>1, <3>3, <3>4 DEF LaneInv
    <3>7. \A n \in Node : inFlight'[n] = "cycle" \/ inFlight'[n] = inFlight[n]
      BY Zenon, <3>1
    <3>8. \A c \in Batch, k \in Miner :
             c # b \/ k # m => req'[c][k] = req[c][k] /\ claims'[c][k] = claims[c][k]
      BY <3>1, <3>2 DEF LaneInv, LaneTypes
    <3>9. /\ req'[b][m] = "running" /\ claims'[b][m] = Claimable(L)
          /\ \A n \in Claimable(L) : inFlight'[n] = "cycle"
      BY <3>1, <3>2, <3>4 DEF LaneInv, LaneTypes
    <3>10. \A c \in Batch, k \in Miner :
             /\ req'[c][k] \in {"asked", "running"} => c = cycle' /\ stage' = "wave"
             /\ req'[c][k] = "running" => \A n \in claims'[c][k] : inFlight'[n] \in {"cycle", "done"}
      BY <3>2, <3>3, <3>5, <3>7, <3>8, <3>9 DEF LaneInv, LaneTypes
    <3> QED
      BY ZenonT(60), <3>5, <3>6, <3>10 DEF LaneInv
  <2>9. ASSUME NEW b \in Batch, NEW m \in Miner, AskFails(b, m) PROVE LaneInv'
    BY <2>9 DEF AskFails, LaneInv, LaneTypes
  <2>10. ASSUME NEW b \in Batch, NEW m \in Miner, Finish(b, m) PROVE LaneInv'
    BY SMTT(30), <2>10 DEF Finish, Released, LaneInv, LaneTypes
  <2>11. ASSUME NEW b \in Batch, NEW m \in Miner, CancelledEnds(b, m) PROVE LaneInv'
    BY SMTT(30), <2>11 DEF CancelledEnds, Released, LaneInv, LaneTypes
  <2> QED
    BY <1>1, <2>1, <2>2, <2>3, <2>4, <2>5, <2>6, <2>7, <2>8, <2>9, <2>10, <2>11, Zenon DEF
       WaveStep
<1>2. CASE LaneStep
  <2>1. CASE TickList \/ TickRead
    <3>1. /\ listing' \in {listing, listed}
          /\ UNCHANGED <<listed, inFlight, chosen, ver, cycle, stage, req, claims>>
      BY Zenon, <2>1 DEF TickList, TickRead
    <3> QED
      BY ZenonT(60), <3>1 DEF LaneInv, LaneTypes
  <2>2. CASE TickSelect
    BY <2>2 DEF TickSelect, Candidates, Queued, LaneInv, LaneTypes
  <2>3. CASE TickFails
    BY Zenon, <2>3 DEF TickFails, TickIdle, LaneInv, LaneTypes
  <2>4. CASE Launch
    <3>1. PICK T \in SUBSET Node :
             /\ \A n \in T : inFlight[n] = "no"
             /\ inFlight' = [n \in Node |-> IF n \in T THEN "express" ELSE inFlight[n]]
             /\ ver' = [n \in Node |-> IF n \in T THEN "run" ELSE ver[n]]
      BY Zenon, <2>4, LaunchStarts DEF LaneInv
    <3>2. /\ UNCHANGED <<listed, req, claims, cycle, stage>>
          /\ listing' = {} /\ chosen' = {}
      BY Zenon, <2>4 DEF Launch, TickIdle
    <3>3. \A c \in Batch, m \in Miner : req[c][m] = "running" => \A n \in claims[c][m] : n \notin T
      BY Zenon, <3>1 DEF LaneInv
    <3> QED
      BY <3>1, <3>2, <3>3 DEF LaneInv, LaneTypes
  <2>5. ASSUME NEW n \in Node, DelayEnds(n) PROVE LaneInv'
    BY Zenon, <2>5 DEF DelayEnds, LaneInv, LaneTypes
  <2>6. ASSUME NEW n \in Node, Discard(n) PROVE LaneInv'
    BY <2>6 DEF Discard, Leave, LaneInv, LaneTypes
  <2>7. ASSUME NEW n \in Node, NoResult(n) PROVE LaneInv'
    BY <2>7 DEF NoResult, Leave, LaneInv, LaneTypes
  <2>8. ASSUME NEW n \in Node, PublishFailed(n) PROVE LaneInv'
    BY <2>8 DEF PublishFailed, Leave, LaneInv, LaneTypes
  <2>9. ASSUME NEW n \in Node, PublishPassed(n) PROVE LaneInv'
    BY Zenon, <2>9 DEF PublishPassed, LaneInv, LaneTypes
  <2>10. ASSUME NEW n \in Node, MarkPublished(n) PROVE LaneInv'
    BY <2>10 DEF MarkPublished, Leave, LaneInv, LaneTypes
  <2> QED
    BY <1>2, <2>1, <2>2, <2>3, <2>4, <2>5, <2>6, <2>7, <2>8, <2>9, <2>10, Zenon DEF LaneStep
<1>3. CASE OutsideStep
  <2>1. ASSUME NEW n \in Node, Register(n) PROVE LaneInv'
    BY Zenon, <2>1 DEF Register, LaneInv, LaneTypes
  <2>2. ASSUME NEW n \in Node, Deregister(n) PROVE LaneInv'
    BY Zenon, <2>2 DEF Deregister, LaneInv, LaneTypes
  <2>3. ASSUME NEW n \in Node, AskRecheck(n) PROVE LaneInv'
    BY Zenon, <2>3 DEF AskRecheck, LaneInv, LaneTypes
  <2>4. ASSUME NEW b \in Batch, RemoveFiles(b) PROVE LaneInv'
    BY Zenon, <2>4 DEF RemoveFiles, LaneInv, LaneTypes
  <2> QED
    BY <1>3, <2>1, <2>2, <2>3, <2>4, Zenon DEF OutsideStep
<1>4. CASE UNCHANGED vars
  BY Zenon, <1>4 DEF LaneInv, LaneTypes
<1> QED
  BY <1>1, <1>2, <1>3, <1>4, Zenon DEF Next

\* The finally of _verify keeps the count of the directory's users.
LEMMA LeaveCounts ==
  ASSUME LaneInv, FilesInv, NEW n \in Node, ver[n] # "no", Leave(n), UNCHANGED <<dirs, lost>>
  PROVE  FilesInv'
<1>1. inputs[n] \in Batch /\ n \in Users(inputs[n])
  BY Zenon DEF FilesInv, FilesKept, Users
<1>2. \A b \in Batch : Users(b)' = IF b = inputs[n] THEN Users(b) \ {n} ELSE Users(b)
  BY Zenon, LanesAssumption DEF Leave, Users, LaneInv, LaneTypes, FilesInv
<1>3. \A b \in Batch : IsFiniteSet(Users(b))
  BY Zenon, LanesAssumption, FS_Subset DEF Users
<1>4. /\ Cardinality(Users(inputs[n]) \ {n}) = Cardinality(Users(inputs[n])) - 1
      /\ Cardinality(Users(inputs[n]) \ {n}) \in Nat
  BY ZenonT(60), <1>1, <1>3, FS_RemoveElement, FS_CardinalityType
<1>5. holds' = [holds EXCEPT ![inputs[n]] = Cardinality(Users(inputs[n]) \ {n})]
  BY Zenon, <1>1, <1>4 DEF Leave, FilesInv
<1>6. holds' \in [Batch -> Nat] /\ \A b \in Batch : holds'[b] = Cardinality(Users(b)')
  BY Zenon, <1>1, <1>2, <1>4, <1>5 DEF FilesInv
<1>7. inputs' \in [Node -> Batch \cup {NoBatch}] /\ FilesKept'
  BY Zenon DEF Leave, FilesInv, FilesKept, LaneInv, LaneTypes
<1> QED
  BY Zenon, <1>6, <1>7 DEF FilesInv

\* A launch counts the users it adds.
LEMMA LaunchCounts == LaneInv /\ FilesInv /\ Launch => FilesInv'
<1> SUFFICES ASSUME LaneInv, FilesInv, Launch PROVE FilesInv'
  BY Zenon
<1>1. PICK T \in SUBSET Node :
            /\ \A n \in T : inFlight[n] = "no"
            /\ ver' = [n \in Node |-> IF n \in T THEN "run" ELSE ver[n]]
            /\ \/ /\ cycle \in dirs /\ holds' = [holds EXCEPT ![cycle] = @ + Cardinality(T)]
                  /\ inputs' = [n \in Node |-> IF n \in T THEN cycle ELSE inputs[n]]
               \/ T = {} /\ UNCHANGED <<inputs, holds>>
  BY Zenon, LaunchStarts DEF LaneInv
<1>2. UNCHANGED <<dirs, lost>>
  BY ZenonT(60) DEF Launch
<1>3. CASE T = {} /\ UNCHANGED <<inputs, holds>>
  <2>1. UNCHANGED ver
    BY Zenon, <1>1, <1>3 DEF LaneInv, LaneTypes
  <2> QED
    BY ZenonT(60), <1>2, <1>3, <2>1 DEF FilesInv, FilesKept, Users
<1>4. CASE /\ cycle \in dirs /\ holds' = [holds EXCEPT ![cycle] = @ + Cardinality(T)]
           /\ inputs' = [n \in Node |-> IF n \in T THEN cycle ELSE inputs[n]]
  <2>1. cycle \in Batch
    BY Zenon, <1>4 DEF FilesInv
  <2>2. \A n \in T : ver[n] = "no"
    BY Zenon, <1>1 DEF LaneInv
  <2>3. \A b \in Batch : Users(b)' = IF b = cycle THEN Users(b) \cup T ELSE Users(b)
    BY ZenonT(60), <1>1, <1>4, <2>2 DEF Users
  <2>4. IsFiniteSet(T) /\ IsFiniteSet(Users(cycle)) /\ Users(cycle) \cap T = {}
    BY ZenonT(60), <2>2, LanesAssumption, FS_Subset DEF Users
  <2>5. /\ Cardinality(Users(cycle) \cup T) = Cardinality(Users(cycle)) + Cardinality(T)
        /\ Cardinality(Users(cycle) \cup T) \in Nat
    <3>1. Cardinality(Users(cycle) \cup T) = Cardinality(Users(cycle)) + Cardinality(T) - Cardinality({})
      BY <2>4, FS_Union
    <3> QED
      BY <2>4, <3>1, FS_EmptySet, FS_CardinalityType
  <2>6. holds' = [holds EXCEPT ![cycle] = Cardinality(Users(cycle) \cup T)]
    BY Zenon, <1>4, <2>1, <2>5 DEF FilesInv
  <2>7. holds' \in [Batch -> Nat] /\ \A b \in Batch : holds'[b] = Cardinality(Users(b)')
    BY Zenon, <2>1, <2>3, <2>5, <2>6 DEF FilesInv
  <2>8. inputs' \in [Node -> Batch \cup {NoBatch}] /\ FilesKept'
    BY Zenon, <1>1, <1>2, <1>4, <2>1 DEF FilesInv, FilesKept
  <2> QED
    BY ZenonT(60), <1>2, <2>7, <2>8 DEF FilesInv
<1> QED
  BY ZenonT(60), <1>1, <1>3, <1>4

\* A directory in use is kept by the next cycle's fresh one.
LEMMA CycleKeeps ==
  ASSUME LaneInv, FilesInv, NEW b \in Batch, StartCycle(b)
  PROVE  FilesInv'
<1>1. UNCHANGED <<ver, inputs, holds>> /\ dirs' = KeptDirectories \cup {b} /\ lost' = lost \ {b}
  BY Zenon DEF StartCycle, verification
<1>2. \A n \in Node : ver[n] # "no" /\ inputs[n] \in Batch => holds[inputs[n]] > 0
  <2> SUFFICES ASSUME NEW n \in Node, ver[n] # "no", inputs[n] \in Batch PROVE holds[inputs[n]] > 0
    BY Zenon
  <2>1. IsFiniteSet(Users(inputs[n])) /\ n \in Users(inputs[n])
    BY Zenon, LanesAssumption, FS_Subset DEF Users
  <2>2. Cardinality(Users(inputs[n])) \in Nat /\ Cardinality(Users(inputs[n])) # 0
    BY Zenon, <2>1, FS_EmptySet, FS_CardinalityType
  <2> QED
    BY <2>2 DEF FilesInv
<1>3. FilesKept'
  BY Zenon, <1>1, <1>2 DEF FilesInv, FilesKept, KeptDirectories
<1> QED
  BY Zenon, <1>1, <1>3 DEF FilesInv, Users, KeptDirectories

\* Every step keeps the files of the running verifications.
LEMMA FilesStep == LaneInv /\ FilesInv /\ [Next]_vars => FilesInv'
<1> SUFFICES ASSUME LaneInv, FilesInv, [Next]_vars PROVE FilesInv'
  BY Zenon
<1> USE DEF vars, redis, sync, wave, queue, lane, verification
<1>0. UNCHANGED <<ver, inputs, holds, dirs, lost>> => FilesInv'
  BY Zenon DEF FilesInv, FilesKept, Users
<1>1. CASE WaveStep
  <2>1. ASSUME NEW b \in Batch, StartCycle(b) PROVE FilesInv'
    BY <2>1, CycleKeeps, Zenon
  <2>2. CASE FirstTick
    BY <1>0, <2>2, Zenon DEF FirstTick
  <2>3. CASE WaveEnds
    BY <1>0, <2>3, Zenon DEF WaveEnds
  <2>4. CASE MarkValidated
    BY <1>0, <2>4, Zenon DEF MarkValidated
  <2>5. CASE CycleFails
    BY <1>0, <2>5, Zenon DEF CycleFails
  <2>6. CASE ForgetCycleDone
    BY <1>0, <2>6, Zenon DEF ForgetCycleDone
  <2>7. CASE TimePasses
    BY <1>0, <2>7, Zenon DEF TimePasses
  <2>8. ASSUME NEW b \in Batch, NEW m \in Miner, Claim(b, m) PROVE FilesInv'
    BY <1>0, <2>8, Zenon DEF Claim
  <2>9. ASSUME NEW b \in Batch, NEW m \in Miner, AskFails(b, m) PROVE FilesInv'
    BY <1>0, <2>9, Zenon DEF AskFails
  <2>10. ASSUME NEW b \in Batch, NEW m \in Miner, Finish(b, m) PROVE FilesInv'
    BY <1>0, <2>10, Zenon DEF Finish
  <2>11. ASSUME NEW b \in Batch, NEW m \in Miner, CancelledEnds(b, m) PROVE FilesInv'
    BY <1>0, <2>11, Zenon DEF CancelledEnds
  <2> QED
    BY <1>1, <2>1, <2>2, <2>3, <2>4, <2>5, <2>6, <2>7, <2>8, <2>9, <2>10, <2>11, Zenon DEF
       WaveStep
<1>2. CASE LaneStep
  <2>1. CASE TickList \/ TickRead
    BY <1>0, <2>1, Zenon DEF TickList, TickRead
  <2>2. CASE TickSelect
    BY <1>0, <2>2, Zenon DEF TickSelect
  <2>3. CASE TickFails
    BY <1>0, <2>3, Zenon DEF TickFails
  <2>4. CASE Launch
    BY <2>4, LaunchCounts, Zenon
  <2>5. ASSUME NEW n \in Node, DelayEnds(n) PROVE FilesInv'
    BY <1>0, <2>5, Zenon DEF DelayEnds
  <2>6. ASSUME NEW n \in Node, Discard(n) PROVE FilesInv'
    BY <2>6, LeaveCounts, Zenon DEF Discard
  <2>7. ASSUME NEW n \in Node, NoResult(n) PROVE FilesInv'
    BY <2>7, LeaveCounts, Zenon DEF NoResult
  <2>8. ASSUME NEW n \in Node, PublishFailed(n) PROVE FilesInv'
    BY <2>8, LeaveCounts, Zenon DEF PublishFailed
  <2>9. ASSUME NEW n \in Node, PublishPassed(n) PROVE FilesInv'
    BY <2>9 DEF PublishPassed, FilesInv, FilesKept, Users
  <2>10. ASSUME NEW n \in Node, MarkPublished(n) PROVE FilesInv'
    BY <2>10, LeaveCounts, Zenon DEF MarkPublished
  <2> QED
    BY <1>2, <2>1, <2>2, <2>3, <2>4, <2>5, <2>6, <2>7, <2>8, <2>9, <2>10, Zenon DEF LaneStep
<1>3. CASE OutsideStep
  <2>1. ASSUME NEW n \in Node, Register(n) PROVE FilesInv'
    BY <1>0, <2>1, Zenon DEF Register
  <2>2. ASSUME NEW n \in Node, Deregister(n) PROVE FilesInv'
    BY <1>0, <2>2, Zenon DEF Deregister
  <2>3. ASSUME NEW n \in Node, AskRecheck(n) PROVE FilesInv'
    BY <1>0, <2>3, Zenon DEF AskRecheck
  <2>4. ASSUME NEW b \in Batch, RemoveFiles(b) PROVE FilesInv'
    BY Zenon, <2>4 DEF RemoveFiles, FilesInv, FilesKept, Users
  <2> QED
    BY <1>3, <2>1, <2>2, <2>3, <2>4, Zenon DEF OutsideStep
<1>4. CASE UNCHANGED vars
  BY Zenon, <1>4 DEF FilesInv, FilesKept, Users
<1> QED
  BY <1>1, <1>2, <1>3, <1>4, Zenon DEF Next

\* A part of what fits fits.
LEMMA CappedSubset ==
  ASSUME NEW T \in SUBSET Node, NEW S \in SUBSET T, Capped(T)
  PROVE  Capped(S)
<1>1. \A A, B : A \subseteq B /\ B \subseteq Node => /\ Cardinality(A) <= Cardinality(B)
                                               /\ Cardinality(A) \in Nat /\ Cardinality(B) \in Nat
  <2> SUFFICES ASSUME NEW A, NEW B, A \subseteq B, B \subseteq Node
               PROVE  /\ Cardinality(A) <= Cardinality(B)
                      /\ Cardinality(A) \in Nat /\ Cardinality(B) \in Nat
    BY Zenon
  <2>1. IsFiniteSet(B)
    BY Zenon, LanesAssumption, FS_Subset
  <2>2. IsFiniteSet(A) /\ Cardinality(A) <= Cardinality(B)
    BY Zenon, <2>1, FS_Subset
  <2> QED
    BY Zenon, <2>1, <2>2, FS_CardinalityType
<1>2. Cardinality(S) <= MaxInFlight
  <2>1. /\ Cardinality(S) <= Cardinality(T) /\ Cardinality(T) <= MaxInFlight
        /\ Cardinality(S) \in Nat /\ Cardinality(T) \in Nat
    BY Zenon, <1>1 DEF Capped
  <2> QED
    BY <2>1, LanesAssumption
<1>3. ASSUME NEW m \in Miner
      PROVE  Cardinality({n \in S : MinerOf[n] = m}) <= MaxPerMiner
  <2> DEFINE A == {n \in S : MinerOf[n] = m}
             B == {n \in T : MinerOf[n] = m}
  <2>1. A \subseteq B /\ B \subseteq Node
    BY Zenon
  <2>2. Cardinality(B) <= MaxPerMiner
    BY Zenon DEF Capped
  <2> HIDE DEF A, B
  <2>3. Cardinality(A) <= Cardinality(B) /\ Cardinality(A) \in Nat /\ Cardinality(B) \in Nat
    BY Zenon, <1>1, <2>1
  <2>4. Cardinality(A) <= MaxPerMiner
    BY <2>2, <2>3, LanesAssumption
  <2> QED
    BY Zenon, <2>4 DEF A
<1> QED
  BY Zenon, <1>2, <1>3 DEF Capped

\* Only a selection adds to what runs or is about to.
LEMMA OnlySelectAdds ==
  ASSUME LaneInv, [Next]_vars, ~TickSelect
  PROVE  (Running \cup chosen)' \subseteq Running \cup chosen
<1> USE DEF vars, redis, sync, wave, queue, lane, verification
<1>0. UNCHANGED <<inFlight, chosen>> => (Running \cup chosen)' \subseteq Running \cup chosen
  BY Zenon DEF Running
<1>1. UNCHANGED chosen /\ (\A n \in Node : inFlight'[n] = "express" => inFlight[n] = "express")
      => (Running \cup chosen)' \subseteq Running \cup chosen
  BY Zenon DEF Running
<1>2. CASE WaveStep
  <2>1. ASSUME NEW b \in Batch, StartCycle(b) PROVE UNCHANGED <<inFlight, chosen>>
    BY Zenon, <2>1 DEF StartCycle
  <2>2. CASE FirstTick \/ WaveEnds \/ MarkValidated \/ CycleFails \/ TimePasses
    BY Zenon, <1>0, <2>2 DEF FirstTick, WaveEnds, MarkValidated, CycleFails, TimePasses
  <2>3. CASE ForgetCycleDone
    BY Zenon, <1>1, <2>3 DEF ForgetCycleDone, Forgotten
  <2>4. ASSUME NEW b \in Batch, NEW m \in Miner, AskFails(b, m)
        PROVE  UNCHANGED <<inFlight, chosen>>
    BY Zenon, <2>4 DEF AskFails
  <2>5. ASSUME NEW b \in Batch, NEW m \in Miner, Claim(b, m)
        PROVE  /\ UNCHANGED chosen
               /\ \A n \in Node : inFlight'[n] = "express" => inFlight[n] = "express"
    BY Zenon, <2>5 DEF Claim
  <2>6. ASSUME NEW b \in Batch, NEW m \in Miner, Finish(b, m) \/ CancelledEnds(b, m)
        PROVE  /\ UNCHANGED chosen
               /\ \A n \in Node : inFlight'[n] = "express" => inFlight[n] = "express"
    BY Zenon, <2>6 DEF Finish, CancelledEnds, Released
  <2> QED
    BY Zenon, <1>0, <1>1, <1>2, <2>1, <2>2, <2>3, <2>4, <2>5, <2>6 DEF WaveStep
<1>3. CASE LaneStep
  <2>1. CASE TickList \/ TickRead
    BY Zenon, <1>0, <2>1 DEF TickList, TickRead
  <2>2. CASE TickFails
    BY Zenon, <2>2 DEF TickFails, TickIdle, Running
  <2>3. CASE Launch
    <3>1. PICK T \in SUBSET Node :
             /\ T \subseteq chosen
             /\ inFlight' = [n \in Node |-> IF n \in T THEN "express" ELSE inFlight[n]]
      BY Zenon, <2>3, LaunchStarts DEF LaneInv
    <3>2. chosen' = {}
      BY Zenon, <2>3 DEF Launch, TickIdle
    <3> QED
      BY Zenon, <3>1, <3>2 DEF Running
  <2>4. ASSUME NEW n \in Node, Leave(n), UNCHANGED chosen
        PROVE  (Running \cup chosen)' \subseteq Running \cup chosen
    BY Zenon, <1>1, <2>4 DEF Leave, LaneInv, LaneTypes
  <2>5. ASSUME NEW n \in Node, DelayEnds(n) \/ PublishPassed(n) PROVE UNCHANGED <<inFlight, chosen>>
    BY Zenon, <2>5 DEF DelayEnds, PublishPassed
  <2>6. ASSUME NEW n \in Node, Discard(n) \/ NoResult(n) \/ PublishFailed(n) \/ MarkPublished(n)
        PROVE  Leave(n) /\ UNCHANGED chosen
    BY Zenon, <2>6 DEF Discard, NoResult, PublishFailed, MarkPublished
  <2> QED
    BY Zenon, <1>0, <1>3, <2>1, <2>2, <2>3, <2>4, <2>5, <2>6 DEF LaneStep
<1>4. CASE OutsideStep \/ UNCHANGED vars
  BY Zenon, <1>0, <1>4 DEF OutsideStep, Register, Deregister, AskRecheck, RemoveFiles
<1> QED
  BY Zenon, <1>2, <1>3, <1>4 DEF Next

\* A tick selects within the room that is left.
LEMMA CapsStep == LaneInv /\ CapsInv /\ [Next]_vars => CapsInv'
<1> SUFFICES ASSUME LaneInv, CapsInv, [Next]_vars PROVE CapsInv'
  BY Zenon
<1>1. Running \cup chosen \in SUBSET Node /\ Running \in SUBSET (Running \cup chosen)
  BY Zenon DEF Running, LaneInv, LaneTypes
<1>2. CASE TickSelect
  <2>1. PICK C : (C = {} \/ Fits(C)) /\ chosen' = C
    BY Zenon, <1>2 DEF TickSelect
  <2>2. UNCHANGED inFlight
    BY Zenon, <1>2 DEF TickSelect
  <2>3. CASE C = {}
    <3>1. (Running \cup chosen)' = Running
      BY Zenon, <2>1, <2>2, <2>3 DEF Running
    <3>2. Capped(Running)
      BY Zenon, <1>1, CappedSubset DEF CapsInv
    <3> QED
      BY Zenon, <3>1, <3>2 DEF CapsInv, Capped
  <2>4. CASE Fits(C)
    <3>1. (Running \cup chosen)' = C \cup {n \in Node : inFlight[n] = "express"}
      BY Zenon, <2>1, <2>2 DEF Running
    <3> QED
      BY Zenon, <2>4, <3>1 DEF Fits, CapsInv, Capped
  <2> QED
    BY Zenon, <2>1, <2>3, <2>4
<1>3. CASE ~TickSelect
  <2>1. (Running \cup chosen)' \in SUBSET (Running \cup chosen)
    BY Zenon, <1>3, OnlySelectAdds
  <2>2. Capped((Running \cup chosen)')
    BY Zenon, <1>1, <2>1, CappedSubset DEF CapsInv
  <2> QED
    BY Zenon, <2>2 DEF CapsInv, Capped
<1> QED
  BY Zenon, <1>2, <1>3

--------------------------------------------------------------------------------
\* No node is verified in both lanes at once (_claim_for_cycle, _launch).
THEOREM NodesHaveOneLane == Spec => []OneLane
<1>1. Init => LaneInv
  BY LanesAssumption DEF Init, LaneInv, LaneTypes, Lane, Request, Verification
<1>2. LaneInv /\ [Next]_vars => LaneInv'
  BY Zenon, LanesStep
<1>3. LaneInv => OneLane
  BY Zenon DEF LaneInv, LaneTypes, OneLane, InWave
<1> QED
  BY <1>1, <1>2, <1>3, PTL DEF Spec

\* A verification has its files until it ends (fresh_job_files_directory, directories_in_use).
THEOREM FilesAreKept == Spec => []FilesKept
<1>1. Init => LaneInv /\ FilesInv
  <2> SUFFICES ASSUME Init PROVE LaneInv /\ FilesInv
    BY Zenon
  <2>1. LaneInv
    BY Zenon, LanesAssumption DEF Init, LaneInv, LaneTypes, Lane, Request, Verification
  <2>2. \A b \in Batch : Users(b) = {}
    BY Zenon DEF Init, Users
  <2>3. FilesInv
    BY Zenon, <2>2, FS_EmptySet DEF Init, FilesInv, FilesKept
  <2> QED
    BY Zenon, <2>1, <2>3
<1>2. LaneInv /\ FilesInv /\ [Next]_vars => LaneInv' /\ FilesInv'
  BY Zenon, LanesStep, FilesStep
<1>3. FilesInv => FilesKept
  BY Zenon DEF FilesInv
<1> QED
  BY <1>1, <1>2, <1>3, PTL DEF Spec

\* A registration flood does not overrun the validator: the lane runs at most
\* EXPRESS_LANE_MAX_IN_FLIGHT nodes, and at most its share of any miner, although the awaits of
\* _launch lie between the count and the start.
THEOREM FloodsAreCapped == Spec => []WithinCaps
<1>1. Init => LaneInv /\ CapsInv
  <2> SUFFICES ASSUME Init PROVE LaneInv /\ CapsInv
    BY Zenon
  <2>1. LaneInv
    BY Zenon, LanesAssumption DEF Init, LaneInv, LaneTypes, Lane, Request, Verification
  <2>2. Running \cup chosen = {} /\ \A m \in Miner : {n \in {} : MinerOf[n] = m} = {}
    BY Zenon DEF Init, Running
  <2>3. Capped({})
    <3>1. 0 <= MaxInFlight /\ 0 <= MaxPerMiner
      BY LanesAssumption
    <3> QED
      BY Zenon, <2>2, <3>1, FS_EmptySet DEF Capped
  <2> QED
    BY Zenon, <2>1, <2>2, <2>3 DEF CapsInv
<1>2. LaneInv /\ CapsInv /\ [Next]_vars => LaneInv' /\ CapsInv'
  BY Zenon, LanesStep, CapsStep
<1>3. LaneInv /\ CapsInv => WithinCaps
  <2>1. LaneInv => Running \cup chosen \in SUBSET Node /\ Running \in SUBSET (Running \cup chosen)
    BY Zenon DEF Running, LaneInv, LaneTypes
  <2> QED
    BY Zenon, <2>1, CappedSubset DEF CapsInv, WithinCaps
<1> QED
  BY <1>1, <1>2, <1>3, PTL DEF Spec
--------------------------------------------------------------------------------
(* Types: the limits of the queue are kept *)

\* The queue: retries stop at MAX_ATTEMPTS, failed first passes at FIRST_PASS_MAX_RUNS and the runs
\* of a recheck at RECHECK_MAX_RUNS.
QueueTypes ==
    /\ pending \subseteq Node /\ notBefore \subseteq pending /\ left \subseteq Node
    /\ attempts \in [Node -> 0..MaxAttempts] /\ failedRuns \in [Node -> 0..MaxRuns]
    /\ runs \in [Node -> 0..MaxRechecks]

\* The rest of what is not claims or files.
OtherTypes ==
    /\ validated \subseteq Node /\ rechecks \subseteq Node /\ results \subseteq Node
    /\ seen \subseteq Node /\ requested \subseteq chosen /\ deadline \subseteq Node
    /\ cycle \in Batch \cup {NoBatch} /\ stage \in Stage /\ late \in {"yes", "no"}
    /\ ticked \in {"no", "selected", "yes"} /\ tickCycle \in Batch \cup {NoBatch}
    /\ tick \in {"idle", "listed", "read", "chosen"}
    /\ awaiting \in [Miner -> Batch \cup {NoBatch}]
    /\ faults \in 0..MaxFaults

\* A selection keeps the limits of the queue.
LEMMA RequeueTypes ==
  ASSUME QueueTypes, NEW all \in SUBSET Node, NEW valid, NEW asked,
         Requeue(all, valid, asked), UNCHANGED <<left, runs>>
  PROVE  QueueTypes'
<1>1. pending' \subseteq Node /\ notBefore' \subseteq pending'
  BY Zenon DEF Requeue, Queued, QueueTypes
<1>2. 0 \in 0..MaxAttempts /\ 0 \in 0..MaxRuns
  BY LanesAssumption
<1>3. attempts' \in [Node -> 0..MaxAttempts] /\ failedRuns' \in [Node -> 0..MaxRuns]
  BY Zenon, <1>2 DEF Requeue, QueueTypes
<1> QED
  BY Zenon, <1>1, <1>3 DEF QueueTypes

\* Entries that leave the queue lose their counts.
LEMMA DropTypes ==
  ASSUME QueueTypes, NEW S \in SUBSET Node, Drop(S), left' \in {left, left \cup S},
         runs' \in [Node -> 0..MaxRechecks]
  PROVE  QueueTypes'
<1>1. pending' \subseteq Node /\ notBefore' \subseteq pending' /\ left' \subseteq Node
  BY Zenon DEF Drop, QueueTypes
<1>2. 0 \in 0..MaxAttempts /\ 0 \in 0..MaxRuns
  BY LanesAssumption
<1>3. attempts' \in [Node -> 0..MaxAttempts] /\ failedRuns' \in [Node -> 0..MaxRuns]
  BY Zenon, <1>2 DEF Drop, QueueTypes
<1> QED
  BY Zenon, <1>1, <1>3 DEF QueueTypes

\* A deferred node has an attempt left, or leaves the queue.
LEMMA DeferTypes ==
  ASSUME QueueTypes, NEW D \in SUBSET Node, Defer(D), runs' \in [Node -> 0..MaxRechecks]
  PROVE  QueueTypes'
<1> DEFINE over == {n \in D \cap pending : attempts[n] + 1 >= MaxAttempts}
<1>1. pending' \subseteq Node /\ notBefore' \subseteq pending' /\ left' \subseteq Node
  BY Zenon DEF Defer, QueueTypes
<1>2. \A n \in D \cap pending : n \notin over => attempts[n] + 1 \in 0..MaxAttempts
  BY LanesAssumption DEF QueueTypes
<1>3. 0 \in 0..MaxAttempts /\ 0 \in 0..MaxRuns
  BY LanesAssumption
<1>4. /\ attempts' = [n \in Node |-> IF n \in over THEN 0
                                     ELSE IF n \in D \cap pending THEN attempts[n] + 1 ELSE attempts[n]]
      /\ failedRuns' = [n \in Node |-> IF n \in over THEN 0 ELSE failedRuns[n]]
  BY Zenon DEF Defer
<1> HIDE DEF over
<1>5. attempts' \in [Node -> 0..MaxAttempts] /\ failedRuns' \in [Node -> 0..MaxRuns]
  BY Zenon, <1>2, <1>3, <1>4 DEF QueueTypes
<1> QED
  BY Zenon, <1>1, <1>5 DEF QueueTypes

\* Every step keeps the limits of the queue.
LEMMA QueueStep == TypeOK /\ [Next]_vars => QueueTypes'
<1> SUFFICES ASSUME TypeOK, [Next]_vars PROVE QueueTypes'
  BY Zenon
<1> USE DEF vars, redis, sync, wave, queue, lane, verification
<1>t. QueueTypes
  BY Zenon DEF TypeOK, QueueTypes
<1>c. chosen \subseteq Node
  BY Zenon DEF TypeOK
<1>0. UNCHANGED queue => QueueTypes'
  BY Zenon, <1>t DEF QueueTypes
<1>r. /\ \A n \in Node : EndRecheck(n) => runs' \in [Node -> 0..MaxRechecks]
      /\ UNCHANGED runs => runs' \in [Node -> 0..MaxRechecks]
  BY LanesAssumption, <1>t DEF EndRecheck, QueueTypes
<1>1. CASE WaveStep
  <2>1. CASE FirstTick
    BY Zenon, <1>0, <1>t, <2>1, RequeueTypes DEF FirstTick, TypeOK
  <2>2. CASE (\E b \in Batch : StartCycle(b)) \/ WaveEnds \/ MarkValidated \/ CycleFails
             \/ ForgetCycleDone \/ TimePasses
    BY Zenon, <1>0, <2>2 DEF StartCycle, WaveEnds, MarkValidated, CycleFails, ForgetCycleDone, TimePasses
  <2>3. CASE \E b \in Batch, m \in Miner :
               Claim(b, m) \/ AskFails(b, m) \/ Finish(b, m) \/ CancelledEnds(b, m)
    <3>1. PICK b \in Batch, m \in Miner :
             Claim(b, m) \/ AskFails(b, m) \/ Finish(b, m) \/ CancelledEnds(b, m)
      BY Zenon, <2>3
    <3>2. CASE Claim(b, m)
      BY ZenonT(60), <1>0, <3>2 DEF Claim
    <3>3. CASE AskFails(b, m) \/ CancelledEnds(b, m)
      BY ZenonT(60), <1>0, <3>3 DEF AskFails, CancelledEnds
    <3>4. CASE Finish(b, m)
      BY ZenonT(60), <1>0, <3>4 DEF Finish
    <3> QED
      BY Zenon, <3>1, <3>2, <3>3, <3>4
  <2> QED
    BY Zenon, <1>1, <2>1, <2>2, <2>3 DEF WaveStep
<1>2. CASE LaneStep
  <2>1. CASE TickList \/ TickRead \/ TickFails
    BY Zenon, <1>0, <2>1 DEF TickList, TickRead, TickFails
  <2>2. CASE TickSelect
    BY Zenon, <1>t, <2>2, RequeueTypes DEF TickSelect, TypeOK
  <2>3. CASE Launch
    <3>1. CASE UNCHANGED queue
      BY Zenon, <1>0, <3>1
    <3>2. CASE cycle \in dirs
      <4>1. PICK G \in SUBSET Miner : /\ Start(UNION {Launchable(m) : m \in Miner \ G})
                                      /\ Defer(UNION {Launchable(m) : m \in G})
        BY Zenon, <2>3, <3>2 DEF Launch
      <4>2. UNION {Launchable(m) : m \in G} \in SUBSET Node
        BY ZenonT(60), <1>c DEF Launchable
      <4>3. runs' \in [Node -> 0..MaxRechecks]
        BY <4>1, <1>t, LanesAssumption DEF Start, QueueTypes
      <4> QED
        BY Zenon, <1>t, <4>1, <4>2, <4>3, DeferTypes
    <3> QED
      BY Zenon, <2>3, <3>1, <3>2 DEF Launch
  <2>4. ASSUME NEW n \in Node, DelayEnds(n) PROVE QueueTypes'
    BY Zenon, <1>t, <2>4 DEF DelayEnds, QueueTypes
  <2>5. ASSUME NEW n \in Node, Discard(n) PROVE QueueTypes'
    BY Zenon, <1>t, <2>5 DEF Discard, QueueTypes
  <2>6. ASSUME NEW n \in Node, NoResult(n) PROVE QueueTypes'
    <3>1. Defer({n}) /\ {n} \in SUBSET Node /\ UNCHANGED runs
      BY Zenon, <2>6 DEF NoResult
    <3> QED
      BY Zenon, <1>t, <1>r, <3>1, DeferTypes
  <2>7. ASSUME NEW n \in Node, PublishFailed(n) PROVE QueueTypes'
    <3>1. CASE UNCHANGED queue
      BY Zenon, <1>0, <3>1
    <3>2. CASE Drop({n}) /\ left' = left \cup {n} /\ EndRecheck(n)
      <4>1. {n} \in SUBSET Node /\ left' \in {left, left \cup {n}}
        BY Zenon, <3>2
      <4> QED
        BY Zenon, <1>t, <1>r, <3>2, <4>1, DropTypes
    <3>3. CASE /\ n \in pending /\ failedRuns[n] + 1 < MaxRuns
               /\ failedRuns' = [failedRuns EXCEPT ![n] = @ + 1]
               /\ attempts' = [attempts EXCEPT ![n] = IF @ < MaxAttempts THEN @ + 1 ELSE @]
               /\ notBefore' = notBefore \cup {n}
               /\ UNCHANGED <<pending, left, runs>>
      BY <1>t, <3>3, LanesAssumption DEF QueueTypes
    <3> QED
      BY Zenon, <2>7, <3>1, <3>2, <3>3 DEF PublishFailed
  <2>8. ASSUME NEW n \in Node, PublishPassed(n) PROVE QueueTypes'
    BY Zenon, <1>t, <1>r, <2>8 DEF PublishPassed, QueueTypes
  <2>9. ASSUME NEW n \in Node, MarkPublished(n) PROVE QueueTypes'
    <3>1. Drop({n}) /\ {n} \in SUBSET Node /\ left' \in {left, left \cup {n}} /\ UNCHANGED runs
      BY Zenon, <2>9 DEF MarkPublished
    <3> QED
      BY Zenon, <1>t, <1>r, <3>1, DropTypes
  <2> QED
    BY Zenon, <1>2, <2>1, <2>2, <2>3, <2>4, <2>5, <2>6, <2>7, <2>8, <2>9 DEF LaneStep
<1>3. CASE OutsideStep \/ UNCHANGED vars
  BY Zenon, <1>0, <1>3 DEF OutsideStep, Register, Deregister, AskRecheck, RemoveFiles
<1> QED
  BY Zenon, <1>1, <1>2, <1>3 DEF Next

\* Every step keeps the remaining types.
LEMMA OtherStep == TypeOK /\ [Next]_vars => OtherTypes'
<1> SUFFICES ASSUME TypeOK, [Next]_vars PROVE OtherTypes'
  BY Zenon
<1> USE DEF vars, redis, sync, wave, queue, lane, verification
<1>t. OtherTypes /\ chosen \subseteq Node /\ listed \subseteq Node
  BY Zenon DEF TypeOK, OtherTypes
<1>f. Fault => faults' \in 0..MaxFaults
  <2>1. faults \in 0..MaxFaults
    BY Zenon, <1>t DEF OtherTypes
  <2> HIDE <1>t
  <2> QED
    BY <2>1, LanesAssumption DEF Fault
<1>i. TickIdle => /\ seen' \subseteq Node /\ requested' \subseteq chosen'
                  /\ tick' \in {"idle", "listed", "read", "chosen"}
                  /\ tickCycle' \in Batch \cup {NoBatch} /\ ticked' \in {"no", "selected", "yes"}
  BY Zenon, <1>t DEF TickIdle, OtherTypes
<1>l. ASSUME NEW n \in Node, Leave(n) PROVE deadline' \subseteq Node
  BY Zenon, <1>l, <1>t DEF Leave, OtherTypes
<1>a. ASSUME NEW b \in Batch, NEW m \in Miner, StopAwaiting(b, m)
      PROVE  awaiting' \in [Miner -> Batch \cup {NoBatch}]
  BY Zenon, <1>a, <1>t DEF StopAwaiting, OtherTypes
<1>1. CASE WaveStep
  <2>1. ASSUME NEW b \in Batch, StartCycle(b) PROVE OtherTypes'
    BY Zenon, <1>t, <2>1 DEF StartCycle, OtherTypes, Stage
  <2>2. CASE FirstTick
    BY Zenon, <1>t, <1>f, <2>2 DEF FirstTick, OtherTypes, Stage
  <2>3. CASE WaveEnds \/ MarkValidated \/ ForgetCycleDone \/ TimePasses
    BY ZenonT(60), <1>t, <2>3 DEF WaveEnds, MarkValidated, ForgetCycleDone, TimePasses, OtherTypes, Stage
  <2>4. CASE CycleFails
    BY Zenon, <1>t, <1>f, <2>4 DEF CycleFails, OtherTypes, Stage
  <2>5. ASSUME NEW b \in Batch, NEW m \in Miner, Claim(b, m) \/ AskFails(b, m) \/ CancelledEnds(b, m)
        PROVE  OtherTypes'
    BY ZenonT(60), <1>t, <1>a, <2>5 DEF Claim, AskFails, CancelledEnds, OtherTypes
  <2>6. ASSUME NEW b \in Batch, NEW m \in Miner, Finish(b, m) PROVE OtherTypes'
    <3>0. claims \in [Batch -> [Miner -> SUBSET Node]]
      BY Zenon DEF TypeOK
    <3>1. claims[b][m] \subseteq Node
      BY <3>0
    <3>2. results' \subseteq Node
      BY Zenon, <1>t, <2>6, <3>1 DEF Finish, OtherTypes
    <3> QED
      BY Zenon, <1>t, <1>a, <2>6, <3>2 DEF Finish, OtherTypes
  <2> QED
    BY Zenon, <1>1, <2>1, <2>2, <2>3, <2>4, <2>5, <2>6 DEF WaveStep
<1>2. CASE LaneStep
  <2>1. CASE TickList \/ TickRead
    <3>1. CASE TickList
      BY ZenonT(60), <1>t, <3>1 DEF TickList, OtherTypes
    <3>2. CASE TickRead
      BY ZenonT(60), <1>t, <3>2 DEF TickRead, OtherTypes
    <3> QED
      BY Zenon, <2>1, <3>1, <3>2
  <2>2. CASE TickSelect
    <3>1. requested' \subseteq chosen'
      BY Zenon, <2>2 DEF TickSelect
    <3>2. /\ seen' \subseteq Node /\ tick' \in {"idle", "read", "chosen"}
          /\ tickCycle' \in Batch \cup {NoBatch} /\ ticked' \in {"no", "selected", "yes"}
      BY Zenon, <1>t, <2>2 DEF TickSelect, OtherTypes
    <3>3. UNCHANGED <<validated, rechecks, cycle, stage, late, results, awaiting, deadline, faults>>
      BY Zenon, <2>2 DEF TickSelect
    <3> QED
      BY Zenon, <1>t, <3>1, <3>2, <3>3 DEF OtherTypes
  <2>3. CASE TickFails
    BY Zenon, <1>t, <1>f, <1>i, <2>3 DEF TickFails, OtherTypes
  <2>4. CASE Launch
    <3>1. PICK G \in SUBSET Miner :
             /\ IF G = {} THEN UNCHANGED faults ELSE Fault
             /\ IF cycle \in dirs THEN Start(UNION {Launchable(m) : m \in Miner \ G})
                ELSE UNCHANGED <<deadline, rechecks>>
      BY Zenon, <2>4 DEF Launch
    <3>2. rechecks' \subseteq Node /\ deadline' \subseteq Node
      BY Zenon, <1>t, <3>1 DEF Start, OtherTypes
    <3>3. faults' \in 0..MaxFaults
      BY Zenon, <1>t, <1>f, <3>1 DEF OtherTypes
    <3>4. TickIdle /\ UNCHANGED <<validated, cycle, stage, late, results, awaiting>>
      BY Zenon, <2>4 DEF Launch
    <3> QED
      BY Zenon, <1>t, <1>i, <3>2, <3>3, <3>4 DEF OtherTypes
  <2>5. ASSUME NEW n \in Node, DelayEnds(n) \/ Discard(n) \/ NoResult(n) PROVE OtherTypes'
    BY Zenon, <1>t, <1>l, <2>5 DEF DelayEnds, Discard, NoResult, OtherTypes
  <2>6. ASSUME NEW n \in Node, PublishFailed(n) PROVE OtherTypes'
    <3>1. rechecks' \subseteq Node
      BY Zenon, <1>t, <2>6 DEF PublishFailed, EndRecheck, OtherTypes
    <3> QED
      BY Zenon, <1>t, <1>l, <2>6, <3>1 DEF PublishFailed, OtherTypes
  <2>7. ASSUME NEW n \in Node, PublishPassed(n) PROVE OtherTypes'
    BY Zenon, <1>t, <2>7 DEF PublishPassed, EndRecheck, OtherTypes
  <2>8. ASSUME NEW n \in Node, MarkPublished(n) PROVE OtherTypes'
    <3>1. validated' \subseteq Node /\ faults' \in 0..MaxFaults
      BY Zenon, <1>t, <1>f, <2>8 DEF MarkPublished, OtherTypes
    <3> QED
      BY Zenon, <1>t, <1>l, <2>8, <3>1 DEF MarkPublished, OtherTypes
  <2> QED
    BY Zenon, <1>2, <2>1, <2>2, <2>3, <2>4, <2>5, <2>6, <2>7, <2>8 DEF LaneStep
<1>3. CASE OutsideStep
  <2>1. CASE \E n \in Node : Register(n) \/ Deregister(n) \/ AskRecheck(n)
    BY ZenonT(60), <2>1, <1>t, <1>f DEF Register, Deregister, AskRecheck, OtherTypes
  <2>2. CASE \E b \in Batch : RemoveFiles(b)
    BY ZenonT(60), <2>2, <1>t, <1>f DEF RemoveFiles, OtherTypes
  <2> QED
    BY Zenon, <1>3, <2>1, <2>2 DEF OutsideStep
<1>4. CASE UNCHANGED vars
  BY Zenon, <1>4, <1>t DEF OtherTypes
<1> QED
  BY Zenon, <1>1, <1>2, <1>3, <1>4 DEF Next

\* Every variable keeps its type; among them, no retry goes past MAX_ATTEMPTS, no failed first pass
\* past FIRST_PASS_MAX_RUNS and no recheck past RECHECK_MAX_RUNS, and only queued nodes wait.
THEOREM TypeCorrect == Spec => []TypeOK
<1>1. LaneInv /\ FilesInv /\ QueueTypes /\ OtherTypes => TypeOK
  BY Zenon DEF LaneInv, LaneTypes, FilesInv, QueueTypes, OtherTypes, TypeOK
<1>2. Init => LaneInv /\ FilesInv /\ QueueTypes /\ OtherTypes
  <2> SUFFICES ASSUME Init PROVE LaneInv /\ FilesInv /\ QueueTypes /\ OtherTypes
    BY Zenon
  <2>1. LaneInv
    BY Zenon, LanesAssumption DEF Init, LaneInv, LaneTypes, Lane, Request, Verification
  <2>2. \A b \in Batch : Users(b) = {}
    BY Zenon DEF Init, Users
  <2>3. FilesInv
    BY Zenon, <2>2, FS_EmptySet DEF Init, FilesInv, FilesKept
  <2>4. 0 \in 0..MaxAttempts /\ 0 \in 0..MaxRuns /\ 0 \in 0..MaxRechecks /\ 0 \in 0..MaxFaults
    BY LanesAssumption
  <2>5. QueueTypes /\ OtherTypes
    BY Zenon, <2>4, LanesAssumption DEF Init, QueueTypes, OtherTypes, Stage
  <2> QED
    BY Zenon, <2>1, <2>3, <2>5
<1>3. LaneInv /\ FilesInv /\ QueueTypes /\ OtherTypes /\ [Next]_vars
      => LaneInv' /\ FilesInv' /\ QueueTypes' /\ OtherTypes'
  BY Zenon, <1>1, LanesStep, FilesStep, QueueStep, OtherStep
<1> QED
  BY <1>1, <1>2, <1>3, PTL DEF Spec
================================================================================
