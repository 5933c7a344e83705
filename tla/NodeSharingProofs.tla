-------------------------- MODULE NodeSharingProofs --------------------------
(***************************************************************************)
(* Proofs about NodeSharing, for any number of renters, probes and faults: *)
(* a rented pod keeps its container, the probe creates beside a renter's   *)
(* create that took the lock only if that one's mark was lost, a failure   *)
(* that stands is not shielded by a recent pass, and without a fault the   *)
(* probe leaves no container of its own.                                   *)
(***************************************************************************)
EXTENDS NodeSharing, TLAPS

Final == {"done", "failed"}

\* Nothing but its own create takes the container of an open rental: a sweep was told of
\* closed rentals only, a rental is closed only once its create was answered, and it stays
\* closed.
Stands ==
  /\ \A p \in Pod : rental[p] = "closed" => stage[p] \in Final
  /\ \A i \in Id, p \in Pod : p \in stale[i] => p = i \/ rental[p] = "closed"
  /\ \A p \in Pod : stage[p] = "ran" \/ (stage[p] = "done" /\ rental[p] = "open") => p \in host

\* A create that took the lock has it until its mark is written, and then its mark, unless
\* that was lost; the probe has the lock until its create is over.
Unmarked == {"start", "adding"}
Kept ==
  /\ \A p \in Pod : rental[p] = "none" => stage[p] = "idle"
  /\ \A p \in held : stage[p] \in Building \cup {"failing", "clearing", "unmarked", "holding"}
  /\ \A p \in Pod : finish[p] # "none" => stage[p] \in Final
  /\ \A p \in held : stage[p] \in Unmarked => lock = p
  /\ \A p \in held : stage[p] \in Building \ Unmarked => InProgress(p) \/ p \in lost
  /\ probe \in Holding \cup {"locked", "asked"} => lock = Probe

\* Only the probe stamps a pass, and it starts without one; both stamps stand only while one
\* of the two writers is about to take one of them back.
Stamped ==
  /\ probe \notin {"idle", "passing"} => passed = "no"
  /\ torn = "no" /\ passed = "yes" /\ standing = "yes"
       => probe = "passing" \/ \E p \in Pod : stage[p] = "holding"

\* The probe's container stands only from the run of its create to its teardown.
Started == {"created", "failing", "forgetting", "stamping", "dropping", "probing", "settling"}

\* Unless a teardown failed or the validator died, the probe judges the node, and starts its next
\* run on it, without a container of its own there, whichever step of the last run failed.
ProbeCleansUp == faults = 0 /\ probe \notin Started => Probe \notin host

------------------------------------------------------------------------------
(* What the steps of each actor touch. *)

\* A step of the backend's moves a create only when it sends it.
LEMMA BackendMoves ==
  ASSUME NEW p \in Pod, BackendActs(p)
  PROVE  /\ UNCHANGED <<lock, held, view, stale, prober, stamps, faults>>
         /\ UNCHANGED stage \/ Rents(p)
         /\ UNCHANGED host \/ Deletes(p)
         /\ UNCHANGED list \/ FinishWrites(p)
BY Zenon DEF BackendActs, Rents, Lists, Closes, Deletes, FinishReads, FinishWrites, list, books,
   renters, stamps, prober

\* A step of a create's moves that create, out of a stage of its own, and leaves the backend
\* and the probe alone.
LEMMA CreateMoves ==
  ASSUME NEW p \in Pod, CreateActs(p)
  PROVE  /\ UNCHANGED <<books, prober>>
         /\ stage[p] \in Stages \ ({"idle"} \cup Final)
         /\ \E s \in Stages \ {"idle"} : stage' = [stage EXCEPT ![p] = s]
         /\ held' \in {held, held \cup {p}, held \ {p}}
         /\ lock' \in {lock, p, NoOne}
         /\ UNCHANGED view \/ \E V \in {marks, NoMarks} : view' = [view EXCEPT ![p] = V]
         /\ \/ UNCHANGED stale
            \/ \E S \in Sweepable(p) \cup {{}} : stale' = [stale EXCEPT ![p] = S]
         /\ host' \in {host, host \cup {p}, host \ {p}, host \ stale[p]}
         /\ \/ UNCHANGED list
            \/ Write(Added(view[p], p), p) \/ Write(Removed(view[p], p), p)
         /\ passed' \in {passed, "no"} /\ standing' \in {standing, "yes"} /\ torn' \in {torn, "yes"}
         /\ UNCHANGED faults \/ Fault
<1> USE DEF CreateActs, Admit, TakeLock, GoAhead, MarkReads, MarkWrites, SweepAsks, Sweeps, Runs, Returns,
            Fails, UnmarkReads, UnmarkWrites, HoldSets, HoldDrops, HoldsNot, AttestationFails, CutOff,
            RecoverWrites, Moves, Ends
<1>1. UNCHANGED <<books, prober>> /\ (UNCHANGED faults \/ Fault)
  BY Zenon
<1>2. stage[p] \in Stages \ ({"idle"} \cup Final)
  BY Zenon DEF Stages, Building, Final
<1>3. \E s \in Stages \ {"idle"} : stage' = [stage EXCEPT ![p] = s]
  BY Zenon DEF Stages, Building
<1>4. held' \in {held, held \cup {p}, held \ {p}} /\ lock' \in {lock, p, NoOne}
  BY Zenon DEF renters, Released
<1>5. UNCHANGED view \/ \E V \in {marks, NoMarks} : view' = [view EXCEPT ![p] = V]
  BY Zenon
<1>6. \/ UNCHANGED stale
      \/ \E S \in Sweepable(p) \cup {{}} : stale' = [stale EXCEPT ![p] = S]
  BY Zenon
<1>7. host' \in {host, host \cup {p}, host \ {p}, host \ stale[p]}
  BY Zenon
<1>8. UNCHANGED list \/ Write(Added(view[p], p), p) \/ Write(Removed(view[p], p), p)
  BY Zenon
<1>9. passed' \in {passed, "no"} /\ standing' \in {standing, "yes"} /\ torn' \in {torn, "yes"}
  BY Zenon DEF stamps
<1> HIDE DEF CreateActs, Admit, TakeLock, GoAhead, MarkReads, MarkWrites, SweepAsks, Sweeps, Runs, Returns,
            Fails, UnmarkReads, UnmarkWrites, HoldSets, HoldDrops, HoldsNot, AttestationFails, CutOff,
            RecoverWrites, Moves, Ends
<1> QED
  BY Zenon, <1>1, <1>2, <1>3, <1>4, <1>5, <1>6, <1>7, <1>8, <1>9

\* A step of the probe's, or a restart of its process, leaves the backend and the creates alone.
LEMMA ProbeStepMoves ==
  ASSUME ProbeActs
  PROVE  /\ UNCHANGED <<books, renters>>
         /\ probe' \in ProbeStages \/ UNCHANGED probe
         /\ outcome' \in {outcome, "none", "passed", "failed", "nothing"}
         /\ lock' \in {lock, Probe, NoOne}
         /\ UNCHANGED view \/ \E V \in {marks, NoMarks} : view' = [view EXCEPT ![Probe] = V]
         /\ \/ UNCHANGED stale
            \/ \E S \in Sweepable(Probe) \cup {{}} : stale' = [stale EXCEPT ![Probe] = S]
         /\ host' \in {host, host \cup {Probe}, host \ {Probe}, host \ stale[Probe]}
         /\ \/ UNCHANGED list \/ Write(NoMarks, NoOne)
            \/ Write(Added(view[Probe], Probe), Probe) \/ Write(Removed(view[Probe], Probe), Probe)
         /\ passed' \in {passed, "no", "yes"} /\ standing' \in {standing, "no", "yes"}
         /\ torn' \in {torn, "yes"}
         /\ UNCHANGED probes \/ (probes < MaxProbes /\ probes' = probes + 1)
         /\ UNCHANGED faults \/ Fault
<1> USE DEF ProbeActs, ProbeLocks, ProbeAsks, ProbeLooks, ProbeStandsDown, ProbeMarkReads,
            ProbeMarkWrites, ProbeSweepAsks, ProbeSweeps, ProbeRuns, ProbeCreateCut, ProbeCreateFails,
            ProbeFailReads, ProbeFailWrites, ProbeHoldSets, ProbeHoldDrops, ProbeHoldsNot,
            ProbeCreated, ProbeSteps, ProbeSettles, ProbeUnmarkReads, ProbeUnmarkWrites, ProbePasses,
            ProbeClears, ProbeAsksAgain, ProbeSpares, ProbeBlames, ProbeStamps, IntervalEnds,
            ValidatorRestarts, ProbeMoves, ProbeEnds
<1>1. UNCHANGED <<books, renters>> /\ (UNCHANGED faults \/ Fault)
  BY Zenon
<1>2. probe' \in ProbeStages \/ UNCHANGED probe
  BY Zenon DEF ProbeStages, Holding, Creating, prober
<1>3. outcome' \in {outcome, "none", "passed", "failed", "nothing"}
  BY Zenon DEF prober
<1>4. /\ lock' \in {lock, Probe, NoOne}
      /\ UNCHANGED probes \/ (probes < MaxProbes /\ probes' = probes + 1)
  BY Zenon DEF prober, Released
<1>5. UNCHANGED view \/ \E V \in {marks, NoMarks} : view' = [view EXCEPT ![Probe] = V]
  BY Zenon
<1>6. \/ UNCHANGED stale
      \/ \E S \in Sweepable(Probe) \cup {{}} : stale' = [stale EXCEPT ![Probe] = S]
  BY Zenon
<1>7. host' \in {host, host \cup {Probe}, host \ {Probe}, host \ stale[Probe]}
  BY Zenon
<1>8. \/ UNCHANGED list \/ Write(NoMarks, NoOne)
      \/ Write(Added(view[Probe], Probe), Probe) \/ Write(Removed(view[Probe], Probe), Probe)
  BY Zenon
<1>9. /\ passed' \in {passed, "no", "yes"} /\ standing' \in {standing, "no", "yes"}
      /\ torn' \in {torn, "yes"}
  BY Zenon DEF stamps
<1> HIDE DEF ProbeActs
<1> QED
  BY Zenon, <1>1, <1>2, <1>3, <1>4, <1>5, <1>6, <1>7, <1>8, <1>9

------------------------------------------------------------------------------
(* Types. *)

\* A write of the list writes marks, and loses only what it says it loses.
LEMMA WriteLoses ==
  ASSUME marks \in [Id -> Age], NEW new \in [Id -> Age], NEW own, Write(new, own)
  PROVE  /\ marks' \in [Id -> Age]
         /\ lost' \subseteq lost \cup Id
         /\ lost \subseteq lost'
         /\ \A i \in Id \ {own} : InProgress(i) => InProgress(i)' \/ i \in lost'
BY Zenon DEF Write, InProgress

\* Every step keeps the types.
LEMMA StepType == TypeOK /\ [Next]_vars => TypeOK'
<1> SUFFICES ASSUME TypeOK, [Next]_vars PROVE TypeOK'
  BY Zenon
<1> USE SharingAssumption
<1>m. /\ marks \in [Id -> Age] /\ NoMarks \in [Id -> Age]
      /\ view \in [Id -> [Id -> Age]] /\ finView \in [Pod -> [Id -> Age]]
      /\ stale \in [Id -> SUBSET Id]
  BY Zenon DEF TypeOK, NoMarks, Age
<1>r. ASSUME NEW old \in [Id -> Age], NEW i \in Id
      PROVE  Removed(old, i) \in [Id -> Age] /\ Added(old, i) \in [Id -> Age]
  BY Zenon, <1>r DEF Removed, Added, Age
<1>v. ASSUME NEW i \in Id, NEW V \in {marks, NoMarks}
      PROVE  [view EXCEPT ![i] = V] \in [Id -> [Id -> Age]]
  BY Zenon, <1>m
<1>w. ASSUME NEW new \in [Id -> Age], NEW own, Write(new, own)
      PROVE  marks' \in [Id -> Age] /\ lost' \subseteq Id
  BY Zenon, <1>m, <1>w, WriteLoses DEF TypeOK
<1>s. ASSUME NEW i \in Id, NEW S \in Sweepable(i) \cup {{}}
      PROVE  S \in SUBSET Id
  BY DEF TypeOK, Sweepable, Confirmed
<1>f. faults' \in 0..MaxFaults
  <2>1. UNCHANGED faults \/ Fault
    BY Zenon, BackendMoves, CreateMoves, ProbeStepMoves DEF Next, Lapses, MarkAges, vars
  <2> QED
    BY <2>1 DEF TypeOK, Fault
<1>1. ASSUME NEW p \in Pod, BackendActs(p) PROVE TypeOK'
  <2> USE DEF TypeOK
  <2>1. CASE Rents(p)
    BY Zenon, <2>1 DEF Rents, list, prober, stamps, Stages, Building
  <2>2. CASE Lists(p)
    BY Zenon, <2>2 DEF Lists, list, renters, prober, stamps
  <2>3. CASE Closes(p)
    BY Zenon, <2>3 DEF Closes, list, renters, prober, stamps
  <2>4. CASE Deletes(p)
    BY Zenon, <2>4 DEF Deletes, books, list, renters, prober, stamps
  <2>5. CASE FinishReads(p)
    BY Zenon, <1>m, <2>5 DEF FinishReads, list, renters, prober, stamps
  <2>6. CASE FinishWrites(p)
    <3>1. marks' \in [Id -> Age] /\ lost' \subseteq Id
      BY Zenon, <1>m, <1>r, <1>w, <2>6 DEF FinishWrites, Id
    <3>2. finView' \in [Pod -> [Id -> Age]]
      BY Zenon, <1>m, <2>6 DEF FinishWrites
    <3> QED
      BY Zenon, <2>6, <3>1, <3>2 DEF FinishWrites, renters, prober, stamps
  <2> QED
    BY Zenon, <1>1, <2>1, <2>2, <2>3, <2>4, <2>5, <2>6 DEF BackendActs
<1>2. ASSUME NEW p \in Pod, CreateActs(p) PROVE TypeOK'
  <2>p. p \in Id
    BY Zenon DEF Id
  <2>1. view' \in [Id -> [Id -> Age]]
    <3>1. UNCHANGED view \/ \E V \in {marks, NoMarks} : view' = [view EXCEPT ![p] = V]
      BY Zenon, <1>2, CreateMoves
    <3> QED
      BY <1>m, <1>v, <2>p, <3>1
  <2>7. stale' \in [Id -> SUBSET Id]
    <3>1. \/ UNCHANGED stale
          \/ \E S \in Sweepable(p) \cup {{}} : stale' = [stale EXCEPT ![p] = S]
      BY Zenon, <1>2, CreateMoves
    <3>2. UNCHANGED stale \/ \E S \in SUBSET Id : stale' = [stale EXCEPT ![p] = S]
      BY Zenon, <1>s, <2>p, <3>1
    <3> QED
      BY Zenon, <1>m, <2>p, <3>2
  <2>2. marks' \in [Id -> Age] /\ lost' \subseteq Id
    <3>1. view[p] \in [Id -> Age]
      BY Zenon, <1>m, <2>p
    <3>2. UNCHANGED list \/ Write(Added(view[p], p), p) \/ Write(Removed(view[p], p), p)
      BY Zenon, <1>2, CreateMoves
    <3> QED
      BY Zenon, <1>m, <1>r, <1>w, <2>p, <3>1, <3>2 DEF TypeOK, list
  <2>3. /\ stage' \in [Pod -> Stages] /\ held' \subseteq Pod
        /\ lock' \in Id \cup {NoOne} /\ host' \subseteq Id
    <3>1. /\ \E s \in Stages \ {"idle"} : stage' = [stage EXCEPT ![p] = s]
          /\ held' \in {held, held \cup {p}, held \ {p}}
          /\ lock' \in {lock, p, NoOne}
          /\ host' \in {host, host \cup {p}, host \ {p}, host \ stale[p]}
      BY Zenon, <1>2, CreateMoves
    <3> QED
      BY <2>p, <3>1 DEF TypeOK
  <2>4. {passed', standing', torn'} \subseteq {"no", "yes"}
    BY Zenon, <1>2, CreateMoves DEF TypeOK
  <2> QED
    BY Zenon, <1>2, <1>f, <2>1, <2>2, <2>3, <2>4, <2>7, CreateMoves DEF TypeOK, books, prober
<1>3. CASE ProbeActs
  <2>p. Probe \in Id
    BY Zenon DEF Id
  <2>1. view' \in [Id -> [Id -> Age]]
    <3>1. UNCHANGED view \/ \E V \in {marks, NoMarks} : view' = [view EXCEPT ![Probe] = V]
      BY Zenon, <1>3, ProbeStepMoves
    <3> QED
      BY <1>m, <1>v, <2>p, <3>1
  <2>7. stale' \in [Id -> SUBSET Id]
    <3>1. \/ UNCHANGED stale
          \/ \E S \in Sweepable(Probe) \cup {{}} : stale' = [stale EXCEPT ![Probe] = S]
      BY Zenon, <1>3, ProbeStepMoves
    <3>2. UNCHANGED stale \/ \E S \in SUBSET Id : stale' = [stale EXCEPT ![Probe] = S]
      BY Zenon, <1>s, <2>p, <3>1
    <3> QED
      BY Zenon, <1>m, <2>p, <3>2
  <2>2. marks' \in [Id -> Age] /\ lost' \subseteq Id
    <3>1. view[Probe] \in [Id -> Age]
      BY Zenon, <1>m, <2>p
    <3> QED
      BY Zenon, <1>m, <1>r, <1>w, <1>3, <2>p, <3>1, ProbeStepMoves DEF TypeOK, list
  <2>3. lock' \in Id \cup {NoOne} /\ host' \subseteq Id
    BY Zenon, <1>3, <2>p, ProbeStepMoves DEF TypeOK
  <2>4. {passed', standing', torn'} \subseteq {"no", "yes"}
    BY Zenon, <1>3, ProbeStepMoves DEF TypeOK
  <2>5. /\ probe' \in ProbeStages /\ outcome' \in {"none", "passed", "failed", "nothing"}
    BY Zenon, <1>3, ProbeStepMoves DEF TypeOK
  <2>6. probes' \in 0..MaxProbes
    BY <1>3, ProbeStepMoves DEF TypeOK
  <2> QED
    BY Zenon, <1>3, <1>f, <2>1, <2>2, <2>3, <2>4, <2>5, <2>6, <2>7, ProbeStepMoves DEF TypeOK, books, renters
<1>4. CASE Lapses
  BY Zenon, <1>4 DEF TypeOK, Lapses, books, list, renters, prober, stamps
<1>5. ASSUME NEW i \in Id, MarkAges(i) PROVE TypeOK'
  <2>1. marks' \in [Id -> Age] /\ lost' \subseteq Id
    <3>1. [marks EXCEPT ![i] = "old"] \in [Id -> Age]
      BY Zenon, <1>m DEF Age
    <3> QED
      BY Zenon, <1>w, <1>5, <3>1 DEF MarkAges
  <2> QED
    BY Zenon, <1>5, <1>f, <2>1 DEF MarkAges, TypeOK, books, renters, prober, stamps
<1>6. CASE UNCHANGED vars
  BY Zenon, <1>6 DEF vars, TypeOK
<1> QED
  BY Zenon, <1>1, <1>2, <1>3, <1>4, <1>5, <1>6 DEF Next

\* The node's state keeps its type.
THEOREM TypeCorrect == Spec => []TypeOK
<1>1. Init => TypeOK
  BY SharingAssumption DEF Init, TypeOK, NoMarks, Age, Stages, ProbeStages, Id
<1> QED
  BY <1>1, StepType, PTL DEF Spec

------------------------------------------------------------------------------
(* Rented pods keep their containers. *)

\* Every step leaves the containers of open rentals alone.
LEMMA StepStands == TypeOK /\ Stands /\ [Next]_vars => Stands'
<1> SUFFICES ASSUME TypeOK, Stands, [Next]_vars PROVE Stands'
  BY Zenon
<1>t. /\ Probe \notin Pod /\ rental \in [Pod -> {"none", "open", "closed"}] /\ host \subseteq Id
      /\ stage \in [Pod -> Stages] /\ stale \in [Id -> SUBSET Id]
  BY Zenon, SharingAssumption DEF TypeOK
<1> USE <1>t DEF Stands, Final, Id
<1>1. ASSUME NEW p \in Pod, BackendActs(p) PROVE Stands'
  <2>1. CASE Rents(p)
    BY Zenon, <2>1 DEF Rents
  <2>2. CASE Closes(p)
    BY Zenon, <2>2 DEF Closes, renters
  <2>3. CASE Deletes(p)
    BY Zenon, <2>3 DEF Deletes, books, renters
  <2>4. CASE Lists(p) \/ FinishReads(p) \/ FinishWrites(p)
    <3>1. UNCHANGED <<rental, stage, stale, host>>
      BY Zenon, <2>4 DEF Lists, FinishReads, FinishWrites, renters
    <3> QED
      BY Zenon, <3>1
  <2> QED
    BY Zenon, <1>1, <2>1, <2>2, <2>3, <2>4 DEF BackendActs
<1>2. ASSUME NEW p \in Pod, CreateActs(p) PROVE Stands'
  <2>0. UNCHANGED rental /\ stage[p] \notin Final
    BY Zenon, <1>2, CreateMoves DEF books
  <2>1. CASE SweepAsks(p)
    <3>1. PICK S \in Sweepable(p) : stale' = [stale EXCEPT ![p] = S]
      BY Zenon, <2>1 DEF SweepAsks
    <3>2. \A q \in Pod : q \in S => q = p \/ rental[q] = "closed"
      BY Zenon, <3>1 DEF Sweepable, Confirmed
    <3>3. stage' = [stage EXCEPT ![p] = "sweeping"] /\ UNCHANGED host
      BY Zenon, <2>1 DEF SweepAsks, Moves
    <3> QED
      BY Zenon, <2>0, <3>1, <3>2, <3>3
  <2>2. CASE Sweeps(p)
    BY Zenon, <2>0, <2>2 DEF Sweeps, Moves
  <2>3. CASE Runs(p)
    BY Zenon, <2>0, <2>3 DEF Runs, Moves
  <2>4. CASE Returns(p)
    BY Zenon, <2>0, <2>4 DEF Returns, Moves
  <2>5. CASE ~(SweepAsks(p) \/ Sweeps(p) \/ Runs(p) \/ Returns(p))
    <3>1. /\ \E s \in Stages \ {"ran", "done"} : stage' = [stage EXCEPT ![p] = s]
          /\ host' \in {host, host \ {p}}
          /\ stale' \in {stale, [stale EXCEPT ![p] = {}]}
      BY Zenon, <1>2, <2>5 DEF CreateActs, Admit, TakeLock, GoAhead, MarkReads, MarkWrites, Fails, UnmarkReads,
         UnmarkWrites, HoldSets, HoldDrops, HoldsNot, AttestationFails, CutOff, RecoverWrites, Moves, Ends,
         Stages, Building
    <3> QED
      BY ZenonT(60), <2>0, <3>1
  <2> QED
    BY Zenon, <2>1, <2>2, <2>3, <2>4, <2>5
<1>3. CASE ProbeActs
  <2>0. UNCHANGED <<rental, stage>>
    BY Zenon, <1>3, ProbeStepMoves DEF books, renters
  <2>1. CASE ProbeSweepAsks
    <3>1. PICK S \in Sweepable(Probe) : stale' = [stale EXCEPT ![Probe] = S]
      BY Zenon, <2>1 DEF ProbeSweepAsks
    <3>2. \A q \in Pod : q \in S => rental[q] = "closed"
      BY Zenon, <3>1 DEF Sweepable, Confirmed
    <3>3. UNCHANGED host
      BY Zenon, <2>1 DEF ProbeSweepAsks
    <3> QED
      BY Zenon, <2>0, <3>1, <3>2, <3>3
  <2>2. CASE ProbeSweeps
    BY Zenon, <2>0, <2>2 DEF ProbeSweeps
  <2>3. CASE ~(ProbeSweepAsks \/ ProbeSweeps)
    <3>1. /\ host' \in {host, host \cup {Probe}, host \ {Probe}}
          /\ stale' \in {stale, [stale EXCEPT ![Probe] = {}]}
      BY Zenon, <1>3, <2>3 DEF ProbeActs, ProbeLocks, ProbeAsks, ProbeLooks, ProbeStandsDown, ProbeMarkReads,
         ProbeMarkWrites, ProbeRuns, ProbeCreateCut, ProbeCreateFails, ProbeFailReads, ProbeFailWrites,
         ProbeHoldSets, ProbeHoldDrops, ProbeHoldsNot, ProbeCreated, ProbeSteps, ProbeSettles,
         ProbeUnmarkReads, ProbeUnmarkWrites, ProbePasses, ProbeClears, ProbeAsksAgain, ProbeSpares,
         ProbeBlames, ProbeStamps, IntervalEnds, ValidatorRestarts
    <3> QED
      BY Zenon, <2>0, <3>1
  <2> QED
    BY Zenon, <2>1, <2>2, <2>3
<1>4. CASE Lapses \/ (\E i \in Id : MarkAges(i)) \/ UNCHANGED vars
  <2>1. UNCHANGED <<rental, stage, stale, host>>
    BY Zenon, <1>4 DEF Lapses, MarkAges, vars, books, renters
  <2> QED
    BY Zenon, <2>1
<1> HIDE DEF Stands
<1> QED
  BY Zenon, <1>1, <1>2, <1>3, <1>4 DEF Next

\* A pod whose create was answered with success and whose rental is open has its container,
\* whatever other creates, the probe and their sweeps do.
THEOREM RentedPodsStand == Spec => []RentedPodStands
<1>1. Init => Stands
  BY Zenon, SharingAssumption DEF Init, Stands, Id
<1>2. Stands => RentedPodStands
  BY Zenon DEF Stands, RentedPodStands
<1> QED
  BY <1>1, <1>2, StepStands, TypeCorrect, PTL DEF Spec

------------------------------------------------------------------------------
(* The probe keeps off. *)

\* Every step keeps the lock with its holders and their marks, or knows the mark lost.
LEMMA StepKept == TypeOK /\ Kept /\ ProbeKeepsOff /\ [Next]_vars => Kept' /\ ProbeKeepsOff'
<1> SUFFICES ASSUME TypeOK, Kept, ProbeKeepsOff, [Next]_vars PROVE Kept' /\ ProbeKeepsOff'
  BY Zenon
<1>t. /\ Probe \notin Pod /\ NoOne \notin Pod /\ NoOne # Probe
      /\ rental \in [Pod -> {"none", "open", "closed"}] /\ stage \in [Pod -> Stages]
      /\ finish \in [Pod -> {"none", "sent", "read", "done"}] /\ held \subseteq Pod
  BY Zenon, SharingAssumption DEF TypeOK
<1>w. ASSUME NEW new, NEW own, Write(new, own)
      PROVE  /\ lost \subseteq lost'
             /\ \A p \in Pod \ {own} : InProgress(p) => InProgress(p)' \/ p \in lost'
  BY Zenon, <1>w DEF Write, InProgress, Id
<1>x. ASSUME NEW new, NEW own, own \notin Pod, Write(new, own)
      PROVE  /\ lost \subseteq lost'
             /\ \A p \in Pod : InProgress(p) => InProgress(p)' \/ p \in lost'
  BY Zenon, <1>w, <1>x
<1>u. ASSUME UNCHANGED list
      PROVE  lost' = lost /\ \A p \in Pod : InProgress(p)' <=> InProgress(p)
  BY Zenon, <1>u DEF list, InProgress
<1> USE <1>t DEF Kept, ProbeKeepsOff, Final, Unmarked, Building
<1>1. ASSUME NEW p \in Pod, BackendActs(p) PROVE Kept' /\ ProbeKeepsOff'
  <2>0. UNCHANGED <<held, lock, probe>> /\ (UNCHANGED list \/ FinishWrites(p))
    BY Zenon, <1>1, BackendMoves DEF prober
  <2>1. CASE Rents(p)
    BY ZenonT(60), <1>u, <2>0, <2>1 DEF Rents
  <2>2. CASE Lists(p)
    BY ZenonT(60), <1>u, <2>0, <2>2 DEF Lists, renters
  <2>3. CASE Closes(p)
    BY ZenonT(60), <1>u, <2>0, <2>3 DEF Closes, renters
  <2>4. CASE FinishReads(p)
    BY ZenonT(60), <1>u, <2>0, <2>4 DEF FinishReads, renters
  <2>5. CASE FinishWrites(p)
    BY <1>w, <2>0, <2>5 DEF FinishWrites, renters
  <2>6. CASE Deletes(p)
    BY Zenon, <1>u, <2>0, <2>6 DEF Deletes, books, renters
  <2> QED
    BY Zenon, <1>1, <2>1, <2>2, <2>3, <2>4, <2>5, <2>6 DEF BackendActs
<1>2. ASSUME NEW p \in Pod, CreateActs(p) PROVE Kept' /\ ProbeKeepsOff'
  <2>0. UNCHANGED <<rental, finish, probe>> /\ stage[p] \notin {"idle"} \cup Final
    BY Zenon, <1>2, CreateMoves DEF books, prober
  <2>1. CASE TakeLock(p)
    BY <1>u, <2>0, <2>1 DEF TakeLock, Moves, Holding, Creating
  <2>2. CASE MarkWrites(p)
    <3>1. InProgress(p)'
      BY <2>2 DEF MarkWrites, Write, Added, InProgress, TypeOK, Id
    <3> QED
      BY <1>w, <2>0, <2>2, <3>1 DEF MarkWrites, Moves
  <2>3. CASE UnmarkWrites(p)
    BY <1>w, <2>0, <2>3 DEF UnmarkWrites, Moves
  <2>4. CASE RecoverWrites(p)
    BY <1>w, <2>0, <2>4 DEF RecoverWrites, Moves, Ends, Released
  <2>5. CASE Returns(p) \/ HoldDrops(p) \/ HoldsNot(p) \/ AttestationFails(p)
    <3>1. /\ UNCHANGED list /\ held' = held \ {p} /\ lock' = Released(p)
          /\ \E s \in Final : stage' = [stage EXCEPT ![p] = s]
      BY Zenon, <2>5 DEF Returns, HoldDrops, HoldsNot, AttestationFails, Ends, Moves
    <3> QED
      BY <1>u, <2>0, <3>1 DEF Released
  <2>6. CASE CutOff(p)
    BY ZenonT(60), <1>u, <2>0, <2>6 DEF CutOff, Moves
  <2>7. CASE ~(\/ TakeLock(p) \/ MarkWrites(p) \/ UnmarkWrites(p) \/ RecoverWrites(p) \/ Returns(p)
               \/ HoldDrops(p) \/ HoldsNot(p) \/ AttestationFails(p) \/ CutOff(p))
    <3>1. UNCHANGED <<list, held, lock>>
      BY Zenon, <1>2, <2>7 DEF CreateActs, Admit, GoAhead, MarkReads, SweepAsks, Sweeps, Runs, Fails,
         UnmarkReads, HoldSets, renters
    <3>2. \/ stage[p] \in {"sent", "waiting", "cut"} /\ \E s \in Stages \ {"idle"} : stage' = [stage EXCEPT ![p] = s]
          \/ stage[p] = "start" /\ stage' = [stage EXCEPT ![p] = "adding"]
          \/ /\ stage[p] \in Building \ Unmarked
             /\ \E s \in Building \ Unmarked : stage' = [stage EXCEPT ![p] = s]
          \/ \E s \in {"failing", "clearing", "holding"} : stage' = [stage EXCEPT ![p] = s]
      BY Zenon, <1>2, <2>7 DEF CreateActs, Admit, GoAhead, MarkReads, SweepAsks, Sweeps, Runs, Fails,
         UnmarkReads, HoldSets, Moves, Stages
    <3> QED
      BY <1>u, <2>0, <3>1, <3>2
  <2> QED
    BY Zenon, <2>1, <2>2, <2>3, <2>4, <2>5, <2>6, <2>7
<1>3. CASE ProbeActs
  <2>0. UNCHANGED <<rental, finish, stage, held>>
    BY Zenon, <1>3, ProbeStepMoves DEF books, renters
  <2>1. CASE ProbeLocks
    BY <1>u, <2>0, <2>1 DEF ProbeLocks, ProbeMoves, Holding, Creating
  <2>2. CASE ProbeLooks
    BY <1>u, <2>0, <2>2 DEF ProbeLooks, ProbeMoves, Holding, Creating, NodeInProgress, Id
  <2>3. CASE ~(ProbeLocks \/ ProbeLooks)
    <3>1. lost \subseteq lost' /\ \A p \in Pod : InProgress(p) => InProgress(p)' \/ p \in lost'
      BY Zenon, <1>3, <1>t, <1>u, <1>x, ProbeStepMoves
    <3>2. \/ /\ UNCHANGED lock
             /\ probe' \in Holding \cup {"locked", "asked"} => probe \in Holding \cup {"locked", "asked"}
          \/ lock' = Released(Probe) /\ probe' \notin Holding \cup {"locked", "asked"}
      BY Zenon, <1>3, <2>3 DEF ProbeActs, ProbeAsks, ProbeStandsDown, ProbeMarkReads,
         ProbeMarkWrites, ProbeSweepAsks, ProbeSweeps, ProbeRuns, ProbeCreateCut, ProbeCreateFails,
         ProbeFailReads, ProbeFailWrites, ProbeHoldSets, ProbeHoldDrops, ProbeHoldsNot, ProbeCreated,
         ProbeSteps, ProbeSettles, ProbeUnmarkReads, ProbeUnmarkWrites, ProbePasses, ProbeClears,
         ProbeAsksAgain, ProbeSpares, ProbeBlames, ProbeStamps, IntervalEnds, ValidatorRestarts,
         ProbeMoves, ProbeEnds, Holding, Creating, prober
    <3>3. probe' \in Creating => probe \in Creating
      BY Zenon, <1>3, <2>3 DEF ProbeActs, ProbeAsks, ProbeStandsDown, ProbeMarkReads,
         ProbeMarkWrites, ProbeSweepAsks, ProbeSweeps, ProbeRuns, ProbeCreateCut, ProbeCreateFails,
         ProbeFailReads, ProbeFailWrites, ProbeHoldSets, ProbeHoldDrops, ProbeHoldsNot, ProbeCreated,
         ProbeSteps, ProbeSettles, ProbeUnmarkReads, ProbeUnmarkWrites, ProbePasses, ProbeClears,
         ProbeAsksAgain, ProbeSpares, ProbeBlames, ProbeStamps, IntervalEnds, ValidatorRestarts,
         ProbeMoves, ProbeEnds, Creating, prober
    <3> QED
      BY <2>0, <3>1, <3>2, <3>3 DEF Released
  <2> QED
    BY Zenon, <2>1, <2>2, <2>3
<1>4. CASE Lapses
  BY <1>u, <1>4 DEF Lapses, books, renters, prober
<1>5. ASSUME NEW i \in Id, MarkAges(i) PROVE Kept' /\ ProbeKeepsOff'
  <2>1. lost \subseteq lost' /\ \A p \in Pod : InProgress(p) => InProgress(p)' \/ p \in lost'
    BY Zenon, <1>5, <1>t, <1>x DEF MarkAges
  <2>2. UNCHANGED <<rental, finish, stage, held, lock, probe>>
    BY Zenon, <1>5 DEF MarkAges, books, renters, prober
  <2> QED
    BY Zenon, <2>1, <2>2
<1>6. CASE UNCHANGED vars
  <2>1. UNCHANGED <<rental, finish, stage, held, lock, probe, list>>
    BY Zenon, <1>6 DEF vars, list
  <2> QED
    BY Zenon, <1>u, <2>1
<1> HIDE DEF Kept, ProbeKeepsOff
<1> QED
  BY Zenon, <1>1, <1>2, <1>3, <1>4, <1>5, <1>6 DEF Next

\* Every reachable state has it.
LEMMA KeptHolds == Spec => [](Kept /\ ProbeKeepsOff)
<1>1. Init => Kept /\ ProbeKeepsOff
  BY Zenon DEF Init, Kept, ProbeKeepsOff, Holding, Creating
<1> QED
  BY <1>1, StepKept, TypeCorrect, PTL DEF Spec

\* The probe's create runs beside a renter's create that took the lock only if that one's mark
\* was lost: first the lock keeps it off, then the mark (_idle_under_lock).
THEOREM ProbesKeepOff == Spec => []ProbeKeepsOff
BY KeptHolds, PTL

------------------------------------------------------------------------------
(* The two stamps. *)

\* Every step that leaves both stamps is one of a writer that takes one back, or is torn.
LEMMA StepStamped == TypeOK /\ Kept /\ Stamped /\ [Next]_vars => Stamped'
<1> SUFFICES ASSUME TypeOK, Kept, Stamped, [Next]_vars PROVE Stamped'
  BY Zenon
<1>t. stage \in [Pod -> Stages] /\ {passed, standing, torn} \subseteq {"no", "yes"}
  BY Zenon DEF TypeOK
<1> USE <1>t DEF Stamped
<1>1. ASSUME NEW p \in Pod, CreateActs(p) PROVE Stamped'
  <2>0. UNCHANGED probe
    BY Zenon, <1>1, CreateMoves DEF prober
  <2>1. CASE HoldSets(p)
    BY Zenon, <2>0, <2>1 DEF HoldSets, Moves
  <2>2. CASE HoldDrops(p)
    BY Zenon, <2>0, <2>2 DEF HoldDrops
  <2>3. CASE CutOff(p)
    BY Zenon, <2>0, <2>3 DEF CutOff, Moves
  <2>4. CASE ~(HoldSets(p) \/ HoldDrops(p) \/ CutOff(p))
    <3>1. UNCHANGED stamps /\ stage[p] # "holding" /\ \E s : stage' = [stage EXCEPT ![p] = s]
      BY Zenon, <1>1, <2>4 DEF CreateActs, Admit, TakeLock, GoAhead, MarkReads, MarkWrites, SweepAsks, Sweeps,
         Runs, Returns, Fails, UnmarkReads, UnmarkWrites, HoldsNot, AttestationFails, RecoverWrites,
         Moves, Ends, Building
    <3> QED
      BY Zenon, <2>0, <3>1 DEF stamps
  <2> QED
    BY Zenon, <2>1, <2>2, <2>3, <2>4
<1>2. CASE ProbeActs
  <2>0. UNCHANGED stage
    BY Zenon, <1>2, ProbeStepMoves DEF renters
  <2>1. CASE ProbeLocks
    BY Zenon, <2>0, <2>1 DEF ProbeLocks, stamps
  <2>2. CASE ProbeHoldSets \/ ProbeHoldDrops \/ ProbeCreateCut
    <3>1. /\ probe \notin {"idle", "passing"} /\ probe' \in {"dropping", "settling"}
          /\ passed' \in {passed, "no"} /\ torn' \in {torn, "yes"}
      BY Zenon, <2>2 DEF ProbeHoldSets, ProbeHoldDrops, ProbeCreateCut, ProbeMoves, Holding, Creating
    <3> QED
      BY Zenon, <2>0, <3>1
  <2>3. CASE ProbePasses
    BY Zenon, <2>0, <2>3 DEF ProbePasses, ProbeMoves
  <2>4. CASE ProbeClears
    BY Zenon, <2>0, <2>4 DEF ProbeClears, ProbeEnds
  <2>5. CASE ProbeBlames
    BY Zenon, <2>0, <2>5 DEF ProbeBlames, ProbeMoves
  <2>6. CASE ProbeStamps
    BY Zenon, <2>0, <2>6 DEF ProbeStamps, ProbeEnds
  <2>7. CASE IntervalEnds
    BY Zenon, <2>0, <2>7 DEF IntervalEnds, prober
  <2>8. CASE ValidatorRestarts
    BY Zenon, <2>0, <2>8 DEF ValidatorRestarts, ProbeEnds
  <2>9. CASE ~(\/ ProbeLocks \/ ProbeHoldSets \/ ProbeHoldDrops \/ ProbeCreateCut \/ ProbePasses \/ ProbeClears
               \/ ProbeBlames \/ ProbeStamps \/ IntervalEnds \/ ValidatorRestarts)
    <3>1. UNCHANGED stamps /\ probe \notin {"idle", "passing"}
      BY Zenon, <1>2, <2>9 DEF ProbeActs, ProbeAsks, ProbeLooks, ProbeStandsDown, ProbeMarkReads,
         ProbeMarkWrites, ProbeSweepAsks, ProbeSweeps, ProbeRuns, ProbeCreateFails, ProbeFailReads,
         ProbeFailWrites, ProbeHoldsNot, ProbeCreated, ProbeSteps, ProbeSettles, ProbeUnmarkReads,
         ProbeUnmarkWrites, ProbeAsksAgain, ProbeSpares, Creating
    <3> QED
      BY Zenon, <2>0, <3>1 DEF stamps
  <2> QED
    BY Zenon, <2>1, <2>2, <2>3, <2>4, <2>5, <2>6, <2>7, <2>8, <2>9
<1>3. ASSUME NEW p \in Pod, BackendActs(p) PROVE Stamped'
  <2>1. UNCHANGED <<probe, stamps>> /\ (UNCHANGED stage \/ Rents(p))
    BY Zenon, <1>3, BackendMoves DEF prober
  <2>2. Rents(p) => stage[p] = "idle" /\ stage' = [stage EXCEPT ![p] = "sent"]
    BY Zenon DEF Kept, Rents
  <2> QED
    BY Zenon, <2>1, <2>2 DEF stamps
<1>4. CASE Lapses \/ (\E i \in Id : MarkAges(i)) \/ UNCHANGED vars
  <2>1. UNCHANGED <<probe, stamps, stage>>
    BY Zenon, <1>4 DEF Lapses, MarkAges, vars, prober, stamps, renters
  <2> QED
    BY Zenon, <2>1 DEF stamps
<1> HIDE DEF Stamped
<1> QED
  BY Zenon, <1>1, <1>2, <1>3, <1>4 DEF Next

\* In whatever order a probe's verdict and failed creates write the two stamps, a failure that
\* stands is not shielded by a recent pass once they are done (hold_node_until_probe_passes).
THEOREM FailuresShow == Spec => []FailureNotShielded
<1>1. Init => Stamped
  BY Zenon DEF Init, Stamped
<1>2. Stamped => FailureNotShielded
  BY Zenon DEF Stamped, FailureNotShielded
<1> QED
  BY <1>1, <1>2, StepStamped, TypeCorrect, KeptHolds, PTL DEF Spec

------------------------------------------------------------------------------
(* The probe leaves nothing. *)

\* Only a run of the probe's create brings its container, and only a failed teardown or a restart
\* gets past the settling with it.
LEMMA StepCleans == TypeOK /\ ProbeCleansUp /\ [Next]_vars => ProbeCleansUp'
<1> SUFFICES ASSUME TypeOK, ProbeCleansUp, [Next]_vars, faults' = 0, probe' \notin Started
             PROVE  Probe \notin host'
  BY Zenon DEF ProbeCleansUp
<1>t. Probe \notin Pod /\ faults \in 0..MaxFaults
  BY Zenon, SharingAssumption DEF TypeOK
<1>0. ~Fault
  BY <1>t DEF Fault
<1>1. UNCHANGED faults
  BY Zenon, <1>0, BackendMoves, CreateMoves, ProbeStepMoves DEF Next, Lapses, MarkAges, vars
<1>2. probe \notin Started => Probe \notin host
  BY Zenon, <1>1 DEF ProbeCleansUp
<1>3. ASSUME NEW p \in Pod, BackendActs(p) PROVE Probe \notin host'
  BY Zenon, <1>2, <1>3, BackendMoves DEF prober, Deletes
<1>4. ASSUME NEW p \in Pod, CreateActs(p) PROVE Probe \notin host'
  <2>1. UNCHANGED probe /\ host' \in {host, host \cup {p}, host \ {p}, host \ stale[p]}
    BY Zenon, <1>4, CreateMoves DEF prober
  <2>2. Probe \notin host /\ Probe # p
    BY Zenon, <1>t, <1>2, <2>1
  <2> QED
    BY Zenon, <2>1, <2>2
<1>5. CASE ProbeActs
  <2>1. CASE ProbeSettles
    BY Zenon, <1>0, <2>1 DEF ProbeSettles
  <2>2. CASE ~ProbeSettles
    <3>1. probe \notin Started /\ host' \in {host, host \ stale[Probe]}
      BY Zenon, <1>0, <1>5, <2>2 DEF ProbeActs, ProbeLocks, ProbeAsks, ProbeLooks, ProbeStandsDown,
         ProbeMarkReads, ProbeMarkWrites, ProbeSweepAsks, ProbeSweeps, ProbeRuns, ProbeCreateCut,
         ProbeCreateFails, ProbeFailReads, ProbeFailWrites, ProbeHoldSets, ProbeHoldDrops, ProbeHoldsNot,
         ProbeCreated, ProbeSteps, ProbeUnmarkReads, ProbeUnmarkWrites, ProbePasses, ProbeClears,
         ProbeAsksAgain, ProbeSpares, ProbeBlames, ProbeStamps, IntervalEnds, ValidatorRestarts,
         ProbeMoves, ProbeEnds, prober, Started
    <3> QED
      BY Zenon, <1>2, <3>1
  <2> QED
    BY Zenon, <2>1, <2>2
<1>6. CASE Lapses \/ (\E i \in Id : MarkAges(i)) \/ UNCHANGED vars
  BY Zenon, <1>2, <1>6 DEF Lapses, MarkAges, vars, prober
<1> QED
  BY Zenon, <1>3, <1>4, <1>5, <1>6 DEF Next

\* Without a failed call or a restart the probe's container is gone when its run is over (_settle).
THEOREM ProbesCleanUp == Spec => []ProbeCleansUp
<1>1. Init => ProbeCleansUp
  BY Zenon DEF Init, ProbeCleansUp
<1> QED
  BY <1>1, StepCleans, TypeCorrect, PTL DEF Spec
==============================================================================
