------------------------- MODULE InflightCreatesProofs -------------------------
(***************************************************************************)
(* Proofs about InflightCreates, for every set of pods and jobs, every     *)
(* MaxResumes and every number of faults and restarts: the registry        *)
(* forgets deleted pods, a delete reaches the creates sent before it, the  *)
(* backend waits for nothing that was lost, a create is resumed no more    *)
(* often than allowed, and a create that runs has its record.              *)
(***************************************************************************)
EXTENDS InflightCreates, TLAPS

Live == {"claim"} \cup Tracked \cup Deleting

\* A job's place in the code fits what it is.
KindFits ==
    \A j \in Job : /\ pc[j] \in Tracked => kind[j] = "create"
                   /\ pc[j] \in Deleting => kind[j] = "delete"

\* No job runs while a sweep runs or its report is still to be sent.
AloneAtStart ==
    /\ phase = "sweep" \/ report = "ready" => \A j \in Job : pc[j] \notin Live
    /\ report = "ready" => phase = "offline"
    /\ phase = "sweep" => settling = {} /\ todo \subseteq recorded

\* Jobs are numbered as they are sent.
Numbered ==
    /\ \A j \in Job : pc[j] = "idle" <=> sentAt[j] = 0
    /\ \A d \in gone : kind[d] = "delete" /\ sentAt[d] > 0 /\ pc[d] \in Ended

\* A delete that began found every command sent before it begun or ended.
BegunInOrder ==
    \A d, j \in Job :
        (pc[d] \in Deleting \/ d \in gone) /\ sentAt[j] < sentAt[d] => pc[j] # "claim"

\* A delete that flagged the creates sent before it left none of them running unflagged.
FlaggedOrEnded ==
    \A d, j \in Job :
        /\ pc[d] = "wait" \/ d \in gone
        /\ kind[j] = "create" /\ pod[j] = pod[d] /\ 0 < sentAt[j] /\ sentAt[j] < sentAt[d]
        => pc[j] \in Ended \/ (pc[j] \in Tracked /\ pod[j] \in cancelled)

DeleteInv == TypeOK /\ KindFits /\ AloneAtStart /\ Numbered /\ BegunInOrder /\ FlaggedOrEnded

-----------------------------------------------------------------------------
(* What a step touches                                                     *)

\* A command arrives: one idle job becomes a claim.
LEMMA BackendMoves ==
    ASSUME NEW j \in Job, BackendStep(j)
    PROVE  /\ UNCHANGED <<recorded, resumes, old, rented, queue, settling, report, phase, todo, listing,
                          gone, raised, aborts, faults, restarts, carry, deleted, count, cancelled, kind, pod>>
           /\ phase = "online" /\ pc[j] = "idle" /\ pc' = [pc EXCEPT ![j] = "claim"]
           /\ sends' = sends + 1 /\ sentAt' = [sentAt EXCEPT ![j] = sends + 1]
  BY ZenonT(60) DEF BackendStep, Rent, Remove, Resend, Arrive, Goto, redis, link, history

\* A create moves alone; it writes the record of its own pod and queues only its own answer.
LEMMA CreateMoves ==
    ASSUME NEW j \in Job, CreateStep(j)
    PROVE  /\ UNCHANGED <<kind, pod, sends, sentAt, want, current, due, resends,
                          settling, report, phase, todo, listing, gone, aborts, restarts>>
           /\ raised' \in {raised, raised \cup {pod[j]}} /\ faults' \in {faults, faults + 1}
           /\ pc[j] \in {"claim"} \cup Tracked /\ (pc[j] = "claim" => kind[j] = "create")
           /\ \E l \in Tracked \cup {"done"} : pc' = [pc EXCEPT ![j] = l]
           /\ \/ UNCHANGED <<carry, count>>
              \/ carry' = [carry EXCEPT ![j] = count[pod[j]]] /\ count' = [count EXCEPT ![pod[j]] = 0]
           /\ deleted' \in {deleted, deleted \ {pod[j]}} /\ cancelled' \in {cancelled, cancelled \ {pod[j]}}
           /\ rented' \in {rented, rented \cup {pod[j]}} /\ old' \in {old, old \ {pod[j]}}
           /\ \/ recorded' \in {recorded, recorded \ {pod[j]}} /\ UNCHANGED resumes
              \/ /\ WriteRecord(j) /\ recorded' = recorded \cup {pod[j]}
                 /\ resumes' = [resumes EXCEPT ![pod[j]] = carry[j]]
           /\ UNCHANGED queue \/ ReplyCreate(j)
<1> USE DEF redis, link, backend, history, Fault, Goto, Tracked
<1>1. CASE BeginCreate(j)
  BY ZenonT(60), <1>1 DEF BeginCreate
<1>2. CASE WriteRecord(j)
  BY ZenonT(60), <1>2 DEF WriteRecord
<1>3. CASE CacheRented(j) \/ ReplyCreate(j) \/ RaiseCreate(j)
  BY ZenonT(60), <1>3 DEF CacheRented, ReplyCreate, RaiseCreate
<1>4. CASE UntrackCreate(j) \/ LeaveCreate(j)
  BY ZenonT(60), <1>4 DEF UntrackCreate, LeaveCreate
<1> QED
  BY Zenon, <1>1, <1>2, <1>3, <1>4 DEF CreateStep

\* A delete moves alone; it removes the record of its own pod and queues only its own answer.
LEMMA DeleteMoves ==
    ASSUME NEW j \in Job, DeleteStep(j)
    PROVE  /\ UNCHANGED <<kind, pod, sends, sentAt, want, current, due, resends,
                          settling, report, phase, todo, listing, raised, aborts, restarts>>
           /\ UNCHANGED <<carry, count, resumes>>
           /\ gone' \in {gone, gone \cup {j}} /\ faults' \in {faults, faults + 1}
           /\ pc[j] \in {"claim"} \cup Deleting /\ (pc[j] = "claim" => kind[j] = "delete")
           /\ \E l \in Deleting \cup {"done"} : pc' = [pc EXCEPT ![j] = l]
           /\ deleted' \in {deleted, deleted \cup {pod[j]}} /\ cancelled' \in {cancelled, cancelled \cup {pod[j]}}
           /\ rented' \in {rented, rented \ {pod[j]}} /\ old' \in {old, old \ {pod[j]}}
           /\ recorded' \in {recorded, recorded \ {pod[j]}}
           /\ UNCHANGED queue \/ FinishDelete(j)
  BY ZenonT(60) DEF DeleteStep, BeginDelete, UntrackDeleted, CancelCreate, FinishDelete, FailDelete,
     redis, link, backend, history, Fault, Goto, Deleting

\* What the two kinds of job have in common.
LEMMA JobMoves ==
    ASSUME NEW j \in Job, CreateStep(j) \/ DeleteStep(j)
    PROVE  /\ UNCHANGED <<kind, pod, sends, sentAt, want, current, due, resends,
                          settling, report, phase, todo, listing, aborts>>
           /\ raised \subseteq raised' /\ faults' \in {faults, faults + 1}
           /\ \E l : pc' = [pc EXCEPT ![j] = l]
           /\ UNCHANGED queue \/ ReplyCreate(j) \/ FinishDelete(j)
           /\ UNCHANGED recorded \/ WriteRecord(j) \/ recorded' = recorded \ {pod[j]}
  BY ZenonT(60), CreateMoves, DeleteMoves

\* The sweep handles one record, or ends, or raises.
LEMMA SweepMoves ==
    ASSUME Sweep
    PROVE  /\ UNCHANGED <<kind, pod, sends, sentAt, want, current, due, resends,
                          pc, carry, deleted, cancelled, rented, settling, gone, raised, restarts>>
           /\ phase = "sweep" /\ faults' \in {faults, faults + 1}
           /\ \/ \E p \in Pod :
                    /\ p \in todo /\ todo' = todo \ {p} /\ UNCHANGED <<phase, report, aborts>>
                    /\ listing' \in {listing, listing \cup {p}}
                    /\ recorded' \in {recorded, recorded \ {p}} /\ old' \in {old, old \ {p}}
                    /\ UNCHANGED <<resumes, count>> \/ SweepResume(p)
                    /\ UNCHANGED queue \/ SweepFail(p)
              \/ /\ UNCHANGED <<recorded, old, resumes, count, queue, listing>> /\ phase' = "offline"
                 /\ \/ UNCHANGED <<todo, aborts, faults>> /\ todo = {} /\ report' = "ready"
                    \/ SweepAborts /\ todo' = {} /\ UNCHANGED report /\ aborts' = aborts + 1
<1> USE DEF redis, registry, backend, history, Fault
<1>1. ASSUME NEW p \in Pod, SweepDrop(p) \/ SweepResume(p) \/ SweepFail(p)
      PROVE  /\ UNCHANGED <<kind, pod, sends, sentAt, want, current, due, resends,
                          pc, carry, deleted, cancelled, rented, settling, gone, raised, restarts>>
             /\ phase = "sweep" /\ faults' \in {faults, faults + 1}
             /\ p \in todo /\ todo' = todo \ {p} /\ UNCHANGED <<phase, report, aborts>>
             /\ listing' \in {listing, listing \cup {p}}
             /\ recorded' \in {recorded, recorded \ {p}} /\ old' \in {old, old \ {p}}
             /\ UNCHANGED <<resumes, count>> \/ SweepResume(p)
             /\ UNCHANGED queue \/ SweepFail(p)
  BY ZenonT(60), <1>1 DEF SweepDrop, SweepResume, SweepFail
<1>2. ASSUME SweepEnds \/ SweepAborts
      PROVE  /\ UNCHANGED <<kind, pod, sends, sentAt, want, current, due, resends,
                          pc, carry, deleted, cancelled, rented, settling, gone, raised, restarts>>
             /\ phase = "sweep" /\ faults' \in {faults, faults + 1}
             /\ UNCHANGED <<recorded, old, resumes, count, queue, listing>> /\ phase' = "offline"
             /\ \/ UNCHANGED <<todo, aborts, faults>> /\ todo = {} /\ report' = "ready"
                \/ SweepAborts /\ todo' = {} /\ UNCHANGED report /\ aborts' = aborts + 1
  BY ZenonT(60), <1>2 DEF SweepEnds, SweepAborts
<1> QED
  BY ZenonT(60), <1>1, <1>2 DEF Sweep

\* A step of the socket, of the send loop or of the clock, or none.
LinkStep == \/ Connect \/ Disconnect \/ SendMessage \/ UntrackReported
            \/ (\E p \in Pod : Ages(p)) \/ UNCHANGED vars

\* The link moves no job.
LEMMA LinkMoves ==
    ASSUME LinkStep
    PROVE  /\ UNCHANGED <<resumes, rented, pc, carry, deleted, count, cancelled, todo, listing, kind, pod,
                          sends, sentAt, current, resends, gone, raised, aborts, restarts>>
           /\ faults' \in {faults, faults + 1} /\ recorded' \in {recorded, recorded \ settling}
           /\ old' \in {old, old \ settling} \/ \E p \in Pod : old' = old \cup {p}
           /\ UNCHANGED queue \/ SendMessage
           /\ settling' \in {settling, {}} \/ SendMessage
           /\ \/ UNCHANGED <<phase, report>>
              \/ phase = "online" /\ phase' = "offline" /\ UNCHANGED report
              \/ phase = "offline" /\ phase' = "online" /\ report' = "none"
           /\ UNCHANGED due \/ Connect
           /\ UNCHANGED want \/ Connect \/ SendMessage
<1> USE DEF redis, registry, link, backend, history, Fault
<1>1. CASE Connect \/ Disconnect
  BY ZenonT(60), <1>1 DEF Connect, Disconnect
<1>2. CASE SendMessage
  BY ZenonT(60), <1>2 DEF SendMessage
<1>3. CASE UntrackReported
  BY ZenonT(60), <1>3 DEF UntrackReported
<1>4. CASE (\E p \in Pod : Ages(p)) \/ UNCHANGED vars
  BY ZenonT(60), <1>4 DEF Ages, vars
<1> QED
  BY Zenon, <1>1, <1>2, <1>3, <1>4 DEF LinkStep

\* A socket that closes and a record that ages touch little else.
LEMMA IdleMoves ==
    ASSUME Disconnect \/ (\E p \in Pod : Ages(p)) \/ UNCHANGED vars
    PROVE  /\ UNCHANGED <<kind, pod, want, current, due, pc, deleted, recorded, queue, settling, report,
                          todo, listing, raised, aborts>>
           /\ phase' = phase \/ (phase = "online" /\ phase' = "offline")
  BY ZenonT(60) DEF Disconnect, Ages, redis, registry, link, backend, history, vars

\* A connector dies: its jobs end, its memory goes, and what Redis holds is to be swept.
LEMMA RestartMoves ==
    ASSUME Restart
    PROVE  /\ UNCHANGED <<kind, pod, sends, sentAt, want, current, due, resends,
                          recorded, resumes, old, rented, carry, gone, raised, aborts, faults>>
           /\ restarts' = restarts + 1 /\ count' = [p \in Pod |-> 0]
           /\ pc' = [j \in Job |-> IF pc[j] = "idle" \/ pc[j] \in Ended THEN pc[j] ELSE "dead"]
           /\ deleted' = {} /\ cancelled' = {} /\ queue' = <<>> /\ settling' = {}
           /\ report' = "none" /\ phase' = "sweep" /\ todo' = recorded /\ listing' = {}
  BY Zenon DEF Restart, redis, backend

\* Which steps there are.
LEMMA Steps ==
    ASSUME [Next]_vars
    PROVE  \/ \E j \in Job : BackendStep(j) \/ CreateStep(j) \/ DeleteStep(j)
           \/ Sweep \/ LinkStep \/ Restart
  BY Zenon DEF Next, LinkStep

\* The types, variable by variable.
LEMMA TypeFacts ==
    ASSUME TypeOK
    PROVE  /\ recorded \subseteq Pod /\ old \subseteq Pod /\ rented \subseteq Pod
           /\ resumes \in [Pod -> 0..MaxResumes]
           /\ pc \in [Job -> PCs]
           /\ carry \in [Job -> 0..MaxResumes] /\ count \in [Pod -> 0..MaxResumes]
           /\ deleted \subseteq Pod /\ cancelled \subseteq Pod
           /\ queue \in Seq(Message)
           /\ settling \subseteq Pod /\ todo \subseteq Pod /\ listing \subseteq Pod
           /\ report \in {"none", "ready"} /\ phase \in {"sweep", "offline", "online"}
           /\ kind \in [Job -> {"create", "delete"}] /\ pod \in [Job -> Pod]
           /\ sends \in Nat /\ sentAt \in [Job -> 0..sends]
           /\ want \in [Pod -> {"none", "waiting", "up", "failed", "deleted"}]
           /\ current \in [Pod -> Job \cup {NoJob}] /\ due \subseteq Pod /\ resends \in [Pod -> Nat]
           /\ gone \subseteq Job /\ raised \subseteq Pod
           /\ aborts \in Nat /\ faults \in Nat /\ restarts \in Nat
  BY Zenon DEF TypeOK, RedisType, RegistryType, LinkType, BackendType, HistoryType

-----------------------------------------------------------------------------
(* The records of running creates                                          *)

LiveCreates(p) == {j \in Job : kind[j] = "create" /\ pod[j] = p /\ pc[j] \in {"claim"} \cup Tracked}

\* the sweep gave the pod's create up, and its record is still to go
Cut(p) ==
    p \in settling \/ \E i \in 1..Len(queue) : queue[i].type = "cutoff" /\ queue[i].pod = p

\* What the backend is about to send again was listed, not given up.
Listed ==
    /\ phase # "sweep" /\ report # "ready" => due \subseteq listing
    /\ todo \cap listing = {}

OnePerPod == \A p \in Pod : LiveCreates(p) \subseteq {current[p]}

\* Only a pod the backend rented has a create or a record.
Known ==
    \A p \in Pod :
        p \in recorded \cup listing \cup todo \cup due \/ LiveCreates(p) # {} => want[p] # "none"

GivenUp == \A p \in Pod : Cut(p) => p \notin listing \cup todo /\ LiveCreates(p) = {} /\ want[p] # "none"

\* A delete is of a pod the backend deleted.
DeletesKnown ==
    /\ \A j \in Job : kind[j] = "delete" /\ pc[j] \in {"claim"} \cup Deleting => want[pod[j]] = "deleted"
    /\ \A p \in deleted : want[p] = "deleted"

\* Holds while every Redis call succeeds.
RecordInv == Listed /\ OnePerPod /\ Known /\ GivenUp /\ DeletesKnown /\ RunningCreateRecorded

\* Only the sweep gives a create up.
LEMMA CutKeeps ==
    ASSUME TypeOK, NEW p \in Pod
    PROVE  /\ UNCHANGED <<queue, settling>> => Cut(p)' = Cut(p)
           /\ \A m \in Message : m.type # "cutoff" \/ m.pod # p =>
                 (queue' = Append(queue, m) /\ UNCHANGED settling /\ Cut(p)' => Cut(p))
           /\ SendMessage /\ Cut(p)' => Cut(p)
<1>1. queue \in Seq(Message)
  BY Zenon, TypeFacts
<1>2. UNCHANGED <<queue, settling>> => Cut(p)' = Cut(p)
  BY Zenon DEF Cut
<1>3. ASSUME NEW m \in Message, m.type # "cutoff" \/ m.pod # p, queue' = Append(queue, m),
             UNCHANGED settling, Cut(p)'
      PROVE  Cut(p)
  <2>1. Len(queue') = Len(queue) + 1 /\ queue'[Len(queue) + 1] = m /\ Len(queue) \in Nat
    BY <1>1, <1>3
  <2>2. \A i \in 1..Len(queue) : queue'[i] = queue[i]
    BY <1>1, <1>3
  <2> QED
    BY <1>3, <2>1, <2>2 DEF Cut
<1>4. ASSUME SendMessage, Cut(p)' PROVE Cut(p)
  <2>1. Len(queue) \in Nat \ {0} /\ Head(queue) = queue[1]
    BY <1>1, <1>4 DEF SendMessage
  <2>2. Len(queue') = Len(queue) - 1 /\ \A k \in 1..(Len(queue) - 1) : queue'[k] = queue[k + 1]
    BY <1>1, <1>4, <2>1 DEF SendMessage
  <2>3. settling' = IF queue[1].type = "cutoff" THEN {queue[1].pod} ELSE {}
    BY ZenonT(60), <1>4, <2>1 DEF SendMessage
  <2>4. CASE p \in settling'
    BY <2>1, <2>3, <2>4 DEF Cut
  <2>5. CASE p \notin settling'
    <3>1. PICK k \in 1..Len(queue') : queue'[k].type = "cutoff" /\ queue'[k].pod = p
      BY Zenon, <1>4, <2>5 DEF Cut
    <3>2. k + 1 \in 1..Len(queue) /\ queue[k + 1] = queue'[k]
      BY <2>1, <2>2, <3>1
    <3> QED
      BY Zenon, <3>1, <3>2 DEF Cut
  <2> QED
    BY Zenon, <2>4, <2>5
<1> QED
  BY Zenon, <1>2, <1>3, <1>4

\* Nothing is recorded and nothing runs at first.
LEMMA RecordsAtStart == Init => RecordInv
<1> SUFFICES ASSUME Init PROVE RecordInv
  BY Zenon
<1>1. /\ pc = [j \in Job |-> "idle"] /\ recorded = {} /\ listing = {} /\ todo = {} /\ due = {}
      /\ queue = <<>> /\ settling = {} /\ deleted = {}
  BY Zenon DEF Init
<1>2. \A p \in Pod : LiveCreates(p) = {} /\ ~Cut(p)
  BY <1>1 DEF LiveCreates, Cut, Tracked
<1>3. Listed /\ OnePerPod /\ Known /\ GivenUp
  BY Zenon, <1>1, <1>2 DEF Listed, OnePerPod, Known, GivenUp
<1>4. DeletesKnown /\ RunningCreateRecorded
  BY Zenon, <1>1 DEF DeletesKnown, RunningCreateRecorded, Deleting
<1> QED
  BY Zenon, <1>3, <1>4 DEF RecordInv

\* A reported create's record goes only after its job is over.
LEMMA UntrackKeepsRecords ==
    ASSUME TypeOK, RecordInv, UntrackReported, faults = 0, faults' = 0
    PROVE  RecordInv'
<1>t. pc \in [Job -> PCs] /\ pod \in [Job -> Pod]
  BY Zenon, TypeFacts
<1>v. Listed /\ OnePerPod /\ Known /\ GivenUp /\ DeletesKnown /\ RunningCreateRecorded
  BY Zenon DEF RecordInv
<1>1. /\ UNCHANGED <<kind, pod, want, current, due, pc, deleted, queue, report, phase, todo, listing>>
      /\ settling' = {} /\ recorded' \subseteq recorded /\ recorded \ settling \subseteq recorded'
  BY Zenon DEF UntrackReported, registry, backend
<1>2. \A p \in Pod : LiveCreates(p)' = LiveCreates(p) /\ (Cut(p)' => Cut(p))
  BY Zenon, <1>1 DEF LiveCreates, Cut
<1>3. \A p \in settling \cap Pod : LiveCreates(p) = {}
  BY Zenon, <1>v DEF GivenUp, Cut
<1>4. Listed' /\ OnePerPod' /\ Known' /\ GivenUp' /\ DeletesKnown'
  BY Zenon, <1>v, <1>1, <1>2 DEF Listed, OnePerPod, Known, GivenUp, DeletesKnown
<1>5. RunningCreateRecorded'
  <2>1. \A j \in Job : kind[j] = "create" /\ pc[j] \in {"drive", "up"} => pod[j] \notin settling
    BY Zenon, <1>t, <1>3 DEF LiveCreates, Tracked
  <2> QED
    BY Zenon, <1>v, <1>1, <2>1 DEF RunningCreateRecorded
<1> QED
  BY Zenon, <1>4, <1>5 DEF RecordInv

\* A socket that closes and a record that ages leave the records alone.
LEMMA IdleKeepsRecords ==
    ASSUME TypeOK, RecordInv, faults = 0, faults' = 0,
           Disconnect \/ (\E p \in Pod : Ages(p)) \/ UNCHANGED vars
    PROVE  RecordInv'
<1>c. \A p \in Pod : UNCHANGED <<queue, settling>> => Cut(p)' = Cut(p)
  BY Zenon, CutKeeps
<1>v. Listed /\ OnePerPod /\ Known /\ GivenUp /\ DeletesKnown /\ RunningCreateRecorded
  BY Zenon DEF RecordInv
<1>1. /\ UNCHANGED <<kind, pod, want, current, due, pc, deleted, recorded, queue, settling, report, todo, listing>>
      /\ phase' = phase \/ (phase # "sweep" /\ phase' # "sweep")
  BY Zenon, IdleMoves
<1>2. \A p \in Pod : LiveCreates(p)' = LiveCreates(p)
  BY Zenon, <1>1 DEF LiveCreates
<1> QED
  BY Zenon, <1>c, <1>v, <1>1, <1>2 DEF RecordInv, Listed, OnePerPod, Known, GivenUp, DeletesKnown, RunningCreateRecorded

-----------------------------------------------------------------------------

\* Every step keeps the types.
LEMMA StepType == TypeOK /\ [Next]_vars => TypeOK'
<1> SUFFICES ASSUME TypeOK, [Next]_vars PROVE TypeOK'
  BY Zenon
<1> USE InflightAssumption
<1>r. recorded \subseteq Pod /\ old \subseteq Pod /\ rented \subseteq Pod /\ resumes \in [Pod -> 0..MaxResumes]
  BY Zenon, TypeFacts
<1>p. pc \in [Job -> PCs] /\ carry \in [Job -> 0..MaxResumes] /\ count \in [Pod -> 0..MaxResumes]
  BY Zenon, TypeFacts
<1>d. deleted \subseteq Pod /\ cancelled \subseteq Pod /\ pod \in [Job -> Pod]
  BY Zenon, TypeFacts
<1>l. LinkType /\ BackendType
  BY Zenon DEF TypeOK
<1>h. gone \subseteq Job /\ raised \subseteq Pod /\ aborts \in Nat /\ faults \in Nat /\ restarts \in Nat
  BY Zenon, TypeFacts
<1>e. ASSUME NEW type \in {"created", "failed", "cutoff", "deleted"}, NEW p \in Pod,
             NEW j \in Job \cup {NoJob}, Enqueue(type, p, j)
      PROVE  queue' \in Seq(Message)
  BY <1>e, <1>l DEF Enqueue, Message, LinkType
<1>1. ASSUME NEW j \in Job, BackendStep(j) PROVE TypeOK'
  <2>1. RedisType' /\ LinkType' /\ HistoryType'
    BY Zenon, <1>1, BackendMoves DEF TypeOK, RedisType, LinkType, HistoryType
  <2>2. RegistryType'
    BY Zenon, <1>1, <1>p, <1>d, BackendMoves DEF RegistryType, PCs
  <2>3. UNCHANGED <<kind, pod>> /\ sends' = sends + 1 /\ sentAt' = [sentAt EXCEPT ![j] = sends + 1]
    BY Zenon, <1>1, BackendMoves
  <2>4. sends' \in Nat /\ sentAt' \in [Job -> 0..sends']
    BY <1>l, <1>d, <2>3 DEF BackendType
  <2>5. /\ want' \in [Pod -> {"none", "waiting", "up", "failed", "deleted"}]
        /\ current' \in [Pod -> Job \cup {NoJob}] /\ due' \subseteq Pod /\ resends' \in [Pod -> Nat]
    BY <1>1, <1>l DEF BackendStep, Rent, Remove, Resend, BackendType
  <2> QED
    BY Zenon, <1>l, <1>d, <2>1, <2>2, <2>3, <2>4, <2>5 DEF TypeOK, BackendType
<1>2. ASSUME NEW j \in Job, CreateStep(j) PROVE TypeOK'
  <2>1. RedisType'
    BY <1>2, <1>r, <1>p, <1>l, <1>d, CreateMoves DEF RedisType
  <2>2. RegistryType'
    <3>1. pc' \in [Job -> PCs]
      BY ZenonT(60), <1>2, <1>p, CreateMoves DEF PCs, Ended
    <3>2. carry' \in [Job -> 0..MaxResumes] /\ count' \in [Pod -> 0..MaxResumes]
      BY <1>2, <1>p, <1>l, <1>d, CreateMoves
    <3> QED
      BY Zenon, <1>2, <1>d, <3>1, <3>2, CreateMoves DEF RegistryType
  <2>3. queue' \in Seq(Message)
    BY Zenon, <1>2, <1>l, <1>d, <1>e, CreateMoves DEF ReplyCreate, LinkType
  <2>4. LinkType' /\ BackendType'
    BY Zenon, <1>2, <1>l, <1>d, <2>3, CreateMoves DEF LinkType, BackendType
  <2>5. HistoryType'
    BY <1>2, <1>h, <1>l, <1>d, CreateMoves DEF HistoryType
  <2> QED
    BY Zenon, <2>1, <2>2, <2>4, <2>5 DEF TypeOK
<1>3. ASSUME NEW j \in Job, DeleteStep(j) PROVE TypeOK'
  <2>1. RedisType'
    BY ZenonT(60), <1>3, <1>r, DeleteMoves DEF RedisType
  <2>2. pc' \in [Job -> PCs]
    BY <1>3, <1>p, DeleteMoves DEF PCs, Ended
  <2>3. RegistryType'
    BY <1>3, <1>p, <1>l, <1>d, <2>2, DeleteMoves DEF RegistryType
  <2>4. queue' \in Seq(Message)
    BY Zenon, <1>3, <1>l, <1>d, <1>e, DeleteMoves DEF FinishDelete, LinkType
  <2>5. LinkType' /\ BackendType'
    BY Zenon, <1>3, <1>l, <1>d, <2>4, DeleteMoves DEF LinkType, BackendType
  <2>6. HistoryType'
    BY <1>3, <1>h, DeleteMoves DEF HistoryType
  <2> QED
    BY Zenon, <2>1, <2>3, <2>5, <2>6 DEF TypeOK
<1>4. CASE Sweep
  <2>1. RedisType' /\ count' \in [Pod -> 0..MaxResumes]
    <3>1. recorded' \subseteq Pod /\ old' \subseteq Pod /\ rented' \subseteq Pod
      BY Zenon, <1>4, <1>r, SweepMoves
    <3>2. ASSUME NEW p \in Pod, SweepResume(p)
          PROVE  resumes' \in [Pod -> 0..MaxResumes] /\ count' \in [Pod -> 0..MaxResumes]
      BY <3>2, <1>r, <1>p DEF SweepResume
    <3> QED
      BY Zenon, <1>4, <1>r, <1>p, <3>1, <3>2, SweepMoves DEF RedisType
  <2>2. RegistryType' /\ BackendType'
    BY Zenon, <1>4, <1>p, <1>l, <1>d, <2>1, SweepMoves DEF RegistryType, BackendType
  <2>3. queue' \in Seq(Message)
    BY Zenon, <1>4, <1>l, <1>e, SweepMoves DEF SweepFail, LinkType
  <2>4. LinkType'
    BY Zenon, <1>4, <1>l, <2>3, SweepMoves DEF LinkType
  <2>5. HistoryType'
    BY <1>4, <1>h, SweepMoves DEF HistoryType
  <2> QED
    BY Zenon, <2>1, <2>2, <2>4, <2>5 DEF TypeOK
<1>5. CASE LinkStep
  <2>1. RedisType' /\ HistoryType'
    BY <1>5, <1>r, <1>h, LinkMoves DEF RedisType, HistoryType
  <2>2. RegistryType'
    BY Zenon, <1>5, <1>p, <1>d, LinkMoves DEF RegistryType
  <2>3. ASSUME SendMessage
        PROVE  /\ queue' \in Seq(Message) /\ settling' \subseteq Pod
               /\ want' \in [Pod -> {"none", "waiting", "up", "failed", "deleted"}]
    <3>1. Head(queue) \in Message /\ Tail(queue) \in Seq(Message)
      BY <1>l, <2>3 DEF SendMessage, LinkType
    <3>2. Head(queue).pod \in Pod
      BY Zenon, <3>1 DEF Message
    <3>3. Settled(Head(queue)) \in {"none", "waiting", "up", "failed", "deleted"}
      BY Zenon, <1>l, <1>d, <3>2 DEF Settled, BackendType
    <3> QED
      BY Zenon, <1>l, <1>d, <2>3, <3>1, <3>2, <3>3 DEF SendMessage, BackendType
  <2>4. LinkType'
    BY Zenon, <1>5, <1>l, <2>3, LinkMoves DEF LinkType
  <2>5. Connect => /\ due' \subseteq Pod
                   /\ want' \in [Pod -> {"none", "waiting", "up", "failed", "deleted"}]
    BY ZenonT(60), <1>l, <1>d DEF Connect, BackendType, LinkType
  <2>6. BackendType'
    BY Zenon, <1>5, <1>l, <1>d, <2>3, <2>5, LinkMoves DEF BackendType
  <2> QED
    BY Zenon, <2>1, <2>2, <2>4, <2>6 DEF TypeOK
<1>6. CASE Restart
  <2>1. RedisType' /\ BackendType'
    BY Zenon, <1>6, RestartMoves DEF TypeOK, RedisType, BackendType
  <2>2. RegistryType' /\ LinkType' /\ HistoryType'
    BY <1>6, <1>r, <1>p, <1>h, RestartMoves DEF RegistryType, LinkType, HistoryType, PCs, Ended
  <2> QED
    BY Zenon, <2>1, <2>2 DEF TypeOK
<1> QED
  BY Zenon, <1>1, <1>2, <1>3, <1>4, <1>5, <1>6, Steps

\* Every step keeps jobs in places of their kind, and none beside a start's sweep.
LEMMA StepPlaces ==
    TypeOK /\ KindFits /\ AloneAtStart /\ [Next]_vars => KindFits' /\ AloneAtStart'
<1> SUFFICES ASSUME TypeOK, KindFits, AloneAtStart, [Next]_vars PROVE KindFits' /\ AloneAtStart'
  BY Zenon
<1>t. pc \in [Job -> PCs]
  BY Zenon, TypeFacts
<1> USE <1>t DEF KindFits, AloneAtStart, Live, Tracked, Deleting, Ended, PCs
<1>1. ASSUME NEW j \in Job, BackendStep(j) PROVE KindFits' /\ AloneAtStart'
  BY ZenonT(60), <1>1, BackendMoves
<1>2. ASSUME NEW j \in Job, CreateStep(j) PROVE KindFits' /\ AloneAtStart'
  BY ZenonT(60), <1>2, CreateMoves
<1>3. ASSUME NEW j \in Job, DeleteStep(j) PROVE KindFits' /\ AloneAtStart'
  BY ZenonT(60), <1>3, DeleteMoves
<1>4. CASE Sweep
  BY Zenon, <1>4, SweepMoves
<1>5. CASE LinkStep
  <2>1. SendMessage => phase = "online"
    BY Zenon DEF SendMessage
  <2> QED
    BY Zenon, <1>5, <2>1, LinkMoves
<1>6. CASE Restart
  BY ZenonT(60), <1>6, RestartMoves
<1> HIDE <1>t
<1> QED
  BY Zenon, <1>1, <1>2, <1>3, <1>4, <1>5, <1>6, Steps

\* A delete is forgotten with the last create it hit.
LEMMA StepDeleted ==
    TypeOK /\ KindFits /\ DeletedPodHasCreate /\ [Next]_vars => DeletedPodHasCreate'
<1> SUFFICES ASSUME TypeOK, KindFits, DeletedPodHasCreate, [Next]_vars PROVE DeletedPodHasCreate'
  BY Zenon
<1>t. pc \in [Job -> PCs] /\ pod \in [Job -> Pod]
  BY Zenon, TypeFacts
<1> DEFINE Kept == /\ UNCHANGED <<kind, pod, deleted>>
                   /\ \A k \in Job : pc[k] \in Tracked => pc'[k] \in Tracked
<1>1. Kept => DeletedPodHasCreate'
  BY Zenon DEF DeletedPodHasCreate, IsRunning, Creates
<1>2. ASSUME NEW j \in Job, BackendStep(j) PROVE Kept
  BY Zenon, <1>2, <1>t, BackendMoves DEF Tracked
<1>3. ASSUME NEW j \in Job, CreateStep(j) PROVE DeletedPodHasCreate'
  <2>1. CASE LeaveCreate(j)
    BY <1>t, <2>1 DEF LeaveCreate, Goto, IsOnlyCreate, DeletedPodHasCreate, IsRunning, Creates,
       Tracked, backend
  <2>2. CASE ~LeaveCreate(j)
    <3>1. Kept
      BY ZenonT(60), <1>3, <1>t, <2>2 DEF CreateStep, BeginCreate, WriteRecord, CacheRented, ReplyCreate,
         RaiseCreate, UntrackCreate, Goto, Tracked, backend
    <3> QED
      BY Zenon, <3>1, <1>1
  <2> QED
    BY Zenon, <2>1, <2>2
<1>4. ASSUME NEW j \in Job, DeleteStep(j) PROVE DeletedPodHasCreate'
  <2>1. /\ \A k \in Job : pc[k] \in Tracked => pc'[k] \in Tracked
        /\ UNCHANGED <<kind, pod>> /\ pod[j] \in Pod
    BY Zenon, <1>4, <1>t, DeleteMoves DEF Tracked, Deleting
  <2>2. UNCHANGED deleted \/ (deleted' = deleted \cup {pod[j]} /\ IsRunning(pod[j]))
    BY ZenonT(60), <1>4 DEF DeleteStep, BeginDelete, UntrackDeleted, CancelCreate, FinishDelete, FailDelete
  <2>3. \A p : IsRunning(p) => IsRunning(p)'
    BY Zenon, <2>1 DEF IsRunning, Creates
  <2> QED
    BY Zenon, <2>2, <2>3 DEF DeletedPodHasCreate
<1>5. CASE Restart
  BY Zenon, <1>5, RestartMoves DEF DeletedPodHasCreate
<1>6. CASE Sweep
  BY Zenon, <1>1, <1>6, SweepMoves
<1>7. CASE LinkStep
  BY Zenon, <1>1, <1>7, LinkMoves
<1> HIDE DEF Kept
<1> QED
  BY Zenon, <1>1, <1>2, <1>3, <1>4, <1>5, <1>6, <1>7, Steps

\* Every reachable state satisfies the types, the places and the bookkeeping of deletes.
LEMMA BaseInvariant == Spec => [](TypeOK /\ KindFits /\ AloneAtStart /\ DeletedPodHasCreate)
<1>1. Init => TypeOK /\ KindFits /\ AloneAtStart /\ DeletedPodHasCreate
  BY InflightAssumption
  DEF Init, TypeOK, RedisType, RegistryType, LinkType, BackendType, HistoryType, KindFits,
      AloneAtStart, DeletedPodHasCreate, Live, Tracked, Deleting, Ended, PCs
<1>2. TypeOK /\ KindFits /\ AloneAtStart /\ DeletedPodHasCreate /\ [Next]_vars
      => (TypeOK /\ KindFits /\ AloneAtStart /\ DeletedPodHasCreate)'
  BY Zenon, StepType, StepPlaces, StepDeleted
<1> QED
  BY <1>1, <1>2, PTL DEF Spec

\* The connector's, Redis's and the backend's state keep their types.
THEOREM TypeCorrect == Spec => []TypeOK
  BY BaseInvariant, PTL

\* deleted_pod_ids never outlives the creates it is about, however creates and
\* deletes of a pod overlap.
THEOREM DeletesForgotten == Spec => []DeletedPodHasCreate
  BY BaseInvariant, PTL

\* While claims are answered in order, a delete flags every create sent before it.
LEMMA StepDelete ==
    InOrder /\ DeleteInv /\ [Next]_vars => Numbered' /\ BegunInOrder' /\ FlaggedOrEnded'
<1> SUFFICES ASSUME InOrder, DeleteInv, [Next]_vars
             PROVE  Numbered' /\ BegunInOrder' /\ FlaggedOrEnded'
  BY Zenon
<1> DEFINE Goal == Numbered' /\ BegunInOrder' /\ FlaggedOrEnded'
           Moves(j, l) == pc' = [pc EXCEPT ![j] = l]
           Sent == UNCHANGED <<kind, pod, sends, sentAt>>
           Same == Sent /\ UNCHANGED <<pc, gone, cancelled>>
<1>a. ASSUME NEW j \in Job, BackendStep(j)
      PROVE  /\ pc[j] = "idle" /\ Moves(j, "claim")
             /\ sends' = sends + 1 /\ sentAt' = [sentAt EXCEPT ![j] = sends + 1]
             /\ UNCHANGED <<kind, pod, gone, cancelled>>
  BY Zenon, <1>a, BackendMoves
<1>b. ASSUME NEW j \in Job,
             BeginCreate(j) \/ WriteRecord(j) \/ CacheRented(j) \/ ReplyCreate(j) \/ RaiseCreate(j)
             \/ UntrackCreate(j)
      PROVE  /\ pc[j] \in {"claim"} \cup Tracked
             /\ pc[j] = "claim" => kind[j] = "create"
             /\ \E l \in Tracked : Moves(j, l)
             /\ Sent /\ UNCHANGED <<gone, cancelled>>
  <2> USE DEF Tracked, Goto, Fault, backend, history
  <2>1. CASE BeginCreate(j)
    BY Zenon, <2>1 DEF BeginCreate
  <2>2. CASE WriteRecord(j) \/ UntrackCreate(j)
    BY Zenon, <2>2 DEF WriteRecord, UntrackCreate
  <2>3. CASE CacheRented(j) \/ ReplyCreate(j) \/ RaiseCreate(j)
    BY Zenon, <2>3 DEF CacheRented, ReplyCreate, RaiseCreate
  <2> QED
    BY Zenon, <1>b, <2>1, <2>2, <2>3
<1>c. ASSUME NEW j \in Job, LeaveCreate(j)
      PROVE  /\ pc[j] = "leave" /\ Moves(j, "done") /\ Sent /\ UNCHANGED gone
             /\ cancelled' = IF Creates(pod[j]) = {j} THEN cancelled \ {pod[j]} ELSE cancelled
  BY Zenon, <1>c DEF LeaveCreate, IsOnlyCreate, Goto, backend, history
<1>d. ASSUME NEW j \in Job, BeginDelete(j)
      PROVE  /\ kind[j] = "delete" /\ pc[j] = "claim" /\ Moves(j, "hdel")
             /\ \A k \in Job : pc[k] = "claim" => sentAt[j] <= sentAt[k]
             /\ Sent /\ UNCHANGED <<gone, cancelled>>
  BY Zenon, <1>d DEF BeginDelete, InTurn, Goto, backend, history
<1>e. ASSUME NEW j \in Job, UntrackDeleted(j)
      PROVE  pc[j] = "hdel" /\ Moves(j, "cancel") /\ Sent /\ UNCHANGED <<gone, cancelled>>
  BY Zenon, <1>e DEF UntrackDeleted, Fault, Goto, backend, history
<1>f. ASSUME NEW j \in Job, CancelCreate(j)
      PROVE  /\ pc[j] = "cancel" /\ Moves(j, "wait") /\ Sent /\ UNCHANGED gone
             /\ cancelled' = IF Creates(pod[j]) # {} THEN cancelled \cup {pod[j]} ELSE cancelled
  BY Zenon, <1>f DEF CancelCreate, IsRunning, Goto, backend, history
<1>g. ASSUME NEW j \in Job, FinishDelete(j)
      PROVE  pc[j] = "wait" /\ Moves(j, "done") /\ gone' = gone \cup {j} /\ Sent /\ UNCHANGED cancelled
  BY Zenon, <1>g DEF FinishDelete, Goto, backend
<1>h. ASSUME NEW j \in Job, FailDelete(j)
      PROVE  /\ pc[j] \in {"cancel", "wait"} /\ Moves(j, "done") /\ Sent
             /\ UNCHANGED <<gone, cancelled>>
  BY Zenon, <1>h DEF FailDelete, Goto, backend, history
<1>i. ASSUME Restart
      PROVE  /\ pc' = [j \in Job |-> IF pc[j] = "idle" \/ pc[j] \in Ended THEN pc[j] ELSE "dead"]
             /\ Sent /\ UNCHANGED gone
  BY Zenon, <1>i, RestartMoves
<1>j. CASE Sweep \/ LinkStep
  <2>1. Same
    BY Zenon, <1>j, SweepMoves, LinkMoves
  <2> QED
    BY Zenon, <2>1 DEF DeleteInv, Numbered, BegunInOrder, FlaggedOrEnded
<1>t. /\ pc \in [Job -> PCs] /\ kind \in [Job -> {"create", "delete"}] /\ pod \in [Job -> Pod]
      /\ sends \in Nat /\ sentAt \in [Job -> 0..sends] /\ gone \subseteq Job
      /\ KindFits /\ Numbered /\ BegunInOrder /\ FlaggedOrEnded
  BY Zenon, TypeFacts DEF DeleteInv
<1> USE <1>t DEF KindFits, Numbered, BegunInOrder, FlaggedOrEnded, Tracked, Deleting, Ended,
                 PCs, Creates
<1>1. ASSUME NEW j \in Job, BackendStep(j) PROVE Goal
  BY <1>1, <1>a
<1>2. ASSUME NEW j \in Job,
             BeginCreate(j) \/ WriteRecord(j) \/ CacheRented(j) \/ ReplyCreate(j) \/ RaiseCreate(j)
             \/ UntrackCreate(j)
      PROVE  Goal
  <2>1. PICK l \in Tracked : Moves(j, l)
    BY Zenon, <1>2, <1>b
  <2>2. /\ pc[j] \in {"claim"} \cup Tracked
        /\ pc[j] = "claim" => kind[j] = "create"
    BY Zenon, <1>2, <1>b
  <2>3. Sent /\ UNCHANGED <<gone, cancelled>>
    BY Zenon, <1>2, <1>b
  <2> QED
    BY <2>1, <2>2, <2>3
<1>3. ASSUME NEW j \in Job, LeaveCreate(j) PROVE Goal
  BY <1>3, <1>c
<1>4. ASSUME NEW j \in Job, BeginDelete(j) PROVE Goal
  BY <1>4, <1>d
<1>5. ASSUME NEW j \in Job, UntrackDeleted(j) PROVE Goal
  BY <1>5, <1>e
<1>6. ASSUME NEW j \in Job, CancelCreate(j) PROVE Goal
  BY <1>6, <1>f
<1>7. ASSUME NEW j \in Job, FinishDelete(j) PROVE Goal
  BY <1>7, <1>g
<1>8. ASSUME NEW j \in Job, FailDelete(j) PROVE Goal
  BY <1>8, <1>h
<1>9. CASE Restart
  BY <1>9, <1>i
<1> HIDE <1>t
<1> QED
  BY Zenon, <1>1, <1>2, <1>3, <1>4, <1>5, <1>6, <1>7, <1>8, <1>9, <1>j, Steps
  DEF CreateStep, DeleteStep

\* While claims are answered in the order the commands arrived, a delete that reported its pod
\* gone leaves no create sent before it running unflagged.
THEOREM DeletesReachCreates ==
    ASSUME InOrder
    PROVE  Spec => []NoCreateOutlivesDelete
<1>1. Init => DeleteInv
  BY InflightAssumption
  DEF Init, DeleteInv, TypeOK, RedisType, RegistryType, LinkType, BackendType,
     HistoryType, KindFits,
      AloneAtStart, Numbered, BegunInOrder, FlaggedOrEnded, Live, Tracked, Deleting, Ended, PCs
<1>2. DeleteInv /\ [Next]_vars => DeleteInv'
  BY Zenon, StepType, StepPlaces, StepDelete DEF DeleteInv
<1>3. DeleteInv => NoCreateOutlivesDelete
  BY Zenon DEF DeleteInv, FlaggedOrEnded, NoCreateOutlivesDelete, TypeOK, HistoryType
<1> QED
  BY <1>1, <1>2, <1>3, PTL DEF Spec

-----------------------------------------------------------------------------
(* What the backend waits for                                              *)

\* the places of a create that has not replied yet
Unanswered == {"claim", "write", "drive", "up"}

\* the message makes the backend stop waiting for the pod
Answers(p, m) ==
    m.pod = p /\ (m.type \in {"created", "cutoff"} \/ (m.type = "failed" /\ m.job = current[p]))

Answered(p) == \E i \in 1..Len(queue) : Answers(p, queue[i])

\* What ends the backend's wait: a resend, the report to come, the create's own end or a
\* message already queued.
Awaited(p) ==
    \/ p \in due \cup raised
    \/ phase = "sweep" \/ report = "ready"
    \/ pc[current[p]] \in Unanswered
    \/ Answered(p)

WaitsFor(p) ==
    /\ current[p] \in Job /\ kind[current[p]] = "create" /\ pod[current[p]] = p
    /\ aborts = 0 => Awaited(p)

WaitInv == \A p \in Pod : want[p] = "waiting" => WaitsFor(p)

\* A message joins the queue: those before it stay (message_queue.append).
LEMMA AppendKeeps ==
    ASSUME TypeOK, NEW m \in Message, queue' = Append(queue, m), UNCHANGED current, NEW p \in Pod
    PROVE  Answered(p) \/ Answers(p, m) => Answered(p)'
<1>1. queue \in Seq(Message)
  BY Zenon, TypeFacts
<1>2. Len(queue') = Len(queue) + 1 /\ queue'[Len(queue) + 1] = m /\ Len(queue) \in Nat
  BY <1>1
<1>3. \A i \in 1..Len(queue) : queue'[i] = queue[i]
  BY <1>1
<1>4. \A n : Answers(p, n)' = Answers(p, n)
  BY Zenon DEF Answers
<1> QED
  BY <1>2, <1>3, <1>4 DEF Answered, Answers

\* The first message leaves the queue: those after it stay (message_queue.popleft).
LEMMA TailKeeps ==
    ASSUME TypeOK, queue # <<>>, queue' = Tail(queue), UNCHANGED current, NEW p \in Pod,
           Answered(p), ~Answers(p, Head(queue))
    PROVE  Answered(p)'
<1>1. queue \in Seq(Message)
  BY Zenon, TypeFacts
<1>2. PICK i \in 1..Len(queue) : Answers(p, queue[i])
  BY Zenon DEF Answered
<1>3. Len(queue) \in Nat \ {0} /\ Head(queue) = queue[1]
  BY <1>1
<1>4. Len(queue') = Len(queue) - 1 /\ \A k \in 1..(Len(queue) - 1) : queue'[k] = queue[k + 1]
  BY <1>1, <1>3
<1>5. i # 1
  BY Zenon, <1>2, <1>3
<1>6. i - 1 \in 1..(Len(queue) - 1) /\ (i - 1) + 1 = i
  BY <1>3, <1>5
<1>7. i - 1 \in 1..Len(queue') /\ queue'[i - 1] = queue[i]
  BY Zenon, <1>4, <1>6
<1> QED
  BY Zenon, <1>2, <1>7 DEF Answered, Answers

\* A job's step leaves the backend waiting for the same, or for what the job just did.
LEMMA JobKeepsWait ==
    ASSUME TypeOK, WaitInv, UNCHANGED <<want, current, due, kind, pod, phase, report, aborts>>,
           raised \subseteq raised',
           \A p \in Pod : WaitsFor(p) /\ pc[current[p]] \in Unanswered
                => pc'[current[p]] \in Unanswered \/ p \in raised' \/ Answered(p)',
           \A p \in Pod : Answered(p) => Answered(p)'
    PROVE  WaitInv'
  BY Zenon DEF WaitInv, WaitsFor, Awaited

\* Whatever the backend waits for will come.
LEMMA StepWait ==
    TypeOK /\ AloneAtStart /\ WaitInv /\ [Next]_vars => WaitInv'
<1> SUFFICES ASSUME TypeOK, AloneAtStart, WaitInv, [Next]_vars PROVE WaitInv'
  BY Zenon
<1> pc \in [Job -> PCs] /\ current \in [Pod -> Job \cup {NoJob}] /\ pod \in [Job -> Pod]
    /\ want \in [Pod -> {"none", "waiting", "up", "failed", "deleted"}]
  BY Zenon, TypeFacts
<1>1. ASSUME NEW j \in Job, BackendStep(j) PROVE WaitInv'
  <2>1. /\ kind' = kind /\ pod' = pod /\ pc' = [pc EXCEPT ![j] = "claim"] /\ pc[j] = "idle"
        /\ UNCHANGED <<queue, phase, report, raised, aborts>>
    BY Zenon, <1>1, BackendMoves
  <2>2. CASE Rent(j) \/ Resend(j)
    <3>1. /\ kind[j] = "create" /\ current' = [current EXCEPT ![pod[j]] = j]
          /\ want' \in {want, [want EXCEPT ![pod[j]] = "waiting"]} /\ due' = due \ {pod[j]}
      BY Zenon, <2>2 DEF Rent, Resend
    <3>2. \A p \in Pod : p = pod[j] => WaitsFor(p)'
      BY Zenon, <2>1, <3>1 DEF WaitsFor, Awaited, Unanswered
    <3>3. ASSUME NEW p \in Pod, p # pod[j], want'[p] = "waiting" PROVE WaitsFor(p)'
      <4>1. want[p] = "waiting" /\ current'[p] = current[p] /\ (p \in due => p \in due')
        BY Zenon, <3>1, <3>3
      <4>2. WaitsFor(p) /\ (Answered(p) => Answered(p)')
        BY Zenon, <2>1, <4>1 DEF WaitInv, Answered, Answers
      <4> QED
        BY Zenon, <2>1, <4>1, <4>2 DEF WaitsFor, Awaited, Unanswered
    <3> QED
      BY Zenon, <3>2, <3>3 DEF WaitInv
  <2>3. CASE Remove(j)
    <3>1. UNCHANGED <<current, due>> /\ \A p \in Pod : want'[p] = "waiting" => want[p] = "waiting"
      BY Zenon, <2>3 DEF Remove
    <3>2. \A p \in Pod : Answered(p) => Answered(p)'
      BY Zenon, <2>1, <3>1 DEF Answered, Answers
    <3> QED
      BY Zenon, <2>1, <3>1, <3>2 DEF WaitInv, WaitsFor, Awaited, Unanswered
  <2> QED
    BY Zenon, <1>1, <2>2, <2>3 DEF BackendStep
<1>2. ASSUME NEW j \in Job, CreateStep(j) \/ DeleteStep(j) PROVE WaitInv'
  <2>1. UNCHANGED <<want, current, due, kind, pod, phase, report, aborts>> /\ raised \subseteq raised'
    BY Zenon, <1>2, JobMoves
  <2>2. CASE ReplyCreate(j)
    <3> DEFINE m == [type |-> IF pc[j] = "up" THEN "created" ELSE "failed", pod |-> pod[j], job |-> j]
    <3>1. m \in Message /\ queue' = Append(queue, m)
      BY Zenon, <2>2 DEF ReplyCreate, Enqueue, Message
    <3>2. \A p \in Pod : WaitsFor(p) /\ current[p] = j => Answers(p, m)
      BY Zenon DEF WaitsFor, Answers
    <3>3. \A p \in Pod : Answered(p) \/ Answers(p, m) => Answered(p)'
      BY Zenon, <2>1, <3>1, AppendKeeps
    <3>4. \A p \in Pod : current[p] # j /\ current[p] \in Job => pc'[current[p]] = pc[current[p]]
      BY Zenon, <2>2 DEF ReplyCreate, Goto
    <3>5. \A p \in Pod : WaitsFor(p) => current[p] \in Job
      BY Zenon DEF WaitsFor
    <3> HIDE DEF m
    <3> QED
      BY Zenon, <2>1, <3>2, <3>3, <3>4, <3>5, JobKeepsWait
  <2>3. CASE FinishDelete(j)
    <3> DEFINE m == [type |-> "deleted", pod |-> pod[j], job |-> j]
    <3>1. m \in Message /\ queue' = Append(queue, m)
      BY Zenon, <2>3 DEF FinishDelete, Enqueue, Message
    <3>2. \A p \in Pod : Answered(p) => Answered(p)'
      BY Zenon, <2>1, <3>1, AppendKeeps
    <3>3. pc[j] \notin Unanswered /\ pc' = [pc EXCEPT ![j] = "done"]
      BY Zenon, <2>3 DEF FinishDelete, Goto, Unanswered
    <3> QED
      BY Zenon, <2>1, <3>2, <3>3, JobKeepsWait DEF WaitsFor
  <2>4. CASE ~ReplyCreate(j) /\ ~FinishDelete(j)
    <3>1. UNCHANGED queue /\ \E l : pc' = [pc EXCEPT ![j] = l]
      BY Zenon, <1>2, <2>4, JobMoves
    <3>2. \A p \in Pod : Answered(p) => Answered(p)'
      BY Zenon, <2>1, <3>1 DEF Answered, Answers
    <3>3. \/ pc'[j] \in Unanswered \/ pod[j] \in raised'
          \/ kind[j] = "delete" \/ pc[j] \notin Unanswered
      <4>1. CASE BeginCreate(j) \/ WriteRecord(j) \/ CacheRented(j) \/ RaiseCreate(j)
        BY Zenon, <4>1 DEF BeginCreate, WriteRecord, CacheRented, RaiseCreate, Goto, Unanswered
      <4>2. CASE UntrackCreate(j) \/ LeaveCreate(j) \/ DeleteStep(j)
        BY Zenon, <4>2 DEF UntrackCreate, LeaveCreate, DeleteStep, BeginDelete, UntrackDeleted,
           CancelCreate, FinishDelete, FailDelete, Unanswered
      <4> QED
        BY Zenon, <1>2, <2>4, <4>1, <4>2 DEF CreateStep
    <3>4. \A p \in Pod : WaitsFor(p) /\ pc[current[p]] \in Unanswered
                             => pc'[current[p]] \in Unanswered \/ p \in raised'
      BY Zenon, <3>1, <3>3 DEF WaitsFor
    <3> QED
      BY Zenon, <2>1, <3>2, <3>4, JobKeepsWait
  <2> QED
    BY Zenon, <2>2, <2>3, <2>4
<1>3. CASE SendMessage
  <2>1. /\ queue # <<>> /\ queue' = Tail(queue)
        /\ UNCHANGED <<current, kind, pod, due, pc, phase, report, raised, aborts>>
        /\ want' = [want EXCEPT ![Head(queue).pod] = Settled(Head(queue))]
    BY Zenon, <1>3 DEF SendMessage, registry, history
  <2>2. Head(queue) \in Message
    BY <2>1, TypeFacts
  <2>3. ASSUME NEW p \in Pod, want'[p] = "waiting" PROVE WaitsFor(p)'
    <3>1. want[p] = "waiting" /\ ~Answers(p, Head(queue))
      BY Zenon, <2>1, <2>2, <2>3 DEF Settled, Answers, Message
    <3>2. Answered(p) => Answered(p)'
      BY Zenon, <2>1, <3>1, TailKeeps
    <3> QED
      BY Zenon, <2>1, <3>1, <3>2 DEF WaitInv, WaitsFor, Awaited
  <2> QED
    BY Zenon, <2>3 DEF WaitInv
<1>4. CASE Connect
  <2>1. /\ UNCHANGED <<queue, current, kind, pod, pc, raised, aborts>> /\ phase # "sweep"
    BY Zenon, <1>4 DEF Connect, registry, history
  <2>2. \A p \in Pod : Answered(p) => Answered(p)'
    BY Zenon, <2>1 DEF Answered, Answers
  <2>3. CASE report = "ready"
    BY <1>4, <2>1, <2>3 DEF Connect, WaitInv, WaitsFor, Awaited
  <2>4. CASE report # "ready"
    BY Zenon, <1>4, <2>1, <2>2, <2>4 DEF Connect, WaitInv, WaitsFor, Awaited
  <2> QED
    BY Zenon, <2>3, <2>4
<1>5. CASE Restart \/ Sweep
  <2>1. /\ UNCHANGED <<want, current, kind, pod>> /\ aborts \in Nat
        /\ phase' = "sweep" \/ report' = "ready" \/ aborts' = aborts + 1
    BY Zenon, <1>5, RestartMoves, SweepMoves, TypeFacts
  <2> QED
    BY <2>1 DEF WaitInv, WaitsFor, Awaited
<1>6. CASE Disconnect \/ UntrackReported \/ (\E p \in Pod : Ages(p)) \/ UNCHANGED vars
  <2>1. /\ UNCHANGED <<want, current, due, kind, pod, queue, pc, report, raised, aborts>>
        /\ phase = "sweep" => phase' = "sweep"
    BY Zenon, <1>6, IdleMoves DEF UntrackReported, registry, backend, history, Fault
  <2>2. \A p \in Pod : Answered(p) => Answered(p)'
    BY Zenon, <2>1 DEF Answered, Answers
  <2> QED
    BY Zenon, <2>1, <2>2 DEF WaitInv, WaitsFor, Awaited
<1> QED
  BY Zenon, <1>1, <1>2, <1>3, <1>4, <1>5, <1>6, Steps DEF LinkStep

\* Once the connector is idle the backend waits for no create that was lost with a
\* connector (the report of fail_creates_cut_off_by_restart), unless a sweep raised.
THEOREM WaitsEnd == Spec => []NobodyWaitsInVain
<1>1. Init => WaitInv
  BY Zenon DEF Init, WaitInv
<1>2. TypeOK /\ AloneAtStart /\ WaitInv => NobodyWaitsInVain
  <2> SUFFICES ASSUME TypeOK, AloneAtStart, WaitInv, Quiet, NEW p \in Pod, want[p] = "waiting", aborts = 0
               PROVE  p \in due \cup raised
    BY TypeFacts DEF NobodyWaitsInVain
  <2>1. WaitsFor(p) /\ Awaited(p)
    BY Zenon DEF WaitInv, WaitsFor
  <2>2. ~Answered(p)
    BY DEF Quiet, Answered
  <2> QED
    BY Zenon, <2>1, <2>2 DEF Quiet, WaitsFor, Awaited, Unanswered, AloneAtStart
<1>3. TypeOK /\ AloneAtStart /\ WaitInv /\ [Next]_vars => WaitInv'
  BY Zenon, StepWait
<1> QED
  BY <1>1, <1>2, <1>3, BaseInvariant, PTL DEF Spec

-----------------------------------------------------------------------------
\* A create the backend is about to send again does not run.
DueIsNotRunning == \A p \in due : LiveCreates(p) = {}

\* A create that was sent again is the only one of its pod.
ResentIsAlone == \A p \in Pod : resends[p] > 0 => LiveCreates(p) \subseteq {current[p]}

\* The record, the pending count and a create about to be recorded all know of at least
\* as many resumes as the backend made.
ResumesCounted ==
    \A p \in Pod :
        /\ p \in recorded => resends[p] <= resumes[p]
        /\ \A j \in LiveCreates(p) :
              /\ pc[j] = "claim" => resends[p] <= count[p]
              /\ pc[j] = "write" => resends[p] <= carry[j]

\* A resume the backend has yet to make is counted already.  What was due when the
\* connector died is settled by the next report.
NextResumeCounted ==
    \A p \in Pod :
        p \in (IF phase = "sweep" \/ report = "ready" THEN listing ELSE due) =>
            resends[p] < count[p] /\ (p \in recorded => resends[p] < resumes[p])

ResumeInv ==
    /\ TypeOK /\ KindFits /\ AloneAtStart /\ DueIsNotRunning /\ ResentIsAlone
    /\ DeletedPodHasCreate
    /\ aborts = 0 => ResumesCounted /\ NextResumeCounted
    /\ ResumeBound

-----------------------------------------------------------------------------

\* What a step of the sweep or of the link leaves alone, and which counters move.
LEMMA StepEffects ==
    ASSUME [Next]_vars
    PROVE  /\ aborts' \in {aborts, aborts + 1} /\ faults' \in {faults, faults + 1}
           /\ (\E j \in Job : BackendStep(j)) \/ UNCHANGED <<current, resends>>
           /\ (\E j \in Job : BackendStep(j)) \/ Connect \/ UNCHANGED due
<1>1. ASSUME NEW j \in Job, CreateStep(j) \/ DeleteStep(j)
      PROVE  UNCHANGED <<current, resends, due, aborts>> /\ faults' \in {faults, faults + 1}
  BY Zenon, <1>1, JobMoves
<1>2. ASSUME NEW j \in Job, BackendStep(j) PROVE UNCHANGED <<aborts, faults>>
  BY Zenon, <1>2, BackendMoves
<1>3. ASSUME Sweep \/ LinkStep
      PROVE  /\ UNCHANGED <<current, resends>> /\ (Connect \/ UNCHANGED due)
             /\ aborts' \in {aborts, aborts + 1} /\ faults' \in {faults, faults + 1}
  BY Zenon, <1>3, SweepMoves, LinkMoves
<1> QED
  BY Zenon, <1>1, <1>2, <1>3, Steps, RestartMoves

\* Only a command that arrives adds a create to its pod.
LEMMA LiveShrinks ==
    ASSUME TypeOK, [Next]_vars, ~\E j \in Job : BackendStep(j)
    PROVE  \A p \in Pod : LiveCreates(p)' \subseteq LiveCreates(p)
<1>t. pc \in [Job -> PCs]
  BY Zenon, TypeFacts
<1>1. ASSUME NEW j \in Job, CreateStep(j) PROVE \A p \in Pod : LiveCreates(p)' \subseteq LiveCreates(p)
  BY Zenon, <1>1, <1>t, CreateMoves DEF LiveCreates
<1>2. ASSUME NEW j \in Job, DeleteStep(j) PROVE \A p \in Pod : LiveCreates(p)' \subseteq LiveCreates(p)
  BY <1>2, <1>t, DeleteMoves DEF LiveCreates, Tracked, Deleting
<1>3. CASE Restart
  BY Zenon, <1>3, <1>t, RestartMoves DEF LiveCreates, Tracked, Ended
<1>4. CASE UNCHANGED <<pc, kind, pod>>
  BY Zenon, <1>4 DEF LiveCreates
<1>5. Sweep \/ LinkStep => UNCHANGED <<pc, kind, pod>>
  BY Zenon, SweepMoves, LinkMoves
<1> QED
  BY Zenon, <1>1, <1>2, <1>3, <1>4, <1>5, Steps

\* A create is sent again only when none of its pod runs.
LEMMA StepAlone ==
    TypeOK /\ KindFits /\ AloneAtStart /\ DueIsNotRunning /\ ResentIsAlone /\ [Next]_vars
    => DueIsNotRunning' /\ ResentIsAlone'
<1> SUFFICES ASSUME TypeOK, KindFits, AloneAtStart, DueIsNotRunning, ResentIsAlone, [Next]_vars
             PROVE  DueIsNotRunning' /\ ResentIsAlone'
  BY Zenon
<1>t. /\ pc \in [Job -> PCs] /\ pod \in [Job -> Pod] /\ due \subseteq Pod /\ listing \subseteq Pod
      /\ resends \in [Pod -> Nat] /\ current \in [Pod -> Job \cup {NoJob}]
  BY Zenon, TypeFacts
<1>1. ASSUME NEW j \in Job, BackendStep(j) PROVE DueIsNotRunning' /\ ResentIsAlone'
  <2>1. UNCHANGED <<kind, pod>> /\ pc' = [pc EXCEPT ![j] = "claim"] /\ pod[j] \in Pod
    BY Zenon, <1>1, <1>t, BackendMoves
  <2>2. \A p \in Pod : LiveCreates(p)' \subseteq LiveCreates(p) \cup
                          (IF kind[j] = "create" /\ p = pod[j] THEN {j} ELSE {})
    BY Zenon, <1>t, <2>1 DEF LiveCreates
  <2>3. CASE Rent(j)
    BY <1>t, <2>1, <2>2, <2>3 DEF Rent, DueIsNotRunning, ResentIsAlone
  <2>4. CASE Remove(j)
    BY Zenon, <1>t, <2>2, <2>4 DEF Remove, DueIsNotRunning, ResentIsAlone
  <2>5. CASE Resend(j)
    BY ZenonT(60), <1>t, <2>1, <2>2, <2>5 DEF Resend, DueIsNotRunning, ResentIsAlone
  <2> QED
    BY Zenon, <1>1, <2>3, <2>4, <2>5 DEF BackendStep
<1>2. CASE ~\E j \in Job : BackendStep(j)
  <2>1. (\A p \in Pod : LiveCreates(p)' \subseteq LiveCreates(p)) /\ UNCHANGED <<current, resends>>
    BY Zenon, <1>2, LiveShrinks, StepEffects
  <2>2. ResentIsAlone'
    BY Zenon, <2>1 DEF ResentIsAlone
  <2>3. DueIsNotRunning'
    <3>1. CASE UNCHANGED due \/ (Connect /\ report # "ready")
      BY Zenon, <1>t, <2>1, <3>1 DEF Connect, DueIsNotRunning
    <3>2. CASE Connect /\ report = "ready"
      <4>1. \A p \in Pod : LiveCreates(p) = {}
        BY Zenon, <3>2 DEF AloneAtStart, Live, LiveCreates
      <4> QED
        BY Zenon, <1>t, <2>1, <3>2, <4>1 DEF Connect, DueIsNotRunning
    <3> QED
      BY Zenon, <1>2, <3>1, <3>2, StepEffects
  <2> QED
    BY Zenon, <2>2, <2>3
<1> QED
  BY Zenon, <1>1, <1>2

\* While no sweep raised, every resume is counted in Redis or in the process.
LEMMA StepCounted ==
    /\ TypeOK /\ KindFits /\ AloneAtStart /\ DueIsNotRunning /\ ResentIsAlone
    /\ aborts = 0 => ResumesCounted /\ NextResumeCounted
    /\ [Next]_vars
    => (aborts' = 0 => ResumesCounted' /\ NextResumeCounted')
<1> SUFFICES ASSUME TypeOK, KindFits, AloneAtStart, DueIsNotRunning, ResentIsAlone,
                    aborts = 0 => ResumesCounted /\ NextResumeCounted, [Next]_vars, aborts' = 0
             PROVE  ResumesCounted' /\ NextResumeCounted'
  BY Zenon
<1>0. ResumesCounted /\ NextResumeCounted
  <2>1. aborts' \in {aborts, aborts + 1} /\ aborts \in Nat
    BY Zenon, StepEffects, TypeFacts
  <2> QED
    BY <2>1
<1>t. /\ recorded \subseteq Pod /\ resumes \in [Pod -> 0..MaxResumes]
      /\ pc \in [Job -> PCs] /\ carry \in [Job -> 0..MaxResumes] /\ count \in [Pod -> 0..MaxResumes]
      /\ kind \in [Job -> {"create", "delete"}] /\ pod \in [Job -> Pod]
      /\ listing \subseteq Pod /\ due \subseteq Pod /\ resends \in [Pod -> Nat]
  BY Zenon, TypeFacts
<1> DEFINE Goal == ResumesCounted' /\ NextResumeCounted'
<1>1. ASSUME NEW j \in Job, BackendStep(j) PROVE Goal
  <2>1. /\ UNCHANGED <<recorded, resumes, carry, count, kind, pod, listing, phase, report>>
        /\ phase = "online" /\ pc[j] = "idle" /\ pc' = [pc EXCEPT ![j] = "claim"] /\ pod[j] \in Pod
    BY Zenon, <1>1, <1>t, BackendMoves
  <2>2. \A q \in Pod : \A k \in LiveCreates(q)' :
            (k \in LiveCreates(q) /\ pc'[k] = pc[k]) \/ (k = j /\ q = pod[j] /\ kind[j] = "create")
    BY Zenon, <1>t, <2>1 DEF LiveCreates
  <2>3. report # "ready"
    BY Zenon, <2>1 DEF AloneAtStart
  <2>4. CASE Rent(j)
    <3>1. resends' = [resends EXCEPT ![pod[j]] = 0] /\ due' = due \ {pod[j]}
      BY Zenon, <2>4 DEF Rent
    <3>2. \A q \in Pod : resends'[q] \in 0..resends[q] /\ (q = pod[j] => resends'[q] = 0)
      BY <1>t, <3>1
    <3>s. \A q \in Pod : resends[q] \in Nat /\ resumes[q] \in Nat /\ count[q] \in Nat
      BY <1>t
    <3>k. \A q \in Pod : \A k \in LiveCreates(q)' : k \in Job
      BY Zenon DEF LiveCreates
    <3>c. \A k \in Job : carry[k] \in Nat
      BY SMTT(30), <1>t
    <3>3. ResumesCounted'
      BY <1>0, <2>1, <2>2, <3>2, <3>s, <3>k, <3>c DEF ResumesCounted
    <3>4. NextResumeCounted'
      BY ZenonT(60), <1>0, <1>t, <2>1, <2>3, <3>1, <3>2 DEF NextResumeCounted
    <3> QED
      BY Zenon, <3>3, <3>4
  <2>5. CASE Remove(j)
    <3>1. UNCHANGED <<resends, due>> /\ kind[j] = "delete"
      BY Zenon, <2>5 DEF Remove
    <3> QED
      BY Zenon, <1>0, <1>t, <2>1, <2>2, <2>3, <3>1 DEF ResumesCounted, NextResumeCounted
  <2>6. CASE Resend(j)
    <3>1. pod[j] \in due /\ resends' = [resends EXCEPT ![pod[j]] = @ + 1] /\ due' = due \ {pod[j]}
      BY Zenon, <2>6 DEF Resend
    <3>2. LiveCreates(pod[j]) = {}
      BY Zenon, <3>1 DEF DueIsNotRunning
    <3> QED
      BY <1>0, <1>t, <2>1, <2>2, <2>3, <3>1, <3>2 DEF ResumesCounted, NextResumeCounted
  <2> QED
    BY Zenon, <1>1, <2>4, <2>5, <2>6 DEF BackendStep
<1>2. ASSUME NEW j \in Job, CreateStep(j) \/ DeleteStep(j)
      PROVE  UNCHANGED <<kind, pod, resends, due, listing, phase, report>>
  BY Zenon, <1>2, JobMoves
<1>3. ASSUME NEW j \in Job, CreateStep(j)
      PROVE  phase # "sweep" /\ report # "ready" /\ j \in LiveCreates(pod[j]) /\ pod[j] \in Pod /\ pod[j] \notin due
  <2>1. pc[j] \in {"claim"} \cup Tracked /\ (pc[j] = "claim" => kind[j] = "create")
    BY Zenon, <1>3, CreateMoves
  <2>2. j \in LiveCreates(pod[j]) /\ pod[j] \in Pod
    BY Zenon, <1>t, <2>1 DEF LiveCreates, KindFits
  <2> QED
    BY Zenon, <2>1, <2>2 DEF AloneAtStart, Live, DueIsNotRunning
<1>4. ASSUME NEW j \in Job, BeginCreate(j) PROVE Goal
  <2>1. /\ phase # "sweep" /\ report # "ready" /\ j \in LiveCreates(pod[j]) /\ pod[j] \in Pod
        /\ pod[j] \notin due /\ UNCHANGED <<kind, pod, resends, due, listing, phase, report>>
    BY Zenon, <1>2, <1>3, <1>4 DEF CreateStep
  <2>2. UNCHANGED <<recorded, resumes>> /\ pc[j] = "claim"
    BY Zenon, <1>4 DEF BeginCreate, redis
  <2>3. CASE pod[j] \in deleted
    <3>1. pc' = [pc EXCEPT ![j] = "drive"] /\ UNCHANGED <<carry, count>>
      BY Zenon, <1>4, <2>3 DEF BeginCreate, Goto
    <3>2. \A q \in Pod : \A k \in LiveCreates(q)' : k \in LiveCreates(q) /\ pc'[k] \in {pc[k], "drive"}
      BY Zenon, <1>t, <2>1, <2>2, <3>1 DEF LiveCreates
    <3> QED
      BY <1>0, <1>t, <2>1, <2>2, <3>1, <3>2 DEF ResumesCounted, NextResumeCounted
  <2>4. CASE pod[j] \notin deleted
    <3>1. /\ pc' = [pc EXCEPT ![j] = "write"] /\ carry' = [carry EXCEPT ![j] = count[pod[j]]]
          /\ count' = [count EXCEPT ![pod[j]] = 0]
      BY Zenon, <1>4, <2>4 DEF BeginCreate, Goto
    <3>2. NextResumeCounted'
      BY Zenon, <1>0, <1>t, <2>1, <2>2, <3>1 DEF NextResumeCounted
    <3>3. ASSUME NEW q \in Pod, NEW k \in LiveCreates(q)'
          PROVE  /\ pc'[k] = "claim" => resends'[q] <= count'[q]
                 /\ pc'[k] = "write" => resends'[q] <= carry'[k]
      <4>1. k \in LiveCreates(q) /\ k \in Job /\ pod[k] = q
        BY Zenon, <1>t, <2>1, <2>2, <3>1, <3>3 DEF LiveCreates
      <4>2. CASE k = j
        BY Zenon, <1>0, <1>t, <2>1, <2>2, <3>1, <4>1, <4>2 DEF ResumesCounted
      <4>3. CASE k # j /\ q = pod[j]
        <5>1. resends[q] \in Nat /\ ~(resends[q] > 0)
          BY <1>t, <2>1, <4>1, <4>3 DEF ResentIsAlone
        <5> QED
          BY <1>t, <2>1, <3>1, <4>1, <4>3, <5>1
      <4>4. CASE k # j /\ q # pod[j]
        BY Zenon, <1>0, <1>t, <2>1, <3>1, <4>1, <4>4 DEF ResumesCounted
      <4> QED
        BY Zenon, <4>2, <4>3, <4>4
    <3>4. ResumesCounted'
      BY Zenon, <1>0, <2>1, <2>2, <3>3 DEF ResumesCounted
    <3> QED
      BY Zenon, <3>2, <3>4
  <2> QED
    BY Zenon, <2>3, <2>4
<1>5. ASSUME NEW j \in Job, WriteRecord(j) PROVE Goal
  <2>1. /\ phase # "sweep" /\ report # "ready" /\ j \in LiveCreates(pod[j]) /\ pod[j] \in Pod
        /\ pod[j] \notin due /\ UNCHANGED <<kind, pod, resends, due, listing, phase, report>>
    BY Zenon, <1>2, <1>3, <1>5 DEF CreateStep
  <2>2. /\ pc[j] = "write" /\ pc' = [pc EXCEPT ![j] = "drive"] /\ UNCHANGED <<carry, count>>
        /\ \/ recorded' = recorded \cup {pod[j]} /\ resumes' = [resumes EXCEPT ![pod[j]] = carry[j]]
           \/ UNCHANGED <<recorded, resumes>>
    BY Zenon, <1>5 DEF WriteRecord, Goto
  <2>3. resends[pod[j]] <= carry[j]
    BY Zenon, <1>0, <2>1, <2>2 DEF ResumesCounted
  <2>4. \A q \in Pod : \A k \in LiveCreates(q)' : k \in LiveCreates(q) /\ pc'[k] \in {pc[k], "drive"}
    BY Zenon, <1>t, <2>1, <2>2 DEF LiveCreates, Tracked
  <2>5. ResumesCounted'
    BY <1>0, <1>t, <2>1, <2>2, <2>3, <2>4 DEF ResumesCounted
  <2>6. NextResumeCounted'
    BY Zenon, <1>0, <1>t, <2>1, <2>2 DEF NextResumeCounted
  <2> QED
    BY Zenon, <2>5, <2>6
<1>6. ASSUME NEW j \in Job,
             CacheRented(j) \/ ReplyCreate(j) \/ RaiseCreate(j) \/ UntrackCreate(j) \/ LeaveCreate(j)
      PROVE  Goal
  <2>1. UNCHANGED <<kind, pod, resends, due, listing, phase, report>>
    BY Zenon, <1>2, <1>6 DEF CreateStep
  <2>2. /\ \E v \in {"up", "untrack", "leave", "done"} : pc' = [pc EXCEPT ![j] = v]
        /\ pc[j] \in {"drive", "up", "untrack", "leave"} /\ recorded' \subseteq recorded
        /\ UNCHANGED <<resumes, carry, count>>
    BY Zenon, <1>6 DEF CacheRented, ReplyCreate, RaiseCreate, UntrackCreate, LeaveCreate, Goto, redis
  <2>3. \A q \in Pod : \A k \in LiveCreates(q)' :
            pc'[k] \in {"claim", "write"} => k \in LiveCreates(q) /\ pc'[k] = pc[k]
    BY Zenon, <1>t, <2>1, <2>2 DEF LiveCreates, Tracked
  <2> QED
    BY Zenon, <1>0, <2>1, <2>2, <2>3 DEF ResumesCounted, NextResumeCounted
<1>7. ASSUME NEW j \in Job, DeleteStep(j) PROVE Goal
  <2>1. /\ \E l \in Deleting \cup {"done"} : pc' = [pc EXCEPT ![j] = l]
        /\ recorded' \subseteq recorded
        /\ UNCHANGED <<resumes, carry, count, kind, pod, resends, due, listing, phase, report>>
    BY Zenon, <1>7, DeleteMoves
  <2>2. \A q \in Pod : \A k \in LiveCreates(q)' : k \in LiveCreates(q) /\ pc'[k] = pc[k]
    BY Zenon, <1>t, <2>1 DEF LiveCreates, Tracked, Deleting
  <2> QED
    BY Zenon, <1>0, <2>1, <2>2 DEF ResumesCounted, NextResumeCounted
<1>8. CASE Restart
  <2>1. UNCHANGED <<recorded, resumes, resends, kind, pod>> /\ phase' = "sweep" /\ listing' = {}
    BY Zenon, <1>8, RestartMoves
  <2>2. \A q \in Pod : LiveCreates(q)' = {}
    BY Zenon, <1>8, <1>t, RestartMoves DEF LiveCreates, Tracked, Ended
  <2> QED
    BY Zenon, <1>0, <2>1, <2>2 DEF ResumesCounted, NextResumeCounted
<1>9. CASE Sweep
  <2>1. UNCHANGED <<kind, pod, pc, resends>> /\ phase = "sweep"
    BY Zenon, <1>9, SweepMoves
  <2>2. \A q \in Pod : LiveCreates(q)' = {}
    BY Zenon, <2>1 DEF AloneAtStart, Live, LiveCreates
  <2>3. ASSUME NEW p \in Pod, SweepResume(p) PROVE Goal
    <3>1. /\ p \in todo /\ listing' = listing \cup {p} /\ UNCHANGED <<recorded, phase>>
          /\ resumes' = [resumes EXCEPT ![p] = @ + 1]
          /\ count' = [count EXCEPT ![p] = resumes[p] + 1]
      BY Zenon, <2>3 DEF SweepResume
    <3>2. resends[p] <= resumes[p]
      BY Zenon, <1>0, <2>1, <3>1 DEF ResumesCounted, AloneAtStart
    <3> QED
      BY <1>0, <1>t, <2>1, <2>2, <3>1, <3>2 DEF ResumesCounted, NextResumeCounted
  <2>4. CASE ~\E p \in Pod : SweepResume(p)
    <3>1. /\ recorded' \subseteq recorded /\ UNCHANGED <<resumes, count, listing>>
          /\ phase' = "sweep" \/ report' = "ready"
      <4>1. ~SweepAborts
        BY TypeFacts DEF SweepAborts
      <4> QED
        BY Zenon, <1>9, <2>4, <4>1 DEF Sweep, SweepDrop, SweepFail, SweepEnds, redis, registry
    <3> QED
      BY Zenon, <1>0, <2>1, <2>2, <3>1 DEF ResumesCounted, NextResumeCounted
  <2> QED
    BY Zenon, <2>3, <2>4
<1>10. CASE LinkStep
  <2>1. /\ UNCHANGED <<kind, pod, pc, carry, count, listing, resends, resumes>>
        /\ recorded' \in {recorded, recorded \ settling} /\ (UNCHANGED due \/ Connect)
    BY Zenon, <1>10, LinkMoves
  <2>2. \A q \in Pod : LiveCreates(q)' = LiveCreates(q)
    BY Zenon, <2>1 DEF LiveCreates
  <2>3. ResumesCounted'
    BY Zenon, <1>0, <2>1, <2>2 DEF ResumesCounted
  <2>4. CASE Connect
    <3>1. phase = "offline" /\ phase' = "online" /\ report' = "none"
      BY Zenon, <2>4 DEF Connect
    <3>2. due' \subseteq (IF report = "ready" THEN listing ELSE due)
      BY Zenon, <2>4 DEF Connect
    <3> QED
      BY Zenon, <1>0, <2>1, <2>3, <3>1, <3>2 DEF NextResumeCounted
  <2>5. CASE ~Connect
    <3>1. UNCHANGED <<phase, report>> \/ (phase = "online" /\ phase' = "offline" /\ UNCHANGED report)
      BY Zenon, <1>10, <2>5, IdleMoves DEF LinkStep, SendMessage, UntrackReported
    <3> QED
      BY Zenon, <1>0, <2>1, <2>3, <2>5, <3>1 DEF NextResumeCounted
  <2> QED
    BY Zenon, <2>4, <2>5
<1> QED
  BY Zenon, <1>1, <1>4, <1>5, <1>6, <1>7, <1>8, <1>9, <1>10, Steps DEF CreateStep

\* A counted resume is within the bound.
LEMMA StepBound ==
    /\ TypeOK /\ AloneAtStart /\ ResumeBound
    /\ aborts = 0 => ResumesCounted /\ NextResumeCounted
    /\ [Next]_vars
    => ResumeBound'
<1> SUFFICES ASSUME TypeOK, AloneAtStart, ResumeBound,
                    aborts = 0 => ResumesCounted /\ NextResumeCounted, [Next]_vars
             PROVE  ResumeBound'
  BY Zenon
<1>t. /\ count \in [Pod -> 0..MaxResumes] /\ pod \in [Job -> Pod] /\ due \subseteq Pod
      /\ resends \in [Pod -> Nat] /\ aborts \in Nat /\ MaxResumes \in Nat
  BY Zenon, TypeFacts, InflightAssumption
<1>1. ASSUME NEW j \in Job, BackendStep(j) PROVE ResumeBound'
  <2>1. aborts' = aborts /\ phase = "online"
    BY Zenon, <1>1, BackendMoves
  <2>2. ASSUME aborts = 0, NEW p \in Pod PROVE resends'[p] <= MaxResumes
    <3>0. resends[p] <= MaxResumes
      BY Zenon, <2>2 DEF ResumeBound
    <3>1. CASE Rent(j)
      BY <1>t, <3>0, <3>1 DEF Rent
    <3>2. CASE Remove(j)
      BY Zenon, <3>0, <3>2 DEF Remove
    <3>3. CASE Resend(j)
      <4>1. pod[j] \in due /\ resends' = [resends EXCEPT ![pod[j]] = @ + 1]
        BY Zenon, <3>3 DEF Resend
      <4>2. resends[pod[j]] < count[pod[j]]
        BY Zenon, <1>t, <2>1, <2>2, <4>1 DEF NextResumeCounted, AloneAtStart
      <4> QED
        BY <1>t, <3>0, <4>1, <4>2
    <3> QED
      BY Zenon, <1>1, <3>1, <3>2, <3>3 DEF BackendStep
  <2> QED
    BY Zenon, <2>1, <2>2 DEF ResumeBound
<1>2. CASE UNCHANGED resends
  <2>1. aborts' \in {aborts, aborts + 1}
    BY Zenon, StepEffects
  <2> QED
    BY <1>2, <1>t, <2>1 DEF ResumeBound
<1> QED
  BY Zenon, <1>1, <1>2, StepEffects

\* Every reachable state satisfies the invariant of the resumes.
LEMMA ResumeInvInvariant == Spec => []ResumeInv
<1>1. Init => ResumeInv
  BY InflightAssumption
  DEF Init, ResumeInv, TypeOK, RedisType, RegistryType, LinkType, BackendType,
     HistoryType, KindFits,
      AloneAtStart, DueIsNotRunning, ResentIsAlone, ResumesCounted, NextResumeCounted,
      DeletedPodHasCreate, ResumeBound, LiveCreates, Live, Tracked, Deleting, Ended, PCs
<1>2. ResumeInv /\ [Next]_vars => ResumeInv'
  BY Zenon, StepType, StepPlaces, StepDeleted, StepAlone, StepCounted, StepBound DEF ResumeInv
<1> QED
  BY <1>1, <1>2, PTL DEF Spec

\* However often connectors die and Redis writes fail, the backend sends one create again at
\* most MAX_CREATE_RESUMES times, unless a start's sweep raised.
THEOREM ResumesBounded == Spec => []ResumeBound
<1>1. ResumeInv => ResumeBound
  BY Zenon DEF ResumeInv
<1> QED
  BY <1>1, ResumeInvInvariant, PTL

-----------------------------------------------------------------------------
\* Without a failed call every step of the connector keeps what the records rest on.
LEMMA StepRecord ==
    ASSUME ~Retries, ResumeInv, RecordInv, [Next]_vars, faults = 0, faults' = 0
    PROVE  RecordInv'
<1>i. TypeOK /\ KindFits /\ AloneAtStart /\ DueIsNotRunning
  BY Zenon DEF ResumeInv
<1>t. /\ pc \in [Job -> PCs] /\ current \in [Pod -> Job \cup {NoJob}] /\ pod \in [Job -> Pod]
      /\ want \in [Pod -> {"none", "waiting", "up", "failed", "deleted"}] /\ due \subseteq Pod
      /\ listing \subseteq Pod /\ todo \subseteq Pod /\ recorded \subseteq Pod /\ deleted \subseteq Pod
      /\ sends \in Nat
  BY Zenon, <1>i, TypeFacts
<1>v. Listed /\ OnePerPod /\ Known /\ GivenUp /\ DeletesKnown /\ RunningCreateRecorded
  BY Zenon DEF RecordInv
<1>c. \A p \in Pod : UNCHANGED <<queue, settling>> => Cut(p)' = Cut(p)
  BY Zenon, <1>i, CutKeeps
<1>1. ASSUME NEW j \in Job, BackendStep(j) PROVE RecordInv'
  <2>1. /\ UNCHANGED <<kind, pod, recorded, report, phase, todo, listing, deleted, faults>> /\ phase = "online"
        /\ pc' = [pc EXCEPT ![j] = "claim"] /\ pc[j] = "idle" /\ UNCHANGED <<queue, settling>>
    BY Zenon, <1>1, BackendMoves
  <2>2. (\A p \in Pod : Cut(p)' = Cut(p)) /\ pod[j] \in Pod
    BY Zenon, <1>c, <1>t, <2>1
  <2>3. CASE Rent(j) \/ Resend(j)
    <3>1. /\ kind[j] = "create" /\ current' = [current EXCEPT ![pod[j]] = j] /\ due' = due \ {pod[j]}
          /\ want' = [want EXCEPT ![pod[j]] = "waiting"]
      BY <1>t, <2>3 DEF Rent, Resend
    <3>2. LiveCreates(pod[j]) = {} /\ ~Cut(pod[j]) /\ want[pod[j]] # "deleted"
      <4>1. CASE Rent(j)
        BY Zenon, <1>v, <2>2, <4>1 DEF Rent, Known, GivenUp
      <4>2. CASE Resend(j)
        BY Zenon, <1>i, <1>v, <2>1, <2>2, <4>2 DEF Resend, DueIsNotRunning, Listed, GivenUp, AloneAtStart
      <4> QED
        BY Zenon, <2>3, <4>1, <4>2
    <3>3. \A p \in Pod : LiveCreates(p)' = IF p = pod[j] THEN {j} ELSE LiveCreates(p)
      BY Zenon, <1>t, <2>1, <3>1, <3>2 DEF LiveCreates
    <3>4. Listed' /\ OnePerPod' /\ Known' /\ GivenUp'
      BY <1>t, <1>v, <2>1, <2>2, <3>1, <3>2, <3>3 DEF Listed, OnePerPod, Known, GivenUp
    <3>5. DeletesKnown' /\ RunningCreateRecorded'
      BY Zenon, <1>t, <1>v, <2>1, <3>1, <3>2 DEF DeletesKnown, RunningCreateRecorded
    <3> QED
      BY Zenon, <3>4, <3>5 DEF RecordInv
  <2>4. CASE Remove(j)
    <3>1. /\ kind[j] = "delete" /\ UNCHANGED <<current, due>>
          /\ want' = [want EXCEPT ![pod[j]] = "deleted"]
      BY Zenon, <2>4 DEF Remove
    <3>2. \A p \in Pod : LiveCreates(p)' = LiveCreates(p)
      BY Zenon, <1>t, <2>1, <3>1 DEF LiveCreates, Tracked
    <3>3. Listed' /\ OnePerPod' /\ Known' /\ GivenUp'
      BY ZenonT(60), <1>t, <1>v, <2>1, <2>2, <3>1, <3>2 DEF Listed, OnePerPod, Known, GivenUp
    <3>4. DeletesKnown' /\ RunningCreateRecorded'
      BY Zenon, <1>t, <1>v, <2>1, <3>1 DEF DeletesKnown, RunningCreateRecorded
    <3> QED
      BY Zenon, <3>3, <3>4 DEF RecordInv
  <2> QED
    BY Zenon, <1>1, <2>3, <2>4 DEF BackendStep
<1>2. ASSUME NEW j \in Job, CreateStep(j) \/ DeleteStep(j) PROVE RecordInv'
  <2>1. /\ UNCHANGED <<kind, pod, sends, want, current, due, settling, report, phase, todo, listing>>
        /\ \E l : pc' = [pc EXCEPT ![j] = l]
    BY Zenon, <1>2, JobMoves
  <2>t. pod[j] \in Pod /\ j \in Job
    BY Zenon, <1>t
  <2>2. \A p \in Pod : Cut(p)' => Cut(p)
    <3>1. \A t \in {"created", "failed", "deleted"} :
             LET m == [type |-> t, pod |-> pod[j], job |-> j] IN m \in Message /\ m.type # "cutoff"
      BY Zenon, <2>t DEF Message
    <3>2. CASE UNCHANGED queue
      BY Zenon, <1>c, <2>1, <3>2
    <3>3. CASE ReplyCreate(j)
      <4>1. \E t \in {"created", "failed"} : queue' = Append(queue, [type |-> t, pod |-> pod[j], job |-> j])
        BY Zenon, <3>3 DEF ReplyCreate, Enqueue
      <4> QED
        BY Zenon, <1>i, <2>1, <3>1, <4>1, CutKeeps
    <3>4. CASE FinishDelete(j)
      <4>1. queue' = Append(queue, [type |-> "deleted", pod |-> pod[j], job |-> j])
        BY Zenon, <3>4 DEF FinishDelete, Enqueue
      <4> QED
        BY Zenon, <1>i, <2>1, <3>1, <4>1, CutKeeps
    <3> QED
      BY Zenon, <1>2, <3>2, <3>3, <3>4, JobMoves
  <2>3. \A p \in Pod : LiveCreates(p)' \subseteq LiveCreates(p)
    <3>1. \A k \in Job : ~BackendStep(k)
      <4>1. \A k \in Job : BackendStep(k) => sends' = sends + 1
        BY Zenon, BackendMoves
      <4> QED
        BY <1>t, <2>1, <4>1
    <3> QED
      BY Zenon, <1>i, <3>1, LiveShrinks
  <2>4. \A p \in recorded' : p \in recorded \/ LiveCreates(p) # {}
    <3>1. CASE WriteRecord(j)
      <4>1. j \in LiveCreates(pod[j])
        BY Zenon, <1>i, <3>1 DEF WriteRecord, LiveCreates, Tracked, KindFits
      <4> QED
        BY Zenon, <3>1, <4>1 DEF WriteRecord
    <3> QED
      BY Zenon, <1>2, <3>1, JobMoves
  <2>5. Listed' /\ OnePerPod' /\ Known' /\ GivenUp'
    BY Zenon, <1>t, <1>v, <2>1, <2>2, <2>3, <2>4 DEF Listed, OnePerPod, Known, GivenUp
  <2>c. CreateStep(j) => kind[j] = "create" /\ deleted' \subseteq deleted
    BY Zenon, <1>i, CreateMoves DEF KindFits
  <2>d. DeleteStep(j) => /\ kind[j] = "delete" /\ pc[j] \in {"claim"} \cup Deleting
                         /\ deleted' \subseteq deleted \cup {pod[j]} /\ recorded \ {pod[j]} \subseteq recorded'
    BY Zenon, <1>i, DeleteMoves DEF KindFits
  <2>6. DeletesKnown'
    <3>1. CASE kind[j] = "create" /\ deleted' \subseteq deleted
      BY Zenon, <1>t, <1>v, <2>1, <3>1 DEF DeletesKnown
    <3>2. CASE kind[j] = "delete" /\ pc[j] \in {"claim"} \cup Deleting /\ deleted' \subseteq deleted \cup {pod[j]}
      BY Zenon, <1>t, <1>v, <2>1, <3>2 DEF DeletesKnown
    <3> QED
      BY Zenon, <1>2, <2>c, <2>d, <3>1, <3>2
  <2>7. RunningCreateRecorded'
    <3>1. CASE BeginCreate(j)
      <4>1. UNCHANGED recorded /\ pc' = [pc EXCEPT ![j] = IF pod[j] \in deleted THEN "drive" ELSE "write"]
        BY Zenon, <3>1 DEF BeginCreate, Goto, redis
      <4> QED
        BY Zenon, <1>t, <1>v, <2>1, <4>1 DEF DeletesKnown, RunningCreateRecorded
    <3>2. CASE WriteRecord(j)
      <4>1. faults' # faults + 1
        BY DEF ResumeInv
      <4>2. recorded' = recorded \cup {pod[j]}
        BY Zenon, <3>2, <4>1 DEF WriteRecord, Fault
      <4> QED
        BY Zenon, <1>t, <1>v, <2>1, <4>2 DEF RunningCreateRecorded
    <3>3. CASE UntrackCreate(j)
      <4>1. pc[j] = "untrack" /\ pc' = [pc EXCEPT ![j] = "leave"] /\ recorded \ {pod[j]} \subseteq recorded'
        BY Zenon, <3>3 DEF UntrackCreate, Goto
      <4>2. \A k \in Job : kind[k] = "create" /\ pod[k] = pod[j] /\ pc[k] \in {"drive", "up"} => k = j
        BY SMTT(30), <1>i, <1>t, <1>v, <4>1 DEF OnePerPod, LiveCreates, Tracked, KindFits
      <4> QED
        BY Zenon, <1>t, <1>v, <2>1, <4>1, <4>2 DEF RunningCreateRecorded
    <3>4. CASE DeleteStep(j)
      BY Zenon, <1>t, <1>v, <2>1, <2>d, <3>4 DEF DeletesKnown, RunningCreateRecorded
    <3>5. CASE CacheRented(j) \/ ReplyCreate(j) \/ RaiseCreate(j) \/ LeaveCreate(j)
      <4>1. /\ UNCHANGED recorded /\ \E l \in {"up", "untrack", "done"} : pc' = [pc EXCEPT ![j] = l]
            /\ pc[j] \in {"drive", "up"} \/ pc' = [pc EXCEPT ![j] = "done"]
        BY Zenon, <3>5 DEF CacheRented, ReplyCreate, RaiseCreate, LeaveCreate, Goto, redis
      <4> QED
        BY Zenon, <1>t, <1>v, <2>1, <4>1 DEF RunningCreateRecorded
    <3> QED
      BY Zenon, <1>2, <3>1, <3>2, <3>3, <3>4, <3>5 DEF CreateStep
  <2> QED
    BY Zenon, <2>5, <2>6, <2>7 DEF RecordInv
<1>3. CASE Connect \/ SendMessage
  <2>1. UNCHANGED <<kind, pod, pc, recorded, current, deleted, todo, listing>>
    BY Zenon, <1>3 DEF Connect, SendMessage, redis, registry
  <2>2. \A p \in Pod : LiveCreates(p)' = LiveCreates(p)
    BY Zenon, <2>1 DEF LiveCreates
  <2>3. \A p \in Pod : Cut(p)' => Cut(p)
    <3>1. Connect => UNCHANGED <<queue, settling>>
      BY Zenon DEF Connect
    <3> QED
      BY Zenon, <1>3, <1>c, <1>i, <3>1, CutKeeps
  <2>4. \A p \in Pod : want'[p] \in {want[p]} \cup (IF want[p] = "waiting" THEN {"up", "failed"} ELSE {})
    <3>1. CASE Connect
      BY Zenon, <1>t, <3>1 DEF Connect
    <3>2. CASE SendMessage
      BY Zenon, <1>t, <3>2 DEF SendMessage, Settled
    <3> QED
      BY Zenon, <1>3, <3>1, <3>2
  <2>5. Listed' /\ (due' \subseteq due \cup listing)
    BY Zenon, <1>3, <1>v, <2>1 DEF Connect, SendMessage, Listed
  <2>6. OnePerPod' /\ Known' /\ GivenUp'
    BY Zenon, <1>t, <1>v, <2>1, <2>2, <2>3, <2>4, <2>5 DEF OnePerPod, Known, GivenUp
  <2>7. DeletesKnown' /\ RunningCreateRecorded'
    BY ZenonT(60), <1>t, <1>v, <2>1, <2>4 DEF DeletesKnown, RunningCreateRecorded
  <2> QED
    BY Zenon, <2>5, <2>6, <2>7 DEF RecordInv
<1>4. CASE Restart
  <2>1. \A p \in Pod : LiveCreates(p)' = {} /\ ~Cut(p)'
    BY <1>4, <1>t, RestartMoves DEF LiveCreates, Tracked, Ended, Cut
  <2>2. /\ UNCHANGED <<kind, pod, want, current, due, recorded>> /\ deleted' = {}
        /\ phase' = "sweep" /\ todo' = recorded /\ listing' = {}
    BY Zenon, <1>4, RestartMoves
  <2>3. Listed' /\ OnePerPod' /\ Known' /\ GivenUp'
    BY Zenon, <1>v, <2>1, <2>2 DEF Listed, OnePerPod, Known, GivenUp
  <2>4. DeletesKnown' /\ RunningCreateRecorded'
    BY Zenon, <1>4, <1>t, RestartMoves DEF DeletesKnown, RunningCreateRecorded, Deleting, Ended
  <2> QED
    BY Zenon, <2>3, <2>4 DEF RecordInv
<1>5. CASE Sweep
  <2>1. phase = "sweep" /\ UNCHANGED <<kind, pod, want, current, due, pc, deleted, settling>>
    BY Zenon, <1>5, SweepMoves
  <2>2. \/ \E p \in Pod : /\ p \in todo /\ todo' = todo \ {p} /\ listing' \in {listing, listing \cup {p}}
                           /\ recorded' \in {recorded, recorded \ {p}} /\ UNCHANGED phase
        \/ todo' = todo /\ UNCHANGED <<listing, recorded>> /\ report' = "ready"
    <3>1. ~SweepAborts
      BY DEF SweepAborts
    <3> QED
      BY Zenon, <1>5, <3>1, SweepMoves
  <2>3. (\A j \in Job : pc[j] \notin Live) /\ \A p \in Pod : LiveCreates(p)' = {}
    BY Zenon, <1>i, <2>1 DEF AloneAtStart, LiveCreates, Live
  <2>4. OnePerPod' /\ DeletesKnown' /\ RunningCreateRecorded'
    BY Zenon, <1>v, <2>1, <2>3 DEF OnePerPod, DeletesKnown, RunningCreateRecorded, Live, Tracked
  <2>5. Listed'
    BY Zenon, <1>v, <2>1, <2>2 DEF Listed
  <2>6. Known'
    BY Zenon, <1>v, <2>1, <2>2, <2>3 DEF Known
  <2>7. GivenUp'
    <3>1. ASSUME NEW q \in Pod, SweepFail(q) PROVE GivenUp'
      <4>1. /\ q \in todo /\ todo' = todo \ {q} /\ UNCHANGED <<listing, settling>>
            /\ queue' = Append(queue, [type |-> "cutoff", pod |-> q, job |-> NoJob])
        BY Zenon, <3>1 DEF SweepFail, Enqueue
      <4>2. \A p \in Pod : p # q /\ Cut(p)' => Cut(p)
        BY Zenon, <1>i, <4>1, CutKeeps DEF Message
      <4>3. want[q] # "none" /\ q \notin listing
        BY Zenon, <1>v, <4>1 DEF Known, Listed
      <4> QED
        BY Zenon, <1>v, <2>1, <2>3, <4>1, <4>2, <4>3 DEF GivenUp
    <3>2. CASE ~\E q \in Pod : SweepFail(q)
      <4>1. UNCHANGED <<queue, settling>>
        BY Zenon, <1>5, <3>2, SweepMoves
      <4>2. listing' \cup todo' \subseteq listing \cup todo
        BY Zenon, <2>2
      <4> QED
        BY Zenon, <1>c, <1>v, <2>1, <2>3, <4>1, <4>2 DEF GivenUp
    <3> QED
      BY Zenon, <3>1, <3>2
  <2> QED
    BY Zenon, <2>4, <2>5, <2>6, <2>7 DEF RecordInv
<1>6. CASE UntrackReported
  BY Zenon, <1>6, <1>i, UntrackKeepsRecords
<1>7. CASE Disconnect \/ (\E p \in Pod : Ages(p)) \/ UNCHANGED vars
  BY Zenon, <1>7, <1>i, IdleKeepsRecords
<1> QED
  BY Zenon, <1>1, <1>2, <1>3, <1>4, <1>5, <1>6, <1>7, Steps DEF LinkStep

\* While every Redis call succeeds and the backend sends one create of a pod, a create that
\* runs and was not deleted has its record (add_inflight_backend_create): a start finds it.
THEOREM RunningAreRecorded ==
    ASSUME ~Retries PROVE Spec => []RunningCreateRecorded
<1>1. Init => RecordInv
  BY Zenon, RecordsAtStart
<1>2. ResumeInv /\ (faults = 0 => RecordInv) /\ [Next]_vars => (faults = 0 => RecordInv)'
  <2> SUFFICES ASSUME ResumeInv, faults = 0 => RecordInv, [Next]_vars, faults' = 0
               PROVE  RecordInv'
    BY Zenon
  <2>1. faults' \in {faults, faults + 1}
    BY Zenon, StepEffects
  <2>2. faults = 0
    BY <2>1, TypeFacts DEF ResumeInv
  <2> QED
    BY Zenon, <2>2, StepRecord
<1>3. (faults = 0 => RecordInv) => RunningCreateRecorded
  BY Zenon DEF RecordInv, RunningCreateRecorded
<1> QED
  BY <1>1, <1>2, <1>3, ResumeInvInvariant, PTL DEF Spec
=============================================================================
