---------------------------- MODULE InflightCreates ----------------------------
(***************************************************************************)
(* Creates across a restart of the connector.  A create job is counted in  *)
(* the in-process registry and recorded in Redis while it runs; a delete   *)
(* job of the same pod removes the record and flags the create.  A         *)
(* connector that starts sweeps the records its predecessor left: what may *)
(* still be resumed is listed in one report, sent first on the next        *)
(* socket, and the backend sends it again; what was resumed too often is   *)
(* reported failed.  The backend fails a waiting create the report does    *)
(* not list.                                                               *)
(*                                                                         *)
(* Every Redis command takes effect in a step of its own; it may raise,    *)
(* which spends one of MaxFaults.  A command's claim (BackendCommands) is  *)
(* the wait a job starts with.                                             *)
(***************************************************************************)
EXTENDS Integers, Sequences

CONSTANTS
    Pod, Job,
    NoJob,        \* the job of a message that answers no command
    MaxResumes,   \* MAX_CREATE_RESUMES
    MaxFaults,    \* bound: Redis calls that raise
    MaxRestarts,  \* bound: connectors that die
    Retries,      \* may the backend send another create of a pod it sent one for
    InOrder       \* are claims answered in the order the commands arrived

ASSUME InflightAssumption ==
    /\ MaxResumes \in Nat /\ MaxFaults \in Nat /\ MaxRestarts \in Nat
    /\ Retries \in BOOLEAN /\ InOrder \in BOOLEAN
    /\ NoJob \notin Job

VARIABLES
    recorded,   \* Redis: pods with an in-flight record
    resumes,    \* Redis: its resume count
    old,        \* Redis: records older than the longest create
    rented,     \* Redis: pods of the rented-machine cache
    pc,         \* where each job stands
    carry,      \* the resume count a create's record is being written with
    deleted,    \* deleted_pod_ids
    count,      \* resume_count_by_pod_id, 0 for no entry
    cancelled,  \* pods whose registry entry a delete flagged
    queue,      \* message_queue
    settling,   \* the pod whose record the send loop is removing, after its report
    report,     \* "ready" while resumed_creates_report is to be sent, else "none"
    phase,      \* "sweep", "offline" or "online"
    todo,       \* records the sweep has not handled yet
    listing,    \* pods the sweep lists, the report's content
    kind, pod,  \* what each job is
    sends,      \* commands the backend sent so far
    sentAt,     \* which of them each job is, 0 for not sent yet
    want,       \* the backend's view of each pod
    current,    \* the job of its last create
    due,        \* listed creates the backend is about to send again
    resends,    \* how often the backend sent the current create again
    gone,       \* history: deletes that reported the pod deleted
    raised,     \* history: pods a job of which raised without an answer
    aborts,     \* history: sweeps that raised
    faults, restarts

redis == <<recorded, resumes, old, rented>>
registry == <<pc, carry, deleted, count, cancelled>>
link == <<queue, settling, report, phase, todo, listing>>
backend == <<kind, pod, sends, sentAt, want, current, due, resends>>
history == <<gone, raised, aborts, faults, restarts>>
vars == <<redis, registry, link, backend, history>>

-----------------------------------------------------------------------------
\* mutant: a create is counted only once its miner is looked up
TrackedLate == {"drive", "up", "untrack", "leave"}

\* between entering and leaving inflight_creates.track
Tracked == {"write", "drive", "up", "untrack", "leave"}
Deleting == {"hdel", "cancel", "wait"}
Ended == {"done", "dead"}
PCs == {"idle", "claim"} \cup Tracked \cup Deleting \cup Ended

Message == [type : {"created", "failed", "cutoff", "deleted"}, pod : Pod, job : Job \cup {NoJob}]

RedisType ==
    /\ recorded \subseteq Pod /\ old \subseteq Pod /\ rented \subseteq Pod
    /\ resumes \in [Pod -> 0..MaxResumes]

RegistryType ==
    /\ pc \in [Job -> PCs]
    /\ carry \in [Job -> 0..MaxResumes] /\ count \in [Pod -> 0..MaxResumes]
    /\ deleted \subseteq Pod /\ cancelled \subseteq Pod

LinkType ==
    /\ queue \in Seq(Message)
    /\ settling \subseteq Pod /\ todo \subseteq Pod /\ listing \subseteq Pod
    /\ report \in {"none", "ready"}
    /\ phase \in {"sweep", "offline", "online"}

BackendType ==
    /\ kind \in [Job -> {"create", "delete"}] /\ pod \in [Job -> Pod]
    /\ sends \in Nat /\ sentAt \in [Job -> 0..sends]
    /\ want \in [Pod -> {"none", "waiting", "up", "failed", "deleted"}]
    /\ current \in [Pod -> Job \cup {NoJob}]
    /\ due \subseteq Pod /\ resends \in [Pod -> Nat]

HistoryType ==
    /\ gone \subseteq Job /\ raised \subseteq Pod /\ aborts \in Nat
    /\ faults \in Nat /\ restarts \in Nat

\* Types; in particular no record counts more than MAX_CREATE_RESUMES resumes
\* (fail_creates_cut_off_by_restart).
TypeOK == RedisType /\ RegistryType /\ LinkType /\ BackendType /\ HistoryType

Creates(p) == {j \in Job : kind[j] = "create" /\ pod[j] = p /\ pc[j] \in Tracked}

\* inflight_creates.is_running, is_only_create
IsRunning(p) == Creates(p) # {}
IsOnlyCreate(j) == Creates(pod[j]) = {j}

Init ==
    /\ recorded = {} /\ old = {} /\ rented = {}
    /\ resumes = [p \in Pod |-> 0] /\ count = [p \in Pod |-> 0]
    /\ pc = [j \in Job |-> "idle"] /\ carry = [j \in Job |-> 0]
    /\ deleted = {} /\ cancelled = {}
    /\ queue = <<>> /\ settling = {} /\ report = "ready" /\ phase = "offline"
    /\ todo = {} /\ listing = {}
    /\ kind \in [Job -> {"create", "delete"}] /\ pod \in [Job -> Pod]
    /\ sends = 0 /\ sentAt = [j \in Job |-> 0]
    /\ want = [p \in Pod |-> "none"] /\ current = [p \in Pod |-> NoJob]
    /\ due = {} /\ resends = [p \in Pod |-> 0]
    /\ gone = {} /\ raised = {} /\ aborts = 0
    /\ faults = 0 /\ restarts = 0

\* a Redis call raises
Fault ==
    /\ faults < MaxFaults
    /\ faults' = faults + 1
    /\ UNCHANGED <<gone, raised, aborts, restarts>>

Goto(j, l) == pc' = [pc EXCEPT ![j] = l]

Enqueue(type, p, j) == queue' = Append(queue, [type |-> type, pod |-> p, job |-> j])

-----------------------------------------------------------------------------
(* The backend, from how the connector uses it.                           *)

Arrive(j) ==
    /\ phase = "online" /\ pc[j] = "idle"
    /\ Goto(j, "claim")
    /\ sends' = sends + 1
    /\ sentAt' = [sentAt EXCEPT ![j] = sends + 1]
    /\ UNCHANGED <<carry, deleted, count, cancelled, kind, pod>>

Rent(j) ==
    LET p == pod[j] IN
    /\ kind[j] = "create"
    /\ want[p] = "none" \/ (Retries /\ want[p] \in {"waiting", "failed"})
    /\ Arrive(j)
    /\ want' = [want EXCEPT ![p] = "waiting"]
    /\ current' = [current EXCEPT ![p] = j]
    /\ due' = due \ {p}
    /\ resends' = [resends EXCEPT ![p] = 0]
    /\ UNCHANGED <<redis, link, history>>

Remove(j) ==
    LET p == pod[j] IN
    /\ kind[j] = "delete"
    /\ want[p] \in {"waiting", "up", "failed"}
    /\ Arrive(j)
    /\ want' = [want EXCEPT ![p] = "deleted"]
    /\ UNCHANGED <<redis, link, history, current, due, resends>>

Resend(j) ==
    LET p == pod[j] IN
    /\ kind[j] = "create"
    /\ p \in due /\ want[p] = "waiting"
    /\ Arrive(j)
    /\ current' = [current EXCEPT ![p] = j]
    /\ due' = due \ {p}
    /\ resends' = [resends EXCEPT ![p] = @ + 1]
    /\ UNCHANGED <<redis, link, history, want>>

\* what the backend makes of a reply; it fences a failure on the create it answers
Settled(m) ==
    IF want[m.pod] # "waiting" THEN want[m.pod]
    ELSE CASE m.type = "created" -> "up"
           [] m.type = "cutoff" \/ (m.type = "failed" /\ m.job = current[m.pod]) -> "failed"
           [] OTHER -> "waiting"

-----------------------------------------------------------------------------
(* The WebSocket.                                                         *)

\* handle_connection: authenticate, then send the report once; a waiting create
\* the report does not list fails
Connect ==
    /\ phase = "offline"
    /\ phase' = "online"
    /\ report' = "none"
    /\ IF report = "ready"
       THEN /\ due' = {p \in listing : want[p] = "waiting"}
            /\ want' = [p \in Pod |->
                           IF want[p] = "waiting" /\ p \notin listing THEN "failed" ELSE want[p]]
       ELSE UNCHANGED <<want, due>>
    /\ UNCHANGED <<redis, registry, queue, settling, todo, listing, history,
                   kind, pod, sends, sentAt, current, resends>>

\* the socket closes, or the report's send fails
Disconnect ==
    /\ phase = "online"
    /\ phase' = "offline"
    /\ UNCHANGED <<redis, registry, queue, settling, report, todo, listing, backend,
                   history>>

\* handle_send_messages; a send that fails puts the message back
SendMessage ==
    /\ phase = "online" /\ queue # <<>> /\ settling = {}
    /\ LET m == Head(queue) IN
       /\ want' = [want EXCEPT ![m.pod] = Settled(m)]
       /\ settling' = IF m.type = "cutoff" THEN {m.pod} ELSE {}
    /\ queue' = Tail(queue)
    /\ UNCHANGED <<redis, registry, report, phase, todo, listing, history,
                   kind, pod, sends, sentAt, current, due, resends>>

\* the record of a create reported failed goes once the report is sent
UntrackReported ==
    /\ settling # {}
    /\ settling' = {}
    /\ \/ recorded' = recorded \ settling /\ old' = old \ settling /\ UNCHANGED history
       \/ Fault /\ UNCHANGED <<recorded, old>>
    /\ UNCHANGED <<resumes, rented, registry, queue, report, phase, todo, listing, backend>>

-----------------------------------------------------------------------------
(* _run_miner_job for a create.                                           *)

InTurn(j) == InOrder => \A k \in Job : pc[k] = "claim" => sentAt[j] <= sentAt[k]

\* mutant: only a create that runs again is recorded
BeginCreateResumed(j) ==
    LET p == pod[j] IN
    /\ kind[j] = "create" /\ pc[j] = "claim" /\ InTurn(j)
    /\ IF p \in deleted \/ count[p] = 0
       THEN Goto(j, "drive") /\ UNCHANGED <<carry, count>>
       ELSE /\ Goto(j, "write")
            /\ carry' = [carry EXCEPT ![j] = count[p]]
            /\ count' = [count EXCEPT ![p] = 0]
    /\ UNCHANGED <<redis, deleted, cancelled, link, backend, history>>

\* mutant: the resumed create is recorded as a first attempt
BeginCreateUncounted(j) ==
    LET p == pod[j] IN
    /\ kind[j] = "create" /\ pc[j] = "claim" /\ InTurn(j)
    /\ IF p \in deleted
       THEN Goto(j, "drive") /\ UNCHANGED <<carry, count>>
       ELSE Goto(j, "write") /\ carry' = [carry EXCEPT ![j] = 0] /\ UNCHANGED count
    /\ UNCHANGED <<redis, deleted, cancelled, link, backend, history>>

\* enter inflight_creates.track; no record for a pod a delete got to first
BeginCreate(j) ==
    LET p == pod[j] IN
    /\ kind[j] = "create" /\ pc[j] = "claim" /\ InTurn(j)
    /\ IF p \in deleted
       THEN Goto(j, "drive") /\ UNCHANGED <<carry, count>>
       ELSE /\ Goto(j, "write")
            /\ carry' = [carry EXCEPT ![j] = count[p]]
            /\ count' = [count EXCEPT ![p] = 0]
    /\ UNCHANGED <<redis, deleted, cancelled, link, backend, history>>

\* add_inflight_backend_create, or its error, which is logged
WriteRecord(j) ==
    /\ pc[j] = "write"
    /\ Goto(j, "drive")
    /\ \/ /\ recorded' = recorded \cup {pod[j]}
          /\ resumes' = [resumes EXCEPT ![pod[j]] = carry[j]]
          /\ old' = old \ {pod[j]}
          /\ UNCHANGED history
       \/ Fault /\ UNCHANGED <<recorded, resumes, old>>
    /\ UNCHANGED <<rented, carry, deleted, count, cancelled, link, backend>>

\* the container is up: the rented-machine cache lists it, best effort
CacheRented(j) ==
    /\ kind[j] = "create" /\ pc[j] = "drive"
    /\ Goto(j, "up")
    /\ \/ rented' = rented \cup {pod[j]} /\ UNCHANGED history
       \/ Fault /\ UNCHANGED rented
    /\ UNCHANGED <<recorded, resumes, old, carry, deleted, count, cancelled, link, backend>>

\* handle_container returned: the reply joins the message queue
ReplyCreate(j) ==
    /\ kind[j] = "create" /\ pc[j] \in {"drive", "up"}
    /\ Goto(j, "untrack")
    /\ Enqueue(IF pc[j] = "up" THEN "created" ELSE "failed", pod[j], j)
    /\ UNCHANGED <<redis, carry, deleted, count, cancelled, settling, report, phase, todo, listing,
                   backend, history>>

\* the miner lookup raises: no reply
RaiseCreate(j) ==
    /\ kind[j] = "create" /\ pc[j] = "drive"
    /\ Goto(j, "untrack")
    /\ raised' = raised \cup {pod[j]}
    /\ UNCHANGED <<redis, carry, deleted, count, cancelled, link, backend,
                   gone, aborts, faults, restarts>>

\* the finally block: remove_inflight_backend_create ...
UntrackCreate(j) ==
    /\ pc[j] = "untrack"
    /\ Goto(j, "leave")
    /\ \/ recorded' = recorded \ {pod[j]} /\ old' = old \ {pod[j]} /\ UNCHANGED history
       \/ Fault /\ UNCHANGED <<recorded, old>>
    /\ UNCHANGED <<resumes, rented, carry, deleted, count, cancelled, link, backend>>

\* mutant: the last create to leave does not forget the delete
LeaveCreateKeeping(j) ==
    /\ pc[j] = "leave"
    /\ Goto(j, "done")
    /\ cancelled' = IF IsOnlyCreate(j) THEN cancelled \ {pod[j]} ELSE cancelled
    /\ UNCHANGED <<redis, carry, deleted, count, link, backend, history>>

\* ... then forget the delete if no other create of the pod runs, and leave the registry
LeaveCreate(j) ==
    /\ pc[j] = "leave"
    /\ Goto(j, "done")
    /\ deleted' = IF IsOnlyCreate(j) THEN deleted \ {pod[j]} ELSE deleted
    /\ cancelled' = IF IsOnlyCreate(j) THEN cancelled \ {pod[j]} ELSE cancelled
    /\ UNCHANGED <<redis, carry, count, link, backend, history>>

-----------------------------------------------------------------------------
(* _run_miner_job for a delete.                                           *)

\* a running create of the pod must not be resumed
BeginDelete(j) ==
    /\ kind[j] = "delete" /\ pc[j] = "claim" /\ InTurn(j)
    /\ Goto(j, "hdel")
    /\ deleted' = IF IsRunning(pod[j]) THEN deleted \cup {pod[j]} ELSE deleted
    /\ UNCHANGED <<redis, carry, count, cancelled, link, backend, history>>

UntrackDeleted(j) ==
    /\ pc[j] = "hdel"
    /\ Goto(j, "cancel")
    /\ \/ recorded' = recorded \ {pod[j]} /\ old' = old \ {pod[j]} /\ UNCHANGED history
       \/ Fault /\ UNCHANGED <<recorded, old>>
    /\ UNCHANGED <<resumes, rented, carry, deleted, count, cancelled, link, backend>>

\* _stop_create_before_delete: inflight_creates.cancel
CancelCreate(j) ==
    /\ pc[j] = "cancel"
    /\ Goto(j, "wait")
    /\ cancelled' = IF IsRunning(pod[j]) THEN cancelled \cup {pod[j]} ELSE cancelled
    /\ UNCHANGED <<redis, carry, deleted, count, link, backend, history>>

\* the create left, or the 30 s wait ran out: the pod is removed and reported deleted
FinishDelete(j) ==
    /\ pc[j] = "wait"
    /\ Goto(j, "done")
    /\ rented' = rented \ {pod[j]}
    /\ gone' = gone \cup {j}
    /\ Enqueue("deleted", pod[j], j)
    /\ UNCHANGED <<recorded, resumes, old, carry, deleted, count, cancelled,
                   settling, report, phase, todo, listing, backend, raised, aborts, faults, restarts>>

\* the miner or the node is out of reach: the delete is answered failed, or not at all
FailDelete(j) ==
    /\ pc[j] \in {"cancel", "wait"}
    /\ Goto(j, "done")
    /\ UNCHANGED <<redis, carry, deleted, count, cancelled, link, backend, history>>

-----------------------------------------------------------------------------
(* Death and start of a connector.                                        *)

\* the record was written longer ago than any create takes
Ages(p) ==
    /\ p \in recorded \ old /\ ~IsRunning(p)
    /\ old' = old \cup {p}
    /\ UNCHANGED <<recorded, resumes, rented, registry, link, backend, history>>

Restart ==
    /\ restarts < MaxRestarts
    /\ restarts' = restarts + 1
    /\ pc' = [j \in Job |-> IF pc[j] = "idle" \/ pc[j] \in Ended THEN pc[j] ELSE "dead"]
    /\ deleted' = {} /\ cancelled' = {}
    /\ count' = [p \in Pod |-> 0]
    /\ queue' = <<>> /\ settling' = {} /\ report' = "none"
    /\ phase' = "sweep" /\ todo' = recorded /\ listing' = {}
    /\ UNCHANGED <<redis, carry, backend, gone, raised, aborts, faults>>

\* the create ended and its record stayed behind: drop the record, an error is logged
SweepDrop(p) ==
    /\ phase = "sweep" /\ p \in todo
    /\ p \in rented \cup old
    /\ todo' = todo \ {p}
    /\ \/ recorded' = recorded \ {p} /\ old' = old \ {p} /\ UNCHANGED history
       \/ Fault /\ UNCHANGED <<recorded, old>>
    /\ UNCHANGED <<resumes, rented, registry, queue, settling, report, phase, listing,
                   backend>>

\* it may be resumed: count the resume in its record and list it
SweepResume(p) ==
    /\ phase = "sweep" /\ p \in todo
    /\ p \notin rented \cup old
    /\ resumes[p] < MaxResumes
    /\ todo' = todo \ {p}
    /\ listing' = listing \cup {p}
    /\ resumes' = [resumes EXCEPT ![p] = @ + 1]
    /\ count' = [count EXCEPT ![p] = resumes[p] + 1]
    /\ UNCHANGED <<recorded, old, rented, pc, carry, deleted, cancelled,
                   queue, settling, report, phase, backend, history>>

\* it was resumed often enough: report it failed, its record stays until that is sent
SweepFail(p) ==
    /\ phase = "sweep" /\ p \in todo
    /\ p \notin rented \cup old
    /\ resumes[p] >= MaxResumes
    /\ todo' = todo \ {p}
    /\ Enqueue("cutoff", p, NoJob)
    /\ UNCHANGED <<redis, registry, settling, report, phase, listing, backend, history>>

\* mutant: a sweep that lists nothing reports nothing
SweepEndsSilent ==
    /\ phase = "sweep" /\ todo = {}
    /\ phase' = "offline"
    /\ report' = IF listing = {} THEN "none" ELSE "ready"
    /\ UNCHANGED <<redis, registry, queue, settling, todo, listing, backend, history>>

SweepEnds ==
    /\ phase = "sweep" /\ todo = {}
    /\ phase' = "offline"
    /\ report' = "ready"
    /\ UNCHANGED <<redis, registry, queue, settling, todo, listing, backend, history>>

\* reading the records, a pending-pod flag or a rewritten record raises: the sweep
\* stops where it is, with no report, and the connector starts all the same
SweepAborts ==
    /\ phase = "sweep"
    /\ faults < MaxFaults
    /\ phase' = "offline"
    /\ todo' = {}
    /\ aborts' = aborts + 1 /\ faults' = faults + 1
    /\ UNCHANGED <<redis, registry, queue, settling, report, listing, backend, gone,
                   raised, restarts>>

-----------------------------------------------------------------------------
BackendStep(j) == Rent(j) \/ Remove(j) \/ Resend(j)

CreateStep(j) ==
    \/ BeginCreate(j) \/ WriteRecord(j) \/ CacheRented(j) \/ ReplyCreate(j)
    \/ RaiseCreate(j) \/ UntrackCreate(j) \/ LeaveCreate(j)

DeleteStep(j) ==
    \/ BeginDelete(j) \/ UntrackDeleted(j) \/ CancelCreate(j) \/ FinishDelete(j) \/ FailDelete(j)

Sweep == (\E p \in Pod : SweepDrop(p) \/ SweepResume(p) \/ SweepFail(p)) \/ SweepEnds \/ SweepAborts

Next ==
    \/ \E j \in Job : BackendStep(j) \/ CreateStep(j) \/ DeleteStep(j)
    \/ Connect \/ Disconnect \/ SendMessage \/ UntrackReported
    \/ Restart \/ Sweep
    \/ \E p \in Pod : Ages(p)

Spec == Init /\ [][Next]_vars

-----------------------------------------------------------------------------
\* deleted_pod_ids names only pods with a create in the registry: a delete is
\* forgotten with the last create it hit, so a later create of the pod is recorded again.
DeletedPodHasCreate == \A p \in deleted : IsRunning(p)

\* A create that keeps killing its connector is sent again at most MAX_CREATE_RESUMES
\* times, whatever Redis writes fail in between, unless a start's sweep raised: the count
\* lives in the record, and in resume_count_by_pod_id, which only the sweep fills.
ResumeBound == aborts = 0 => \A p \in Pod : resends[p] <= MaxResumes

\* While every Redis call succeeds and the backend sends one create of a pod, a create
\* that is being driven and was not deleted has its record, so a restart will find it.
RunningCreateRecorded ==
    \A j \in Job :
        /\ kind[j] = "create" /\ pc[j] \in {"drive", "up"}
        /\ faults = 0 /\ want[pod[j]] # "deleted"
        => pod[j] \in recorded

Quiet ==
    /\ phase = "online" /\ queue = <<>> /\ settling = {}
    /\ \A j \in Job : pc[j] \in {"idle", "done", "dead"}

\* Once the connector is connected with nothing left to do, the backend waits only for
\* a create it is about to send again, or whose job raised without an answer; a create
\* lost with a connector is never waited for, unless the start's sweep itself raised.
NobodyWaitsInVain ==
    Quiet => \A p \in Pod : want[p] = "waiting" => p \in due \cup raised \/ aborts > 0

\* A delete that reported its pod gone left no create sent before it running unflagged:
\* each has ended or tears itself down at its next checkpoint (_InflightCreateRegistry).
NoCreateOutlivesDelete ==
    \A d \in gone, j \in Job :
        /\ kind[j] = "create" /\ pod[j] = pod[d] /\ 0 < sentAt[j] /\ sentAt[j] < sentAt[d]
        => pc[j] \in Ended \/ pod[j] \in cancelled
=============================================================================
