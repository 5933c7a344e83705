--------------------------- MODULE VerificationLanes ---------------------------
(***************************************************************************)
(* The two lanes that verify nodes in the validator's process: the wave of *)
(* a cycle, one request per miner, and the express lane, which verifies    *)
(* new nodes ahead of the cycle.  They share in_flight, the queue of the   *)
(* express lane, the miners whose list the wave still awaits, the cycle's  *)
(* job-file directories and, in Redis, the set of validated nodes.  Every  *)
(* action runs from one await to the next.                                 *)
(*                                                                         *)
(* A cycle's batch id and its directory are one name of Batch; a name is   *)
(* used again once nothing refers to it, so the cycles never end.          *)
(***************************************************************************)
EXTENDS Integers, FiniteSets

CONSTANTS
    Node, Miner, Batch,
    MinerOf,      \* the miner of each node
    Known,        \* nodes registered long before the first cycle since start
    NoBatch,
    MaxInFlight,  \* EXPRESS_LANE_MAX_IN_FLIGHT
    MaxPerMiner,  \* EXPRESS_LANE_MAX_IN_FLIGHT_PER_MINER
    MaxAttempts,  \* MAX_ATTEMPTS
    MaxRuns,      \* FIRST_PASS_MAX_RUNS
    MaxRechecks,  \* RECHECK_MAX_RUNS
    MaxFaults     \* bound: calls that fail, nodes or files removed, rechecks asked for

ASSUME LanesAssumption ==
    /\ MinerOf \in [Node -> Miner] /\ Known \subseteq Node /\ NoBatch \notin Batch
    /\ IsFiniteSet(Node) /\ MaxInFlight \in Nat /\ MaxPerMiner \in Nat /\ MaxFaults \in Nat
    /\ MaxAttempts \in Nat \ {0, 1} /\ MaxRuns \in Nat \ {0, 1} /\ MaxRechecks \in Nat \ {0}

VARIABLES
    listed,       \* nodes the portal lists for this validator
    validated,    \* Redis: EXPRESS_LANE_VALIDATED_SET
    rechecks,     \* Redis: EXPRESS_LANE_RECHECK_REQUESTS_SET
    cycle,        \* batch of cycle_inputs, NoBatch before the first cycle
    stage,        \* where sync() is
    late,         \* "yes" once too little of the cycle is left for a recheck
    ticked,       \* "yes" once a tick that selected with every list in is over
    dirs,         \* job-file directories that exist
    inFlight,     \* in_flight: "no", "cycle", "done" or "express"
    awaiting,     \* miners_awaiting_wave_list
    req,          \* where the wave's request of a batch to a miner is
    claims,       \* the nodes it runs, or is cleaning up after
    results,      \* nodes the cycle has a result of
    pending,      \* the express lane's queue, _pending, which the wave reads too
    attempts, failedRuns, notBefore,  \* fields of its entries
    left,         \* _left_to_cycle
    runs,         \* _recheck_runs
    tick,         \* where the lane's tick is
    tickCycle,    \* the batch of the inputs it started with
    listing, seen,  \* the listed and the validated nodes it has read
    chosen,       \* the nodes it selected
    requested,    \* those of them a recheck was requested of
    ver,          \* where the lane's verification of a node is
    inputs,       \* the batch whose files it uses
    deadline,     \* verifications with a recheck deadline
    holds,        \* _directories_in_use
    lost,         \* history: directories somebody else removed
    faults

redis == <<validated, rechecks>>
sync == <<cycle, stage, late, ticked, dirs>>
wave == <<awaiting, req, claims, results>>
queue == <<pending, attempts, failedRuns, notBefore, left, runs>>
lane == <<tick, tickCycle, listing, seen, chosen, requested>>
verification == <<ver, inputs, deadline, holds>>
vars == <<listed, redis, sync, inFlight, wave, queue, lane, verification, lost, faults>>

Lane == {"no", "cycle", "done", "express"}
Request == {"asked", "running", "ended", "cancelled"}
Verification == {"no", "run", "mark"}
Stage == {"idle", "queueing", "wave", "publish", "forget"}

TypeOK ==
    /\ listed \subseteq Node /\ validated \subseteq Node /\ rechecks \subseteq Node
    /\ cycle \in Batch \cup {NoBatch} /\ stage \in Stage /\ late \in {"yes", "no"}
    /\ ticked \in {"no", "selected", "yes"} /\ tickCycle \in Batch \cup {NoBatch}
    /\ dirs \subseteq Batch /\ lost \subseteq Batch
    /\ inFlight \in [Node -> Lane]
    /\ awaiting \in [Miner -> Batch \cup {NoBatch}]
    /\ req \in [Batch -> [Miner -> Request]]
    /\ claims \in [Batch -> [Miner -> SUBSET Node]]
    /\ results \subseteq Node
    /\ pending \subseteq Node /\ notBefore \subseteq pending /\ left \subseteq Node
    /\ attempts \in [Node -> 0..MaxAttempts] /\ failedRuns \in [Node -> 0..MaxRuns]
    /\ runs \in [Node -> 0..MaxRechecks]
    /\ tick \in {"idle", "listed", "read", "chosen"}
    /\ listing \subseteq Node /\ seen \subseteq Node /\ chosen \subseteq Node /\ requested \subseteq chosen
    /\ ver \in [Node -> Verification]
    /\ inputs \in [Node -> Batch \cup {NoBatch}] /\ deadline \subseteq Node
    /\ holds \in [Batch -> Nat]
    /\ faults \in 0..MaxFaults

Init ==
    /\ listed = Known /\ validated \in SUBSET Known /\ rechecks = {}
    /\ cycle = NoBatch /\ stage = "idle" /\ late = "no" /\ ticked = "no" /\ dirs = {}
    /\ inFlight = [n \in Node |-> "no"]
    /\ awaiting = [m \in Miner |-> NoBatch]
    /\ req = [b \in Batch |-> [m \in Miner |-> "ended"]]
    /\ claims = [b \in Batch |-> [m \in Miner |-> {}]]
    /\ results = {}
    /\ pending = {} /\ notBefore = {} /\ left = {}
    /\ attempts = [n \in Node |-> 0] /\ failedRuns = [n \in Node |-> 0]
    /\ runs = [n \in Node |-> 0]
    /\ tick = "idle" /\ tickCycle = NoBatch /\ listing = {} /\ seen = {} /\ chosen = {} /\ requested = {}
    /\ ver = [n \in Node |-> "no"] /\ inputs = [n \in Node |-> NoBatch] /\ deadline = {}
    /\ holds = [b \in Batch |-> 0]
    /\ lost = {} /\ faults = 0

Fault == faults < MaxFaults /\ faults' = faults + 1

--------------------------------------------------------------------------------
\* The outside: providers register and remove nodes and ask for rechecks.

Register(n) ==
    /\ n \notin listed /\ listed' = listed \cup {n}
    /\ UNCHANGED <<redis, sync, inFlight, wave, queue, lane, verification, lost, faults>>

Deregister(n) ==
    /\ n \in listed /\ listed' = listed \ {n} /\ Fault
    /\ UNCHANGED <<redis, sync, inFlight, wave, queue, lane, verification, lost>>

AskRecheck(n) ==
    /\ n \in listed \ rechecks /\ rechecks' = rechecks \cup {n}
    /\ Fault
    /\ UNCHANGED <<listed, validated, sync, inFlight, wave, queue, lane, verification, lost>>

\* Something outside the validator removes the files of a cycle.
RemoveFiles(b) ==
    /\ b \in dirs /\ dirs' = dirs \ {b} /\ lost' = lost \cup {b} /\ Fault
    /\ UNCHANGED <<listed, redis, cycle, stage, late, ticked, inFlight, wave, queue, lane, verification>>

--------------------------------------------------------------------------------
\* The cycle: Validator.sync() and its requests.

Unused(b) ==
    /\ b # cycle /\ holds[b] = 0
    /\ \A m \in Miner : req[b][m] = "ended" /\ awaiting[m] # b

\* mutant: the new directory replaces every other one
KeptDirectoriesNone == {}

\* fresh_job_files_directory keeps directories_in_use().
KeptDirectories == {d \in dirs : holds[d] > 0}

AskAll(b) ==
    req' = [req EXCEPT ![b] = [m \in Miner |-> "asked"]]

\* The cycle's files, inputs and awaited lists change in one step.  It starts BLOCKS_FOR_JOB
\* blocks after the last one: after the deadline of every recheck, and many ticks later.
StartCycle(b) ==
    /\ stage = "idle" /\ Unused(b)
    /\ cycle # NoBatch => late = "yes"
    /\ \A n \in deadline : ver[n] = "no"
    /\ cycle' = b /\ late' = "no" /\ ticked' = "no" /\ dirs' = KeptDirectories \cup {b} /\ lost' = lost \ {b}
    /\ awaiting' = [m \in Miner |-> b]
    /\ IF cycle = NoBatch THEN stage' = "queueing" /\ UNCHANGED req
                          ELSE stage' = "wave" /\ AskAll(b)
    /\ UNCHANGED <<listed, redis, inFlight, claims, results, queue, lane, verification, faults>>

\* The requests a tick honours; the rest run once the next wave has listed their miners.
Rechecks(from) == IF late = "no" /\ from = cycle THEN rechecks ELSE {}

NewToLane(n, valid) == n \notin valid \cup left \cup Known

\* What _select does to the queue, given what it was read: the nodes listed, those validated
\* and the rechecks asked for.
Queued(all, valid) == {n \in all : NewToLane(n, valid)}
Requeue(all, valid, asked) ==
    /\ pending' = {n \in pending \cup Queued(all, valid) :
                       n \in Queued(all, valid) \cup (all \cap asked) \/ inFlight[n] # "no"}
    /\ notBefore' = notBefore \cap pending'
    /\ attempts' = [n \in Node |-> IF n \in pending' THEN attempts[n] ELSE 0]
    /\ failedRuns' = [n \in Node |-> IF n \in pending' THEN failedRuns[n] ELSE 0]

\* The restart queue pass of the first cycle.  Every miner's list is awaited, so it only queues.
FirstTick ==
    /\ stage = "queueing" /\ stage' = "wave" /\ AskAll(cycle)
    /\ \/ Requeue(listed, validated, Rechecks(cycle)) /\ UNCHANGED <<left, runs, faults>>
       \/ Fault /\ UNCHANGED queue
    /\ UNCHANGED <<listed, redis, cycle, late, ticked, dirs, inFlight, awaiting, claims, results, lane,
                   verification, lost>>

StopAwaiting(b, m) == awaiting' = IF awaiting[m] = b THEN [awaiting EXCEPT ![m] = NoBatch] ELSE awaiting

\* _claim_for_cycle leaves out what the express lane runs or has queued.
Claimable(L) == {n \in L : inFlight[n] # "express" /\ n \notin pending}

\* The miner answers with its list, and a pipeline starts for every node claimed.
Claim(b, m) ==
    /\ req[b][m] = "asked"
    /\ \E L \in SUBSET {n \in listed : MinerOf[n] = m} :
          /\ claims' = [claims EXCEPT ![b][m] = Claimable(L)]
          /\ inFlight' = [n \in Node |-> IF n \in Claimable(L) THEN "cycle" ELSE inFlight[n]]
    /\ req' = [req EXCEPT ![b][m] = "running"] /\ StopAwaiting(b, m)
    /\ UNCHANGED <<listed, redis, sync, results, queue, lane, verification, lost, faults>>

\* The request ends without a list.
AskFails(b, m) ==
    /\ req[b][m] = "asked" /\ req' = [req EXCEPT ![b][m] = "ended"] /\ StopAwaiting(b, m)
    /\ UNCHANGED <<listed, redis, sync, inFlight, claims, results, queue, lane, verification, lost, faults>>

\* _release_cycle_claims
Released(C) == [n \in Node |-> IF n \in C /\ inFlight[n] = "cycle" THEN "done" ELSE inFlight[n]]

\* All pipelines of the request ended; those that did not raise gave a result.  The request then
\* publishes first passes early (publish_new_executors_at_pass), which records nothing.
Finish(b, m) ==
    /\ req[b][m] = "running" /\ req' = [req EXCEPT ![b][m] = "ended"] /\ StopAwaiting(b, m)
    /\ inFlight' = Released(claims[b][m])
    /\ claims' = [claims EXCEPT ![b][m] = {}]
    /\ \E R \in SUBSET claims[b][m] : results' = results \cup R
    /\ UNCHANGED <<listed, redis, sync, queue, lane, verification, lost, faults>>

\* A cancelled request has closed its sessions: the finally clauses.
CancelledEnds(b, m) ==
    /\ req[b][m] = "cancelled" /\ req' = [req EXCEPT ![b][m] = "ended"] /\ StopAwaiting(b, m)
    /\ inFlight' = Released(claims[b][m])
    /\ claims' = [claims EXCEPT ![b][m] = {}]
    /\ UNCHANGED <<listed, redis, sync, results, queue, lane, verification, lost, faults>>

\* All requests ended, or JOB_TIME_OUT: what is still pending is cancelled.
WaveEnds ==
    /\ stage = "wave" /\ stage' = "publish"
    /\ req' = [req EXCEPT ![cycle] = [m \in Miner |->
                  IF @[m] = "ended" THEN "ended" ELSE "cancelled"]]
    /\ UNCHANGED <<listed, redis, cycle, late, ticked, dirs, inFlight, awaiting, claims, results, queue,
                   lane, verification, lost, faults>>

\* The cycle is scored and published, and its nodes are recorded as validated ...
MarkValidated ==
    /\ stage = "publish" /\ stage' = "forget" /\ validated' = validated \cup results
    /\ UNCHANGED <<listed, rechecks, cycle, late, ticked, dirs, inFlight, wave, queue, lane, verification, lost, faults>>

\* ... or the scoring, the publish or the write of the record raises: the claims stay.
CycleFails ==
    /\ stage = "publish" /\ stage' = "idle" /\ Fault
    /\ validated' \in {validated, validated \cup results} /\ results' = {}
    /\ UNCHANGED <<listed, rechecks, cycle, late, ticked, dirs, inFlight, awaiting, req, claims, queue, lane, verification, lost>>

\* forget_cycle_done
Forgotten == [n \in Node |-> IF inFlight[n] = "done" THEN "no" ELSE inFlight[n]]

ForgetCycleDone ==
    /\ stage = "forget" /\ stage' = "idle" /\ inFlight' = Forgotten /\ results' = {}
    /\ UNCHANGED <<listed, redis, cycle, late, ticked, dirs, awaiting, req, claims, queue, lane, verification, lost, faults>>

\* Most of the cycle's time is over: the lists came in and ticks ran long before.
TimePasses ==
    /\ ticked = "yes" /\ late = "no" /\ late' = "yes"
    /\ UNCHANGED <<listed, redis, cycle, stage, ticked, dirs, inFlight, wave, queue, lane, verification, lost, faults>>

--------------------------------------------------------------------------------
\* The express lane.

\* The tick has the portal's snapshot ...
TickList ==
    /\ tick = "idle" /\ cycle # NoBatch /\ tick' = "listed" /\ tickCycle' = cycle
    /\ listing' = listed
    /\ UNCHANGED <<listed, redis, sync, inFlight, wave, queue, seen, chosen, requested, verification,
                   lost, faults>>

\* ... and, after another await, the validated set.
TickRead ==
    /\ tick = "listed" /\ tick' = "read" /\ seen' = validated
    /\ UNCHANGED <<listed, redis, sync, inFlight, wave, queue, tickCycle, listing, chosen, requested,
                   verification, lost, faults>>

ListsIn == \A m \in Miner : awaiting[m] = NoBatch

Candidates(asked) ==
    {n \in Queued(listing, seen) \cup (listing \cap asked) :
        /\ inFlight[n] = "no" /\ n \notin notBefore /\ awaiting[MinerOf[n]] = NoBatch}

\* The two caps of a registration flood, if C is launched beside what the lane runs.
Fits(C) ==
    LET taking == C \cup {n \in Node : inFlight[n] = "express"} IN
    /\ Cardinality(taking) <= MaxInFlight
    /\ \A m \in Miner : Cardinality({n \in taking : MinerOf[n] = m}) <= MaxPerMiner

TickIdle ==
    /\ tick' = "idle" /\ tickCycle' = NoBatch /\ listing' = {} /\ seen' = {} /\ chosen' = {} /\ requested' = {}
    /\ ticked' = IF ticked = "selected" THEN "yes" ELSE ticked

\* _select: the queue, and as many candidates as the caps leave room for.
TickSelect ==
    /\ tick = "read"
    /\ LET asked == Rechecks(tickCycle)
           able == Candidates(asked) IN
       /\ Requeue(listing, seen, asked)
       /\ \E C \in SUBSET able :
             /\ C = {} \/ Fits(C)
             /\ \A n \in able \ C : ~Fits(C \cup {n})
             /\ chosen' = C /\ requested' = C \cap asked
    /\ IF chosen' = {} THEN /\ tick' = "idle" /\ tickCycle' = NoBatch /\ listing' = {} /\ seen' = {}
                           /\ ticked' = IF ListsIn THEN "yes" ELSE ticked
       ELSE /\ tick' = "chosen" /\ tickCycle' = NoBatch /\ listing' = {} /\ seen' = seen \cap requested'
            /\ ticked' = IF ListsIn /\ ticked = "no" THEN "selected" ELSE ticked
    /\ UNCHANGED <<listed, redis, cycle, stage, late, dirs, inFlight, wave, left, runs, verification,
                   lost, faults>>

\* The portal, Redis, the chain or the backend does not answer.
TickFails ==
    /\ tick # "idle" /\ TickIdle /\ Fault
    /\ UNCHANGED <<listed, redis, cycle, stage, late, dirs, inFlight, wave, queue, verification, lost>>

\* mutant: what was selected is not checked again after the awaits
LaunchableUnchecked(m) == {n \in chosen : awaiting[m] = NoBatch /\ MinerOf[n] = m}

\* A wave may have claimed the node, or a cycle started, during the awaits of _launch.
Launchable(m) == {n \in chosen : inFlight[n] = "no" /\ awaiting[m] = NoBatch /\ MinerOf[n] = m}

\* Entries leave the queue with their counts.
Drop(S) ==
    /\ pending' = pending \ S /\ notBefore' = notBefore \ S
    /\ attempts' = [n \in Node |-> IF n \in S THEN 0 ELSE attempts[n]]
    /\ failedRuns' = [n \in Node |-> IF n \in S THEN 0 ELSE failedRuns[n]]

\* _defer, of queued nodes; a recheck's throwaway entry is not in the queue.
Defer(D) ==
    LET over == {n \in D \cap pending : attempts[n] + 1 >= MaxAttempts} IN
    /\ left' = left \cup over /\ pending' = pending \ over
    /\ notBefore' = (notBefore \cup (D \cap pending)) \ over
    /\ attempts' = [n \in Node |-> IF n \in over THEN 0
                                   ELSE IF n \in D \cap pending THEN attempts[n] + 1 ELSE attempts[n]]
    /\ failedRuns' = [n \in Node |-> IF n \in over THEN 0 ELSE failedRuns[n]]

\* Each verification holds the directory of the inputs read after the last await.
Held(S) == [holds EXCEPT ![cycle] = @ + Cardinality(S)]

Start(S) ==
    /\ inFlight' = [n \in Node |-> IF n \in S THEN "express" ELSE inFlight[n]]
    /\ ver' = [n \in Node |-> IF n \in S THEN "run" ELSE ver[n]]
    /\ inputs' = [n \in Node |-> IF n \in S THEN cycle ELSE inputs[n]]
    /\ deadline' = deadline \cup (S \cap requested \cap seen)
    /\ holds' = Held(S)
    /\ LET spent == {n \in S \cap requested : runs[n] + 1 >= MaxRechecks} IN
       /\ runs' = [n \in Node |-> IF n \in spent THEN 0
                                  ELSE IF n \in S \cap requested THEN runs[n] + 1 ELSE runs[n]]
       /\ rechecks' = rechecks \ spent

\* The nodes of a miner that no longer serves are deferred, one attempt each.
Launch ==
    /\ tick = "chosen" /\ TickIdle
    /\ \E G \in SUBSET Miner :
          /\ IF G = {} THEN UNCHANGED faults ELSE Fault
          /\ IF cycle \in dirs
             THEN /\ Start(UNION {Launchable(m) : m \in Miner \ G})
                  /\ Defer(UNION {Launchable(m) : m \in G})
             ELSE UNCHANGED <<inFlight, verification, queue, rechecks>>
    /\ UNCHANGED <<listed, validated, cycle, stage, late, dirs, wave, lost>>

DelayEnds(n) ==
    /\ n \in notBefore /\ notBefore' = notBefore \ {n}
    /\ UNCHANGED <<listed, redis, sync, inFlight, wave, pending, attempts, failedRuns, left, runs,
                   lane, verification, lost, faults>>

\* mutant: a verification that publishes nothing keeps its place in in_flight
LeaveHolding(n) ==
    /\ ver' = [ver EXCEPT ![n] = "no"] /\ inputs' = [inputs EXCEPT ![n] = NoBatch]
    /\ deadline' = deadline \ {n} /\ holds' = [holds EXCEPT ![inputs[n]] = @ - 1]
    /\ UNCHANGED inFlight

\* The finally of _verify.
Leave(n) ==
    /\ ver' = [ver EXCEPT ![n] = "no"] /\ inputs' = [inputs EXCEPT ![n] = NoBatch]
    /\ deadline' = deadline \ {n} /\ holds' = [holds EXCEPT ![inputs[n]] = @ - 1]
    /\ inFlight' = IF inFlight[n] = "express" THEN [inFlight EXCEPT ![n] = "no"] ELSE inFlight

\* The files went away by another hand: the result is discarded, no attempt spent.
Discard(n) ==
    /\ ver[n] = "run" /\ inputs[n] \notin dirs /\ Leave(n)
    /\ notBefore' = notBefore \cup ({n} \cap pending)
    /\ UNCHANGED <<listed, redis, sync, wave, pending, attempts, failedRuns, left, runs, lane, lost, faults>>

\* The miner did not return the node, or the deadline or an error ended the run.
NoResult(n) ==
    /\ ver[n] = "run" /\ Leave(n) /\ Defer({n})
    /\ UNCHANGED <<listed, redis, sync, wave, runs, lane, lost, faults>>

EndRecheck(n) == rechecks' = rechecks \ {n} /\ runs' = [runs EXCEPT ![n] = 0]

\* A failed first pass is published and runs again, until it is left to the cycle.
PublishFailed(n) ==
    /\ ver[n] = "run" /\ inputs[n] \in dirs /\ Leave(n)
    /\ IF n \notin pending THEN UNCHANGED <<rechecks, queue>>
       ELSE IF failedRuns[n] + 1 < MaxRuns
            THEN /\ failedRuns' = [failedRuns EXCEPT ![n] = @ + 1]
                 /\ attempts' = [attempts EXCEPT ![n] = IF @ < MaxAttempts THEN @ + 1 ELSE @]
                 /\ notBefore' = notBefore \cup {n}
                 /\ UNCHANGED <<pending, left, runs, rechecks>>
            ELSE left' = left \cup {n} /\ Drop({n}) /\ EndRecheck(n)
    /\ UNCHANGED <<listed, validated, sync, wave, lane, lost, faults>>

PublishPassed(n) ==
    /\ ver[n] = "run" /\ inputs[n] \in dirs /\ ver' = [ver EXCEPT ![n] = "mark"]
    /\ deadline' = deadline \ {n} /\ EndRecheck(n)
    /\ UNCHANGED <<listed, validated, sync, inFlight, wave, pending, attempts, failedRuns, notBefore,
                   left, lane, inputs, holds, lost, faults>>

\* The node is recorded as validated; if Redis fails it is left to the cycle.
MarkPublished(n) ==
    /\ ver[n] = "mark" /\ Leave(n)
    /\ \/ validated' = validated \cup {n} /\ UNCHANGED <<left, faults>>
       \/ left' = left \cup {n} /\ UNCHANGED validated /\ Fault
    /\ Drop({n})
    /\ UNCHANGED <<listed, rechecks, sync, wave, runs, lane, lost>>

--------------------------------------------------------------------------------
WaveStep ==
    \/ \E b \in Batch : StartCycle(b)
    \/ FirstTick \/ WaveEnds \/ MarkValidated \/ CycleFails \/ ForgetCycleDone \/ TimePasses
    \/ \E b \in Batch, m \in Miner :
          Claim(b, m) \/ AskFails(b, m) \/ Finish(b, m) \/ CancelledEnds(b, m)

LaneStep ==
    \/ TickList \/ TickRead \/ TickSelect \/ TickFails \/ Launch
    \/ \E n \in Node :
          \/ DelayEnds(n) \/ Discard(n) \/ NoResult(n)
          \/ PublishFailed(n) \/ PublishPassed(n) \/ MarkPublished(n)

OutsideStep ==
    \/ \E n \in Node : Register(n) \/ Deregister(n) \/ AskRecheck(n)
    \/ \E b \in Batch : RemoveFiles(b)

Next == WaveStep \/ LaneStep \/ OutsideStep

Spec == Init /\ [][Next]_vars

\* sync() and the lane's loop run for ever; requests, pipelines and waits end.
Fairness ==
    /\ \A b \in Batch, m \in Miner :
          /\ WF_vars(Claim(b, m) \/ AskFails(b, m))
          /\ WF_vars(Finish(b, m)) /\ WF_vars(CancelledEnds(b, m))
    /\ WF_vars(\E b \in Batch : StartCycle(b)) /\ WF_vars(FirstTick) /\ WF_vars(WaveEnds)
    /\ WF_vars(MarkValidated \/ CycleFails) /\ WF_vars(ForgetCycleDone) /\ WF_vars(TimePasses)
    /\ WF_vars(TickList) /\ WF_vars(TickRead) /\ WF_vars(TickSelect) /\ WF_vars(Launch)
    /\ \A n \in Node :
          /\ WF_vars(DelayEnds(n)) /\ WF_vars(MarkPublished(n))
          /\ WF_vars(Discard(n) \/ NoResult(n) \/ PublishFailed(n) \/ PublishPassed(n))

FairSpec == Spec /\ Fairness

--------------------------------------------------------------------------------
\* A pipeline of the wave that was not cancelled runs on the node.
InWave(n) == \E b \in Batch, m \in Miner : req[b][m] = "running" /\ n \in claims[b][m]

\* A node's hardware tests never run in both lanes at once: each lane skips what in_flight gives
\* the other, and the lane looks again after its awaits.
OneLane == \A n \in Node : ver[n] # "no" => ~InWave(n)

\* The files a verification of the lane reads are there until it ends, whatever cycles start
\* meanwhile (directories_in_use).
FilesKept == \A n \in Node : ver[n] # "no" => inputs[n] \in dirs \cup lost

\* The lane runs a node that no recheck was requested of only while no cycle has recorded it.
OnlyUnpublished ==
    [][\A n \in Node : ver[n] = "no" /\ ver'[n] = "run" => n \notin validated \/ n \in requested]_vars

\* A queued node, which every wave leaves to the lane, does not stay queued for ever.
QueueDrains == \A n \in Node : n \in pending ~> n \notin pending
================================================================================
