---- MODULE NodeSharing ----
(***************************************************************************)
(* One node shared by renters' creates (connector process) and the rental  *)
(* probe (validator process).  Three things keep them apart: the           *)
(* per-executor create lock in Redis, the list of pending-pod marks in     *)
(* Redis (read, changed and written back in two commands), and the         *)
(* backend, which lists rented pods and confirms closed rentals.           *)
(*                                                                         *)
(* Fillers, volumes and the edit of a running pod are left out; the host   *)
(* is the set of pod_* containers on it.  A mark is absent, fresh, or old  *)
(* (past the 30 minutes after which renting_in_progress ignores it).  A    *)
(* rental closes after its create was answered: the delete that reaches a  *)
(* create still running cancels it, which is InflightCreates.              *)
(***************************************************************************)
EXTENDS Naturals, FiniteSets

CONSTANTS
  Pod,        \* the renters' pods
  Probe,      \* the pod id the probe makes up
  NoOne,      \* nobody holds the create lock
  MaxProbes,  \* probes that take the lock in one behaviour
  MaxFaults   \* failed creates and teardowns, Redis errors, restarts and old marks in one behaviour

ASSUME SharingAssumption ==
  /\ Probe \notin Pod /\ NoOne \notin Pod \cup {Probe}
  /\ {MaxProbes, MaxFaults} \subseteq Nat

Id == Pod \cup {Probe}

VARIABLES
  rental,    \* the backend's books: [Pod -> none, open, closed]
  listed,    \* pods get_all_rented_executors names
  finish,    \* ExecutorRentFinishedRequest of each pod: none, sent, read, done
  host,      \* pod_* containers on the node
  marks,     \* the pending_pods list of the node in Redis
  lost,      \* history: pods whose mark went other than by a removal of their own
  lock,      \* the create lock's token
  stage,     \* where each renter's create is
  held,      \* the creates that took the lock
  view,      \* the list a mark's change read: one per create, plus the probe's
  finView,   \* the list a rent-finished request read
  stale,     \* containers a sweep decided to remove
  probe,     \* where the probe is
  outcome,   \* what the probe's steps found: none, passed, failed, nothing
  passed,    \* the interval stamp of a passed probe is recent
  standing,  \* the failure stamp stands
  torn,      \* history: of two writes of the stamps only the first was done
  probes, faults  \* counters of the bounds

vars == <<rental, listed, finish, host, marks, lost, lock, stage, held, view, finView, stale,
          probe, outcome, passed, standing, torn, probes, faults>>
list == <<marks, lost>>
books == <<rental, listed, finish, finView>>
renters == <<stage, held>>
stamps == <<passed, standing, torn>>
prober == <<probe, outcome, probes>>

Age == {"none", "fresh", "old"}
Building == {"start", "adding", "marked", "sweeping", "swept", "ran"}
Stages == Building \cup {"idle", "sent", "waiting", "failing", "clearing", "unmarked",
                           "holding", "cut", "recovering", "done", "failed"}
Creating == {"cleared", "adding", "marked", "sweeping", "swept"}
Holding == Creating \cup {"created", "failing", "forgetting", "stamping", "dropping"}
ProbeStages == Holding \cup {"idle", "locked", "asked", "probing", "settling", "unmarking",
                              "clearing", "judging", "passing", "deciding", "blaming"}

TypeOK ==
  /\ rental \in [Pod -> {"none", "open", "closed"}]
  /\ listed \subseteq Pod
  /\ finish \in [Pod -> {"none", "sent", "read", "done"}]
  /\ host \subseteq Id
  /\ marks \in [Id -> Age]
  /\ lost \subseteq Id
  /\ lock \in Id \cup {NoOne}
  /\ stage \in [Pod -> Stages]
  /\ held \subseteq Pod
  /\ view \in [Id -> [Id -> Age]]
  /\ finView \in [Pod -> [Id -> Age]]
  /\ stale \in [Id -> SUBSET Id]
  /\ probe \in ProbeStages
  /\ outcome \in {"none", "passed", "failed", "nothing"}
  /\ {passed, standing, torn} \subseteq {"no", "yes"}
  /\ probes \in 0..MaxProbes /\ faults \in 0..MaxFaults

NoMarks == [i \in Id |-> "none"]

Init ==
  /\ rental = [p \in Pod |-> "none"] /\ listed = {} /\ finish = [p \in Pod |-> "none"]
  /\ host = {} /\ marks = NoMarks /\ lost = {} /\ lock = NoOne
  /\ stage = [p \in Pod |-> "idle"] /\ held = {}
  /\ view = [i \in Id |-> NoMarks] /\ finView = [p \in Pod |-> NoMarks]
  /\ stale = [i \in Id |-> {}]
  /\ probe = "idle" /\ outcome = "none" /\ passed = "no" /\ standing = "no" /\ torn = "no"
  /\ probes = 0 /\ faults = 0

Fault == faults < MaxFaults /\ faults' = faults + 1

\* renting_in_progress of one pod, and of the node
InProgress(i) == marks[i] = "fresh"
NodeInProgress == \E i \in Id : InProgress(i)

\* add_pending_pod and remove_pending_pod: what is written over the list that was read
Added(old, i) == [old EXCEPT ![i] = "fresh"]
Removed(old, i) == [old EXCEPT ![i] = "none"]

\* the list is written whole; marks it drops besides the writer's own are lost
Write(new, own) ==
  /\ marks' = new
  /\ lost' = lost \cup {i \in Id \ {own} : InProgress(i) /\ new[i] # "fresh"}

\* release(): only the token's owner deletes the key
Released(i) == IF lock = i THEN NoOne ELSE lock

\* mutant: the sweep removes what it was not told of without asking the backend
ConfirmedAny(i) == host \ {i}

\* clean_existing_containers: every other pod_* the create was not told of and the backend
\* confirms closed (it need not answer), and the create's own name.  The probe's made-up id is
\* no rental: the backend may say it is not active.
Confirmed(i) == {j \in host \ {i} : j = Probe \/ rental[j] = "closed"}

Sweepable(i) == {S \cup (host \cap {i}) : S \in SUBSET Confirmed(i)}

-----------------------------------------------------------------------------
(* The backend (external) *)

\* the backend rents the node to a pod and sends its create
Rents(p) ==
  /\ rental[p] = "none"
  /\ rental' = [rental EXCEPT ![p] = "open"]
  /\ stage' = [stage EXCEPT ![p] = "sent"]
  /\ UNCHANGED <<listed, finish, host, list, lock, held, view, finView, stale, prober, stamps, faults>>

\* the create's answer reached it: the pod is listed, or its rental is closed
Lists(p) ==
  /\ stage[p] = "done" /\ rental[p] = "open" /\ p \notin listed
  /\ listed' = listed \cup {p}
  /\ finish' = [finish EXCEPT ![p] = "sent"]
  /\ UNCHANGED <<rental, host, list, lock, renters, view, finView, stale, prober, stamps, faults>>

Closes(p) ==
  /\ stage[p] \in {"done", "failed"} /\ rental[p] = "open"
  /\ rental' = [rental EXCEPT ![p] = "closed"]
  /\ listed' = listed \ {p}
  /\ finish' = IF finish[p] = "none" THEN [finish EXCEPT ![p] = "sent"] ELSE finish
  /\ UNCHANGED <<host, list, lock, renters, view, finView, stale, prober, stamps, faults>>

\* the delete of a closed rental: declined while the pod's mark is fresh
Deletes(p) ==
  /\ rental[p] = "closed" /\ p \in host /\ stage[p] \in {"done", "failed"}
  /\ ~InProgress(p)
  /\ host' = host \ {p}
  /\ UNCHANGED <<books, list, lock, renters, view, stale, prober, stamps, faults>>

\* ExecutorRentFinishedRequest clears the mark, in two commands
FinishReads(p) ==
  /\ finish[p] = "sent"
  /\ finish' = [finish EXCEPT ![p] = "read"]
  /\ finView' = [finView EXCEPT ![p] = marks]
  /\ UNCHANGED <<rental, listed, host, list, lock, renters, view, stale, prober, stamps, faults>>

FinishWrites(p) ==
  /\ finish[p] = "read"
  /\ finish' = [finish EXCEPT ![p] = "done"]
  /\ Write(Removed(finView[p], p), p)
  /\ finView' = [finView EXCEPT ![p] = NoMarks]
  /\ UNCHANGED <<rental, listed, host, lock, renters, view, stale, prober, stamps, faults>>

-----------------------------------------------------------------------------
(* A renter's create: handle_container and create_container *)

Moves(p, s) == stage' = [stage EXCEPT ![p] = s]

\* a create of a pod whose mark is fresh is declined; any other waits for the lock
Admit(p) ==
  /\ stage[p] = "sent"
  /\ Moves(p, IF InProgress(p) THEN "failed" ELSE "waiting")
  /\ UNCHANGED <<books, host, list, lock, held, view, stale, prober, stamps, faults>>

TakeLock(p) ==
  /\ stage[p] = "waiting" /\ lock = NoOne
  /\ lock' = p
  /\ held' = held \cup {p}
  /\ Moves(p, "start")
  /\ UNCHANGED <<books, host, list, view, stale, prober, stamps, faults>>

\* Redis failed, or another renter's create still held the lock at the deadline.  The probe holds
\* it for at most 330 s, less than the deadline of 360 s.
GoAhead(p) ==
  /\ stage[p] = "waiting"
  /\ \/ lock \in Pod /\ UNCHANGED faults
     \/ Fault
  /\ Moves(p, "start")
  /\ UNCHANGED <<books, host, list, lock, held, view, stale, prober, stamps>>

MarkReads(p) ==
  /\ stage[p] = "start"
  /\ view' = [view EXCEPT ![p] = marks]
  /\ Moves(p, "adding")
  /\ UNCHANGED <<books, host, list, lock, held, stale, prober, stamps, faults>>

MarkWrites(p) ==
  /\ stage[p] = "adding"
  /\ Write(Added(view[p], p), p)
  /\ view' = [view EXCEPT ![p] = NoMarks]
  /\ Moves(p, "marked")
  /\ UNCHANGED <<books, host, lock, held, stale, prober, stamps, faults>>

\* the listing and the backend's answers about it ...
SweepAsks(p) ==
  /\ stage[p] = "marked"
  /\ \E S \in Sweepable(p) : stale' = [stale EXCEPT ![p] = S]
  /\ Moves(p, "sweeping")
  /\ UNCHANGED <<books, host, list, lock, held, view, prober, stamps, faults>>

\* ... then the removal
Sweeps(p) ==
  /\ stage[p] = "sweeping"
  /\ host' = host \ stale[p]
  /\ stale' = [stale EXCEPT ![p] = {}]
  /\ Moves(p, "swept")
  /\ UNCHANGED <<books, list, lock, held, view, prober, stamps, faults>>

Runs(p) ==
  /\ stage[p] = "swept"
  /\ host' = host \cup {p}
  /\ Moves(p, "ran")
  /\ UNCHANGED <<books, list, lock, held, view, stale, prober, stamps, faults>>

\* ContainerCreated; the mark of a renter's pod stays for the rent-finished request
Returns(p) ==
  /\ stage[p] = "ran"
  /\ Moves(p, "done")
  /\ lock' = Released(p)
  /\ held' = held \ {p}
  /\ UNCHANGED <<books, host, list, view, stale, prober, stamps, faults>>

\* a step fails: the container goes if the host answers, then the mark
Fails(p) ==
  /\ stage[p] \in Building /\ Fault
  /\ Moves(p, "failing")
  /\ host' \in {host, host \ {p}}
  /\ view' = [view EXCEPT ![p] = NoMarks]
  /\ stale' = [stale EXCEPT ![p] = {}]
  /\ UNCHANGED <<books, list, lock, held, prober, stamps>>

UnmarkReads(p) ==
  /\ stage[p] \in {"failing", "cut"}
  /\ view' = [view EXCEPT ![p] = marks]
  /\ Moves(p, IF stage[p] = "cut" THEN "recovering" ELSE "clearing")
  /\ UNCHANGED <<books, host, list, lock, held, stale, prober, stamps, faults>>

UnmarkWrites(p) ==
  /\ stage[p] = "clearing"
  /\ Write(Removed(view[p], p), p)
  /\ view' = [view EXCEPT ![p] = NoMarks]
  /\ Moves(p, "unmarked")
  /\ UNCHANGED <<books, host, lock, held, stale, prober, stamps, faults>>

\* the failed create's answer, and with it the lock
Ends(p) ==
  /\ Moves(p, "failed")
  /\ lock' = Released(p)
  /\ held' = held \ {p}

\* hold_node_until_probe_passes: a failure of the host's is stamped as the probe's, ...
HoldSets(p) ==
  /\ stage[p] = "unmarked"
  /\ standing' = "yes"
  /\ Moves(p, "holding")
  /\ UNCHANGED <<books, host, list, lock, held, view, stale, prober, passed, torn, faults>>

\* mutant: the failure is stamped beside the pass
HoldKeeps(p) ==
  /\ stage[p] = "holding"
  /\ Ends(p)
  /\ UNCHANGED <<books, host, list, view, stale, prober, stamps, faults>>

\* ... then the pass's stamp goes
HoldDrops(p) ==
  /\ stage[p] = "holding"
  /\ \/ passed' = "no" /\ UNCHANGED torn
     \/ torn' = "yes" /\ UNCHANGED passed
  /\ Ends(p)
  /\ UNCHANGED <<books, host, list, view, stale, prober, standing, faults>>

\* not the host's fault, or Redis failed at once
HoldsNot(p) ==
  /\ stage[p] = "unmarked"
  /\ Ends(p)
  /\ UNCHANGED <<books, host, list, view, stale, prober, stamps, faults>>

\* an attestation that fails ends the create and leaves its mark
AttestationFails(p) ==
  /\ stage[p] = "marked" /\ Fault
  /\ Ends(p)
  /\ UNCHANGED <<books, host, list, view, stale, prober, stamps>>

\* the connector dies; the next one's sweep clears the mark and then the lock of this pod
CutOff(p) ==
  /\ stage[p] \in Building \cup {"failing", "clearing", "unmarked", "holding"} /\ Fault
  /\ Moves(p, "cut")
  /\ held' = held \ {p}
  /\ view' = [view EXCEPT ![p] = NoMarks]
  /\ stale' = [stale EXCEPT ![p] = {}]
  /\ torn' = IF stage[p] = "holding" THEN "yes" ELSE torn
  /\ UNCHANGED <<books, host, list, lock, prober, passed, standing>>

RecoverWrites(p) ==
  /\ stage[p] = "recovering"
  /\ Write(Removed(view[p], p), p)
  /\ view' = [view EXCEPT ![p] = NoMarks]
  /\ Ends(p)
  /\ UNCHANGED <<books, host, stale, prober, stamps, faults>>

-----------------------------------------------------------------------------
(* Time *)

\* The lock's TTL of 360 s ends under a slow create (never before its mark, seconds after the
\* lock was taken), or for an owner that died or could not release it.  It outlasts the probe's hold.
Lapses ==
  /\ \/ lock \in Pod /\ (lock \in held => stage[lock] \notin {"start", "adding"})
     \/ lock = Probe /\ probe \notin Holding \cup {"locked", "asked"}
  /\ lock' = NoOne
  /\ UNCHANGED <<books, host, list, renters, view, stale, prober, stamps, faults>>

\* 30 minutes pass; no change of the list takes that long
MarkAges(i) ==
  /\ InProgress(i) /\ Fault
  /\ \A p \in Pod : finish[p] # "read" /\ stage[p] \notin {"adding", "clearing", "recovering"}
  /\ probe = "idle"
  /\ Write([marks EXCEPT ![i] = "old"], NoOne)
  /\ UNCHANGED <<books, host, lock, renters, view, stale, prober, stamps>>

-----------------------------------------------------------------------------
(* The rental probe: RentalProbeCheck.run *)

ProbeMoves(s) == probe' = s
ProbeEnds == probe' = "idle" /\ outcome' = "none"

\* not within the interval of a pass, lock free (it does not wait)
ProbeLocks ==
  /\ probe = "idle" /\ probes < MaxProbes /\ passed = "no" /\ lock = NoOne
  /\ probes' = probes + 1
  /\ lock' = Probe
  /\ ProbeMoves("locked")
  /\ UNCHANGED <<books, host, list, renters, view, stale, outcome, stamps, faults>>

\* _busy_now: the backend's list, then the marks
ProbeAsks ==
  /\ probe = "locked" /\ listed = {}
  /\ ProbeMoves("asked")
  /\ UNCHANGED <<books, host, list, lock, renters, view, stale, outcome, stamps, probes, faults>>

\* mutant: under the lock only the backend is asked
ProbeLooksNot ==
  /\ probe = "asked"
  /\ ProbeMoves("cleared")
  /\ UNCHANGED <<books, host, list, lock, renters, view, stale, outcome, stamps, probes, faults>>

ProbeLooks ==
  /\ probe = "asked" /\ ~NodeInProgress
  /\ ProbeMoves("cleared")
  /\ UNCHANGED <<books, host, list, lock, renters, view, stale, outcome, stamps, probes, faults>>

\* busy, unreadable, over the budget of the re-read, or too little time left for the create
ProbeStandsDown ==
  /\ probe \in {"locked", "asked", "cleared"}
  /\ lock' = Released(Probe)
  /\ ProbeEnds
  /\ UNCHANGED <<books, host, list, renters, view, stale, stamps, probes, faults>>

ProbeMarkReads ==
  /\ probe = "cleared"
  /\ view' = [view EXCEPT ![Probe] = marks]
  /\ ProbeMoves("adding")
  /\ UNCHANGED <<books, host, list, lock, renters, stale, outcome, stamps, probes, faults>>

ProbeMarkWrites ==
  /\ probe = "adding"
  /\ Write(Added(view[Probe], Probe), Probe)
  /\ view' = [view EXCEPT ![Probe] = NoMarks]
  /\ ProbeMoves("marked")
  /\ UNCHANGED <<books, host, lock, renters, stale, outcome, stamps, probes, faults>>

ProbeSweepAsks ==
  /\ probe = "marked"
  /\ \E S \in Sweepable(Probe) : stale' = [stale EXCEPT ![Probe] = S]
  /\ ProbeMoves("sweeping")
  /\ UNCHANGED <<books, host, list, lock, renters, view, outcome, stamps, probes, faults>>

ProbeSweeps ==
  /\ probe = "sweeping"
  /\ host' = host \ stale[Probe]
  /\ stale' = [stale EXCEPT ![Probe] = {}]
  /\ ProbeMoves("swept")
  /\ UNCHANGED <<books, list, lock, renters, view, outcome, stamps, probes, faults>>

ProbeRuns ==
  /\ probe = "swept"
  /\ host' = host \cup {Probe}
  /\ ProbeMoves("created")
  /\ UNCHANGED <<books, list, lock, renters, view, stale, outcome, stamps, probes, faults>>

\* create_container was cut short by its deadline, cancelled, or raised
ProbeCreateCut ==
  /\ probe \in Holding
  /\ outcome' \in {"failed", "nothing"}
  /\ view' = [view EXCEPT ![Probe] = NoMarks]
  /\ stale' = [stale EXCEPT ![Probe] = {}]
  /\ lock' = Released(Probe)
  /\ torn' = IF probe = "dropping" THEN "yes" ELSE torn
  /\ ProbeMoves("settling")
  /\ UNCHANGED <<books, host, list, renters, passed, standing, probes, faults>>

\* a step of it failed, and it ends as a renter's create does; before the host it is no verdict
ProbeCreateFails ==
  /\ probe \in Creating \cup {"created"}
  /\ outcome' \in IF probe \in {"cleared", "adding"} THEN {"nothing"} ELSE {"failed", "nothing"}
  /\ host' \in {host, host \ {Probe}}
  /\ view' = [view EXCEPT ![Probe] = NoMarks]
  /\ stale' = [stale EXCEPT ![Probe] = {}]
  /\ ProbeMoves("failing")
  /\ UNCHANGED <<books, list, lock, renters, stamps, probes, faults>>

ProbeFailReads ==
  /\ probe = "failing"
  /\ view' = [view EXCEPT ![Probe] = marks]
  /\ ProbeMoves("forgetting")
  /\ UNCHANGED <<books, host, list, lock, renters, stale, outcome, stamps, probes, faults>>

ProbeFailWrites ==
  /\ probe = "forgetting"
  /\ Write(Removed(view[Probe], Probe), Probe)
  /\ view' = [view EXCEPT ![Probe] = NoMarks]
  /\ ProbeMoves("stamping")
  /\ UNCHANGED <<books, host, lock, renters, stale, outcome, stamps, probes, faults>>

\* hold_node_until_probe_passes, for a failure of the host's
ProbeHoldSets ==
  /\ probe = "stamping" /\ outcome = "failed"
  /\ standing' = "yes"
  /\ ProbeMoves("dropping")
  /\ UNCHANGED <<books, host, list, lock, renters, view, stale, outcome, passed, torn, probes, faults>>

ProbeHoldDrops ==
  /\ probe = "dropping"
  /\ \/ passed' = "no" /\ UNCHANGED torn
     \/ torn' = "yes" /\ UNCHANGED passed
  /\ lock' = Released(Probe)
  /\ ProbeMoves("settling")
  /\ UNCHANGED <<books, host, list, renters, view, stale, outcome, standing, probes, faults>>

ProbeHoldsNot ==
  /\ probe = "stamping"
  /\ lock' = Released(Probe)
  /\ ProbeMoves("settling")
  /\ UNCHANGED <<books, host, list, renters, view, stale, outcome, stamps, probes, faults>>

\* the lock is given back as soon as the create returns
ProbeCreated ==
  /\ probe = "created"
  /\ lock' = Released(Probe)
  /\ ProbeMoves("probing")
  /\ UNCHANGED <<books, host, list, renters, view, stale, outcome, stamps, probes, faults>>

\* sshd, login, GPU count, egress: they may pass only while the container is there
ProbeSteps ==
  /\ probe = "probing"
  /\ outcome' \in IF Probe \in host THEN {"passed", "failed", "nothing"} ELSE {"failed", "nothing"}
  /\ ProbeMoves("settling")
  /\ UNCHANGED <<books, host, list, lock, renters, view, stale, stamps, probes, faults>>

\* _settle: the container by the unrent path or by name; a leftover makes a clean run inconclusive
ProbeSettles ==
  /\ probe = "settling"
  /\ \/ host' = host \ {Probe} /\ UNCHANGED <<outcome, faults>>
     \/ /\ Fault /\ UNCHANGED host
        /\ outcome' = IF outcome = "passed" THEN "nothing" ELSE outcome
  /\ ProbeMoves("unmarking")
  /\ UNCHANGED <<books, list, lock, renters, view, stale, stamps, probes>>

ProbeUnmarkReads ==
  /\ probe = "unmarking"
  /\ view' = [view EXCEPT ![Probe] = marks]
  /\ ProbeMoves("clearing")
  /\ UNCHANGED <<books, host, list, lock, renters, stale, outcome, stamps, probes, faults>>

\* ... the mark is removed in every case, or stays if Redis fails; an inconclusive run ends here
ProbeUnmarkWrites ==
  /\ probe = "clearing"
  /\ \/ Write(Removed(view[Probe], Probe), Probe) /\ UNCHANGED faults
     \/ Fault /\ UNCHANGED list
  /\ view' = [view EXCEPT ![Probe] = NoMarks]
  /\ IF outcome = "nothing" THEN ProbeEnds ELSE ProbeMoves("judging") /\ UNCHANGED outcome
  /\ UNCHANGED <<books, host, lock, renters, stale, stamps, probes>>

\* a pass is stamped, and then clears the failure; each write may fail
ProbePasses ==
  /\ probe = "judging" /\ outcome = "passed"
  /\ \/ passed' = "yes" /\ UNCHANGED faults
     \/ Fault /\ UNCHANGED passed
  /\ ProbeMoves("passing")
  /\ UNCHANGED <<books, host, list, lock, renters, view, stale, outcome, standing, torn, probes>>

ProbeClears ==
  /\ probe = "passing"
  /\ \/ standing' = "no" /\ UNCHANGED <<torn, faults>>
     \/ Fault /\ torn' = "yes" /\ UNCHANGED standing
  /\ ProbeEnds
  /\ UNCHANGED <<books, host, list, lock, renters, view, stale, passed, probes>>

\* _rented_meanwhile: the backend's list, then the marks; no verdict when rented or unreadable
ProbeAsksAgain ==
  /\ probe = "judging" /\ outcome = "failed"
  /\ IF listed = {} THEN ProbeMoves("deciding") /\ UNCHANGED outcome ELSE ProbeEnds
  /\ UNCHANGED <<books, host, list, lock, renters, view, stale, stamps, probes, faults>>

ProbeSpares ==
  /\ probe = "deciding" /\ NodeInProgress
  /\ ProbeEnds
  /\ UNCHANGED <<books, host, list, lock, renters, view, stale, stamps, probes, faults>>

\* a failure drops the pass's stamp, and then stands; each write may fail
ProbeBlames ==
  /\ probe = "deciding" /\ ~NodeInProgress
  /\ \/ passed' = "no" /\ UNCHANGED <<torn, faults>>
     \/ Fault /\ torn' = "yes" /\ UNCHANGED passed
  /\ ProbeMoves("blaming")
  /\ UNCHANGED <<books, host, list, lock, renters, view, stale, outcome, standing, probes>>

ProbeStamps ==
  /\ probe = "blaming"
  /\ \/ standing' = "yes" /\ UNCHANGED faults
     \/ Fault /\ UNCHANGED standing
  /\ ProbeEnds
  /\ UNCHANGED <<books, host, list, lock, renters, view, stale, passed, torn, probes>>

\* the interval of the last pass is over
IntervalEnds ==
  /\ passed = "yes" /\ probe = "idle" /\ \A p \in Pod : stage[p] # "holding"
  /\ passed' = "no"
  /\ UNCHANGED <<books, host, list, lock, renters, view, stale, prober, standing, torn, faults>>

\* the validator dies and starts again: every pending-pod mark is deleted
ValidatorRestarts ==
  /\ Fault
  /\ ProbeEnds
  /\ Write(NoMarks, NoOne)
  /\ view' = [view EXCEPT ![Probe] = NoMarks]
  /\ stale' = [stale EXCEPT ![Probe] = {}]
  /\ torn' = IF probe \in {"passing", "dropping"} THEN "yes" ELSE torn
  /\ UNCHANGED <<books, host, lock, renters, passed, standing, probes>>

-----------------------------------------------------------------------------
BackendActs(p) == Rents(p) \/ Lists(p) \/ Closes(p) \/ Deletes(p) \/ FinishReads(p) \/ FinishWrites(p)

CreateActs(p) ==
  \/ Admit(p) \/ TakeLock(p) \/ GoAhead(p) \/ MarkReads(p) \/ MarkWrites(p) \/ SweepAsks(p)
  \/ Sweeps(p) \/ Runs(p) \/ Returns(p) \/ Fails(p) \/ UnmarkReads(p) \/ UnmarkWrites(p)
  \/ HoldSets(p) \/ HoldDrops(p) \/ HoldsNot(p) \/ AttestationFails(p)
  \/ CutOff(p) \/ RecoverWrites(p)

ProbeActs ==
  \/ ProbeLocks \/ ProbeAsks \/ ProbeLooks \/ ProbeStandsDown \/ ProbeMarkReads \/ ProbeMarkWrites
  \/ ProbeSweepAsks \/ ProbeSweeps \/ ProbeRuns \/ ProbeCreateCut \/ ProbeCreateFails
  \/ ProbeFailReads \/ ProbeFailWrites \/ ProbeHoldSets \/ ProbeHoldDrops \/ ProbeHoldsNot \/ ProbeCreated \/ ProbeSteps
  \/ ProbeSettles \/ ProbeUnmarkReads \/ ProbeUnmarkWrites \/ ProbePasses \/ ProbeClears
  \/ ProbeAsksAgain \/ ProbeSpares \/ ProbeBlames \/ ProbeStamps \/ IntervalEnds \/ ValidatorRestarts

Next ==
  \/ \E p \in Pod : BackendActs(p) \/ CreateActs(p)
  \/ ProbeActs
  \/ Lapses
  \/ \E i \in Id : MarkAges(i)

Spec == Init /\ [][Next]_vars

-----------------------------------------------------------------------------
(***************************************************************************)
(* A pod whose create was answered with success and whose rental is open   *)
(* has its container: no sweep of another create or of the probe removes   *)
(* it, although creates go ahead without the lock, marks are overwritten,  *)
(* and a probe may start beside a renter (clean_existing_containers asks   *)
(* the backend).                                                           *)
(***************************************************************************)
RentedPodStands ==
  \A p \in Pod : stage[p] = "done" /\ rental[p] = "open" => p \in host

(***************************************************************************)
(* The probe's create runs beside a renter's create that took the lock     *)
(* only if that one's mark was lost: written over by a change of the list  *)
(* that read it too early, wiped by a validator's start, or past its 30    *)
(* minutes.  The lock keeps the probe off until the mark is written, the   *)
(* mark when the lock's TTL ends first (_idle_under_lock).                 *)
(***************************************************************************)
ProbeKeepsOff ==
  probe \in Creating => \A p \in held : stage[p] \in Building => p \in lost

(***************************************************************************)
(* A failure that stands is not shielded by a recent pass, which would     *)
(* keep the probe off the node for the whole interval while the node fails *)
(* every cycle: whatever the order in which a probe's verdict and a failed *)
(* create of the connector (hold_node_until_probe_passes) write the two    *)
(* stamps, both stand only while one of them is at it, or after a write of *)
(* theirs failed or its process died between the two.                      *)
(***************************************************************************)
FailureNotShielded ==
  /\ torn = "no" /\ probe \notin {"passing", "blaming", "dropping"}
  /\ \A p \in Pod : stage[p] # "holding"
  => ~(passed = "yes" /\ standing = "yes")

====
