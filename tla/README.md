# A TLA+ model of lium-io

lium-io rents GPU nodes. The **backend** (not in this repository) tells a **validator** which
containers ("pods") customers want; the validator reaches the **miner** that owns a node and, over
SSH, the **executor** on the node, and drives the node's Docker. It also verifies nodes, scores them
and sets weights on the chain. A **watchtower** on each node keeps the executor's own container up
to date.

This directory models the parts in which an order of events nobody wrote a test for can lose a
customer's container, leave a pod that nobody knows of, or stop the system: TLA+ modules translated
from the source, TLC runs on small instances, and TLAPS proofs for all instances.

## Inventory

| part | state it keeps | operations that change it | interacts with | hard behaviours |
|---|---|---|---|---|
| connector: command deduplication (`compute_client.py` 1025-1107, `redis_service.py` 820-864) | one Redis key per command: claim or remembered answer | claim, heartbeat, finish, release, clear at start | backend, connector lead | duplicates, lost replies of Redis, lapsed claims, a successor beside its predecessor |
| connector: creates across restarts (`compute_client.py` 1109-1273, registries of `docker_service.py` 1961-2100) | in-flight records in Redis, `deleted_pod_ids`, resume counts, the outgoing queue | create and delete jobs, the start's sweep and its report | backend, rented cache | crash at any step, delete racing create, failing Redis writes |
| connector lead (`compute_client.py` 1160-1213, `connector.py`) | a Redis lock with a TTL | wait, take, renew, take back, exit | rollouts | stalls, lost lock, two leaders |
| create, edit and delete of a pod (`docker_service.py`: `_EditSwap`, `create_container`, `_delete_container`) | the node's containers under two names, registries, rented cache, inspector | park, run, boot, reply, undo, cancel, remove | miner, node's Docker | any command failing, crash mid-swap, waits that run out, re-sent edits |
| filler containers, stale-container cleanup (`docker_service.py`, `container_cleanup.py`) | fillers on the node | stand down, remove | creates, verification | a filler started beside a customer's create |
| pod GPU operations (`gpu_reset.py`, `gpu_clocks.py`, `hung_gpu_reset.py`) | GPU state, resets in progress | reset, power and clock changes | rentals | reset racing a rental |
| node sharing: pending pods, create lock, rental probe (`redis_service.py` 349-424 and 785-961, `rental_probe.py`) | per-node marks, a lock with a TTL, two stamps | add, remove, lock, sweep, probe, stamp | creates, verification | read-modify-write by two processes, a lock that lapses under its holder |
| rented-machine cache (`redis_service.py` 680-780) | per-node entries | add, remove, refresh | creates, verification | read-modify-write by several tasks |
| verification lanes (`miner_service.py`, `express_lane.py`, `validator.py`) | `in_flight`, `_pending`, job-file directories | wave, express tick, verify, publish | backend, miners | one node verified twice, inputs replaced during an await |
| validator cycle, weights, settlement (`validator.py`, `settlement.py`, `subtensor_client.py`) | live scores, kept reports, pending inclusions | score, submit, report, persist | chain, backend | crash between submission and record |
| validation pipeline and checks (`services/task/`) | one result per node | steps with fatal and soft failures | node | early exit, timeouts |
| incentive (`incentive/`) | scores | floating-point arithmetic | weights | rounding |
| connectivity and port mappings | ports per node | probe, store, reuse | creates | stale mapping |
| attestation, GPU proofs | none | opaque native checks | pipeline | - |
| executor services (`executor/src/`) | image cache, pull lock, storage jobs | pull, prune, backup, restore | validator | concurrent pulls, cancelled backups |
| miner (`miners/src/`) | registered executors, SSH keys, collateral | submit and remove keys | validator, chain | key removed under another session |
| watchtower (`watchtower.py`) | the node's runner, its leftovers, probe containers | lookup and repair, probe, pull, recreate, undo | platform's digest | death between two Docker commands |
| wire protocol, machine scrape scripts | none | - | - | schemas and one-shot I/O |

`PROJECT.json` lists the same parts with their sources, what is modelled of each, and the hazards at
the line where each bites.

## Modules

| module | about | proofs |
|---|---|---|
| `BackendCommands` | a command of the backend runs once | `BackendCommandsProofs` |
| `InflightCreates` | creates survive restarts, deletes reach creates | `InflightCreatesProofs` |
| `ConnectorLead` | one connector leads | `ConnectorLeadProofs` |
| `PodSwap` | the containers of a pod under create, edit and delete | `PodSwapProofs` |
| `PodContract`, `PodSwapContract` | what a pod promises the backend, and the refinement mapping from `PodSwap` | `PodSwapProofs` |
| `RunnerUpdate` | the watchtower's update of a node | `RunnerUpdateProofs` |
| `VerificationLanes` | the wave and the express lane over the nodes | `VerificationLanesProofs` |
| `Settlement` | scores, settled windows and their reports across kills | `SettlementProofs` |
| `NodeSharing` | renters' creates and the rental probe on one node | `NodeSharingProofs` |

The `MC...` modules define what the runs need besides model values (symmetry sets, the miner of each
node). Next in line: the filler stand-down against creates, the rented-machine cache, the composition of
`InflightCreates` with `PodContract` (a resumed create meets the container its first attempt left),
the executor's image cache and the miner's SSH keys.

## How the modules are built

A module's actions are the steps between two awaits of a task, or between two commands to Docker or
Redis; everything a task does in between is one action. Names follow the source. A Redis call or a
Docker command that fails spends one unit of a named bound (`MaxFaults`, `MaxMishaps`), so a run
says how many failures it covers; the proofs hold for every value of the bounds. Operators whose
comment starts with "mutant" are wrong variants of the definition after them; no specification
uses them. For each property a mutant shows that it would notice that mistake in the code.

### BackendCommands

State: the command's Redis key (`state`, `owner`, `remembered`, `age`), one job per delivery
(`pc`, `cmd`, `home`) and the connector (`epoch`, `phase`, `scan`, `seen`). Time is counted in
heartbeat intervals.

| action | code |
|---|---|
| `Deliver`, `ClaimSet`, `ClaimSetReplyLost`, `ClaimFailsOpen` | `miner_driver`, `claim_backend_command` (SET NX) and its reply lost or raised |
| `ClaimGet`, `ReplayFailsOpen` | `_handle_backend_command_duplicate` |
| `Answer`, `JobEnds`, `Finish`, `FinishFails` | the job, and `update_backend_command` in the `finally` |
| `Refresh`, `Missed`, `Expire`, `Forget` | the heartbeat, and Redis key expiry |
| `Restart`, `Overtaken`, `OvertakenExits` | a connector that dies, or is overtaken and notices later |
| `ClearGet`, `ClearDel`, `ClearEnds`, `ClearFails` | `clear_running_backend_commands`, GET and DEL apart |

Runs: `BackendCommands` (one command, three deliveries, TTL of three intervals, two faults, two
restarts) and `BackendCommandsOvertaken` (a connector and its successor run together; also the
liveness property `StaleClaimGoes`). Three deliveries are the first, a retry and a retry of the retry;
commands do not share state, so one is enough. With overtaking, the clear's GET and DEL can lose an
answer that was written between them: `AnswerKeptToItsTTL` and `IgnoredOnlyForLiveJob` are stated
and proved for connectors that are not overtaken.

### InflightCreates

State: the in-flight records and the rented cache in Redis, the process's registry
(`deleted`, `count`, `cancelled`), the outgoing queue and the report, the start's sweep, and the
backend's view of each pod (external: modelled from what the code sends it and expects back).

| action | code |
|---|---|
| `BeginCreate`, `WriteRecord`, `UntrackCreate`, `LeaveCreate` | `_run_miner_job` with its two `finally`s, `add_inflight_backend_create` |
| `CacheRented`, `ReplyCreate`, `RaiseCreate` | the create's end as seen by the connector |
| `BeginDelete`, `UntrackDeleted`, `CancelCreate`, `FinishDelete`, `FailDelete` | the delete job up to `_stop_create_before_delete` and its reply |
| `Restart`, `SweepDrop`, `SweepResume`, `SweepFail`, `SweepEnds`, `SweepAborts` | `run_forever`, `fail_creates_cut_off_by_restart` |
| `Connect`, `Disconnect`, `SendMessage`, `UntrackReported` | `handle_connection`, `handle_send_messages` |
| `Rent`, `Remove`, `Resend` | backend |

Runs: `InflightCreates` (one pod, four commands, three restarts, one fault, one resume allowed: the
create, what the backend re-sends of it after restarts, and a delete; with `Retries = FALSE` it sends no
other create of the pod, and in no run one after the delete), and the violation run
`InflightCreatesLateTrack`.
Pods interact only through the queue, so one pod with four commands reaches the races; three restarts
are one more than the resumes allowed.

### ConnectorLead

State: the lock (`holder`, `left`), each connector's place and keeper task, the ready files. Time is
counted in renewal intervals. `Start`, `MarkReady`, `Acquire`, `AcquireFails` and `Orphaned` are
`take_connector_lead`; `Renew`, `NotOwned`, `RenewFails`, `Retake`, `RetakeRaises` are
`_keep_connector_lead`; `Tick` is an interval; `Kill` and `Crash` are a rollout and a failure.

Run: `ConnectorLead` (three connectors, a TTL of three intervals as in the code, five faults: enough
for two lapses and one more) with its liveness properties.

### PodSwap

State: what is under the pod's name and under the parked name, which containers run, where each
create is, the two registries, the rented cache, the inspector, and the delete. A container is
identified by the create that ran it; `fate` says whether a kill the edit gave up on may still land on it
or did, and whether the undo left it stopped on purpose.

Every Docker command of an edit runs under a host timeout (`_run`), which may report exit 124 for a
command Docker carries out. The model has both outcomes for each of them: where the difference is
harmless (`docker ps`, a removal, the rename of `ParkRecover`, `docker run`) the misreport is just another
way for the step to fail; a misreported rename aside, rename back or rename of the undo is a mishap, because
the edit then acts on names that are not what it thinks. A misreported command takes effect before the
task's next step, except a kill, which may land any time later (`LateKill`).

| action | code |
|---|---|
| `Connect`, `Image`, `Prepare`, `Boot` | stretches of `create_container` that end in a checkpoint: what they do on the node besides the pod's containers is one step that may fail |
| `WaitSteps`, `Park*` | the edit's wait and `_EditSwap._park` |
| `Sweep`, `SweepRemove` | `clean_existing_containers`, list and remove apart |
| `Run`, `RunFails`, `RunAgain`, `RunMeetsName` | `docker run` and its retries |
| `CacheRented`, `Reply`, `Leave`, `StartInspector`, `RemoveParked` | the end and `_run_create_steps_after_reply` |
| `Cleanup`, `AbortSwap`, `Restore*` | `cleanup_failed_container_creation`, `_EditSwap.__aexit__`, `restore`, which does not start a container whose GPUs left the node |
| `LateKill` | a `docker kill` of `_killed_after_failed_stop` that lands after its wait |
| `AskDelete`, `CreatesLeft`, `StepsDone`, `Delete*`, `*WaitRunsOut` | `_stop_create_before_delete`, `_delete_container` and their waits |
| `Crash` | the connector dies |

Runs: `PodSwap` (a create, two edits, a delete, one mishap, one wait that runs out; liveness
included) and the violation run `PodSwapRenameBack`. Two edits are needed for an edit
that meets what an earlier one left; the inductive invariant was also checked with two mishaps.

`CopyKept` and the contract's "never the last container" hold until an edit is misled: its rename back
after a failed stop was carried out but reported failed (`Misled`). What happens then is the finding of
`PodSwapRenameBack`. `EditUndone` is about edits without a mishap; the container it finds under the pod's
name runs, unless a late kill stopped it or its GPUs left the node, in which case the code leaves it
stopped on purpose.

`PodContract` tells the same story without names, parking, sweeps and undo: which creates' containers
are on the node, which of them the backend takes for the pod, whether the delete was asked for or
answered, and whether a mishap came or an edit was misled. Its steps add or drop one container, tell the
backend, and ask for and answer the delete; until an edit is misled a drop never takes the last container
of a pod that is up, and before a mishap never the one the backend knows. `PodSwapContract` maps `PodSwap` to it (the copies are what is
under the two names), the run `PodSwap` checks the refinement as `KeepsContract`, and
`PodSwapProofs` proves it.

### RunnerUpdate

State: the node's containers (`name`, `state`, `image`), probe containers, the authorized digest,
whether the node's NVIDIA runtime works, and the cycle's local variables. A name is the sequence of `-previous-<id>` suffixes after the runner's
name, which is what the code's rename and its pattern match act on.

| action | code |
|---|---|
| `FindByName`, `ListByLabel`, `ClearPrevious`, `ClearRemove`, `Cleared`, `RestorePrevious` | `find_runner_container` and its repairs |
| `CheckDigest`, `Probe*`, `Pull` | `check_and_update`, `probe_nvidia_runtime`, `pull_image_by_digest` |
| `RenameAside`, `CreateNew`, `RenameBack`, `StopOld`, `StartNew`, `RemoveOld`, `Undo*` | `recreate_container` |
| `FirstCreate`, `FirstStart` | a first boot |
| `Die`, `Push`, `RuntimeTurns` | the process dies; the platform authorizes another digest; the runtime breaks or is repaired |

A command may also be carried out and reported as failed, wherever that leads to another state than its
success does. A probe on a node whose runtime is broken fails; that is no mishap, so a runtime may break and
be repaired without bound. `ReplacedIsProbed` holds under any failures: a runner is replaced only if the
probe of that cycle passed. Its one exception is written into it: on a CVM an error of the first lookup by
name reads as a first boot (`verdict = "blind"`), the probe is skipped, and the second lookup finds the
runner (`watchtower.py:353`). On a compose node the listing by label finds the runner all the same.

Run: `RunnerUpdate` (four containers, two digests, two mishaps, one push, both stacks). Four IDs are the
runner, its replacement, a leftover and a spare. Two mishaps
reach a failed undo and a failed repair. `Converges` is stated for one mishap and a runtime
that stays repaired from some time on: after two mishaps, a runner that was stopped and whose digest is authorized again counts as up to date and is not started. Two
leftovers without a runner, which end every later cycle of a compose node, take more than two. `docker compose up` run by
a person is not modelled, so the label never matches two runners.

### VerificationLanes

State: the portal's list, the validated set and the recheck requests in Redis, the cycle's batch and
where `sync()` is, the job-file directories, `in_flight`, the wave's requests with what each claimed,
the express lane's queue with the fields of its entries, its tick, and its verifications.

| action | code |
|---|---|
| `StartCycle`, `FirstTick`, `WaveEnds`, `MarkValidated`, `CycleFails`, `ForgetCycleDone` | `Validator.sync` |
| `Claim`, `AskFails`, `Finish`, `CancelledEnds` | `request_job_to_miner`, `_claim_for_cycle`, `_release_cycle_claims` |
| `TickList`, `TickRead`, `TickSelect`, `TickFails`, `Launch`, `DelayEnds` | `ExpressLane.tick`, `_select`, `_launch` |
| `Discard`, `NoResult`, `PublishFailed`, `PublishPassed`, `MarkPublished` | `ExpressLane._verify`, `_publish`, `_defer` |
| `Register`, `Deregister`, `AskRecheck`, `RemoveFiles`, `TimePasses` | the portal, the backend, another process of the host, the clock |

Runs: `VerificationLanes` (one node, one miner, two batches, one fault) and the violation run
`VerificationLanesStale`. Batches are used again once nothing refers to them, so cycles never end. A
node's claim, queue entry and files depend on its own state and on the limits only; the two safety
properties are proved for any number of nodes and miners.

Timing that is taken from the code: a cycle lasts 75 blocks and the lane ticks every 30 s (15 s on the
fast path), so the next cycle starts only after a tick with every miner's list in, and after the deadline
of every recheck (`late`, `ticked`). A cycle an operator forces (`validator.py:415`) may come sooner and
is not modelled. The larger limit of `max_attempts_for` applies only with
`VALIDATION_FAST_PATH_ENABLED` (`config.py:841`, off by default); `MaxAttempts` stands for either.

### Settlement

State: `miner_scores` as the set of cycles summed into it, `live_cycle_ids`, the tempo done, the
inclusions not yet acknowledged, all local variables of `sync()` that outlive a call, the five Redis keys,
the chain's landed windows and what the backend has.

| action | code |
|---|---|
| `Start`, `Kill` | `initiate_services`; SIGKILL between any two calls |
| `NoWeights`, `NoMiners`, `LiveWeights`, `SetWeights`, `Clear` | the weights part of `Validator.sync` |
| `KeepLive`, `SendLive`, `ReadLive`, `DrainSend`, `DrainRemove`, `CapLive` | `report_live_weights`, `drain_live_weights` |
| `SettledTempo`, `ShadowReads`, `Fetch`, `Submit`, `AfterRefusal` | `submit_settled_window`, `shadow_settled_window` |
| `ConfirmNext`, `AllConfirmed`, `Keep`, `Tell`, `DropKept`, `KeepAgain` | `_retry_pending_inclusion`, `_confirm_inclusion`, `_keep_pending_inclusion` |
| `NoCycle`, `Score`, `LaterCycle`, `UnreportedCycle`, `KeepReport`, `SendOnce`, `Pass`, `ReadReports`, `Deliver`, `RemoveDelivered`, `BudgetSpent`, `CapReports` | `report_cycle_scores`, `_deliver_kept_settlement_reports`, `_replay_unacked_cycle_reports`, `_cap_kept_cycle_reports` |
| `Finish`, `Persist`, `PersistIds` | the end of `sync` |

Run: `Settlement` (two tempos, two followed cycles, two live submissions, a cap of one, one failed call,
one kill, all three modes). Two of each are the least for "the one before"; a cap of one is exceeded by
the second. Not modelled: `DRY_RUN`, the scores' arithmetic, and the save of a graceful stop (a kill
without it is the worse case).

### NodeSharing

State: the backend's rentals and its list of rented pods, the node's `pod_*` containers, the pending-pod
marks (absent, fresh, or past the 30 minutes after which they are ignored), the create lock, each renter's
create, the probe, and the two stamps of a probe's verdict. Reads of the marks and the writes of what was
read are steps of their own, as `add_pending_pod` and `remove_pending_pod` are two Redis commands.

| action | code |
|---|---|
| `Admit`, `TakeLock`, `GoAhead`, `MarkReads`, `MarkWrites`, `AttestationFails` | `handle_container`, `executor_create_exclusion`, `add_pending_pod` |
| `SweepAsks`, `Sweeps`, `Runs`, `Returns`, `Fails`, `Unmark*`, `Ends`, `Hold*` | `clean_existing_containers`, `create_container`, `hold_node_until_probe_passes` |
| `ProbeLocks`, `ProbeAsks`, `ProbeLooks`, `ProbeStandsDown` | `_may_probe`, `_busy_now`, `_idle_under_lock` |
| `ProbeMark*`, `ProbeSweep*`, `ProbeRuns`, `ProbeCreate*`, `ProbeFail*`, `ProbeHold*` | the probe's own create, which ends in the same `hold_node_until_probe_passes` when it fails |
| `ProbeSteps`, `ProbeSettles`, `ProbeUnmark*`, `ProbeAsksAgain`, `ProbeSpares`, `ProbePasses`, `ProbeClears`, `ProbeBlames`, `ProbeStamps`, `IntervalEnds` | the probe's steps, its removal, its verdict |
| `Rents`, `Lists`, `Closes`, `Deletes`, `Finish*` | the backend, and its rent-finished request |
| `Lapses`, `MarkAges`, `CutOff`, `RecoverWrites`, `ValidatorRestarts` | the lock's TTL, a mark's age, the connector's and the validator's death and start |

Run: `NodeSharing` (two renters, one probe, one fault; the renters are symmetric). Two renters and a
probe are three writers of one list; the proofs cover any number of renters, probes and faults. Fillers,
volumes and the rented-machine cache are not modelled, nor is a delete that reaches a create still running
and passes the mark's guard (`_bypasses_renting_in_progress`): it cancels the create, which is
`InflightCreates`.

## Fairness

Liveness is claimed only where the code's scheduling gives it: asyncio runs every ready task, Redis
expires every key, a Docker or SSH command returns or times out, the watchtower's loop never ends,
Kubernetes starts a stopped connector, and the backend asks again for a delete that was not
answered. No failure, crash, rollout or answer of a miner is promised. Fairness is weak, with one
exception: `Settlement` assumes strong fairness of a cycle being scored, because `sync()` starts one every
`BLOCKS_FOR_JOB` blocks while the chain's blocks and the weights are looked at in between, so the step is
enabled again and again and not continuously. It takes for granted that such cycles find a verified burner
again and again: without one `report_cycle_scores` returns before it sends anything (`UnreportedCycle`).
`CHECK_DEADLOCK FALSE` stands in the runs whose system may really stop (all commands delivered, all
creates ended); the others never stop and are checked for deadlock.

## What the runs show

| run | result | distinct states |
|---|---|---|
| `BackendCommands` | holds: ExecutionsAccounted, IgnoredOnlyForLiveJob, AnswerKeptToItsTTL | 62,893 |
| `BackendCommandsOvertaken` | holds: ClaimIsTheJobs, OneRunPerClaim, StaleClaimGoes | 199,003 |
| `InflightCreates` | holds: DeletedPodHasCreate, ResumeBound, RunningCreateRecorded, NobodyWaitsInVain, NoCreateOutlivesDelete | 86,855 |
| `InflightCreatesLateTrack` | NoCreateOutlivesDelete violated | - |
| `ConnectorLead` | holds: LeaderHoldsLock, LapseTakesMissedRenewals, BackendWaitBounded, AlwaysLedAgain, OvertakenKeeperStops | 35,693 |
| `PodSwap` | holds: CopyKept, NeverBothRun, EditUndone, DeletedIsGone, InspectorOff, DeleteAnswered, KeepsContract | 332,369 |
| `PodSwapRenameBack` | NothingDestroyed violated | - |
| `RunnerUpdate` | holds: OneRuns, OneProbe, ReplacedIsProbed, ProvenKept, Converges, LeftoversCleared | 93,856 |
| `VerificationLanes` | holds: OneLane, FilesKept, QueueDrains | 338,117 |
| `VerificationLanesStale` | OnlyUnpublished violated | - |
| `Settlement` | holds: WindowsAccounted, ReportsAccounted, IdsAreTheSummed, NextWindowWaits, WindowsReported | 822,372 |
| `NodeSharing` | holds: RentedPodStands, ProbeKeepsOff, FailureNotShielded | 2,560,192 |

### Findings

Each violation run states what a comment or docstring of the code says.

- `InflightCreatesLateTrack` (`compute_client.py:1136`): the create is tracked only after its claim is
  awaited, so a delete whose claim is answered first cancels nothing.
- `PodSwapRenameBack` (`docker_service.py:1929`): the container could not be stopped and is renamed back; the
  rename is carried out but its host timeout reports it failed. `parked_name` stays set, and the undo, which
  knows no replacement, removes whatever has the pod's name: the only copy.
- `VerificationLanesStale` (`express_lane.py:227`): a tick that read the validated set before a cycle
  recorded a node runs it again after the cycle forgot its claim.

### Known disagreements

These have no run of their own. Each shows up when the named property is checked with the named change.

- `OvertakenStops` of `ConnectorLead` in place of `OvertakenKeeperStops` (`compute_client.py:1209`): a Redis
  error while the keeper takes its expired lock back ends the keeper task, and the overtaken connector
  leads on.
- `RunningCreateRecorded` of `InflightCreates` with `Retries = TRUE` (`compute_client.py:1141`): the first
  of two creates of a pod removes the record the second still needs.
- `CopyKept` of `PodSwap` with `Resent = {c3}` (`docker_service.py:1928`): two overlapping edits of one pod
  can remove, by name, the only container left.
- `DroppedIsStale` of `PodSwap` (`docker_service.py:1828`, against the comment above it): after a crash
  between `docker run` and the reply, the next edit removes the customer's container as stale and keeps the
  half-built replacement. Until a mishap what it removes is stale: theorem `LeftoversAreStale`.
- `UpdateFinished` of `RunnerUpdate` (`watchtower.py:138`): on a CVM the lookup by name returns before
  leftovers are looked for; an update that died after its create is never finished, and a runner whose
  first start failed is never started again.

Four more are recorded as hazards only: a create cut off between its rented-cache write and its reply is
taken for one that ended (`compute_client.py:1227`); an edit that outlasts the delete's 30 s wait gives its
container the pod's name back (`docker_service.py:12602`); two writers of the rented-machine cache lose
each other's entry until the next refresh (`redis_service.py:713`); and a crash between `set_weights` and
the save counts scores in two submissions (`validator.py:368`).

## What is proved

Every safety invariant and action property that a passing run checks is also a theorem, for every set
of commands, jobs, pods, connectors, creates, containers, digests, nodes, miners and batches and every
value of the bounds. The assumptions are those on the constants (named `...Assumption` in the modules)
and the ones in the second column.

| theorem | under | says |
|---|---|---|
| `BackendCommandsProofs`: ClaimSafety, RunSafety | - | a claim that did not lapse is its job's; claimed runs overlap only after a lapse |
| AnswersKept, DuplicatesAnswered | no overtaking | answers stay to their TTL; only a live job's duplicates are ignored |
| ExecutionsPaid | no overtaking, `ClaimTTL > 1` | a command is answered at most once more than connectors died and calls failed |
| `InflightCreatesProofs`: DeletesForgotten, ResumesBounded, WaitsEnd | - | `deleted_pod_ids` is cleared with its creates; resumes are bounded; nobody waits for a lost create |
| RunningAreRecorded | one create of a pod at a time (`~Retries`) | while every Redis call succeeds, a create that runs and was not deleted has its record |
| DeletesReachCreates | claims answered in order (`InOrder`) | a delete flags every earlier create |
| `ConnectorLeadProofs`: LeaderSafety, LapseSafety, WaitBounded | - | a leader whose lock never expired holds it; expiry takes TTL - 1 missed renewals; the backend waits a bounded time |
| LeadersAreAlone | - | with fewer than TTL - 1 faults at most one connector leads |
| `PodSwapProofs`: InspectorStops | - | after a delete without mishap or timeout the inspector is off |
| CopyAlwaysKept, BothNeverRun, FailedEditUndone, DeletedPodsGo, SwapKeepsContract | one create in flight at a time (`SingleCreate`) | a pod that is up has a container until an edit is misled; the parked one and its replacement never run together; an edit that failed without a mishap is undone, but for a late kill and for GPUs that are gone; a deleted pod leaves nothing; `PodSwap` implements `PodContract` |
| LeftoversAreStale | `SingleCreate` | until a mishap an edit removes no parked container the backend knows |
| `RunnerUpdateProofs`: ProbesBounded, ProvenCopyKept, OrderlyUpdates, ReplacedAreProbed | - | one probe container; the last container known to start is never lost; until something fails one runner runs; whatever fails, it is replaced only past a probe that passed, but for a CVM whose first lookup failed |
| `VerificationLanesProofs`: NodesHaveOneLane, FilesAreKept | - | no node is in both lanes; a verification keeps its files |
| FloodsAreCapped | - | the lane never runs more nodes, of all miners or of one, than its caps allow |
| `SettlementProofs`: WindowsAreAccounted, WindowsWait, ReportsAreAccounted, IdsNameTheSum | - | landed windows and reports are delivered or kept; a window waits for the one before; the saved ids name the summed cycles |
| NothingIsInvented | - | the backend hears only of windows that landed, cycles that were scored and live submissions that were accepted |
| `NodeSharingProofs`: RentedPodsStand, ProbesKeepOff, FailuresShow | - | a rented pod keeps its container; the probe keeps off a create with lock or mark; a standing failure is not shielded |
| ProbesCleanUp | - | without a fault the probe leaves no container of its own behind, whichever step of its run failed |

Types are proved as `TypeCorrect` in all eight modules. LeadersAreAlone, LeftoversAreStale,
FloodsAreCapped, NothingIsInvented and ProbesCleanUp state properties no run lists (`OneLeader`,
`WithinCaps`, `NothingInvented` and `ProbeCleansUp` are defined beside their proofs).

### Along which arguments

None of the properties is inductive alone: each depends on what a task read before an await still being
true when it acts, and the invariants say when it is.

- `BackendCommands`. `IInv`: the owner of a key delivers its command; without overtaking all live
  jobs are the leader's and none runs before the clear is over; what the clear is about to delete is no
  answer. `PaidInv` counts: the jobs of a command that answered or may still answer (`Payable`) are at
  most the deaths and faults so far, plus one while a remembered answer or an attended, freshly
  renewed claim makes another execution impossible (`Free`). Whatever ends that state is a fault or a
  death, which pays for the next execution. With `ClaimTTL = 1` a claim lapses between two renewals
  without any fault, hence the assumption.
- `InflightCreates`. `DeleteInv`: jobs are numbered as sent and begin in that order. `ResumeInv`: every
  place that can start a resume (record, pending count, a create about to be recorded) knows of at least
  the resumes made. `WaitInv`: what the backend waits for has a job that will answer, an answer in the
  queue, a record the sweep will find, or a place in the report. `RecordInv`: at most one create of a pod
  lives, and a pod whose create was given up is neither listed for a resume nor has a live create, so
  that removing a record after its report removes no live create's.
- `ConnectorLead`. What is missing of the leader's TTL was missed by faults; the time without a leader and
  the time left on the lock together fit the bound. With fewer faults than that no lock expires under its
  leader, so two leaders would hold one lock.
- `PodSwap`. `IInv`: what an edit knows of the two names is true at each step, what is still to be removed
  after a reply is neither the pod's nor a parked one, and where the backend's container is at each step
  of a swap. `Fates`: a kill that may still land, or did, is on the container of a create that is over, and an
  edit is misled only by a mishap. `Settled`: what the delete may rely on after each of its waits. `Aside`: what is parked is
  known to the edit in flight or to the steps that remove it. The refinement goes action by action: each
  step adds or drops at most one container, and `MayGo` says that the one dropped may go.
  `StaleAhead`: an edit begins while the backend's container has the pod's name, no container has both
  names, and until the edit's first removal nobody else parks one.
- `RunnerUpdate`. A repair removes a leftover only beside a runner that runs, an update removes the old
  one only once the new one runs; until something fails there is one container, during a switch two.
  `Judged`: an update that no probe let through is a first boot of a node without containers, and a compose
  node always has one its lookup finds.
- `VerificationLanes`. `LaneInv`: what a request runs is claimed for its cycle and what the lane runs is
  claimed for the lane. `FilesInv`: `_directories_in_use` counts the verifications that use a directory.
  `CapsInv`: what a tick has selected fits beside what runs, and only the tick adds to it.
- `Settlement`. `WindowsInv`: an inclusion is dropped only once acknowledged, and a window is fetched
  only when no landed one is left to confirm. `ReportsInv`: a list shrinks only by what was delivered, or
  by the cap after a pass that failed. `IdsInv`: Redis and memory agree, each at its moment.
  `RealInv`: everything on its way to the backend (in memory, in a list of Redis, in the loop's
  hands) did happen.
- `NodeSharing`. `Stands`: a sweep was told of closed rentals only, a rental closes only after its create
  was answered, and stays closed. `Kept`: a create that took the lock has it until its mark is written and
  then its mark, unless that was lost; the probe has the lock until its create is over. `Stamped`: both
  stamps stand only while one writer is about to take one of them back. `ProbeCleansUp` is inductive: every way out of a started
  run goes through the teardown.

Each of these invariants also holds on the instance of its run: TLC was given a module that extends the
proofs with the run's constants (the `.cfg` files list the properties only). The larger proofs
first state what the steps of each actor leave alone (`...Moves`), and use only that afterwards.

Only model-checked: the liveness properties (`StaleClaimGoes`, `AlwaysLedAgain`, `OvertakenKeeperStops`,
`DeleteAnswered`, `Converges`, `LeftoversCleared`, `QueueDrains`, `WindowsReported`), since the prover
does not handle fairness.

## Not modelled

The parts of the inventory without a module: fillers, GPU operations, the rented-machine cache, the
pipeline's checks other than the rental probe, incentive, connectivity and ports, attestation, the executor's
services and storage, the miner, the wire protocol, the scrape scripts. Inside the modelled parts: the
miner's REST calls (a create's connect step may fail), the content of messages, the volumes, ports and
GPUs of a create, the WebSocket's own buffering (a message is either sent or still queued), and the
digest's signature check (a request that may fail). Scores, attestation and the scrape scripts are
floating-point arithmetic, opaque native code and pure I/O.

The mapped definitions stand for about 4,750 of the repository's roughly 105,700 lines of Python. Eleven
of the twenty parts listed in `PROJECT.json` have no module, so nothing here speaks for them. Some of the
mapped lines are covered coarsely: the create's connect, image and preparation phases in
`docker_service.py`, some 1,280 lines, are three steps of `PodSwap` that succeed or fail.
