---------------------------- MODULE BackendCommands ----------------------------
(***************************************************************************)
(* The connector runs a command of the backend once, however often it is  *)
(* delivered.  A delivery is a job: miner_driver claims the command's     *)
(* Redis key with SET NX, runs the job while a heartbeat refreshes the    *)
(* claim, and finally replaces the claim by the remembered answer, or     *)
(* releases it when the job failed without one.  A later delivery replays *)
(* the answer or is ignored while the first still runs.  On start a       *)
(* connector clears the claims its predecessor left running.              *)
(*                                                                        *)
(* Time is counted in heartbeat intervals.  Every Redis call may fail, or *)
(* stall for an interval; each spends one of MaxFaults.  A connector may  *)
(* die, or be overtaken: its lead lapsed, the next one starts, and its    *)
(* own jobs run on until it notices (Overtaken).                          *)
(***************************************************************************)
EXTENDS Integers, FiniteSets

CONSTANTS
    Command,      \* command ids of the backend
    Job,          \* one per delivery; also the claim's owner, a fresh uuid4
    NoJob,        \* the owner field of a key that is not a claim
    ClaimTTL,     \* heartbeat intervals a claim lives without a refresh
    MaxFaults,    \* bound: Redis calls that fail
    MaxRestarts,  \* bound: connectors that die or are overtaken
    Overtaking    \* may a successor start while the old connector still runs

ASSUME JobAssumption == NoJob \notin Job
ASSUME BoundAssumption ==
    ClaimTTL \in Nat \ {0} /\ MaxFaults \in Nat /\ MaxRestarts \in Nat /\ Overtaking \in BOOLEAN

VARIABLES
    state,      \* Redis: state of the command's key, "absent" when there is none
    owner,      \* Redis: the claim's owner
    remembered, \* Redis: does the finished key hold a response
    age,        \* Redis: intervals since the claim was written or refreshed
    pc,         \* where each job stands
    cmd,        \* the command each job delivers
    epoch,      \* the leading connector, counted from 0
    home,       \* the connector each job runs in
    phase,      \* "clearing" until the start's clear is over, then "serving"
    scan,       \* keys clear_running_backend_commands has not looked at yet
    seen,       \* keys it read as running and is about to delete
    answered,   \* jobs that put an answer of their own on the message queue
    replayed,   \* jobs that put a remembered answer on the message queue
    lapsed,     \* history: claiming jobs whose claim was taken from under them
    forgotten,  \* history: commands whose remembered answer reached its TTL
    faults      \* Redis calls that failed so far

redis == <<state, owner, remembered, age>>
connector == <<epoch, phase, scan, seen>>
vars == <<state, owner, remembered, age, pc, cmd, epoch, home, phase, scan, seen,
          answered, replayed, lapsed, forgotten, faults>>

-----------------------------------------------------------------------------
Claimed == {"run", "finishOk", "finishFailed"}
Live == {"set", "get", "open"} \cup Claimed
PCs == {"idle", "done", "ignored", "dead"} \cup Live

\* Types; a key is in state running exactly while it names its claim's owner, and a claim
\* never outlives its TTL (claim_backend_command, update_backend_command).
TypeOK ==
    /\ state \in [Command -> {"absent", "running", "finished"}]
    /\ owner \in [Command -> Job \cup {NoJob}]
    /\ \A c \in Command : state[c] = "running" <=> owner[c] \in Job
    /\ remembered \in [Command -> BOOLEAN]
    /\ age \in [Command -> 0..(ClaimTTL - 1)]
    /\ pc \in [Job -> PCs]
    /\ cmd \in [Job -> Command]
    /\ epoch \in Nat
    /\ home \in [Job -> Nat]
    /\ phase \in {"clearing", "serving"}
    /\ scan \subseteq Command /\ seen \subseteq Command
    /\ answered \subseteq Job /\ replayed \subseteq Job /\ lapsed \subseteq Job
    /\ forgotten \subseteq Command
    /\ faults \in Nat

Init ==
    /\ state = [c \in Command |-> "absent"]
    /\ owner = [c \in Command |-> NoJob]
    /\ remembered = [c \in Command |-> FALSE]
    /\ age = [c \in Command |-> 0]
    /\ pc = [j \in Job |-> "idle"]
    /\ cmd \in [Job -> Command]
    /\ epoch = 0
    /\ home = [j \in Job |-> 0]
    /\ phase = "serving"
    /\ scan = {} /\ seen = {}
    /\ answered = {} /\ replayed = {} /\ lapsed = {}
    /\ forgotten = {}
    /\ faults = 0

-----------------------------------------------------------------------------
(* Redis as the connector uses it.                                        *)

\* SET key claim NX EX ttl, on a key that is absent
PutClaim(j) ==
    /\ state' = [state EXCEPT ![cmd[j]] = "running"]
    /\ owner' = [owner EXCEPT ![cmd[j]] = j]
    /\ age' = [age EXCEPT ![cmd[j]] = 0]
    /\ UNCHANGED remembered

Drop(c) ==
    /\ state' = [state EXCEPT ![c] = "absent"]
    /\ owner' = [owner EXCEPT ![c] = NoJob]
    /\ remembered' = [remembered EXCEPT ![c] = FALSE]
    /\ age' = [age EXCEPT ![c] = 0]

HoldsClaim(j) == state[cmd[j]] = "running" /\ owner[cmd[j]] = j

\* a Redis call raises
Fault ==
    /\ faults < MaxFaults
    /\ faults' = faults + 1

-----------------------------------------------------------------------------
(* miner_driver                                                           *)

Deliver(j) ==
    /\ phase = "serving"
    /\ pc[j] = "idle"
    /\ pc' = [pc EXCEPT ![j] = "set"]
    /\ home' = [home EXCEPT ![j] = epoch]
    /\ UNCHANGED <<redis, connector, cmd, answered, replayed, lapsed, forgotten, faults>>

\* the SET NX of claim_backend_command
ClaimSet(j) ==
    /\ pc[j] = "set"
    /\ \/ /\ state[cmd[j]] = "absent"
          /\ PutClaim(j)
          /\ pc' = [pc EXCEPT ![j] = "run"]
       \/ /\ state[cmd[j]] # "absent"
          /\ pc' = [pc EXCEPT ![j] = "get"]
          /\ UNCHANGED redis
    /\ UNCHANGED <<connector, cmd, home, answered, replayed, lapsed, forgotten, faults>>

\* the SET is stored, its reply is lost and the client sends it again
ClaimSetReplyLost(j) ==
    /\ pc[j] = "set"
    /\ state[cmd[j]] = "absent"
    /\ Fault
    /\ PutClaim(j)
    /\ UNCHANGED <<connector, pc, cmd, home, answered, replayed, lapsed, forgotten>>

\* the GET after a refused SET: the key went meanwhile, or holds our own claim,
\* a claim still running, or a finished answer to replay
ClaimGet(j) ==
    /\ pc[j] = "get"
    /\ \/ /\ state[cmd[j]] = "absent"
          /\ pc' = [pc EXCEPT ![j] = "set"]
          /\ UNCHANGED replayed
       \/ /\ HoldsClaim(j)
          /\ pc' = [pc EXCEPT ![j] = "run"]
          /\ UNCHANGED replayed
       \/ /\ state[cmd[j]] = "running" /\ owner[cmd[j]] # j
          /\ pc' = [pc EXCEPT ![j] = "ignored"]
          /\ UNCHANGED replayed
       \/ /\ state[cmd[j]] = "finished"
          /\ pc' = [pc EXCEPT ![j] = "done"]
          /\ replayed' = IF remembered[cmd[j]] THEN replayed \cup {j} ELSE replayed
    /\ UNCHANGED <<redis, connector, cmd, home, answered, lapsed, forgotten, faults>>

\* a remembered response this build cannot parse: the command runs again, unclaimed
ReplayFailsOpen(j) ==
    /\ pc[j] = "get"
    /\ state[cmd[j]] = "finished" /\ remembered[cmd[j]]
    /\ Fault
    /\ pc' = [pc EXCEPT ![j] = "open"]
    /\ UNCHANGED <<redis, connector, cmd, home, answered, replayed, lapsed, forgotten>>

\* the claim raises: the command runs unclaimed, whether or not the SET was stored
ClaimFailsOpen(j) ==
    /\ pc[j] \in {"set", "get"}
    /\ Fault
    /\ pc' = [pc EXCEPT ![j] = "open"]
    /\ \/ UNCHANGED redis
       \/ pc[j] = "set" /\ state[cmd[j]] = "absent" /\ PutClaim(j)
    /\ UNCHANGED <<connector, cmd, home, answered, replayed, lapsed, forgotten>>

\* the job appends its reply to the message queue, and a claiming job to its responses
Answer(j) ==
    /\ pc[j] \in {"run", "open"}
    /\ j \notin answered
    /\ answered' = answered \cup {j}
    /\ UNCHANGED <<redis, connector, pc, cmd, home, replayed, lapsed, forgotten, faults>>

\* _run_miner_job returns or raises; the heartbeat is cancelled
JobEnds(j) ==
    /\ \/ /\ pc[j] = "run"
          /\ \E end \in {"finishOk", "finishFailed"} : pc' = [pc EXCEPT ![j] = end]
       \/ /\ pc[j] = "open"
          /\ pc' = [pc EXCEPT ![j] = "done"]
    /\ UNCHANGED <<redis, connector, cmd, home, answered, replayed, lapsed, forgotten,
                   faults>>

\* mutant: only a job that succeeded is remembered
RemembersSuccess(j) == pc[j] = "finishOk"

\* succeeded or responses
Remembers(j) == pc[j] = "finishOk" \/ j \in answered

\* mutant: the job writes its end without comparing the claim
FinishUnchecked(j) ==
    /\ pc[j] \in {"finishOk", "finishFailed"}
    /\ \/ /\ Remembers(j)
          /\ state' = [state EXCEPT ![cmd[j]] = "finished"]
          /\ owner' = [owner EXCEPT ![cmd[j]] = NoJob]
          /\ remembered' = [remembered EXCEPT ![cmd[j]] = j \in answered]
          /\ age' = [age EXCEPT ![cmd[j]] = 0]
       \/ ~Remembers(j) /\ Drop(cmd[j])
    /\ pc' = [pc EXCEPT ![j] = "done"]
    /\ UNCHANGED <<connector, cmd, home, answered, replayed, lapsed, forgotten, faults>>

\* update_backend_command at the job's end: compare the claim, then remember the
\* answer or release the claim
Finish(j) ==
    /\ pc[j] \in {"finishOk", "finishFailed"}
    /\ \/ /\ HoldsClaim(j) /\ Remembers(j)
          /\ state' = [state EXCEPT ![cmd[j]] = "finished"]
          /\ owner' = [owner EXCEPT ![cmd[j]] = NoJob]
          /\ remembered' = [remembered EXCEPT ![cmd[j]] = j \in answered]
          /\ age' = [age EXCEPT ![cmd[j]] = 0]
       \/ HoldsClaim(j) /\ ~Remembers(j) /\ Drop(cmd[j])
       \/ ~HoldsClaim(j) /\ UNCHANGED redis
    /\ pc' = [pc EXCEPT ![j] = "done"]
    /\ UNCHANGED <<connector, cmd, home, answered, replayed, lapsed, forgotten, faults>>

\* the write raises before it took effect; one that took effect and then raised is Finish
FinishFails(j) ==
    /\ pc[j] \in {"finishOk", "finishFailed"}
    /\ Fault
    /\ pc' = [pc EXCEPT ![j] = "done"]
    /\ UNCHANGED <<redis, connector, cmd, home, answered, replayed, lapsed, forgotten>>

-----------------------------------------------------------------------------
(* The heartbeat and the claim's TTL, one interval of one key at a time.  *)

\* mutant: the heartbeat of a job that ended is not cancelled
BeatingForever(c) == pc[owner[c]] \in {"run", "done"}

Beating(c) == pc[owner[c]] = "run"

\* the owner is between its SET and its last write
Attended(c) == pc[owner[c]] \in {"set", "get"} \cup Claimed

Refresh(c) ==
    /\ state[c] = "running" /\ Beating(c)
    /\ age' = [age EXCEPT ![c] = 0]
    /\ UNCHANGED <<state, owner, remembered, connector, pc, cmd, home, answered, replayed,
                   lapsed, forgotten, faults>>

\* an interval without a refresh: the owner's refresh or next call failed or
\* stalled, or nobody is there to make one
Missed(c) ==
    /\ state[c] = "running" /\ age[c] + 1 < ClaimTTL
    /\ IF Attended(c) THEN Fault ELSE UNCHANGED faults
    /\ age' = [age EXCEPT ![c] = @ + 1]
    /\ UNCHANGED <<state, owner, remembered, connector, pc, cmd, home, answered, replayed,
                   lapsed, forgotten>>

Takes(c) == IF pc[owner[c]] \in Claimed THEN {owner[c]} ELSE {}

\* the claim reaches its TTL; the refresh due with it comes too late
Expire(c) ==
    /\ state[c] = "running" /\ age[c] + 1 = ClaimTTL
    /\ lapsed' = lapsed \cup Takes(c)
    /\ Drop(c)
    /\ UNCHANGED <<connector, pc, cmd, home, answered, replayed, forgotten, faults>>

\* the remembered answer reaches BACKEND_COMMAND_ANSWER_TTL_SECONDS
Forget(c) ==
    /\ state[c] = "finished"
    /\ forgotten' = forgotten \cup {c}
    /\ Drop(c)
    /\ UNCHANGED <<connector, pc, cmd, home, answered, replayed, lapsed, faults>>

-----------------------------------------------------------------------------
(* The connector's life.                                                  *)

Killed(e) == [j \in Job |-> IF pc[j] \in Live /\ home[j] = e THEN "dead" ELSE pc[j]]

StartNext ==
    /\ epoch < MaxRestarts
    /\ epoch' = epoch + 1
    /\ phase' = "clearing"
    /\ scan' = Command /\ seen' = {}
    /\ UNCHANGED <<redis, cmd, home, answered, replayed, lapsed, forgotten, faults>>

\* the connector dies with its jobs and the next one takes the lead
Restart ==
    /\ StartNext
    /\ pc' = Killed(epoch)

\* the lead lapsed: the next connector takes it while this one still runs
Overtaken ==
    /\ Overtaking
    /\ StartNext
    /\ UNCHANGED pc

\* _keep_connector_lead finds another leader: os._exit
OvertakenExits(e) ==
    /\ \E j \in Job : home[j] = e /\ pc[j] \in Live
    /\ e < epoch
    /\ pc' = Killed(e)
    /\ UNCHANGED <<redis, connector, cmd, home, answered, replayed, lapsed, forgotten,
                   faults>>

\* mutant: the start clears every key, finished answers too
ClearGetAny(c) ==
    /\ phase = "clearing" /\ seen = {}
    /\ c \in scan
    /\ scan' = scan \ {c}
    /\ seen' = IF state[c] # "absent" THEN {c} ELSE {}
    /\ UNCHANGED <<redis, epoch, phase, pc, cmd, home, answered, replayed, lapsed,
                   forgotten, faults>>

\* mutant: the test of the state is inverted
ClearGetFinished(c) ==
    /\ phase = "clearing" /\ seen = {}
    /\ c \in scan
    /\ scan' = scan \ {c}
    /\ seen' = IF state[c] = "finished" THEN {c} ELSE {}
    /\ UNCHANGED <<redis, epoch, phase, pc, cmd, home, answered, replayed, lapsed,
                   forgotten, faults>>

\* clear_running_backend_commands: GET a key ...
ClearGet(c) ==
    /\ phase = "clearing" /\ seen = {}
    /\ c \in scan
    /\ scan' = scan \ {c}
    /\ seen' = IF state[c] = "running" THEN {c} ELSE {}
    /\ UNCHANGED <<redis, epoch, phase, pc, cmd, home, answered, replayed, lapsed,
                   forgotten, faults>>

\* ... and DEL it when it was running
ClearDel(c) ==
    /\ phase = "clearing"
    /\ c \in seen
    /\ seen' = {}
    /\ lapsed' = IF state[c] = "running" THEN lapsed \cup Takes(c) ELSE lapsed
    /\ Drop(c)
    /\ UNCHANGED <<epoch, phase, scan, pc, cmd, home, answered, replayed, forgotten,
                   faults>>

ClearEnds ==
    /\ phase = "clearing" /\ seen = {} /\ scan = {}
    /\ phase' = "serving"
    /\ UNCHANGED <<redis, epoch, scan, seen, pc, cmd, home, answered, replayed, lapsed,
                   forgotten, faults>>

\* a Redis error ends the clear early; the connector starts all the same
ClearFails ==
    /\ phase = "clearing"
    /\ Fault
    /\ phase' = "serving"
    /\ scan' = {} /\ seen' = {}
    /\ UNCHANGED <<redis, epoch, pc, cmd, home, answered, replayed, lapsed, forgotten>>

-----------------------------------------------------------------------------
JobStep(j) ==
    \/ Deliver(j) \/ ClaimSet(j) \/ ClaimSetReplyLost(j) \/ ClaimGet(j)
    \/ ReplayFailsOpen(j) \/ ClaimFailsOpen(j) \/ Answer(j) \/ JobEnds(j)
    \/ Finish(j) \/ FinishFails(j)

KeyStep(c) ==
    \/ Refresh(c) \/ Missed(c) \/ Expire(c) \/ Forget(c)
    \/ ClearGet(c) \/ ClearDel(c)

Next ==
    \/ \E j \in Job : JobStep(j)
    \/ \E c \in Command : KeyStep(c)
    \/ Restart \/ Overtaken
    \/ \E e \in 0..MaxRestarts : OvertakenExits(e)
    \/ ClearEnds \/ ClearFails

Spec == Init /\ [][Next]_vars

\* asyncio resumes every task and Redis expires every key; no Redis call is
\* promised to fail, no connector to die, and no answer to be forgotten
Fairness ==
    /\ \A j \in Job : WF_vars(ClaimSet(j) \/ ClaimGet(j) \/ JobEnds(j) \/ Finish(j))
    /\ \A c \in Command : WF_vars(Missed(c) /\ ~Attended(c)) /\ WF_vars(Expire(c))
    /\ \A c \in Command : WF_vars(ClearGet(c) \/ ClearDel(c))
    /\ WF_vars(ClearEnds)

FairSpec == Spec /\ Fairness

-----------------------------------------------------------------------------
\* Two claimed runs of one command overlap only after the claim of one of them
\* lapsed: its heartbeat or last write failed for the whole TTL, or a successor
\* connector cleared it (miner_driver runs the job only on the claim it owns).
OneRunPerClaim ==
    \A j, k \in Job :
        /\ pc[j] \in Claimed /\ pc[k] \in Claimed
        /\ cmd[j] = cmd[k] /\ j # k
        => j \in lapsed \/ k \in lapsed

\* A job that still owns its claim finds exactly that claim in Redis: no other
\* job, heartbeat, expiry or start of a connector replaced it unnoticed.
ClaimIsTheJobs ==
    \A j \in Job : pc[j] \in Claimed /\ j \notin lapsed => HoldsClaim(j)

\* A command is executed again only for a reason: every answer beyond the first
\* is accounted for by a connector that died with the first, or by a Redis call that failed.
ExecutionsAccounted ==
    \A c \in Command :
        c \notin forgotten =>
            Cardinality({j \in answered : cmd[j] = c}) <= 1 + epoch + faults

\* Without a failed Redis call a delivery is dropped as a running duplicate only
\* while the job it duplicates is alive, never for a claim a dead connector left behind
\* and never for its own (_handle_backend_command_duplicate drops it, so nothing else answers).
IgnoredOnlyForLiveJob ==
    [][\A j \in Job :
        pc[j] = "get" /\ pc'[j] = "ignored" =>
            owner[cmd[j]] # j /\ (faults > 0 \/ pc[owner[cmd[j]]] \in Claimed)]_vars

\* A finished answer leaves Redis only at its TTL: the start of a connector
\* clears the claims its predecessor left running and keeps the answers.
AnswerKeptToItsTTL ==
    [][\A c \in Command : state[c] = "finished" /\ state'[c] # "finished" => Forget(c)]_vars

\* A claim whose job ended or died with its connector does not hold the command
\* for ever, even when the clear at start or the job's last write failed.
StaleClaimGoes ==
    \A c \in Command, j \in Job :
        (state[c] = "running" /\ owner[c] = j /\ pc[j] \in {"done", "dead"})
            ~> ~(state[c] = "running" /\ owner[c] = j)
=============================================================================
