------------------------------- MODULE Settlement -------------------------------
(***************************************************************************)
(* The validator's settlement: the scores a cycle adds to miner_scores,    *)
(* the report of each cycle to the backend, the settled window submitted   *)
(* for a tempo and the report of its inclusion, and the reports of live    *)
(* weights.  sync() is one task, so its steps, one per call to Redis, the  *)
(* chain or the backend, come in program order; calls fail, replies are    *)
(* lost, the reporting budget cuts a delivery pass off, and the process    *)
(* may be killed between any two.                                          *)
(*                                                                         *)
(* miner_scores is the set of the cycles summed into it.  A cycle after    *)
(* the first MaxCycles is followed only in what it does for the earlier.   *)
(***************************************************************************)
EXTENDS Integers, FiniteSets

CONSTANTS
    MaxTempo, MaxCycles,  \* bounds: tempo indexes and cycles followed
    MaxLives,             \* bound: live submissions reported
    Cap,                  \* UNACKED_CYCLE_REPORTS_MAX
    MaxFaults, MaxKills   \* bounds: failed calls, kills of the process

ASSUME SettlementAssumption ==
    /\ MaxTempo \in Nat \ {0} /\ MaxCycles \in Nat /\ MaxLives \in Nat
    /\ Cap \in Nat /\ MaxFaults \in Nat /\ MaxKills \in Nat

Tempo == 1..MaxTempo
Cycle == 1..MaxCycles
Live == 1..MaxLives
None == 0
Mode == {"off", "shadow", "enforce"}

VARIABLES
    mode,       \* SETTLEMENT_MODE of the process
    pc,         \* where sync() is
    scores,     \* miner_scores
    ids,        \* live_cycle_ids
    warm,       \* completed_cycles_since_start: "no" while it is 0
    done,       \* _settled_tempo_done
    unack,      \* _unacknowledged_inclusions
    index,      \* the tempo submit_settled_window works for
    caller,     \* who called _retry_pending_inclusion or _confirm_inclusion
    todo,       \* inclusions the retry has still to confirm
    cur,        \* the inclusion being confirmed
    cycle,      \* the cycle being reported
    replay,     \* kept reports the replay has still to deliver
    failed,     \* history: the delivery pass did not reach its end
    rScores, rIds,  \* Redis: MINER_SCORES_KEY, LIVE_CYCLE_IDS_KEY
    rPending,   \* Redis: PENDING_INCLUSION_KEY
    rReports,   \* Redis: UNACKED_CYCLE_REPORTS_KEY, oldest first
    rLive,      \* Redis: UNACKED_LIVE_WEIGHTS_KEY, oldest first
    tempo,      \* the chain's tempo
    landed,     \* windows in force on the chain, or once in force
    acked,      \* inclusions the backend has
    delivered,  \* cycle reports the backend took or rejected
    taken,      \* live weights reports the backend took or rejected
    cycles,     \* cycles scored
    lives,      \* live submissions accepted with a block to report
    owed,       \* history: cycles whose report is due
    lostReport, \* history: cycle reports given up knowingly, or with the process
    lostLive,   \* history: live weights reports given up so
    dropped,    \* history: landed windows the process never learned of, or forgot when killed
    torn,       \* history: "yes" once scores and ids were saved or read apart
    faults, kills

memory == <<scores, ids, warm, done, unack>>
control == <<index, caller, todo, cur, cycle, replay, failed>>
saved == <<rScores, rIds>>
live == <<rLive, taken, lives, lostLive>>
outside == <<tempo, landed, acked, delivered, cycles>>
history == <<owed, lostReport, dropped, torn>>
vars == <<mode, pc, memory, control, saved, rPending, rReports, live, outside, history, faults, kills>>

PC == {"start", "idle", "retry", "keep", "tell", "drop", "keepAgain", "fetch", "submit", "clear",
       "live", "tellLive", "sendLive", "drain", "drainSend", "drainRem", "capLive", "shadow", "job",
       "report", "sendOnce", "pass", "replay", "deliver", "lrem", "cap", "finish", "persist", "persistIds"}

TypeOK ==
    /\ mode \in Mode /\ pc \in PC
    /\ scores \subseteq Cycle /\ ids \subseteq Cycle /\ warm \in {"no", "yes"}
    /\ done \in Tempo \cup {None} /\ unack \subseteq Tempo
    /\ index \in Tempo \cup {None} /\ caller \in {"none", "submit", "landed", "pass"}
    /\ todo \subseteq Tempo /\ cur \in Tempo \cup {None}
    /\ cycle \in Cycle \cup {None} /\ replay \subseteq Cycle \cup Live /\ failed \in {"no", "yes"}
    /\ rScores \subseteq Cycle /\ rIds \subseteq Cycle
    /\ rPending \subseteq Tempo /\ rReports \subseteq Cycle
    /\ tempo \in Tempo /\ landed \subseteq Tempo /\ acked \subseteq Tempo
    /\ delivered \subseteq Cycle /\ cycles \in 0..MaxCycles
    /\ owed \subseteq Cycle /\ lostReport \subseteq Cycle /\ dropped \subseteq Tempo
    /\ rLive \subseteq Live /\ taken \subseteq Live /\ lives \in 0..MaxLives /\ lostLive \subseteq Live
    /\ torn \in {"no", "yes"} /\ faults \in 0..MaxFaults /\ kills \in 0..MaxKills

FreshControl ==
    /\ index' = None /\ caller' = "none" /\ todo' = {} /\ cur' = None
    /\ cycle' = None /\ replay' = {} /\ failed' = "no"

Init ==
    /\ mode \in Mode /\ pc = "start"
    /\ scores = {} /\ ids = {} /\ warm = "no" /\ done = None /\ unack = {}
    /\ index = None /\ caller = "none" /\ todo = {} /\ cur = None
    /\ cycle = None /\ replay = {} /\ failed = "no"
    /\ rScores = {} /\ rIds = {} /\ rPending = {} /\ rReports = {}
    /\ rLive = {} /\ taken = {} /\ lives = 0 /\ lostLive = {}
    /\ tempo = 1 /\ landed = {} /\ acked = {} /\ delivered = {} /\ cycles = 0
    /\ owed = {} /\ lostReport = {} /\ dropped = {} /\ torn = "no" /\ faults = 0 /\ kills = 0

Fault == faults < MaxFaults /\ faults' = faults + 1
NoFault == UNCHANGED faults
Goto(next) == pc' = next

\* The oldest entry of a list, at its end (lpush adds at the head).
Oldest(R) == {c \in R : \A d \in R : c <= d}

--------------------------------------------------------------------------------
\* The start, the chain's clock and the weights of a tempo.

\* initiate_services: an error on the way empties the scores, but not the ids read before it.
Start ==
    /\ pc = "start" /\ Goto("idle")
    /\ \/ scores' = rScores /\ ids' = rIds /\ NoFault /\ UNCHANGED torn
       \/ scores' = {} /\ ids' \in {{}, rIds} /\ Fault /\ torn' = "yes"
    /\ UNCHANGED <<mode, live, warm, done, unack, control, saved, rPending, rReports, outside,
                   owed, lostReport, dropped, kills>>

TempoPasses ==
    /\ tempo < MaxTempo /\ tempo' = tempo + 1
    /\ UNCHANGED <<mode, live, pc, memory, control, saved, rPending, rReports, landed, acked, delivered,
                   cycles, history, faults, kills>>

\* No weights are due, or the warm-up after a restart lasts, or the chain cannot be read.
NoWeights ==
    /\ pc = "idle" /\ Goto("job")
    /\ UNCHANGED <<mode, live, memory, control, saved, rPending, rReports, outside, history, faults, kills>>

\* get_miners fails: the tick only saves.
NoMiners ==
    /\ pc = "idle" /\ Goto("persist") /\ Fault
    /\ UNCHANGED <<mode, live, memory, control, saved, rPending, rReports, outside, history, kills>>

LiveWeights ==
    /\ pc = "idle" /\ warm = "yes" /\ mode # "enforce" /\ Goto("live")
    /\ UNCHANGED <<mode, live, memory, control, saved, rPending, rReports, outside, history, faults, kills>>

\* Shadow goes on to read the settled window of the tempo.
AfterLive == IF mode = "shadow" THEN "shadow" ELSE "job"

\* The live submission: an error keeps the scores, an answer of either kind empties them.  It is
\* reported when it was accepted and the block before or after it could be read.
SetWeights ==
    /\ pc = "live"
    /\ \/ scores' = {} /\ ids' = {} /\ lives < MaxLives /\ lives' = lives + 1 /\ Goto("tellLive") /\ NoFault
       \/ scores' = {} /\ ids' = {} /\ Goto(AfterLive) /\ NoFault /\ UNCHANGED lives
       \/ Goto("job") /\ Fault /\ UNCHANGED <<scores, ids, lives>>
    /\ UNCHANGED <<mode, warm, done, unack, control, saved, rPending, rReports, rLive, taken, lostLive,
                   outside, history, kills>>

\* report_live_weights: kept, or sent once when Redis cannot keep it ...
KeepLive ==
    /\ pc = "tellLive"
    /\ \/ rLive' = rLive \cup {lives} /\ Goto("drain") /\ NoFault
       \/ rLive' \in {rLive, rLive \cup {lives}} /\ Goto("sendLive") /\ Fault
    /\ UNCHANGED <<mode, memory, control, saved, rPending, rReports, taken, lives, lostLive, outside, history, kills>>

SendLive ==
    /\ pc = "sendLive" /\ Goto(AfterLive)
    /\ \/ taken' = taken \cup {lives} /\ NoFault /\ UNCHANGED lostLive
       \/ /\ taken' \in {taken, taken \cup {lives}} /\ Fault
          /\ lostLive' = lostLive \cup ({lives} \ rLive)
    /\ UNCHANGED <<mode, memory, control, saved, rPending, rReports, rLive, lives, outside, history, kills>>

\* ... then drain_live_weights, which enforce calls too, after the settled window.
AfterDrain == IF mode = "enforce" THEN "job" ELSE "capLive"

ReadLive ==
    /\ pc = "drain"
    /\ \/ replay' = rLive /\ Goto("drainSend") /\ NoFault /\ UNCHANGED failed
       \/ Goto(AfterDrain) /\ Fault /\ failed' = "yes" /\ UNCHANGED replay
    /\ UNCHANGED <<mode, memory, index, caller, todo, cur, cycle, saved, rPending, rReports, live, outside,
                   history, kills>>

\* The oldest goes first, and the first that is not taken ends the drain.
DrainSend ==
    /\ pc = "drainSend"
    /\ \/ replay = {} /\ Goto(AfterDrain) /\ NoFault /\ UNCHANGED <<taken, replay, failed>>
       \/ /\ replay # {} /\ taken' = taken \cup Oldest(replay)
          /\ Goto("drainRem") /\ NoFault /\ UNCHANGED <<replay, failed>>
       \/ /\ replay # {} /\ taken' \in {taken, taken \cup Oldest(replay)}
          /\ Goto(AfterDrain) /\ Fault /\ replay' = {} /\ failed' = "yes"
    /\ UNCHANGED <<mode, memory, index, caller, todo, cur, cycle, saved, rPending, rReports, rLive, lives,
                   lostLive, outside, history, kills>>

DrainRemove ==
    /\ pc = "drainRem" /\ Goto("drainSend") /\ replay' = replay \ Oldest(replay)
    /\ \/ rLive' = rLive \ Oldest(replay) /\ NoFault
       \/ rLive' \in {rLive, rLive \ Oldest(replay)} /\ Fault
    /\ UNCHANGED <<mode, memory, index, caller, todo, cur, cycle, failed, saved, rPending, rReports, taken,
                   lives, lostLive, outside, history, kills>>

\* ltrim keeps the newest Cap of a list.
Newest(R) == IF Cardinality(R) <= Cap THEN R ELSE {c \in R : Cardinality({d \in R : d > c}) < Cap}

CapLive ==
    /\ pc = "capLive" /\ Goto(AfterLive) /\ FreshControl
    /\ \/ rLive' = Newest(rLive) /\ NoFault
       \/ rLive' \in {rLive, Newest(rLive)} /\ Fault
    /\ lostLive' = lostLive \cup (IF failed = "yes" THEN rLive \ rLive' ELSE {})
    /\ UNCHANGED <<mode, memory, saved, rPending, rReports, taken, lives, outside, history, kills>>

\* shadow_settled_window reads the window once per tempo and submits nothing.
ShadowReads ==
    /\ pc = "shadow" /\ Goto("job")
    /\ \/ done' = tempo /\ NoFault
       \/ UNCHANGED done /\ Fault
    /\ UNCHANGED <<mode, live, scores, ids, warm, unack, control, saved, rPending, rReports, outside, history, kills>>

\* submit_settled_window up to the pending inclusions, of Redis and of memory together.
SettledTempo ==
    /\ pc = "idle" /\ warm = "yes" /\ mode = "enforce"
    /\ IF tempo = done THEN Goto("clear") /\ NoFault /\ UNCHANGED control
       ELSE \/ Goto("clear") /\ Fault /\ UNCHANGED control
            \/ /\ Goto("retry") /\ NoFault /\ index' = tempo /\ caller' = "submit"
               /\ todo' = rPending \cup unack /\ UNCHANGED <<cur, cycle, replay, failed>>
    /\ UNCHANGED <<mode, live, memory, saved, rPending, rReports, outside, history, kills>>

--------------------------------------------------------------------------------
\* _retry_pending_inclusion and _confirm_inclusion, whose callers are the submission of a tempo,
\* the delivery pass of a cycle and, for one inclusion, the window that has just landed.

ConfirmNext ==
    /\ pc = "retry" /\ \E w \in todo : cur' = w /\ Goto("keep")
    /\ UNCHANGED <<mode, live, memory, index, caller, todo, cycle, replay, failed, saved, rPending, rReports,
                   outside, history, faults, kills>>

AllConfirmed ==
    /\ pc = "retry" /\ todo = {} /\ Goto(IF caller = "submit" THEN "fetch" ELSE "replay")
    /\ UNCHANGED <<mode, live, memory, control, saved, rPending, rReports, outside, history, faults, kills>>

\* The map written back: what Redis has and what memory has, without the tempo dropped.
PendingWithout(w) == (rPending \cup unack) \ {w}
PendingWith(w) == rPending \cup unack \cup {w}

\* mutant: the inclusion is kept in Redis alone
KeepInRedis ==
    /\ UNCHANGED unack
    /\ \/ rPending' = PendingWith(cur) /\ NoFault
       \/ rPending' \in {rPending, PendingWith(cur)} /\ Fault

\* _keep_pending_inclusion of a block: in memory whatever Redis does.
Keep ==
    /\ unack' = unack \cup {cur}
    /\ \/ rPending' = PendingWith(cur) /\ NoFault
       \/ rPending' \in {rPending, PendingWith(cur)} /\ Fault

KeepBefore ==
    /\ pc = "keep" /\ Goto("tell") /\ Keep
    /\ UNCHANGED <<mode, live, scores, ids, warm, done, control, saved, rReports, outside, history, kills>>

\* The report of the inclusion; its answer may be lost.
Tell ==
    /\ pc = "tell"
    /\ \/ acked' = acked \cup {cur} /\ Goto("drop") /\ NoFault
       \/ acked' \in {acked, acked \cup {cur}} /\ Goto("keepAgain") /\ Fault
    /\ UNCHANGED <<mode, live, memory, control, saved, rPending, rReports, tempo, landed, delivered, cycles, history, kills>>

DropKept ==
    /\ pc = "drop" /\ unack' = unack \ {cur}
    /\ \/ rPending' = PendingWithout(cur) /\ NoFault
       \/ rPending' \in {rPending, PendingWithout(cur)} /\ Fault
    /\ todo' = todo \ {cur} /\ cur' = None
    /\ Goto(IF caller = "landed" THEN "clear" ELSE "retry")
    /\ UNCHANGED <<mode, live, scores, ids, warm, done, index, caller, cycle, replay, failed, saved, rReports,
                   outside, history, kills>>

\* mutant: the next window does not wait for the last one's report
AfterRefusalGoOn == IF caller = "submit" THEN "fetch" ELSE IF caller = "landed" THEN "clear" ELSE "replay"

\* An inclusion the backend did not take ends the retry: no window is submitted, but the delivery
\* pass goes on to the reports.
AfterRefusal == IF caller \in {"submit", "landed"} THEN "clear" ELSE "replay"

KeepAgain ==
    /\ pc = "keepAgain" /\ Keep /\ Goto(AfterRefusal) /\ todo' = {} /\ cur' = None
    /\ UNCHANGED <<mode, live, scores, ids, warm, done, index, caller, cycle, replay, failed, saved, rReports,
                   outside, history, kills>>

--------------------------------------------------------------------------------
\* The settled window of the tempo.

Fetch ==
    /\ pc = "fetch"
    /\ \/ Goto("submit") /\ NoFault /\ UNCHANGED done
       \/ Goto("clear") /\ NoFault /\ done' = index   \* frozen empty
       \/ Goto("clear") /\ Fault /\ UNCHANGED done    \* unreachable
    /\ UNCHANGED <<mode, live, scores, ids, warm, unack, control, saved, rPending, rReports, outside, history, kills>>

\* A vector that landed although its submission failed or raised is not known to have landed.
Submit ==
    /\ pc = "submit"
    /\ \/ /\ landed' = landed \cup {index} /\ done' = index /\ cur' = index /\ caller' = "landed"
          /\ Goto("keep") /\ NoFault /\ dropped' = dropped \ {index}
       \/ /\ Goto("clear") /\ Fault /\ UNCHANGED <<done, cur, caller>>
          /\ \/ UNCHANGED <<landed, dropped>>
             \/ landed' = landed \cup {index} /\ dropped' = dropped \cup ({index} \ acked)
    /\ UNCHANGED <<mode, live, scores, ids, warm, unack, index, todo, cycle, replay, failed, saved, rPending,
                   rReports, tempo, acked, delivered, cycles, owed, lostReport, torn, kills>>

\* mutant: the ids of the cycles are kept with the next ones
ClearScoresOnly ==
    /\ pc = "clear" /\ Goto("drain") /\ FreshControl /\ scores' = {}
    /\ UNCHANGED <<mode, live, ids, warm, done, unack, saved, rPending, rReports, outside, history, faults, kills>>

\* Under enforce the accumulator is emptied whatever became of the window.
Clear ==
    /\ pc = "clear" /\ Goto("drain") /\ FreshControl /\ scores' = {} /\ ids' = {}
    /\ UNCHANGED <<mode, live, warm, done, unack, saved, rPending, rReports, outside, history, faults, kills>>

--------------------------------------------------------------------------------
\* A cycle's scores and its report.

\* No cycle is due, or it fails before its scores are added.
NoCycle ==
    /\ pc = "job" /\ Goto("persist")
    /\ UNCHANGED <<mode, live, memory, control, saved, rPending, rReports, outside, history, faults, kills>>

\* Without a verified burner the cycle is not reported.
Score ==
    /\ pc = "job" /\ cycles < MaxCycles /\ cycles' = cycles + 1
    /\ scores' = scores \cup {cycles'} /\ ids' = ids \cup {cycles'}
    /\ \/ /\ mode # "off" /\ Goto("report") /\ cycle' = cycles' /\ owed' = owed \cup {cycles'}
       \/ Goto("finish") /\ UNCHANGED <<cycle, owed>>
    /\ UNCHANGED <<mode, live, warm, done, unack, index, caller, todo, cur, replay, failed, saved, rPending,
                   rReports, tempo, landed, acked, delivered, lostReport, dropped, torn, faults, kills>>

\* A cycle beyond the bound, reported ...
LaterCycle ==
    /\ pc = "job" /\ cycles = MaxCycles /\ mode # "off" /\ Goto("pass")
    /\ UNCHANGED <<mode, live, memory, control, saved, rPending, rReports, outside, history, faults, kills>>

\* ... without a verified burner: the kept reports are not sent either.
UnreportedCycle ==
    /\ pc = "job" /\ cycles = MaxCycles /\ Goto("finish")
    /\ UNCHANGED <<mode, live, memory, control, saved, rPending, rReports, outside, history, faults, kills>>

\* mutant: the list is trimmed when a report joins it, before the delivery pass
KeptWithTrim(c) == Newest(rReports \cup {c})

KeptWith(c) == rReports \cup {c}

KeepReport ==
    /\ pc = "report"
    /\ \/ rReports' = KeptWith(cycle) /\ Goto("pass") /\ NoFault
       \/ rReports' \in {rReports, KeptWith(cycle)} /\ Goto("sendOnce") /\ Fault
    /\ UNCHANGED <<mode, live, memory, control, saved, rPending, outside, history, kills>>

\* Redis could not keep it: the one send decides.
SendOnce ==
    /\ pc = "sendOnce" /\ Goto("pass")
    /\ \/ delivered' = delivered \cup {cycle} /\ NoFault /\ UNCHANGED lostReport
       \/ /\ delivered' \in {delivered, delivered \cup {cycle}} /\ Fault
          /\ lostReport' = lostReport \cup ({cycle} \ rReports)
    /\ UNCHANGED <<mode, live, memory, control, saved, rPending, rReports, tempo, landed, acked, cycles, owed,
                   dropped, torn, kills>>

\* mutant: the pass of a cycle only replays the reports
PassTodoNone == {}

PassTodo == rPending \cup unack

\* _deliver_kept_settlement_reports: first the pending inclusions ...
Pass ==
    /\ pc = "pass" /\ caller' = "pass" /\ failed' = "no"
    /\ \/ Goto("retry") /\ todo' = PassTodo /\ NoFault
       \/ Goto("replay") /\ Fault /\ UNCHANGED todo
    /\ UNCHANGED <<mode, live, memory, index, cur, cycle, replay, saved, rPending, rReports, outside,
                   history, kills>>

\* ... then the kept reports.
ReadReports ==
    /\ pc = "replay"
    /\ \/ replay' = rReports /\ Goto("deliver") /\ NoFault /\ UNCHANGED failed
       \/ Goto("cap") /\ Fault /\ failed' = "yes" /\ UNCHANGED replay
    /\ UNCHANGED <<mode, live, memory, index, caller, todo, cur, cycle, saved, rPending, rReports, outside,
                   history, kills>>

\* The oldest goes first, and the first that is not taken ends the pass.
Deliver ==
    /\ pc = "deliver"
    /\ \/ replay = {} /\ Goto("cap") /\ NoFault /\ UNCHANGED <<delivered, failed>>
       \/ /\ replay # {} /\ delivered' = delivered \cup Oldest(replay)
          /\ Goto("lrem") /\ NoFault /\ UNCHANGED failed
       \/ /\ replay # {} /\ delivered' \in {delivered, delivered \cup Oldest(replay)}
          /\ Goto("cap") /\ Fault /\ failed' = "yes"
    /\ UNCHANGED <<mode, live, memory, index, caller, todo, cur, cycle, replay, saved, rPending, rReports,
                   tempo, landed, acked, cycles, history, kills>>

RemoveDelivered ==
    /\ pc = "lrem" /\ Goto("deliver") /\ replay' = replay \ Oldest(replay)
    /\ \/ rReports' = rReports \ Oldest(replay) /\ NoFault
       \/ rReports' \in {rReports, rReports \ Oldest(replay)} /\ Fault
    /\ UNCHANGED <<mode, live, memory, index, caller, todo, cur, cycle, failed, saved, rPending, outside, history, kills>>

\* SETTLEMENT_REPORTING_BUDGET_SECONDS cuts the pass off at the call it waits for.
BudgetSpent ==
    /\ pc \in {"keep", "tell", "drop", "keepAgain", "pass", "replay", "deliver", "lrem"}
    /\ pc # "pass" => caller = "pass"
    /\ Goto("cap") /\ failed' = "yes" /\ Fault
    /\ unack' = IF pc \in {"keep", "keepAgain"} THEN unack \cup {cur}
                ELSE IF pc = "drop" THEN unack \ {cur} ELSE unack
    /\ acked' \in IF pc = "tell" THEN {acked, acked \cup {cur}} ELSE {acked}
    /\ rPending' \in CASE pc \in {"keep", "keepAgain"} -> {rPending, PendingWith(cur)}
                      [] pc = "drop" -> {rPending, PendingWithout(cur)}
                      [] OTHER -> {rPending}
    /\ delivered' \in IF pc = "deliver" /\ replay # {} THEN {delivered, delivered \cup Oldest(replay)} ELSE {delivered}
    /\ rReports' \in IF pc = "lrem" THEN {rReports, rReports \ Oldest(replay)} ELSE {rReports}
    /\ UNCHANGED <<mode, live, scores, ids, warm, done, index, caller, todo, cur, cycle, replay, saved,
                   tempo, landed, cycles, history, kills>>

\* _cap_kept_cycle_reports, after the pass in every case.
CapReports ==
    /\ pc = "cap" /\ Goto("finish")
    /\ \/ rReports' = Newest(rReports) /\ NoFault
       \/ rReports' \in {rReports, Newest(rReports)} /\ Fault
    /\ lostReport' = lostReport \cup (IF failed = "yes" THEN rReports \ rReports' ELSE {})
    /\ UNCHANGED <<mode, live, memory, control, saved, rPending, outside, owed, dropped, torn, kills>>

\* The rest of the cycle, which may raise before it counts.
Finish ==
    /\ pc = "finish" /\ Goto("persist") /\ FreshControl
    /\ \/ warm' = "yes" /\ NoFault
       \/ Fault /\ UNCHANGED warm
    /\ UNCHANGED <<mode, live, scores, ids, done, unack, saved, rPending, rReports, outside, history, kills>>

\* The finally of sync(): the scores, then the ids.
Persist ==
    /\ pc = "persist" /\ FreshControl
    /\ \/ rScores' = scores /\ Goto("persistIds") /\ NoFault /\ UNCHANGED torn
       \/ rScores' \in {rScores, scores} /\ Goto("idle") /\ Fault /\ torn' = "yes"
    /\ UNCHANGED <<mode, live, memory, rIds, rPending, rReports, outside, owed, lostReport, dropped, kills>>

PersistIds ==
    /\ pc = "persistIds" /\ Goto("idle")
    /\ \/ rIds' = ids /\ NoFault /\ UNCHANGED torn
       \/ rIds' \in {rIds, ids} /\ Fault /\ torn' = "yes"
    /\ UNCHANGED <<mode, live, memory, control, rScores, rPending, rReports, outside, owed, lostReport, dropped, kills>>

\* The process is killed and starts again, perhaps in another mode.
Kill ==
    /\ kills < MaxKills /\ kills' = kills + 1 /\ pc # "start" /\ Goto("start") /\ mode' \in Mode
    /\ scores' = {} /\ ids' = {} /\ warm' = "no" /\ done' = None /\ unack' = {} /\ FreshControl
    /\ dropped' = dropped \cup (landed \ (acked \cup rPending))
    /\ lostReport' = lostReport \cup ({cycle} \cap (owed \ (delivered \cup rReports)))
    /\ lostLive' = lostLive \cup
           (IF pc \in {"tellLive", "sendLive"} THEN {lives} \ (taken \cup rLive) ELSE {})
    /\ torn' = IF pc = "persistIds" THEN "yes" ELSE torn
    /\ UNCHANGED <<saved, rLive, taken, lives, rPending, rReports, outside, owed, faults>>

--------------------------------------------------------------------------------
WeightsStep ==
    \/ Start \/ NoWeights \/ NoMiners \/ LiveWeights \/ SetWeights \/ KeepLive \/ SendLive
    \/ ReadLive \/ DrainSend \/ DrainRemove \/ CapLive \/ ShadowReads

WindowStep ==
    \/ SettledTempo \/ ConfirmNext \/ AllConfirmed \/ KeepBefore \/ Tell \/ DropKept \/ KeepAgain
    \/ Fetch \/ Submit \/ Clear

CycleStep ==
    \/ NoCycle \/ Score \/ LaterCycle \/ UnreportedCycle \/ KeepReport \/ SendOnce \/ Pass \/ ReadReports
    \/ Deliver \/ RemoveDelivered \/ BudgetSpent \/ CapReports \/ Finish \/ Persist \/ PersistIds

Tick == WeightsStep \/ WindowStep \/ CycleStep

Next == Tick \/ TempoPasses \/ Kill

Spec == Init /\ [][Next]_vars

\* sync() is called for ever, a cycle runs at every BLOCKS_FOR_JOB blocks, and again and again
\* one of them has a verified burner among its miners.
FairSpec == Spec /\ WF_vars(Tick) /\ SF_vars(Score \/ LaterCycle)

--------------------------------------------------------------------------------
\* A window that landed is acknowledged, or remembered in memory or in Redis until it is, unless
\* its landing was never known or the process was killed while Redis did not have it.
WindowsAccounted ==
    landed \ (acked \cup dropped) \subseteq unack \cup rPending \cup
        (IF pc = "keep" /\ caller = "landed" THEN {cur} ELSE {})

\* A window lands only when the backend has the inclusion of every one before it: the next one
\* would decide their deposits again.
NextWindowWaits == [][\A w \in landed' \ landed : landed \ {w} \subseteq acked \cup dropped]_vars

\* The report of a scored cycle, and that of live weights, is at the backend or kept, unless it
\* could neither be kept nor delivered, or the list was over its cap after a pass that failed.
ReportsAccounted ==
    /\ owed \subseteq delivered \cup rReports \cup lostReport \cup
           (IF pc \in {"report", "sendOnce"} THEN {cycle} ELSE {})
    /\ 1..lives \subseteq taken \cup rLive \cup lostLive \cup
           (IF pc \in {"tellLive", "sendLive"} THEN {lives} ELSE {})

\* live_cycle_ids names the cycles summed into miner_scores, as long as Redis had both or neither.
IdsAreTheSummed == torn = "no" => ids = scores

\* A landed window is reported in the end, while settlement is on.
WindowsReported ==
    \A w \in Tempo : w \in landed ~> w \in acked \cup dropped \/ mode = "off"
================================================================================
