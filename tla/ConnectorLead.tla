----------------------------- MODULE ConnectorLead -----------------------------
(***************************************************************************)
(* One connector leads at a time.  The lead is a Redis lock with a TTL: a  *)
(* starting connector waits for it, and the leader's keeper task renews it *)
(* three times per TTL.  A keeper whose lock expired takes it back, or     *)
(* exits its process when another connector has it.  A rollout kills a     *)
(* connector once another one is ready; a connector may also crash.        *)
(*                                                                         *)
(* Time is counted in renewal intervals.  In each one a keeper acts once;  *)
(* a Redis call that raises or loses its reply, an event loop that stalls  *)
(* for an interval and a crash each spend one of MaxFaults.                *)
(***************************************************************************)
EXTENDS Integers, FiniteSets

CONSTANTS
    Connector,
    Nobody,     \* the lock is free
    Orphan,     \* the lock was set for a connector that never got the reply
    TTL,        \* renewal intervals the lock lives without a renewal
    MaxFaults,  \* bound: Redis calls that raise, loops that stall for an interval
    MaxKills    \* bound: connectors a rollout kills

ASSUME LeadAssumption ==
    /\ TTL \in Nat \ {0} /\ MaxFaults \in Nat /\ MaxKills \in Nat
    /\ Nobody \notin Connector /\ Orphan \notin Connector \cup {Nobody}

VARIABLES
    holder,  \* Redis: who holds the lock
    left,    \* Redis: intervals left of its TTL
    pc,      \* "down", "starting", "waiting" or "leading"
    keeper,  \* the keeper task: "none", "renew", "retake" or "dead"
    ready,   \* connectors whose ready file exists
    acted,   \* connectors whose keeper acted in this interval
    lapsed,  \* history: leaders whose lock expired since they took it
    gap,     \* history: intervals a connector waited and none led, since one last led
    faults, kills

redisVars == <<holder, left>>
historyVars == <<gap, kills>>
vars == <<holder, left, pc, keeper, ready, acted, lapsed, gap, faults, kills>>

\* Types; the lock has time left exactly while it is held, and exactly the leading
\* connectors have a keeper task (take_connector_lead).
TypeOK ==
    /\ holder \in Connector \cup {Nobody, Orphan}
    /\ left \in 0..TTL /\ (left = 0 <=> holder = Nobody)
    /\ pc \in [Connector -> {"down", "starting", "waiting", "leading"}]
    /\ keeper \in [Connector -> {"none", "renew", "retake", "dead"}]
    /\ \A c \in Connector : keeper[c] # "none" <=> pc[c] = "leading"
    /\ ready \subseteq Connector /\ acted \subseteq Connector /\ lapsed \subseteq Connector
    /\ gap \in Nat /\ faults \in Nat /\ kills \in Nat

Init ==
    /\ holder = Nobody /\ left = 0
    /\ pc = [c \in Connector |-> "down"] /\ keeper = [c \in Connector |-> "none"]
    /\ ready = {} /\ acted = {} /\ lapsed = {}
    /\ gap = 0 /\ faults = 0 /\ kills = 0

Fault ==
    /\ faults < MaxFaults
    /\ faults' = faults + 1

\* the process is gone; what it held in Redis stays
Dies(c) ==
    /\ pc' = [pc EXCEPT ![c] = "down"]
    /\ keeper' = [keeper EXCEPT ![c] = "none"]
    /\ ready' = ready \ {c} /\ acted' = acted \ {c} /\ lapsed' = lapsed \ {c}

-----------------------------------------------------------------------------
(* take_connector_lead                                                    *)

\* the deployment starts a pod; it is not ready until it waits for the lead
Start(c) ==
    /\ pc[c] = "down"
    /\ pc' = [pc EXCEPT ![c] = "starting"]
    /\ UNCHANGED <<redisVars, keeper, ready, acted, lapsed, faults, historyVars>>

MarkReady(c) ==
    /\ pc[c] = "starting"
    /\ pc' = [pc EXCEPT ![c] = "waiting"]
    /\ ready' = ready \cup {c}
    /\ UNCHANGED <<redisVars, keeper, acted, lapsed, faults, historyVars>>

\* mutant: the lock is taken without NX
AcquireAlways(c) ==
    /\ pc[c] = "waiting"
    /\ holder' = c /\ left' = TTL
    /\ pc' = [pc EXCEPT ![c] = "leading"]
    /\ keeper' = [keeper EXCEPT ![c] = "renew"]
    /\ acted' = acted \cup {c} /\ gap' = 0
    /\ UNCHANGED <<ready, lapsed, faults, kills>>

\* SET NX PX: the lead and its keeper start
Acquire(c) ==
    /\ pc[c] = "waiting" /\ holder = Nobody
    /\ holder' = c /\ left' = TTL
    /\ pc' = [pc EXCEPT ![c] = "leading"]
    /\ keeper' = [keeper EXCEPT ![c] = "renew"]
    /\ acted' = acted \cup {c} /\ gap' = 0
    /\ UNCHANGED <<ready, lapsed, faults, kills>>

\* a Redis error: unready, then try again
AcquireFails(c) ==
    /\ pc[c] = "waiting"
    /\ Fault
    /\ pc' = [pc EXCEPT ![c] = "starting"]
    /\ ready' = ready \ {c}
    /\ UNCHANGED <<redisVars, keeper, acted, lapsed, historyVars>>

-----------------------------------------------------------------------------
(* _keep_connector_lead                                                   *)

\* the SET lands and its reply is lost: the client's retry finds the key taken, by a
\* token nobody keeps
Orphaned(c) ==
    /\ pc[c] = "waiting" \/ keeper[c] = "retake"
    /\ holder = Nobody
    /\ Fault
    /\ holder' = Orphan /\ left' = TTL
    /\ UNCHANGED <<pc, keeper, ready, acted, lapsed, historyVars>>

Acts(c) ==
    /\ keeper[c] = "renew" /\ c \notin acted
    /\ acted' = acted \cup {c}

\* mutant: the renewal does not start the TTL again
RenewShort(c) ==
    /\ Acts(c)
    /\ holder = c
    /\ UNCHANGED <<redisVars, pc, keeper, ready, lapsed, faults, historyVars>>

\* reacquire: the lock is ours, its TTL starts again
Renew(c) ==
    /\ Acts(c)
    /\ holder = c
    /\ left' = TTL
    /\ UNCHANGED <<holder, pc, keeper, ready, lapsed, faults, historyVars>>

\* LockNotOwnedError: the lock expired
NotOwned(c) ==
    /\ Acts(c)
    /\ holder # c
    /\ keeper' = [keeper EXCEPT ![c] = "retake"]
    /\ UNCHANGED <<redisVars, pc, ready, lapsed, faults, historyVars>>

\* any other error is logged until the next interval (the renewal may have landed);
\* a stalled loop misses the interval
RenewFails(c) ==
    /\ Acts(c)
    /\ Fault
    /\ left' \in {left} \cup {TTL : d \in {holder} \cap {c}}
    /\ UNCHANGED <<holder, pc, keeper, ready, lapsed, historyVars>>

\* mutant: a connector that lost the lead leads on
RetakeStays(c) ==
    /\ keeper[c] = "retake"
    /\ keeper' = [keeper EXCEPT ![c] = "renew"]
    /\ IF holder = Nobody
       THEN holder' = c /\ left' = TTL /\ lapsed' = lapsed \ {c}
       ELSE UNCHANGED <<holder, left, lapsed>>
    /\ UNCHANGED <<pc, ready, acted, faults, historyVars>>

\* the non-blocking acquire: lead on if nobody took over, else os._exit
Retake(c) ==
    /\ keeper[c] = "retake"
    /\ \/ /\ holder = Nobody
          /\ holder' = c /\ left' = TTL
          /\ keeper' = [keeper EXCEPT ![c] = "renew"]
          /\ lapsed' = lapsed \ {c}
          /\ UNCHANGED <<pc, ready, acted>>
       \/ /\ holder # Nobody
          /\ Dies(c)
          /\ UNCHANGED redisVars
    /\ UNCHANGED <<faults, historyVars>>

\* the acquire raises inside the except block, which no handler covers: the keeper
\* task ends and the connector goes on without one
RetakeRaises(c) ==
    /\ keeper[c] = "retake"
    /\ Fault
    /\ keeper' = [keeper EXCEPT ![c] = "dead"]
    /\ UNCHANGED <<redisVars, pc, ready, acted, lapsed, historyVars>>

-----------------------------------------------------------------------------
\* every keeper acted in this interval, and no connector polls (each 0.5 s) a free lock
IntervalOver ==
    /\ \A c \in Connector :
          /\ keeper[c] # "retake" /\ (keeper[c] = "renew" => c \in acted)
          /\ pc[c] = "waiting" => holder # Nobody
    /\ \E c \in Connector : pc[c] # "down"

\* bound: the gap is counted no further than this
MaxGap == TTL * (1 + MaxFaults) + 1

Counted ==
    /\ acted' = {}
    /\ gap' = IF /\ \E c \in Connector : pc[c] = "waiting"
                 /\ \A c \in Connector : pc[c] # "leading"
                 /\ gap < MaxGap
              THEN gap + 1
              ELSE gap
    /\ UNCHANGED <<pc, keeper, ready, faults, kills>>

\* mutant: a lock without a TTL
TickNoExpiry ==
    /\ IntervalOver
    /\ Counted
    /\ UNCHANGED <<redisVars, lapsed>>

\* one renewal interval passes; a lock that was not renewed expires
Tick ==
    /\ IntervalOver
    /\ Counted
    /\ left' = IF left > 0 THEN left - 1 ELSE 0
    /\ IF left = 1
       THEN holder' = Nobody /\ lapsed' = lapsed \cup {c \in {holder} : c # Orphan /\ pc[c] = "leading"}
       ELSE UNCHANGED <<holder, lapsed>>

\* a rollout lets a pod go (SIGKILL) once another one is ready
Kill(c) ==
    /\ pc[c] # "down" /\ ready \ {c} # {}
    /\ kills < MaxKills /\ kills' = kills + 1
    /\ Dies(c)
    /\ UNCHANGED <<redisVars, faults, gap>>

\* the process, or start_process's run of it, ends in an error
Crash(c) ==
    /\ pc[c] # "down"
    /\ Fault
    /\ Dies(c)
    /\ UNCHANGED <<redisVars, historyVars>>

Step(c) ==
    \/ Start(c) \/ MarkReady(c) \/ Acquire(c) \/ AcquireFails(c) \/ Orphaned(c)
    \/ Renew(c) \/ NotOwned(c) \/ RenewFails(c) \/ Retake(c) \/ RetakeRaises(c)
    \/ Kill(c) \/ Crash(c)

Next == (\E c \in Connector : Step(c)) \/ Tick

Spec == Init /\ [][Next]_vars

\* pods are started, event loops run, Redis answers and time passes; nothing is
\* promised to fail or to be killed
Fairness ==
    /\ \A c \in Connector :
          /\ WF_vars(Start(c)) /\ WF_vars(MarkReady(c)) /\ WF_vars(Acquire(c))
          /\ WF_vars(Renew(c)) /\ WF_vars(NotOwned(c)) /\ WF_vars(Retake(c))
    /\ WF_vars(Tick)

FairSpec == Spec /\ Fairness

-----------------------------------------------------------------------------
\* A connector that leads and whose lock never expired holds it: no rollout, crash,
\* renewal or take-over of another connector takes it away.  So two connectors lead
\* together only after the lock of one expired in its hands.
LeaderHoldsLock ==
    \A c \in Connector : pc[c] = "leading" /\ c \notin lapsed => holder = c

\* The lock expires in a leader's hands only after TTL - 1 missed renewals: one Redis
\* error or one stall of the loop costs nobody the lead.
LapseTakesMissedRenewals == lapsed # {} => faults >= TTL - 1

\* While a connector waits, the backend is without one for no longer than the killed
\* one's lock lasts, and once more for each call of the waiting ones that went wrong.
BackendWaitBounded == gap <= TTL * (1 + faults)

\* Whoever was killed, crashed or lost the lock, some connector leads again.
AlwaysLedAgain == []<>(\E c \in Connector : pc[c] = "leading")

\* An overtaken connector stops leading, as long as its keeper is alive.
OvertakenKeeperStops ==
    \A c \in Connector :
        (pc[c] = "leading" /\ holder \notin {c, Nobody})
            ~> (pc[c] # "leading" \/ keeper[c] = "dead" \/ holder = c)

\* A connector whose lock expired leads on if nobody took over, and stops otherwise.
OvertakenStops ==
    \A c \in Connector :
        (pc[c] = "leading" /\ holder \notin {c, Nobody}) ~> (pc[c] # "leading" \/ holder = c)
=============================================================================
