-------------------------------- MODULE PodSwap --------------------------------
(***************************************************************************)
(* The containers of one pod on its node.  A create of the pod, an edit of *)
(* it (a create that names the pod's volume) and its delete are tasks of   *)
(* one event loop; each Docker command they send is a step of its own.  An *)
(* edit renames the customer's container aside and stops it, runs the      *)
(* replacement under the pod's name, and then removes the one set aside,   *)
(* or, on a failure, undoes all of it.  A delete cancels the create in     *)
(* flight, waits for it and for its steps after the reply, and removes the *)
(* pod's container by name.                                                *)
(*                                                                         *)
(* A container is identified by the create that ran it.  Any forward step  *)
(* of a create may fail.  Mishaps are a command of an undo or of a removal *)
(* that fails, a rename of an edit that Docker carries out although its    *)
(* host timeout reports it failed, and a crash of the connector.           *)
(***************************************************************************)
EXTENDS Integers

CONSTANTS
    Create,       \* the creates of the pod the backend may send
    Edit,         \* those that name the pod's volume: edits and reboots
    Resent,       \* those that may arrive while another one is in flight
    None,
    MaxMishaps,   \* bound: undo or removal commands that fail, renames that are
                  \* carried out but reported failed, crashes
    MaxTimeouts   \* bound: waits of a delete or an edit that run out

ASSUME SwapAssumption ==
    /\ Edit \subseteq Create /\ Resent \subseteq Create /\ None \notin Create
    /\ MaxMishaps \in Nat /\ MaxTimeouts \in Nat

VARIABLES
    named,      \* Docker: the container under the pod's name and under the parked one
    running,    \* Docker: the containers that run
    fate,       \* by container: "dying" while a kill that an edit gave up on may still
                \* land, "killed" once it did, "unstarted" when the undo left it stopped
    step,       \* where each create is
    seen,       \* the container ID a create read from its last listing
    parked,     \* _EditSwap.parked_name / parked_id
    replaced,   \* creates that know their container's ID (replacement_id)
    error,      \* by create: "gpus" if it failed because the pod's GPUs left the node,
                \* "back" if its rename back was carried out but reported failed
    live,       \* inflight_creates: creates registered for the pod
    cancelled,  \* inflight_creates: those whose entry a delete flagged
    after,      \* create_steps_after_reply, by create
    rented,     \* Redis: creates whose container the rented-machine cache lists
    inspector,  \* the node's inspector collector: "on" or "off"
    del,        \* the delete: "none" until the backend asks, "again" when it must re-ask
    awaited,    \* the steps after the reply the delete waits for
    standing,   \* the create whose reply last told the backend the pod is up
    mishaps, timeouts

hostVars == <<named, running>>
swapVars == <<seen, parked, replaced, error>>
nodeVars == <<fate, rented, inspector, standing>>
deleteVars == <<del, awaited>>
boundVars == <<mishaps, timeouts>>
otherVars == <<live, cancelled, after, nodeVars, deleteVars, boundVars>>
vars == <<named, running, fate, step, seen, parked, replaced, error, live, cancelled,
          after, rented, inspector, del, awaited, standing, mishaps, timeouts>>

Ended == {"idle", "ended", "left", "cut"}
Busy == {"connect", "image", "steps", "park", "drop", "recover", "aside", "stop", "sweep",
         "remove", "prepare", "run", "boot", "cache", "reply", "clean", "cleanAbort",
         "abort", "unremove", "unrename", "unstart"}

\* Types; a delete's flag is on registered creates only, for it goes with the entry
\* (_InflightCreateRegistry.track).
TypeOK ==
    /\ named \in [{"pod", "parked"} -> Create \cup {None}]
    /\ running \subseteq Create
    /\ fate \in [Create -> {"none", "dying", "killed", "unstarted"}]
    /\ error \in [Create -> {"none", "gpus", "back"}]
    /\ step \in [Create -> Ended \cup Busy]
    /\ seen \in [Create -> Create \cup {None}]
    /\ parked \in [Create -> Create \cup {None}]
    /\ replaced \subseteq Create /\ live \subseteq Create /\ cancelled \subseteq live
    /\ after \in [Create -> {"none", "inspector", "remove"}]
    /\ rented \subseteq Create /\ inspector \in {"on", "off"}
    /\ del \in {"none", "again", "wait", "steps", "remove", "forget", "inspector", "done"}
    /\ awaited \subseteq Create /\ standing \in Create \cup {None}
    /\ mishaps \in 0..MaxMishaps /\ timeouts \in 0..MaxTimeouts

Init ==
    /\ named = [n \in {"pod", "parked"} |-> None] /\ running = {}
    /\ fate = [c \in Create |-> "none"] /\ error = [c \in Create |-> "none"]
    /\ step = [c \in Create |-> "idle"]
    /\ seen = [c \in Create |-> None] /\ parked = [c \in Create |-> None]
    /\ replaced = {} /\ live = {} /\ cancelled = {}
    /\ after = [c \in Create |-> "none"]
    /\ rented = {} /\ inspector = "off"
    /\ del = "none" /\ awaited = {} /\ standing = None
    /\ mishaps = 0 /\ timeouts = 0

Mishap == mishaps < MaxMishaps /\ mishaps' = mishaps + 1

Timeout == timeouts < MaxTimeouts /\ timeouts' = timeouts + 1

Goes(c, s) == step' = [step EXCEPT ![c] = s]

Fails(c, e) == error' = [error EXCEPT ![c] = e]

-----------------------------------------------------------------------------
(* Docker                                                                  *)

\* docker rm -fv of an ID; an ID that is gone is no error
RemoveId(i) ==
    /\ named' = [n \in {"pod", "parked"} |-> IF named[n] = i THEN None ELSE named[n]]
    /\ running' = running \ {i}

\* docker rm -fv of a name
RemoveName(n) ==
    /\ named' = [named EXCEPT ![n] = None]
    /\ running' = running \ {named[n]}

CanRename(n, m) == named[n] # None /\ named[m] = None

\* docker rename
Rename(n, m) == named' = [named EXCEPT ![m] = named[n], ![n] = None]

Fate(i, f) == fate' = [j \in Create |-> IF j = i THEN f ELSE fate[j]]

\* a kill that an edit gave up waiting for takes effect after all
LateKill(i) ==
    /\ fate[i] = "dying" /\ i \in running
    /\ running' = running \ {i} /\ Fate(i, "killed")
    /\ UNCHANGED <<named, step, swapVars, live, cancelled, after, rented, inspector,
                   standing, deleteVars, boundVars>>

-----------------------------------------------------------------------------
(* create_container up to docker run                                      *)

\* an error leaves the connections: _EditSwap.__aexit__ undoes the edit
ErrorExit(c) == IF parked[c] = None THEN "ended" ELSE "unremove"

IsOnlyCreate(c) == live = {c}

\* from docker run on its container is removed first: by ID, or by name if no other
\* create is in flight at that moment
Cleans(c) == c \in replaced \/ IsOnlyCreate(c)
ErrorClean(c) == IF Cleans(c) THEN "clean" ELSE ErrorExit(c)
AbortClean(c) == IF Cleans(c) THEN "cleanAbort" ELSE "abort"

\* the job is registered before the handshake; the backend edits a pod it knows to be up
Begin(c) ==
    /\ step[c] = "idle" /\ del = "none"
    /\ live = {} \/ c \in Resent
    /\ (c \in Edit) <=> (standing # None)
    /\ Goes(c, "connect") /\ live' = live \cup {c}
    /\ UNCHANGED <<hostVars, swapVars, cancelled, after, nodeVars, deleteVars, boundVars>>

\* connect, first checkpoint
Connect(c) ==
    /\ step[c] = "connect"
    /\ IF c \in cancelled THEN Goes(c, "abort") ELSE Goes(c, "image") \/ Goes(c, "ended")
    /\ UNCHANGED <<hostVars, swapVars, otherVars>>

\* pull or build, stopped when the delete cancels the create
Image(c) ==
    /\ step[c] = "image"
    /\ IF c \in cancelled
       THEN Goes(c, "abort")
       ELSE Goes(c, IF c \in Edit THEN "steps" ELSE "sweep") \/ Goes(c, "ended")
    /\ UNCHANGED <<hostVars, swapVars, otherVars>>

\* an edit waits for the steps after the reply of the create before it, then checks
WaitSteps(c) ==
    /\ step[c] = "steps"
    /\ \A d \in Create : after[d] = "none"
    /\ Goes(c, IF c \in cancelled THEN "abort" ELSE "park")
    /\ UNCHANGED <<hostVars, swapVars, otherVars>>

\* the steps of S are cancelled: an inspector start already sent may land, the parked
\* container is still removed
CancelSteps(S) ==
    /\ after' = [c \in Create |->
                    IF c \in S /\ after[c] = "inspector" THEN "remove" ELSE after[c]]
    /\ inspector' \in {inspector} \cup {"on" : c \in {d \in S : after[d] = "inspector"}}

WaitStepsRunsOut(c) ==
    /\ step[c] = "steps" /\ \E d \in Create : after[d] # "none"
    /\ Timeout
    /\ CancelSteps(Create)
    /\ Goes(c, IF c \in cancelled THEN "abort" ELSE "park")
    /\ UNCHANGED <<hostVars, swapVars, live, cancelled, fate, rented, standing,
                   deleteVars, mishaps>>

\* docker ps: which of the two names exist
Park(c) ==
    /\ step[c] = "park"
    /\ \/ /\ named["pod"] # None /\ named["parked"] # None
          /\ Goes(c, "drop") /\ seen' = [seen EXCEPT ![c] = named["pod"]]
       \/ /\ named["pod"] # None /\ named["parked"] = None
          /\ Goes(c, "aside") /\ seen' = [seen EXCEPT ![c] = named["pod"]]
       \/ /\ named["pod"] = None /\ named["parked"] # None
          /\ Goes(c, "recover") /\ seen' = [seen EXCEPT ![c] = named["parked"]]
       \/ /\ named["pod"] = None /\ named["parked"] = None
          /\ Goes(c, "sweep") /\ UNCHANGED seen
       \/ Goes(c, "ended") /\ UNCHANGED seen
    /\ UNCHANGED <<hostVars, parked, replaced, error, otherVars>>

\* both exist: the parked one is taken for a leftover
ParkDrop(c) ==
    /\ step[c] = "drop"
    /\ RemoveName("parked") \/ UNCHANGED hostVars
    /\ Goes(c, "aside")
    /\ UNCHANGED <<swapVars, otherVars>>

\* mutant: the parked container of a crashed edit is removed
ParkRecoverDrops(c) ==
    /\ step[c] = "recover"
    /\ RemoveName("parked")
    /\ Goes(c, "sweep")
    /\ UNCHANGED <<swapVars, otherVars>>

\* an earlier edit was cut off: its parked container gets its name back
ParkRecover(c) ==
    /\ step[c] = "recover"
    /\ \/ /\ CanRename("parked", "pod") /\ Rename("parked", "pod")
          /\ Goes(c, "aside") \/ Goes(c, "ended")
       \/ UNCHANGED named /\ Goes(c, "ended")
    /\ UNCHANGED <<running, swapVars, otherVars>>

\* the rename is reported done, reported failed although it was carried out, or failed
ParkAside(c) ==
    /\ step[c] = "aside"
    /\ \/ /\ CanRename("pod", "parked") /\ Rename("pod", "parked")
          /\ \/ /\ parked' = [parked EXCEPT ![c] = seen[c]]
                /\ Goes(c, "stop") /\ UNCHANGED mishaps
             \/ Mishap /\ Goes(c, "ended") /\ UNCHANGED parked
       \/ UNCHANGED <<named, parked, mishaps>> /\ Goes(c, "ended")
    /\ UNCHANGED <<running, seen, replaced, error, live, cancelled, after, nodeVars,
                   deleteVars, timeouts>>

\* mutant: a container that could not be stopped counts as stopped
ParkStopIgnored(c) ==
    /\ step[c] = "stop"
    /\ running' = running \ {named["parked"]} \/ UNCHANGED running
    /\ Goes(c, "sweep")
    /\ UNCHANGED <<named, swapVars, otherVars>>

\* stop, else kill; one that still runs gets its name back, and the undo is left out only
\* if that rename is reported done; any other container is left to the undo
ParkStop(c) ==
    /\ step[c] = "stop"
    /\ \/ /\ running' = running \ {named["parked"]} /\ Fate(named["parked"], "none")
          /\ Goes(c, "sweep")
          /\ UNCHANGED <<named, parked, error, mishaps>>
       \/ /\ named["parked"] \in running /\ Fate(named["parked"], "dying")
          /\ CanRename("parked", "pod") /\ Rename("parked", "pod")
          /\ \/ /\ parked' = [parked EXCEPT ![c] = None] /\ Goes(c, "ended")
                /\ UNCHANGED <<error, mishaps>>
             \/ Mishap /\ Fails(c, "back") /\ Goes(c, "unremove") /\ UNCHANGED parked
          /\ UNCHANGED running
       \/ /\ \/ running' = running \ {named["parked"]} /\ UNCHANGED fate
             \/ /\ named["parked"] \in running /\ Fate(named["parked"], "dying")
                /\ UNCHANGED running
          /\ Goes(c, "unremove")
          /\ UNCHANGED <<named, parked, error, mishaps>>
    /\ UNCHANGED <<seen, replaced, live, cancelled, after, rented, inspector, standing,
                   deleteVars, timeouts>>

\* mutant: the sweep takes the parked container for a leftover too
SweepParked(c) ==
    /\ step[c] = "sweep"
    /\ seen' = [seen EXCEPT ![c] = IF named["pod"] = None THEN named["parked"]
                                                         ELSE named["pod"]]
    /\ Goes(c, "remove")
    /\ UNCHANGED <<hostVars, parked, replaced, error, otherVars>>

\* clean_existing_containers lists the host: what holds the pod's name is stale
Sweep(c) ==
    /\ step[c] = "sweep"
    /\ seen' = [seen EXCEPT ![c] = named["pod"]]
    /\ Goes(c, "remove")
    /\ UNCHANGED <<hostVars, parked, replaced, error, otherVars>>

\* it goes by the listed ID; a removal that fails fails the create
SweepRemove(c) ==
    /\ step[c] = "remove"
    /\ \/ RemoveId(seen[c]) /\ (Goes(c, "prepare") \/ Goes(c, ErrorExit(c)))
       \/ UNCHANGED hostVars /\ Goes(c, ErrorExit(c))
    /\ UNCHANGED <<swapVars, otherVars>>

\* volumes, GPUs, ports, any of which may fail; then the last look before docker run
Prepare(c) ==
    /\ step[c] = "prepare"
    /\ \/ /\ IF c \in cancelled THEN Goes(c, AbortClean(c))
                                ELSE Goes(c, "run") \/ Goes(c, ErrorClean(c))
          /\ UNCHANGED error
       \/ Goes(c, ErrorExit(c)) /\ (UNCHANGED error \/ Fails(c, "gpus"))
    /\ UNCHANGED <<hostVars, seen, parked, replaced, otherVars>>

-----------------------------------------------------------------------------
(* docker run, and the create's end                                       *)

\* the container runs and its ID is known
Run(c) ==
    /\ step[c] = "run" /\ named["pod"] = None
    /\ named' = [named EXCEPT !["pod"] = c] /\ running' = running \cup {c}
    /\ replaced' = replaced \cup {c}
    /\ Goes(c, "boot")
    /\ UNCHANGED <<seen, parked, error, otherVars>>

\* it fails or is reported failed, before or after Docker created or started the container
RunFails(c) ==
    /\ step[c] = "run" /\ named["pod"] = None
    /\ \/ UNCHANGED hostVars
       \/ /\ named' = [named EXCEPT !["pod"] = c]
          /\ running' \in {running, running \cup {c}}
    /\ Goes(c, ErrorClean(c))
    /\ UNCHANGED <<swapVars, otherVars>>

\* a known Docker race: tried again, and the removal of the first attempt's container
\* failed
RunAgain(c) ==
    /\ step[c] = "run" /\ named["pod"] = None
    /\ Mishap
    /\ named' = [named EXCEPT !["pod"] = c]
    /\ UNCHANGED <<running, step, swapVars, live, cancelled, after, nodeVars,
                   deleteVars, timeouts>>

\* 409, the name is in use: the pod's own leftover goes, if it is known to be stopped and
\* no other create is in flight, and the run is tried again; else the container is kept
RunMeetsName(c) ==
    /\ step[c] = "run" /\ named["pod"] # None
    /\ \/ /\ IsOnlyCreate(c) /\ named["pod"] \notin running
          /\ named' = [named EXCEPT !["pod"] = None] /\ UNCHANGED step
       \/ Goes(c, ErrorExit(c)) /\ UNCHANGED named
    /\ UNCHANGED <<running, swapVars, otherVars>>

\* running check, bootstrap and SSH check, then the last checkpoint
Boot(c) ==
    /\ step[c] = "boot"
    /\ \/ c \in running /\ Goes(c, IF c \in cancelled THEN "cleanAbort" ELSE "cache")
       \/ Goes(c, "clean")
    /\ UNCHANGED <<hostVars, swapVars, otherVars>>

\* best effort
CacheRented(c) ==
    /\ step[c] = "cache"
    /\ rented' \in {rented, rented \cup {c}}
    /\ Goes(c, "reply")
    /\ UNCHANGED <<hostVars, swapVars, live, cancelled, after, fate, inspector,
                   standing, deleteVars, boundVars>>

\* the reply goes to the backend, the steps after it take over the connections
Reply(c) ==
    /\ step[c] = "reply"
    /\ standing' = c
    /\ after' = [after EXCEPT ![c] = "inspector"]
    /\ Goes(c, "ended")
    /\ UNCHANGED <<hostVars, swapVars, live, cancelled, fate, rented, inspector,
                   deleteVars, boundVars>>

\* mutant: the job and the handler both count the create, one of them leaves
LeaveCounted(c) ==
    /\ step[c] = "ended"
    /\ Goes(c, "left")
    /\ UNCHANGED <<hostVars, swapVars, otherVars>>

\* the last create to leave takes the entry and its flag along
Leave(c) ==
    /\ step[c] = "ended"
    /\ Goes(c, "left") /\ live' = live \ {c} /\ cancelled' = cancelled \ {c}
    /\ UNCHANGED <<hostVars, swapVars, after, nodeVars, deleteVars, boundVars>>

StartInspector(c) ==
    /\ after[c] = "inspector"
    /\ after' = [after EXCEPT ![c] = "remove"]
    /\ inspector' \in {inspector, "on"}
    /\ UNCHANGED <<hostVars, step, swapVars, live, cancelled, fate, rented, standing,
                   deleteVars, boundVars>>

\* the connections close: _EditSwap removes the container it parked, by ID
RemoveParked(c) ==
    /\ after[c] = "remove"
    /\ after' = [after EXCEPT ![c] = "none"]
    /\ \/ RemoveId(parked[c]) /\ UNCHANGED mishaps
       \/ Mishap /\ UNCHANGED hostVars
    /\ UNCHANGED <<step, swapVars, live, cancelled, nodeVars, deleteVars, timeouts>>

-----------------------------------------------------------------------------
(* A create that fails                                                     *)

\* cleanup_failed_container_creation
Cleanup(c) ==
    /\ step[c] \in {"clean", "cleanAbort"}
    /\ \/ c \in replaced /\ RemoveId(c) /\ UNCHANGED mishaps
       \/ c \notin replaced /\ RemoveName("pod") /\ UNCHANGED mishaps
       \/ Mishap /\ UNCHANGED hostVars
    /\ Goes(c, IF step[c] = "clean" THEN ErrorExit(c) ELSE "abort")
    /\ UNCHANGED <<swapVars, live, cancelled, after, nodeVars, deleteVars, timeouts>>

\* cancelled by the delete: the parked container is removed
AbortSwap(c) ==
    /\ step[c] = "abort"
    /\ \/ RemoveId(parked[c]) /\ UNCHANGED mishaps
       \/ Mishap /\ UNCHANGED hostVars
    /\ Goes(c, "ended")
    /\ UNCHANGED <<swapVars, live, cancelled, after, nodeVars, deleteVars, timeouts>>

\* restore: the half-built replacement goes, by ID when it is known
RestoreRemove(c) ==
    /\ step[c] = "unremove"
    /\ \/ c \in replaced /\ RemoveId(c) /\ UNCHANGED mishaps
       \/ c \notin replaced /\ RemoveName("pod") /\ UNCHANGED mishaps
       \/ Mishap /\ UNCHANGED hostVars
    /\ Goes(c, "unrename") \/ (mishaps' # mishaps /\ Goes(c, "ended"))
    /\ UNCHANGED <<swapVars, live, cancelled, after, nodeVars, deleteVars, timeouts>>

RestoreRename(c) ==
    /\ step[c] = "unrename"
    /\ \/ /\ CanRename("parked", "pod") /\ Rename("parked", "pod")
          /\ Goes(c, "unstart") /\ UNCHANGED mishaps
       \/ /\ ~CanRename("parked", "pod")
          /\ Goes(c, "ended") /\ UNCHANGED <<named, mishaps>>
       \/ /\ Mishap /\ Goes(c, "ended")
          /\ UNCHANGED named \/ (CanRename("parked", "pod") /\ Rename("parked", "pod"))
    /\ UNCHANGED <<running, swapVars, live, cancelled, after, nodeVars, deleteVars,
                   timeouts>>

\* mutant: the restored container is not started
RestoreNoStart(c) ==
    /\ step[c] = "unstart"
    /\ Goes(c, "ended")
    /\ UNCHANGED <<hostVars, swapVars, otherVars>>

\* bring_up: start, remount, sshd; left out when the pod's GPUs are gone
RestoreStart(c) ==
    /\ step[c] = "unstart"
    /\ \/ /\ error[c] = "gpus"
          /\ Fate(named["pod"], "unstarted") /\ UNCHANGED <<running, mishaps>>
       \/ /\ error[c] # "gpus"
          /\ running' = running \cup ({named["pod"]} \ {None})
          /\ fate' = [i \in Create |-> IF i = named["pod"] /\ fate[i] # "dying"
                                       THEN "none" ELSE fate[i]]
          /\ UNCHANGED mishaps
       \/ /\ error[c] # "gpus" /\ Mishap
          /\ running' \in {running, running \cup ({named["pod"]} \ {None})}
          /\ UNCHANGED fate
    /\ Goes(c, "ended")
    /\ UNCHANGED <<named, swapVars, live, cancelled, after, rented, inspector, standing,
                   deleteVars, timeouts>>

-----------------------------------------------------------------------------
(* delete_container                                                        *)

Waits(s) == del' = s /\ awaited' = {c \in Create : s = "steps" /\ after[c] # "none"}

\* mutant: the delete does not cancel the create in flight
AskDeleteOnly ==
    /\ del \in {"none", "again"}
    /\ Waits("steps") /\ UNCHANGED cancelled
    /\ UNCHANGED <<hostVars, step, swapVars, live, after, nodeVars, boundVars>>

\* the backend asks, or re-asks: cancel the create in flight, if there is one
AskDelete ==
    /\ del \in {"none", "again"}
    /\ cancelled' = live
    /\ Waits(IF live = {} THEN "steps" ELSE "wait")
    /\ UNCHANGED <<hostVars, step, swapVars, live, after, nodeVars, boundVars>>

CreatesLeft ==
    /\ del = "wait" /\ live = {}
    /\ Waits("steps")
    /\ UNCHANGED <<hostVars, step, swapVars, live, cancelled, after, nodeVars, boundVars>>

\* CANCELLED_CREATE_ABORT_TIMEOUT_SECONDS: delete without the create
CreatesWaitRunsOut ==
    /\ del = "wait" /\ live # {}
    /\ Timeout
    /\ Waits("steps")
    /\ UNCHANGED <<hostVars, step, swapVars, live, cancelled, after, nodeVars, mishaps>>

\* mutant: the delete does not wait for the steps after the reply
StepsUnawaited ==
    /\ del = "steps"
    /\ Waits("remove")
    /\ UNCHANGED <<hostVars, step, swapVars, live, cancelled, after, nodeVars, boundVars>>

StepsDone ==
    /\ del = "steps" /\ \A c \in awaited : after[c] = "none"
    /\ Waits("remove")
    /\ UNCHANGED <<hostVars, step, swapVars, live, cancelled, after, nodeVars, boundVars>>

StepsWaitRunsOut ==
    /\ del = "steps" /\ \E c \in awaited : after[c] # "none"
    /\ Timeout
    /\ CancelSteps(awaited)
    /\ Waits("remove")
    /\ UNCHANGED <<hostVars, step, swapVars, live, cancelled, fate, rented, standing,
                   mishaps>>

\* stop, then rm -f of the pod's name: done, or refused (a GPU operation holds the pod)
\* or reported failed, the container removed, stopped or neither, and the backend re-asks
DeleteRemove ==
    /\ del = "remove"
    /\ \/ RemoveName("pod") /\ Waits("forget") /\ UNCHANGED mishaps
       \/ /\ Mishap /\ Waits("again")
          /\ \/ RemoveName("pod")
             \/ UNCHANGED named /\ running' \in {running, running \ {named["pod"]}}
    /\ UNCHANGED <<step, swapVars, live, cancelled, after, nodeVars, timeouts>>

\* best effort
DeleteForget ==
    /\ del = "forget"
    /\ \/ rented' = {} /\ UNCHANGED mishaps
       \/ Mishap /\ UNCHANGED rented
    /\ Waits("inspector")
    /\ UNCHANGED <<hostVars, step, swapVars, live, cancelled, after, fate, inspector,
                   standing, timeouts>>

\* the collector stops with the node's last rented pod; the delete is answered
DeleteInspector ==
    /\ del = "inspector"
    /\ \/ rented = {} /\ inspector' = "off" /\ UNCHANGED mishaps
       \/ rented # {} /\ UNCHANGED <<inspector, mishaps>>
       \/ rented = {} /\ Mishap /\ UNCHANGED inspector
    /\ Waits("done")
    /\ UNCHANGED <<hostVars, step, swapVars, live, cancelled, after, fate, rented,
                   standing, timeouts>>

\* the connector dies: its tasks and registries go, the host and Redis stay
Crash ==
    /\ live # {} \/ (\E c \in Create : after[c] # "none") \/ del \notin {"none", "again", "done"}
    /\ Mishap
    /\ step' = [c \in Create |-> IF c \in live THEN "cut" ELSE step[c]]
    /\ live' = {} /\ cancelled' = {} /\ after' = [c \in Create |-> "none"]
    /\ Waits(IF del \in {"none", "done"} THEN del ELSE "again")
    /\ UNCHANGED <<hostVars, swapVars, nodeVars, timeouts>>

Forward(c) ==
    \/ Connect(c) \/ Image(c) \/ WaitSteps(c) \/ Park(c) \/ ParkDrop(c) \/ ParkRecover(c)
    \/ ParkAside(c) \/ ParkStop(c) \/ Sweep(c) \/ SweepRemove(c) \/ Prepare(c)
    \/ Run(c) \/ RunFails(c) \/ RunAgain(c) \/ RunMeetsName(c) \/ Boot(c) \/ CacheRented(c) \/ Reply(c)

Backward(c) ==
    \/ Cleanup(c) \/ AbortSwap(c) \/ RestoreRemove(c) \/ RestoreRename(c) \/ RestoreStart(c)

CreateStep(c) == Forward(c) \/ Backward(c) \/ Leave(c)

StepAfterReply(c) == StartInspector(c) \/ RemoveParked(c)

DeleteStep ==
    CreatesLeft \/ StepsDone \/ DeleteRemove \/ DeleteForget \/ DeleteInspector

Next ==
    \/ \E c \in Create :
          \/ Begin(c) \/ CreateStep(c) \/ WaitStepsRunsOut(c) \/ StepAfterReply(c)
          \/ LateKill(c)
    \/ AskDelete \/ DeleteStep \/ CreatesWaitRunsOut \/ StepsWaitRunsOut
    \/ Crash

Spec == Init /\ [][Next]_vars

\* the event loop runs every task and Docker answers or times out; a delete that was
\* not answered is asked again
Fairness ==
    /\ \A c \in Create : WF_vars(CreateStep(c)) /\ WF_vars(StepAfterReply(c))
    /\ WF_vars(DeleteStep)
    /\ WF_vars(del = "again" /\ AskDelete)

FairSpec == Spec /\ Fairness

-----------------------------------------------------------------------------
\* a rename back after a failed stop was carried out but reported failed
Misled == \E c \in Create : error[c] = "back"

\* Whatever else fails and wherever the connector dies, a pod that is up and not being
\* deleted has a container on the node, under its name or the parked one, until the
\* rename back after a failed stop is carried out but reported failed: restore() then
\* removes by name the container that has just got it back (NothingDestroyed).
CopyKept ==
    standing # None /\ del = "none" /\ ~Misled
        => named["pod"] # None \/ named["parked"] # None

\* "If the container cannot even be stopped, the edit fails before anything was
\* destroyed": whatever fails, a pod that is up and not being deleted has a container.
NothingDestroyed ==
    standing # None /\ del = "none" => named["pod"] # None \/ named["parked"] # None

\* The parked container and its replacement never run together: they would share the
\* pod's ports, GPUs and volume.
NeverBothRun == ~(named["pod"] \in running /\ named["parked"] \in running)

\* it runs, or a late kill stopped it, or the undo did not start it without its GPUs
AsLeft(i) == i \in running \/ fate[i] \in {"killed", "unstarted"}

\* An edit that fails leaves the pod as it was: with no create in flight, the container
\* the backend knows has the pod's name and runs, unless the kill the edit gave up on
\* landed late, or the pod's GPUs left the node and restore() does not start it.  Not
\* so once a command of an undo failed, a rename was carried out but reported failed (one
\* aside leaves the container parked, with nothing to undo it), or the connector died.
EditUndone ==
    standing # None /\ del = "none" /\ live = {} /\ mishaps = 0
        => named["pod"] = standing /\ AsLeft(standing)

Quiet == live = {} /\ \A c \in Create : after[c] = "none"

\* A deleted pod is gone once its tasks ended: nothing holds its names or runs.
DeletedIsGone ==
    del = "done" /\ Quiet /\ mishaps = 0 /\ timeouts = 0
        => /\ named["pod"] = None /\ named["parked"] = None /\ running = {}

\* The inspector of a node without a rented pod is off: no start lands after the stop.
InspectorOff ==
    del = "done" /\ Quiet /\ mishaps = 0 /\ timeouts = 0 => inspector = "off"

\* Every delete is answered: it does not wait for ever on the create it cancelled,
\* nor that one on the steps of the create before it.
DeleteAnswered == del # "none" ~> del = "done"

\* "the leftover parked one is stale": the edit that removes it does not remove the
\* container the backend still takes for the pod.
DroppedIsStale == \A c \in Create : step[c] = "drop" => named["parked"] # standing
=============================================================================
