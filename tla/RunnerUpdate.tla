----------------------------- MODULE RunnerUpdate -----------------------------
(***************************************************************************)
(* The watchtower of a node: one loop that replaces the executor-runner    *)
(* container when the platform authorizes another image digest.  The old   *)
(* container is renamed aside, the new one created under its name, the old *)
(* one stopped, the new one started, the old one removed; each is a        *)
(* command that may fail, or be carried out and reported as failed, and    *)
(* the process may die between any two.  The next cycle's lookup repairs   *)
(* what was left.                                                          *)
(*                                                                         *)
(* A container's name is the sequence of "-previous-<id>" suffixes of the  *)
(* runner's name: <<>> is the runner, <<c>> is c renamed aside.            *)
(***************************************************************************)
EXTENDS Integers, Sequences, FiniteSets

CONSTANTS
    Id,           \* container IDs
    Digest,       \* image digests
    None,
    MaxMishaps,   \* bound: commands and requests that fail, deaths of the process
    MaxPushes     \* bound: changes of the authorized digest

ASSUME WatchtowerAssumption ==
    None \notin Id \cup Digest /\ MaxMishaps \in Nat /\ MaxPushes \in Nat

VARIABLES
    stack,      \* "cvm": the runner is found by its name; "compose": by a label
    name, state, image,   \* Docker, by container
    probes,     \* Docker: containers with the probe label
    remote,     \* the digest the platform authorizes
    runtime,    \* "ok" when the node's NVIDIA runtime can start a GPU container
    pc,         \* where the cycle is
    within,     \* who looks the runner up: "check" or "update"
    found,      \* the container the lookup returned
    known,      \* its name as the process read it
    fresh,      \* the container created in its place
    leftovers,  \* those the lookup has still to clear
    listed,     \* the runner's status when it was listed
    target,     \* the digest read in this cycle
    verdict,    \* of this cycle's runtime probe; "blind" when its first lookup by name failed
    mishaps, pushes

hostVars == <<name, state, image>>
cycleVars == <<within, found, known, fresh, leftovers, listed, target, verdict>>
vars == <<stack, name, state, image, probes, remote, runtime, pc, within, found, known, fresh,
          leftovers, listed, target, verdict, mishaps, pushes>>

Steps == {"idle", "byName", "list", "clear", "clearRemove", "restore", "digest", "probe",
          "probeCreate", "probeRun", "probeRemove", "pull", "aside", "create", "renameBack",
          "stop", "start", "remove", "undo", "undoName", "undoStart", "first", "firstStart"}

States == {"absent", "created", "running", "exited"}

Verdicts == {"none", "blind", "failed", "ready"}

UsesFound == {"clear", "clearRemove", "restore", "probe", "probeCreate", "probeRun",
              "probeRemove", "aside", "create", "renameBack", "stop", "start", "remove",
              "undo", "undoName", "undoStart"}
UsesFresh == {"clearRemove", "stop", "start", "remove", "undo", "firstStart"}

\* The node's containers and the cycle's variables have their types, and a step that uses a
\* container (find_runner_container's result, the new one of recreate_container) has one.
TypeOK ==
    /\ stack \in {"cvm", "compose"}
    /\ name \in [Id -> Seq(Id)]
    /\ state \in [Id -> States]
    /\ image \in [Id -> Digest \cup {None}]
    /\ probes \in Nat /\ remote \in Digest /\ runtime \in {"ok", "broken"}
    /\ pc \in Steps /\ within \in {"check", "update"}
    /\ found \in Id \cup {None} /\ known \in Seq(Id) /\ fresh \in Id \cup {None}
    /\ pc \in UsesFound => found # None
    /\ pc \in UsesFresh => fresh # None
    /\ leftovers \subseteq Id /\ listed \in States
    /\ target \in Digest \cup {None} /\ verdict \in Verdicts
    /\ mishaps \in 0..MaxMishaps /\ pushes \in 0..MaxPushes

Here == {c \in Id : state[c] # "absent"}

IsPrevious(c) == name[c] # <<>>

Taken(n) == \E c \in Here : name[c] = n

\* Docker gives a new container an ID no container or name has
Unused == {i \in Id \ Here : \A c \in Here : \A k \in DOMAIN name[c] : name[c][k] # i}

\* a node in service, or a CVM at its first boot
Init ==
    /\ stack \in {"cvm", "compose"}
    /\ name = [c \in Id |-> <<>>] /\ image \in [Id -> {None} \cup Digest]
    /\ \E up \in SUBSET Id :
          /\ (\A c, d \in up : c = d) /\ (stack = "compose" => up # {})
          /\ state = [c \in Id |-> IF c \in up THEN "running" ELSE "absent"]
          /\ \A c \in Id : c \in up <=> image[c] # None
    /\ probes = 0 /\ remote \in Digest /\ runtime \in {"ok", "broken"}
    /\ pc = "idle" /\ within = "check"
    /\ found = None /\ known = <<>> /\ fresh = None
    /\ leftovers = {} /\ listed = "absent" /\ target = None /\ verdict = "none"
    /\ mishaps = 0 /\ pushes = 0

Mishap == mishaps < MaxMishaps /\ mishaps' = mishaps + 1

Well == UNCHANGED mishaps

\* the cycle ends, in whatever state it leaves the host: the next one starts anew
Ends ==
    /\ pc' = "idle" /\ within' = "check"
    /\ found' = None /\ known' = <<>> /\ fresh' = None
    /\ leftovers' = {} /\ listed' = "absent" /\ target' = None /\ verdict' = "none"

Goes(s) == pc' = s /\ UNCHANGED cycleVars

Elsewhere == UNCHANGED <<stack, remote, runtime, pushes>>

-----------------------------------------------------------------------------
(* Docker                                                                  *)

Rename(c, n) == name' = [name EXCEPT ![c] = n] /\ UNCHANGED <<state, image>>

SetState(c, s) == state' = [state EXCEPT ![c] = s] /\ UNCHANGED <<name, image>>

Made(i, n, d) ==
    /\ name' = [name EXCEPT ![i] = n] /\ image' = [image EXCEPT ![i] = d]
    /\ state' = [state EXCEPT ![i] = "created"]

Removed(c) ==
    /\ name' = [name EXCEPT ![c] = <<>>] /\ image' = [image EXCEPT ![c] = None]
    /\ state' = [state EXCEPT ![c] = "absent"]

-----------------------------------------------------------------------------
(* find_runner_container, in check_and_update and again in                 *)
(* pull_and_restart_containers                                             *)

\* the lookup returns c, read under the name n
Returns(c, n) ==
    /\ found' = c /\ known' = n /\ leftovers' = {} /\ fresh' = None /\ listed' = "absent"
    /\ pc' = IF within = "check" THEN "digest" ELSE IF c = None THEN "first" ELSE "aside"
    /\ UNCHANGED <<within, target, verdict>>

Wake == pc = "idle" /\ Goes("byName") /\ Well /\ UNCHANGED <<hostVars, probes>> /\ Elsewhere

\* find_container_by_name: an error reads as not found, in check_and_update as a first boot
FindByName ==
    /\ pc = "byName"
    /\ \/ /\ stack = "cvm" /\ Well
          /\ \E c \in Here : name[c] = <<>> /\ Returns(c, <<>>)
       \/ /\ ~(stack = "cvm" /\ Taken(<<>>)) /\ Well
          /\ Goes("list")
       \/ /\ Mishap /\ pc' = "list"
          /\ verdict' = IF within = "check" THEN "blind" ELSE verdict
          /\ UNCHANGED <<within, found, known, fresh, leftovers, listed, target>>
    /\ UNCHANGED <<hostVars, probes>> /\ Elsewhere

\* the runner of a compose stack carries the label; one renamed aside is a leftover
Runners == {c \in Here : stack = "compose" /\ ~IsPrevious(c)}
Leftovers == {c \in Here : IsPrevious(c)}

\* mutant: the leftovers beside the runner are not cleared
ListByLabelOnly ==
    /\ pc = "list"
    /\ \/ \E r \in Runners : Returns(r, <<>>) /\ Well
       \/ /\ Runners = {} /\ Cardinality(Leftovers) > 1
          /\ Ends /\ Well
       \/ \E l \in Leftovers :
             /\ Runners = {} /\ Leftovers = {l}
             /\ found' = l /\ pc' = "restore" /\ Well
             /\ UNCHANGED <<within, known, fresh, leftovers, listed, target, verdict>>
       \/ Runners = {} /\ Leftovers = {} /\ Returns(None, <<>>) /\ Well
       \/ Mishap /\ Ends
    /\ UNCHANGED <<hostVars, probes>> /\ Elsewhere

ListByLabel ==
    /\ pc = "list"
    /\ \/ \E r \in Runners :
             /\ found' = r /\ known' = <<>> /\ leftovers' = Leftovers
             /\ listed' = state[r] /\ pc' = "clear" /\ Well
             /\ UNCHANGED <<within, fresh, target, verdict>>
       \/ /\ Runners = {} /\ Cardinality(Leftovers) > 1
          /\ Ends /\ Well
       \/ \E l \in Leftovers :
             /\ Runners = {} /\ Leftovers = {l}
             /\ found' = l /\ pc' = "restore" /\ Well
             /\ UNCHANGED <<within, known, fresh, leftovers, listed, target, verdict>>
       \/ Runners = {} /\ Leftovers = {} /\ Returns(None, <<>>) /\ Well
       \/ Mishap /\ Ends
    /\ UNCHANGED <<hostVars, probes>> /\ Elsewhere

\* mutant: the leftover goes although the runner did not start
ClearPreviousAnyway ==
    /\ pc = "clear" /\ leftovers # {}
    /\ \E l \in leftovers :
          /\ \/ /\ IF listed # "running" THEN SetState(found, "running") ELSE UNCHANGED hostVars
                /\ Well
             \/ listed # "running" /\ Mishap /\ UNCHANGED hostVars
          /\ fresh' = l /\ pc' = "clearRemove"
          /\ UNCHANGED <<within, found, known, leftovers, listed, target, verdict>>
    /\ UNCHANGED probes /\ Elsewhere

\* _clear_previous_runner, for each leftover: the runner that sleeps is started first
ClearPrevious ==
    /\ pc = "clear" /\ leftovers # {}
    /\ \E l \in leftovers :
          \/ /\ IF listed # "running" THEN SetState(found, "running") ELSE UNCHANGED hostVars
             /\ fresh' = l /\ pc' = "clearRemove" /\ Well
             /\ UNCHANGED <<within, found, known, leftovers, listed, target, verdict>>
          \/ /\ listed # "running" /\ Mishap /\ leftovers' = leftovers \ {l}
             /\ UNCHANGED hostVars \/ SetState(found, "running")
             /\ UNCHANGED <<pc, within, found, known, fresh, listed, target, verdict>>
    /\ UNCHANGED probes /\ Elsewhere

ClearRemove ==
    /\ pc = "clearRemove"
    /\ \/ Removed(fresh) /\ Well
       \/ Mishap /\ UNCHANGED hostVars
    /\ leftovers' = leftovers \ {fresh} /\ fresh' = None /\ pc' = "clear"
    /\ UNCHANGED <<within, found, known, listed, target, verdict, probes>> /\ Elsewhere

Cleared ==
    /\ pc = "clear" /\ leftovers = {}
    /\ Returns(found, known) /\ Well
    /\ UNCHANGED <<hostVars, probes>> /\ Elsewhere

\* _restore_previous_runner: a leftover alone gets its name back; if that fails, or it
\* cannot be read again, it is used under the name it was listed with
RestorePrevious ==
    /\ pc = "restore"
    /\ LET n == SubSeq(name[found], 1, Len(name[found]) - 1)
       IN  \/ ~Taken(n) /\ Rename(found, n) /\ Returns(found, n) /\ Well
           \/ ~Taken(n) /\ Rename(found, n) /\ Returns(found, name[found]) /\ Mishap
           \/ Taken(n) /\ UNCHANGED hostVars /\ Returns(found, name[found]) /\ Well
           \/ Mishap /\ UNCHANGED hostVars /\ Returns(found, name[found])
    /\ UNCHANGED probes /\ Elsewhere

-----------------------------------------------------------------------------
(* check_and_update                                                        *)

\* the container's digest, unreadable after an error, against the authorized one
CheckDigest ==
    /\ pc = "digest"
    /\ \/ found # None /\ image[found] = remote /\ Ends /\ Well
       \/ /\ found # None /\ ((image[found] # remote /\ Well) \/ Mishap)
          /\ pc' = "probe" /\ target' = remote
          /\ UNCHANGED <<within, found, known, fresh, leftovers, listed, verdict>>
       \/ /\ found = None /\ Well
          /\ pc' = "pull" /\ target' = remote
          /\ UNCHANGED <<within, found, known, fresh, leftovers, listed, verdict>>
       \/ Mishap /\ Ends
    /\ UNCHANGED <<hostVars, probes>> /\ Elsewhere

\* mutant: an earlier probe's container stays
ProbeCleanSkipped ==
    /\ pc = "probe" /\ Goes("probeCreate") /\ Well
    /\ UNCHANGED <<hostVars, probes>> /\ Elsewhere

\* probe_nvidia_runtime: what an earlier probe left goes first, or the update is held
ProbeClean ==
    /\ pc = "probe"
    /\ \/ probes' = 0 /\ Goes("probeCreate") /\ Well
       \/ Mishap /\ Ends /\ probes' \in {0, probes}
    /\ UNCHANGED hostVars /\ Elsewhere

ProbeCreate ==
    /\ pc = "probeCreate"
    /\ \/ probes' = probes + 1 /\ Goes("probeRun") /\ Well
       \/ Mishap /\ Ends /\ probes' \in {probes, probes + 1}
    /\ UNCHANGED hostVars /\ Elsewhere

\* started and waited for: it exits 0 only if the runtime started it
ProbeRun ==
    /\ pc = "probeRun" /\ pc' = "probeRemove"
    /\ \/ runtime = "ok" /\ verdict' = "ready" /\ Well
       \/ runtime = "broken" /\ verdict' = "failed" /\ Well
       \/ Mishap /\ verdict' = "failed"
    /\ UNCHANGED <<hostVars, probes, within, found, known, fresh, leftovers, listed,
                   target>>
    /\ Elsewhere

\* mutant: an update is not held
ProbeRemoveAnyway ==
    /\ pc = "probeRemove"
    /\ \/ probes' = probes - 1 /\ Well
       \/ Mishap /\ UNCHANGED probes
    /\ Goes("pull")
    /\ UNCHANGED hostVars /\ Elsewhere

\* whatever it showed the probe container is removed; the update goes on or is held
ProbeRemove ==
    /\ pc = "probeRemove"
    /\ \/ probes' = probes - 1 /\ Well
       \/ Mishap /\ UNCHANGED probes
    /\ IF verdict = "ready" THEN Goes("pull") ELSE Ends
    /\ UNCHANGED hostVars /\ Elsewhere

\* pull_image_by_digest, then the lookup again
Pull ==
    /\ pc = "pull"
    /\ \/ /\ pc' = "byName" /\ within' = "update" /\ Well
          /\ UNCHANGED <<found, known, fresh, leftovers, listed, target, verdict>>
       \/ Mishap /\ Ends
    /\ UNCHANGED <<hostVars, probes>> /\ Elsewhere

-----------------------------------------------------------------------------
(* recreate_container                                                      *)

RenameAside ==
    /\ pc = "aside"
    /\ LET n == Append(known, found)
       IN  \/ ~Taken(n) /\ Rename(found, n) /\ Goes("create") /\ Well
           \/ ~Taken(n) /\ Rename(found, n) /\ Ends /\ Mishap
           \/ ((Taken(n) /\ Well) \/ Mishap) /\ UNCHANGED hostVars /\ Ends
    /\ UNCHANGED probes /\ Elsewhere

CreateNew ==
    /\ pc = "create"
    /\ \/ \E i \in Unused :
             /\ ~Taken(known) /\ Made(i, known, target)
             /\ fresh' = i /\ pc' = "stop" /\ Well
             /\ UNCHANGED <<within, found, known, leftovers, listed, target, verdict>>
       \/ \E i \in Unused :
             ~Taken(known) /\ Made(i, known, target) /\ Goes("renameBack") /\ Mishap
       \/ ((Taken(known) /\ Well) \/ Mishap) /\ UNCHANGED hostVars /\ Goes("renameBack")
    /\ UNCHANGED probes /\ Elsewhere

\* the create failed
RenameBack ==
    /\ pc = "renameBack"
    /\ \/ ~Taken(known) /\ Rename(found, known) /\ Well
       \/ ((Taken(known) /\ Well) \/ Mishap) /\ UNCHANGED hostVars
    /\ Ends
    /\ UNCHANGED probes /\ Elsewhere

\* mutant: the old one is left to its removal
StopOldSkipped ==
    /\ pc = "stop" /\ Goes("start") /\ Well
    /\ UNCHANGED <<hostVars, probes>> /\ Elsewhere

StopOld ==
    /\ pc = "stop"
    /\ LET Stopped == IF state[found] = "running" THEN SetState(found, "exited")
                                                  ELSE UNCHANGED hostVars
       IN  \/ Stopped /\ Goes("start") /\ Well
           \/ Mishap /\ (UNCHANGED hostVars \/ Stopped) /\ Goes("undo")
    /\ UNCHANGED probes /\ Elsewhere

StartNew ==
    /\ pc = "start"
    /\ \/ SetState(fresh, "running") /\ Goes("remove") /\ Well
       \/ Mishap /\ (UNCHANGED hostVars \/ SetState(fresh, "running")) /\ Goes("undo")
    /\ UNCHANGED probes /\ Elsewhere

RemoveOld ==
    /\ pc = "remove"
    /\ \/ Removed(found) /\ Well
       \/ Mishap /\ UNCHANGED hostVars
    /\ Ends
    /\ UNCHANGED probes /\ Elsewhere

\* the switch failed: the new one is removed, the old one named and started again; an
\* error ends the undo where it is
UndoRemove ==
    /\ pc = "undo"
    /\ \/ Removed(fresh) /\ Goes("undoName") /\ Well
       \/ Mishap /\ (UNCHANGED hostVars \/ Removed(fresh)) /\ Ends
    /\ UNCHANGED probes /\ Elsewhere

\* mutant: the old one is not started again
UndoNameOnly ==
    /\ pc = "undoName"
    /\ \/ ~Taken(known) /\ Rename(found, known) /\ Ends /\ Well
       \/ ((Taken(known) /\ Well) \/ Mishap) /\ UNCHANGED hostVars /\ Ends
    /\ UNCHANGED probes /\ Elsewhere

UndoName ==
    /\ pc = "undoName"
    /\ \/ ~Taken(known) /\ Rename(found, known) /\ Goes("undoStart") /\ Well
       \/ ~Taken(known) /\ Rename(found, known) /\ Ends /\ Mishap
       \/ ((Taken(known) /\ Well) \/ Mishap) /\ UNCHANGED hostVars /\ Ends
    /\ UNCHANGED probes /\ Elsewhere

UndoStart ==
    /\ pc = "undoStart"
    /\ \/ SetState(found, "running") /\ Well
       \/ Mishap /\ UNCHANGED hostVars
    /\ Ends
    /\ UNCHANGED probes /\ Elsewhere

\* no runner: containers.run creates one and starts it
FirstCreate ==
    /\ pc = "first"
    /\ \/ \E i \in Unused :
             /\ ~Taken(<<>>) /\ Made(i, <<>>, target)
             /\ fresh' = i /\ pc' = "firstStart" /\ Well
             /\ UNCHANGED <<within, found, known, leftovers, listed, target, verdict>>
       \/ \E i \in Unused : ~Taken(<<>>) /\ Made(i, <<>>, target) /\ Ends /\ Mishap
       \/ ((Taken(<<>>) /\ Well) \/ Mishap) /\ UNCHANGED hostVars /\ Ends
    /\ UNCHANGED probes /\ Elsewhere

FirstStart ==
    /\ pc = "firstStart"
    /\ \/ SetState(fresh, "running") /\ Well
       \/ Mishap /\ UNCHANGED hostVars
    /\ Ends
    /\ UNCHANGED probes /\ Elsewhere

-----------------------------------------------------------------------------

\* the process dies; its container is restarted and the loop begins
Die ==
    /\ pc # "idle" /\ Mishap /\ Ends
    /\ UNCHANGED <<hostVars, probes>> /\ Elsewhere

\* the platform authorizes another digest
Push ==
    /\ pushes < MaxPushes /\ pushes' = pushes + 1
    /\ remote' \in Digest \ {remote}
    /\ UNCHANGED <<stack, hostVars, probes, runtime, pc, cycleVars, mishaps>>

\* the node's driver or runtime breaks, or is repaired
RuntimeTurns ==
    /\ runtime' \in {"ok", "broken"} \ {runtime}
    /\ UNCHANGED <<stack, hostVars, probes, remote, pc, cycleVars, mishaps, pushes>>

Lookup == FindByName \/ ListByLabel \/ ClearPrevious \/ ClearRemove \/ Cleared \/ RestorePrevious

Check == CheckDigest \/ ProbeClean \/ ProbeCreate \/ ProbeRun \/ ProbeRemove \/ Pull

Recreate ==
    \/ RenameAside \/ CreateNew \/ RenameBack \/ StopOld \/ StartNew \/ RemoveOld
    \/ UndoRemove \/ UndoName \/ UndoStart \/ FirstCreate \/ FirstStart

Cycle == Wake \/ Lookup \/ Check \/ Recreate

Next == Cycle \/ Die \/ Push \/ RuntimeTurns

Spec == Init /\ [][Next]_vars

\* the loop never ends, and every command returns or times out
FairSpec == Spec /\ WF_vars(Cycle)

-----------------------------------------------------------------------------
Running == {c \in Id : state[c] = "running"}

\* containers that were started once, but for one whose start was reported to fail
Proven == {c \in Id : state[c] \in {"running", "exited"} /\ ~(pc = "undo" /\ c = fresh)}

\* A node never loses its last container known to start, whatever fails and wherever the
\* process dies ("The host keeps a runner in every case", recreate_container).
ProvenKept == [][Proven # {} => Proven' # {}]_vars

\* Two runners run at once only after something went wrong: an update stops the old one
\* before it starts the new one.
OneRuns == mishaps = 0 => \A c, d \in Running : c = d

\* A held host gathers no probe containers: probe_nvidia_runtime removes what an earlier
\* cycle left before it creates another one.
OneProbe == probes <= 1

\* A runner is replaced only if this cycle's probe passed ("only on a host whose NVIDIA
\* runtime can start a GPU container right now", check_and_update), whatever fails.  The one
\* exception is a CVM whose first lookup by name failed: find_container_by_name returns
\* None, which reads as a first boot.
ReplacedIsProbed ==
    pc \in {"create", "stop", "start", "remove"}
        => verdict = "ready" \/ (verdict = "blind" /\ stack = "cvm")

\* After any one failure or death, and any pushes, a compose node runs the authorized image
\* under the runner's name again, once its runtime stays repaired: "the update resumes on
\* its own once the host is fixed" (check_and_update).
Converges ==
    stack = "compose" /\ [](mishaps <= 1) /\ <>[](runtime = "ok")
        => <>[](\E c \in Running : ~IsPrevious(c) /\ image[c] = remote)

\* A compose node that was left with a container renamed aside gets rid of it.
LeftoversCleared == stack = "compose" /\ Leftovers # {} ~> Leftovers = {}

\* "beside the runner under the real name that update is finished (the runner started if
\* it is not running, the leftover removed)" (find_runner_container).
UpdateFinished == (Leftovers # {} /\ Taken(<<>>)) ~> Leftovers = {}
=============================================================================
