---------------------------- MODULE PodSwapProofs ----------------------------
(***************************************************************************)
(* For any number of creates, edits, failures, timeouts and crashes, as    *)
(* long as the backend sends one create of a pod at a time: the pod keeps  *)
(* a copy of its container until an edit is misled about a rename back,    *)
(* the parked container and its replacement never run together, an edit    *)
(* that meets no mishap leaves the pod as it was, a deleted pod is gone,   *)
(* an edit drops only what is stale until a mishap, and every step is one  *)
(* PodContract allows.                                                     *)
(***************************************************************************)
EXTENDS PodSwap, TLAPS

\* the steps of an edit before it renames the customer's container
Before == {"connect", "image", "steps", "park", "drop", "recover", "aside"}

\* the steps at which the parked container is stopped and no replacement runs
Empty == {"sweep", "remove", "prepare", "run"}

\* the steps of a replacement that was run
Up == {"boot", "cache", "reply"}

\* the steps at which the customer's container is parked
Swapped == Empty \cup Up \cup {"stop", "clean", "unremove", "unrename"}

\* the steps before a create's container can exist
Unborn == (Before \cup {"idle", "stop", "sweep", "remove", "prepare"})

\* One create is in flight, and it is an edit exactly if the backend knows the pod to
\* be up; the steps of a swap are those of an edit.
OneCreate ==
    /\ \A c \in Create : c \in live <=> step[c] \in Busy \cup {"ended"}
    /\ \A c, d \in live : c = d
    /\ \A c \in Create : after[c] # "none" => step[c] \in {"ended", "left"}
    /\ \A c \in Create : step[c] \in Busy => (c \in Edit <=> standing # None)
    /\ \A c \in Create :
          step[c] \in {"steps", "park", "drop", "recover", "aside", "stop", "unremove",
                       "unrename", "unstart"} => c \in Edit
    /\ \A c \in Create : parked[c] # None => c \in Edit

\* Names: nothing is parked before the pod was up, and a create that has not run its
\* container holds no name.
Names ==
    /\ standing = None => named["parked"] = None
    /\ \A c \in Create : step[c] \in Unborn => named["pod"] # c
    /\ \A c \in Create : step[c] \in Unborn \cup {"run"} => named["parked"] # c

\* The container set aside is stopped before its replacement can run.
ParkedStopped ==
    /\ NeverBothRun
    /\ \A c \in Create : step[c] \in Empty => named["parked"] \notin running
    /\ \A c \in Create : step[c] = "unstart" => named["parked"] = None

\* While no delete was asked for: what an edit knows of the two names is true, unless it
\* or one before it was misled about a rename back.
Knows(c) ==
    /\ step[c] \notin {"cleanAbort", "abort"}
    /\ step[c] \in {"drop", "aside"} => seen[c] = named["pod"] /\ named["pod"] # None
    /\ step[c] = "recover" => seen[c] = named["parked"] /\ named["pod"] = None
    /\ step[c] \in Swapped /\ c \in Edit /\ ~Misled =>
          parked[c] = named["parked"] /\ parked[c] # None
    /\ step[c] \in {"stop", "sweep", "remove", "prepare"} /\ c \in Edit => named["pod"] = None
    /\ step[c] = "remove" /\ c \in Edit => seen[c] = None
    /\ step[c] \in Up => named["pod"] = c
    /\ step[c] \in {"cache", "reply"} => c \in running

\* While no delete was asked for: a container still to be removed after a reply is
\* neither the pod's nor the one an edit has parked.
Spares(d) ==
    after[d] # "none" /\ parked[d] # None =>
        /\ named["pod"] # parked[d]
        /\ named["parked"] = parked[d] =>
              named["pod"] # None /\ \A c \in Edit : step[c] \notin Swapped

Kept ==
    del = "none" =>
        /\ cancelled = {}
        /\ CopyKept
        /\ \A c \in Create : Knows(c)
        /\ \A c \in Create : step[c] \in Busy \cup {"idle"} => \A d \in Create : parked[d] # c
        /\ \A d \in Create : Spares(d)

\* Where the container the backend knows is, while no undo has met a failure.
Undone ==
    mishaps = 0 /\ del = "none" /\ standing # None =>
        /\ (\A c \in Create : step[c] \notin Busy \ Before)
              => named["pod"] = standing /\ AsLeft(standing)
        /\ \A c \in Create : step[c] \in Swapped => named["parked"] = standing
        /\ \A c \in Create : step[c] \in {"run", "clean", "unremove"}
              => named["pod"] \in {None, c}
        /\ \A c \in Create : step[c] = "unrename" => named["pod"] = None
        /\ \A c \in Create : step[c] = "unstart" => named["pod"] = standing

\* A container never holds both of a pod's names.
NamesDiffer == named["pod"] # None => named["pod"] # named["parked"]

\* A late kill and a start left out are of containers whose create is over; a create is
\* misled after it parked, which is a mishap.
Fates ==
    /\ \A c \in Create : step[c] \in Busy \cup {"idle"} => fate[c] = "none"
    /\ \A c \in Create : step[c] \in Unborn => error[c] # "back"
    /\ Misled => mishaps # 0

IInv ==
    /\ TypeOK /\ OneCreate /\ Names /\ NamesDiffer /\ Fates
    /\ ParkedStopped /\ Kept /\ Undone

\* The backend sends no create of a pod while another one of it is in flight.
SingleCreate == Resent = {}

\* what every step of a proof may use
USE SwapAssumption DEF Ended, Busy, Goes, Fails, Fate, Mishap, Timeout, RemoveId, RemoveName,
        CanRename, Rename, ErrorExit, IsOnlyCreate, Cleans, ErrorClean, AbortClean,
        CancelSteps, Waits, hostVars, swapVars, nodeVars, deleteVars, boundVars,
        otherVars

-----------------------------------------------------------------------------
(* What a swap and the delete rely on                                      *)

\* the steps at which an edit knows what it parked
Holding == Busy \ (Before \cup {"unstart", "abort"})

\* What the delete relies on after each of its waits: no create is left, then no step after
\* a reply, then no container under the pod's name, no rented pod, no inspector.
Settled ==
    mishaps = 0 /\ timeouts = 0 =>
        /\ del # "again" /\ running \subseteq {named["pod"], named["parked"]}
        /\ \A c \in Create : step[c] \in Busy \cup {"ended"} => c \in live
        /\ del \notin {"none", "wait"} => live = {}
        /\ del = "steps" => \A c \in Create : after[c] # "none" => c \in awaited
        /\ del \in {"remove", "forget", "inspector", "done"} => \A c \in Create : after[c] = "none"
        /\ del \in {"forget", "inspector", "done"} => named["pod"] = None
        /\ del \in {"inspector", "done"} => rented = {}
        /\ del = "done" => inspector = "off"

\* While nothing goes wrong: what is parked is known to the edit in flight, or to the steps
\* after the reply that remove it.
Aside ==
    mishaps = 0 /\ timeouts = 0 =>
        /\ \A c, d \in Create :
              step[c] \in Busy \ {"connect", "image", "steps", "abort"} => after[d] = "none"
        /\ standing = None => \A d \in Create : after[d] = "none"
        /\ \A c \in Create : step[c] \in Before \cup {"idle"} => parked[c] = None
        /\ \A c \in Create : step[c] \in Unborn \cup {"run"} => c \notin replaced
        /\ \A c \in Create : step[c] \in {"park", "aside", "unstart"} => named["parked"] = None
        /\ \A c \in Create : step[c] \notin {"drop", "recover"}
        /\ \A c \in Create : step[c] = "aside" => seen[c] = named["pod"]
        /\ \A c \in Create : step[c] \in Holding => named["parked"] \in {None, parked[c]}
        /\ \A c \in Create : step[c] = "abort" /\ parked[c] # None => named["parked"] \in {None, parked[c]}
        /\ \A c \in Create : step[c] \in Up \cup {"clean", "cleanAbort", "unremove"} /\ c \in replaced
              => named["pod"] \in {None, c}
        /\ \A c \in Create : step[c] = "unrename" => named["pod"] = None
        /\ named["parked"] # None => \E c \in Create :
              parked[c] = named["parked"] /\ (step[c] \in Holding \cup {"abort"} \/ after[c] # "none")

\* What a create's failure is called: by the GPU check before docker run, and by a rename
\* back that was carried out but reported failed.
LEMMA ErrorMoves ==
    ASSUME TypeOK, [Next]_vars, NEW c \in Create
    PROVE  \/ error'[c] = error[c]
           \/ step[c] = "prepare" /\ error'[c] = "gpus"
           \/ step[c] = "stop" /\ step'[c] = "unremove" /\ Mishap
<1>t. error \in [Create -> {"none", "gpus", "back"}] /\ step \in [Create -> Ended \cup Busy]
  BY Zenon DEF TypeOK
<1> HIDE DEF Busy, Ended, ErrorExit, ErrorClean, AbortClean, RemoveId, RemoveName,
             CanRename, Rename, Mishap, Timeout, CancelSteps, Waits, Fate
<1>1. ASSUME NEW d \in Create, ParkStop(d)
      PROVE  error'[c] = error[c] \/ (step[c] = "stop" /\ step'[c] = "unremove" /\ Mishap)
  BY Zenon, <1>t, <1>1 DEF ParkStop
<1>2. ASSUME NEW d \in Create, Prepare(d)
      PROVE  error'[c] = error[c] \/ (step[c] = "prepare" /\ error'[c] = "gpus")
  BY Zenon, <1>t, <1>2 DEF Prepare
<1>3. ASSUME NEW d \in Create, Forward(d), ~ParkStop(d), ~Prepare(d) PROVE UNCHANGED error
  BY Zenon, <1>3 DEF Forward, Connect, Image, WaitSteps, Park, ParkDrop, ParkRecover,
                     ParkAside, Sweep, SweepRemove, Run, RunFails, RunAgain, RunMeetsName,
                     Boot, CacheRented, Reply
<1>4. ASSUME NEW d \in Create, Backward(d) PROVE UNCHANGED error
  BY Zenon, <1>4 DEF Backward, Cleanup, AbortSwap, RestoreRemove, RestoreRename, RestoreStart
<1>5. ASSUME NEW d \in Create,
             Begin(d) \/ Leave(d) \/ WaitStepsRunsOut(d) \/ StepAfterReply(d) \/ LateKill(d)
      PROVE  UNCHANGED error
  BY Zenon, <1>5 DEF Begin, Leave, WaitStepsRunsOut, StepAfterReply, StartInspector,
                     RemoveParked, LateKill
<1>6. ASSUME AskDelete \/ DeleteStep \/ CreatesWaitRunsOut \/ StepsWaitRunsOut \/ Crash
             \/ UNCHANGED vars
      PROVE  UNCHANGED error
  BY Zenon, <1>6 DEF AskDelete, DeleteStep, CreatesLeft, StepsDone, DeleteRemove,
                     DeleteForget, DeleteInspector, CreatesWaitRunsOut, StepsWaitRunsOut,
                     Crash, vars
<1> QED
  BY Zenon, <1>1, <1>2, <1>3, <1>4, <1>5, <1>6 DEF Next, CreateStep

\* A rename back that was carried out but reported failed misleads the edit.
LEMMA MisledBy ==
    ASSUME TypeOK, NEW c \in Create, Fails(c, "back")
    PROVE  Misled'
<1>1. error \in [Create -> {"none", "gpus", "back"}]
  BY Zenon DEF TypeOK
<1>2. error'[c] = "back"
  BY Zenon, <1>1
<1> QED
  BY Zenon, <1>2 DEF Misled

\* A misled edit stays one.
LEMMA MisledStays ==
    ASSUME TypeOK, Fates, [Next]_vars, Misled
    PROVE  Misled'
<1>1. PICK c \in Create : error[c] = "back"
  BY Zenon DEF Misled
<1>2. step[c] \notin {"prepare", "stop"}
  BY Zenon, <1>1 DEF Fates, Unborn
<1>3. error'[c] = error[c]
  BY Zenon, <1>2, ErrorMoves
<1> QED
  BY Zenon, <1>1, <1>3 DEF Misled

\* The steps of an edit, and its undo, leave nothing parked that nobody will remove.
LEMMA StepAside ==
    ASSUME SingleCreate PROVE IInv /\ Settled /\ Aside /\ [Next]_vars => Aside'
<1> SUFFICES ASSUME TypeOK, OneCreate, Settled, Aside, [Next]_vars, mishaps' = 0, timeouts' = 0 PROVE Aside'
  BY Zenon DEF Aside, IInv
<1> USE DEF SingleCreate, TypeOK, OneCreate, Aside, Before, Unborn, Up, Holding
<1>1. ASSUME NEW c \in Create, Begin(c) \/ WaitStepsRunsOut(c) \/ Leave(c) PROVE Aside'
  BY SMTT(30), <1>1 DEF Begin, WaitStepsRunsOut, Leave
<1>2. ASSUME NEW c \in Create, Forward(c) PROVE Aside'
  <2>1. CASE Connect(c) \/ Image(c) \/ WaitSteps(c) \/ Park(c)
    BY SMTT(30), <2>1 DEF Connect, Image, WaitSteps, Park
  <2>2. CASE ParkDrop(c) \/ ParkRecover(c)
    BY ZenonT(60), <2>2 DEF ParkDrop, ParkRecover
  <2>3. CASE ParkAside(c) \/ ParkStop(c)
    <3>1. CASE ParkAside(c)
      BY SMTT(30), <3>1 DEF ParkAside
    <3>2. CASE ParkStop(c)
      BY SMTT(30), <3>2 DEF ParkStop
    <3> QED
      BY Zenon, <2>3, <3>1, <3>2
  <2>4. CASE Sweep(c) \/ SweepRemove(c) \/ Prepare(c)
    <3>1. CASE Sweep(c) \/ Prepare(c)
      BY SMTT(30), <3>1 DEF Sweep, Prepare
    <3>2. CASE SweepRemove(c)
      BY SMTT(30), <3>2 DEF SweepRemove
    <3> QED
      BY Zenon, <2>4, <3>1, <3>2
  <2>5. CASE Run(c) \/ RunFails(c) \/ RunAgain(c)
    BY SMTT(30), <2>5 DEF Run, RunFails, RunAgain
  <2>6. CASE RunMeetsName(c) \/ Boot(c) \/ CacheRented(c)
    BY SMTT(30), <2>6 DEF RunMeetsName, Boot, CacheRented
  <2>7. CASE Reply(c)
    BY SMTT(30), <2>7 DEF Reply
  <2> HIDE DEF SingleCreate, TypeOK, OneCreate, Aside, Before, Unborn, Up,
               Holding
  <2> QED
    BY Zenon, <1>2, <2>1, <2>2, <2>3, <2>4, <2>5, <2>6, <2>7 DEF Forward
<1>3. ASSUME NEW c \in Create, Backward(c) PROVE Aside'
  <2>1. CASE Cleanup(c) \/ RestoreRemove(c)
    BY SMTT(30), <2>1 DEF Cleanup, RestoreRemove
  <2>2. CASE AbortSwap(c)
    BY SMTT(30), <2>2 DEF AbortSwap
  <2>3. CASE RestoreRename(c) \/ RestoreStart(c)
    BY SMTT(30), <2>3 DEF RestoreRename, RestoreStart
  <2> HIDE DEF SingleCreate, TypeOK, OneCreate, Aside, Before, Unborn, Up,
               Holding
  <2> QED
    BY Zenon, <1>3, <2>1, <2>2, <2>3 DEF Backward
<1>4. ASSUME NEW c \in Create, StepAfterReply(c) \/ LateKill(c) PROVE Aside'
  BY SMTT(30), <1>4 DEF StepAfterReply, StartInspector, RemoveParked, LateKill
<1>5. ASSUME AskDelete \/ DeleteStep \/ CreatesWaitRunsOut \/ StepsWaitRunsOut PROVE Aside'
  <2>1. CASE AskDelete \/ CreatesLeft \/ CreatesWaitRunsOut \/ StepsDone
    BY SMTT(30), <2>1 DEF AskDelete, CreatesLeft, CreatesWaitRunsOut, StepsDone
  <2>2. CASE StepsWaitRunsOut \/ DeleteRemove
    BY SMTT(30), <2>2 DEF Settled, StepsWaitRunsOut, DeleteRemove
  <2>3. CASE DeleteForget \/ DeleteInspector
    BY SMTT(30), <2>3 DEF DeleteForget, DeleteInspector
  <2> HIDE DEF SingleCreate, TypeOK, OneCreate, Aside, Before, Unborn, Up,
               Holding
  <2> QED
    BY Zenon, <1>5, <2>1, <2>2, <2>3 DEF DeleteStep
<1>6. ASSUME Crash \/ UNCHANGED vars PROVE Aside'
  BY SMTT(30), <1>6 DEF Crash, vars
<1> HIDE DEF SingleCreate, TypeOK, OneCreate, Aside, Before, Unborn, Up,
             Holding
<1> QED
  BY Zenon, <1>1, <1>2, <1>3, <1>4, <1>5, <1>6 DEF Next, CreateStep

\* Until a delete is asked for, every removal spares the customer's container.
LEMMA StepKept ==
    ASSUME SingleCreate PROVE IInv /\ [Next]_vars => Kept'
<1> SUFFICES ASSUME TypeOK, OneCreate, Names, Fates, Kept, [Next]_vars PROVE Kept'
  BY Zenon DEF IInv
<1> Misled => Misled'
  BY Zenon, MisledStays
<1> /\ named \in [{"pod", "parked"} -> Create \cup {None}]
    /\ step \in [Create -> Ended \cup Busy]
    /\ seen \in [Create -> Create \cup {None}] /\ parked \in [Create -> Create \cup {None}]
    /\ after \in [Create -> {"none", "inspector", "remove"}] /\ cancelled \subseteq live
  BY Zenon DEF TypeOK
<1> USE DEF OneCreate, Kept, CopyKept, Knows, Spares, Swapped, Up, Empty
<1>1. ASSUME NEW c \in Create, Begin(c) \/ WaitStepsRunsOut(c) \/ Leave(c) PROVE Kept'
  <2>1. CASE Begin(c)
    BY SMTT(30), <2>1 DEF Begin
  <2>2. CASE WaitStepsRunsOut(c)
    BY SMTT(30), <2>2 DEF WaitStepsRunsOut
  <2>3. CASE Leave(c)
    BY SMTT(30), <2>3 DEF Leave
  <2> HIDE DEF OneCreate, Kept, CopyKept, Knows, Spares, Swapped, Up, Empty
  <2> QED
    BY Zenon, <1>1, <2>1, <2>2, <2>3
<1>2. ASSUME NEW c \in Create, Forward(c) PROVE Kept'
  <2>1. CASE Connect(c)
    BY SMTT(30), <2>1 DEF Connect
  <2>2. CASE Image(c)
    BY SMTT(30), <2>2 DEF Image
  <2>3. CASE WaitSteps(c)
    BY SMTT(30), <2>3 DEF WaitSteps
  <2>4. CASE Park(c)
    BY SMTT(30), <2>4 DEF Park
  <2>5. CASE ParkDrop(c)
    BY SMTT(30), <2>5 DEF ParkDrop
  <2>6. CASE ParkRecover(c)
    BY SMTT(30), <2>6 DEF ParkRecover
  <2>7. CASE ParkAside(c)
    BY SMTT(30), <2>7 DEF ParkAside, Names, Unborn, Before
  <2>8. CASE ParkStop(c)
    <3> HIDE DEF Fails
    <3>1. Fails(c, "back") => Misled'
      BY Zenon, MisledBy
    <3> QED
      BY SMTT(30), <2>8, <3>1 DEF ParkStop
  <2>9. CASE Sweep(c)
    BY SMTT(30), <2>9 DEF Sweep
  <2>10. CASE SweepRemove(c)
    BY SMTT(30), <2>10 DEF SweepRemove, Names, Unborn, Before
  <2>11. CASE Prepare(c)
    BY SMTT(30), <2>11 DEF Prepare
  <2>12. CASE Run(c)
    BY SMTT(30), <2>12 DEF Run
  <2>13. CASE RunFails(c)
    BY SMTT(30), <2>13 DEF RunFails
  <2>14. CASE RunAgain(c)
    BY SMTT(30), <2>14 DEF RunAgain
  <2>15. CASE RunMeetsName(c)
    BY SMTT(30), <2>15 DEF RunMeetsName, Names, Unborn, Before
  <2>16. CASE Boot(c)
    BY SMTT(30), <2>16 DEF Boot
  <2>17. CASE CacheRented(c)
    BY SMTT(30), <2>17 DEF CacheRented
  <2>18. CASE Reply(c)
    BY SMTT(30), <2>18 DEF Reply
  <2> HIDE DEF OneCreate, Kept, CopyKept, Knows, Spares, Swapped, Up, Empty
  <2> QED
    BY Zenon, <1>2, <2>1, <2>2, <2>3, <2>4, <2>5, <2>6, <2>7, <2>8, <2>9,
       <2>10, <2>11, <2>12, <2>13, <2>14, <2>15, <2>16, <2>17, <2>18
       DEF Forward
<1>3. ASSUME NEW c \in Create, Backward(c) PROVE Kept'
  <2>1. CASE Cleanup(c)
    BY SMTT(30), <2>1 DEF Cleanup, Names, Unborn, Before
  <2>2. CASE AbortSwap(c)
    BY SMTT(30), <2>2 DEF AbortSwap
  <2>3. CASE RestoreRemove(c)
    BY SMTT(30), <2>3 DEF RestoreRemove
  <2>4. CASE RestoreRename(c)
    BY SMTT(30), <2>4 DEF RestoreRename
  <2>5. CASE RestoreStart(c)
    BY SMTT(30), <2>5 DEF RestoreStart
  <2> HIDE DEF OneCreate, Kept, CopyKept, Knows, Spares, Swapped, Up, Empty
  <2> QED
    BY Zenon, <1>3, <2>1, <2>2, <2>3, <2>4, <2>5 DEF Backward
<1>4. ASSUME NEW c \in Create, StepAfterReply(c) \/ LateKill(c) PROVE Kept'
  <2>1. CASE StartInspector(c)
    BY SMTT(30), <2>1 DEF StartInspector
  <2>2. CASE RemoveParked(c)
    BY SMTT(30), <2>2 DEF RemoveParked
  <2>3. CASE LateKill(c)
    BY SMTT(30), <2>3 DEF LateKill, Fates
  <2> HIDE DEF OneCreate, Kept, CopyKept, Knows, Spares, Swapped, Up, Empty
  <2> QED
    BY Zenon, <1>4, <2>1, <2>2, <2>3 DEF StepAfterReply
<1>5. ASSUME AskDelete \/ DeleteStep \/ CreatesWaitRunsOut \/ StepsWaitRunsOut PROVE Kept'
  <2>1. CASE AskDelete \/ CreatesLeft \/ CreatesWaitRunsOut \/ StepsDone
    BY Zenon, <2>1 DEF AskDelete, CreatesLeft, CreatesWaitRunsOut, StepsDone
  <2>2. CASE StepsWaitRunsOut \/ DeleteRemove
    BY Zenon, <2>2 DEF StepsWaitRunsOut, DeleteRemove
  <2>3. CASE DeleteForget \/ DeleteInspector
    BY Zenon, <2>3 DEF DeleteForget, DeleteInspector
  <2> HIDE DEF OneCreate, Kept, CopyKept, Knows, Spares, Swapped, Up, Empty
  <2> QED
    BY Zenon, <1>5, <2>1, <2>2, <2>3 DEF DeleteStep
<1>6. ASSUME Crash \/ UNCHANGED vars PROVE Kept'
  BY SMTT(30), <1>6 DEF Crash, vars
<1> HIDE DEF OneCreate, Kept, CopyKept, Knows, Spares, Swapped, Up, Empty
<1> QED
  BY Zenon, <1>1, <1>2, <1>3, <1>4, <1>5, <1>6 DEF Next, CreateStep

\* Each step of a create keeps its entry in the registry the delete waits on, and each step
\* of the delete leaves what the next one relies on.
LEMMA StepSettled ==
    TypeOK /\ Settled /\ [Next]_vars => Settled'
<1> SUFFICES ASSUME TypeOK, Settled, [Next]_vars, mishaps' = 0, timeouts' = 0 PROVE Settled'
  BY Zenon DEF Settled
<1> USE DEF TypeOK, Settled
<1>1. ASSUME NEW c \in Create, Begin(c) \/ WaitStepsRunsOut(c) \/ Leave(c) PROVE Settled'
  BY <1>1 DEF Begin, WaitStepsRunsOut, Leave
<1>2. ASSUME NEW c \in Create, Forward(c) PROVE Settled'
  <2>1. CASE Connect(c) \/ Image(c) \/ WaitSteps(c) \/ Park(c)
    BY <2>1 DEF Connect, Image, WaitSteps, Park
  <2>2. CASE ParkDrop(c) \/ ParkRecover(c)
    BY <2>2 DEF ParkDrop, ParkRecover
  <2>3. CASE ParkAside(c) \/ ParkStop(c)
    BY <2>3 DEF ParkAside, ParkStop
  <2>4. CASE Sweep(c) \/ SweepRemove(c) \/ Prepare(c)
    BY <2>4 DEF Sweep, SweepRemove, Prepare
  <2>5. CASE Run(c) \/ RunFails(c) \/ RunAgain(c)
    BY <2>5 DEF Run, RunFails, RunAgain
  <2>6. CASE RunMeetsName(c) \/ Boot(c) \/ CacheRented(c)
    BY <2>6 DEF RunMeetsName, Boot, CacheRented
  <2>7. CASE Reply(c)
    BY <2>7 DEF Reply
  <2> HIDE DEF TypeOK, Settled
  <2> QED
    BY Zenon, <1>2, <2>1, <2>2, <2>3, <2>4, <2>5, <2>6, <2>7 DEF Forward
<1>3. ASSUME NEW c \in Create, Backward(c) PROVE Settled'
  <2>1. CASE Cleanup(c) \/ RestoreRemove(c)
    BY <2>1 DEF Cleanup, RestoreRemove
  <2>2. CASE AbortSwap(c)
    BY <2>2 DEF AbortSwap
  <2>3. CASE RestoreRename(c) \/ RestoreStart(c)
    BY <2>3 DEF RestoreRename, RestoreStart
  <2> HIDE DEF TypeOK, Settled
  <2> QED
    BY Zenon, <1>3, <2>1, <2>2, <2>3 DEF Backward
<1>4. ASSUME NEW c \in Create, StepAfterReply(c) \/ LateKill(c) PROVE Settled'
  BY <1>4 DEF StepAfterReply, StartInspector, RemoveParked, LateKill
<1>5. ASSUME AskDelete \/ DeleteStep \/ CreatesWaitRunsOut \/ StepsWaitRunsOut PROVE Settled'
  <2>1. CASE AskDelete \/ CreatesLeft \/ CreatesWaitRunsOut \/ StepsDone
    BY <2>1 DEF AskDelete, CreatesLeft, CreatesWaitRunsOut, StepsDone
  <2>2. CASE StepsWaitRunsOut \/ DeleteRemove
    BY <2>2 DEF StepsWaitRunsOut, DeleteRemove
  <2>3. CASE DeleteForget \/ DeleteInspector
    BY <2>3 DEF DeleteForget, DeleteInspector
  <2> HIDE DEF TypeOK, Settled
  <2> QED
    BY Zenon, <1>5, <2>1, <2>2, <2>3 DEF DeleteStep
<1>6. ASSUME Crash \/ UNCHANGED vars PROVE Settled'
  BY <1>6 DEF Crash, vars
<1> HIDE DEF TypeOK, Settled
<1> QED
  BY Zenon, <1>1, <1>2, <1>3, <1>4, <1>5, <1>6 DEF Next, CreateStep

-----------------------------------------------------------------------------
(* Types and names                                                         *)

\* Every step of a create, of what follows its reply and of a delete keeps types.
LEMMA StepTypeOK == TypeOK /\ [Next]_vars => TypeOK'
<1> SUFFICES ASSUME TypeOK, [Next]_vars PROVE TypeOK'
  BY Zenon
<1> USE DEF TypeOK
<1>1. ASSUME NEW c \in Create, Begin(c) \/ WaitStepsRunsOut(c) \/ Leave(c) PROVE TypeOK'
  BY <1>1 DEF Begin, WaitStepsRunsOut, Leave
<1>2. ASSUME NEW c \in Create, Forward(c) PROVE TypeOK'
  <2>1. CASE Connect(c) \/ Image(c) \/ WaitSteps(c) \/ Park(c)
    <3>1. CASE Connect(c) \/ Image(c)
      BY <3>1 DEF Connect, Image
    <3>2. CASE WaitSteps(c)
      BY <3>2 DEF WaitSteps
    <3>3. CASE Park(c)
      BY <3>3 DEF Park
    <3> HIDE DEF TypeOK
    <3> QED
      BY Zenon, <2>1, <3>1, <3>2, <3>3
  <2>2. CASE ParkDrop(c) \/ ParkRecover(c)
    BY <2>2 DEF ParkDrop, ParkRecover
  <2>3. CASE ParkAside(c) \/ ParkStop(c)
    BY <2>3 DEF ParkAside, ParkStop
  <2>4. CASE Sweep(c) \/ SweepRemove(c) \/ Prepare(c)
    BY <2>4 DEF Sweep, SweepRemove, Prepare
  <2>5. CASE Run(c) \/ RunFails(c) \/ RunAgain(c)
    BY <2>5 DEF Run, RunFails, RunAgain
  <2>6. CASE RunMeetsName(c) \/ Boot(c) \/ CacheRented(c)
    BY <2>6 DEF RunMeetsName, Boot, CacheRented
  <2>7. CASE Reply(c)
    BY Zenon, <2>7 DEF Reply
  <2> HIDE DEF TypeOK
  <2> QED
    BY Zenon, <1>2, <2>1, <2>2, <2>3, <2>4, <2>5, <2>6, <2>7 DEF Forward
<1>3. ASSUME NEW c \in Create, Backward(c) PROVE TypeOK'
  <2>1. CASE Cleanup(c) \/ RestoreRemove(c)
    BY <2>1 DEF Cleanup, RestoreRemove
  <2>2. CASE AbortSwap(c)
    BY <2>2 DEF AbortSwap
  <2>3. CASE RestoreRename(c) \/ RestoreStart(c)
    BY <2>3 DEF RestoreRename, RestoreStart
  <2> HIDE DEF TypeOK
  <2> QED
    BY Zenon, <1>3, <2>1, <2>2, <2>3 DEF Backward
<1>4. ASSUME NEW c \in Create, StepAfterReply(c) \/ LateKill(c) PROVE TypeOK'
  BY <1>4 DEF StepAfterReply, StartInspector, RemoveParked, LateKill
<1>5. ASSUME AskDelete \/ DeleteStep \/ CreatesWaitRunsOut \/ StepsWaitRunsOut PROVE TypeOK'
  <2>1. CASE AskDelete \/ CreatesLeft \/ CreatesWaitRunsOut \/ StepsDone
    BY <2>1 DEF AskDelete, CreatesLeft, CreatesWaitRunsOut, StepsDone
  <2>2. CASE StepsWaitRunsOut \/ DeleteRemove
    BY <2>2 DEF StepsWaitRunsOut, DeleteRemove
  <2>3. CASE DeleteForget \/ DeleteInspector
    BY <2>3 DEF DeleteForget, DeleteInspector
  <2> HIDE DEF TypeOK
  <2> QED
    BY Zenon, <1>5, <2>1, <2>2, <2>3 DEF DeleteStep
<1>6. ASSUME Crash \/ UNCHANGED vars PROVE TypeOK'
  BY <1>6 DEF Crash, vars
<1> HIDE DEF TypeOK
<1> QED
  BY Zenon, <1>1, <1>2, <1>3, <1>4, <1>5, <1>6 DEF Next, CreateStep

\* What a command may do to the two names: take them away, give the parked container its
\* name back, set the pod's aside, or run a create's container.
NamesMove ==
    \/ named'["pod"] \in {None, named["pod"]} /\ named'["parked"] \in {None, named["parked"]}
    \/ named'["pod"] = named["parked"] /\ named'["parked"] = None
    \/ /\ named'["parked"] = named["pod"] /\ named'["pod"] = None
       /\ \E c \in Create : step[c] = "aside"
    \/ /\ named'["parked"] = named["parked"]
       /\ \E c \in Create : step[c] = "run" /\ named'["pod"] = c

\* Docker's commands, one by one.
LEMMA CommandMoves ==
    ASSUME named \in [{"pod", "parked"} -> Create \cup {None}]
    PROVE  /\ UNCHANGED named => NamesMove
           /\ \A i : RemoveId(i) => NamesMove
           /\ \A n \in {"pod", "parked"} : RemoveName(n) => NamesMove
           /\ Rename("parked", "pod") => NamesMove
           /\ named' = [named EXCEPT !["pod"] = None] => NamesMove
           /\ \A c \in Create : step[c] = "aside" /\ Rename("pod", "parked") => NamesMove
           /\ \A c \in Create : step[c] = "run" /\ named' = [named EXCEPT !["pod"] = c]
                 => NamesMove
<1>1. UNCHANGED named => NamesMove
  BY Zenon DEF NamesMove
<1>2. \A i : RemoveId(i) => NamesMove
  BY Zenon DEF NamesMove
<1>3. \A n \in {"pod", "parked"} : RemoveName(n) => NamesMove
  BY Zenon DEF NamesMove
<1>4. Rename("parked", "pod") => NamesMove
  BY Zenon DEF NamesMove
<1>5. named' = [named EXCEPT !["pod"] = None] => NamesMove
  BY Zenon DEF NamesMove
<1>6. \A c \in Create : step[c] = "aside" /\ Rename("pod", "parked") => NamesMove
  BY Zenon DEF NamesMove
<1>7. \A c \in Create : step[c] = "run" /\ named' = [named EXCEPT !["pod"] = c] => NamesMove
  BY Zenon DEF NamesMove
<1> QED
  BY Zenon, <1>1, <1>2, <1>3, <1>4, <1>5, <1>6, <1>7

\* The commands of a create and of its undo.
LEMMA CreateCommands ==
    ASSUME TypeOK, NEW c \in Create, Forward(c) \/ Backward(c)
    PROVE  NamesMove
<1>1. named \in [{"pod", "parked"} -> Create \cup {None}]
  BY Zenon DEF TypeOK
<1> HIDE DEF RemoveId, RemoveName, CanRename, Rename
<1>2. CASE Connect(c) \/ Image(c) \/ WaitSteps(c) \/ Park(c) \/ Sweep(c) \/ Prepare(c)
           \/ Boot(c) \/ CacheRented(c) \/ Reply(c) \/ RestoreStart(c)
  <2>1. UNCHANGED named
    BY Zenon, <1>2 DEF Connect, Image, WaitSteps, Park, Sweep, Prepare, Boot, CacheRented,
                       Reply, RestoreStart
  <2> QED
    BY Zenon, <1>1, <2>1, CommandMoves
<1>3. CASE ParkDrop(c) \/ ParkRecover(c) \/ ParkAside(c) \/ ParkStop(c) \/ SweepRemove(c)
  <2>1. \/ UNCHANGED named \/ RemoveName("parked") \/ Rename("parked", "pod")
        \/ RemoveId(seen[c]) \/ (step[c] = "aside" /\ Rename("pod", "parked"))
    BY Zenon, <1>3 DEF ParkDrop, ParkRecover, ParkAside, ParkStop, SweepRemove
  <2> QED
    BY Zenon, <1>1, <2>1, CommandMoves
<1>4. CASE Run(c) \/ RunFails(c) \/ RunAgain(c) \/ RunMeetsName(c)
  <2>1. \/ UNCHANGED named \/ named' = [named EXCEPT !["pod"] = None]
        \/ step[c] = "run" /\ named' = [named EXCEPT !["pod"] = c]
    BY Zenon, <1>4 DEF Run, RunFails, RunAgain, RunMeetsName
  <2> QED
    BY Zenon, <1>1, <2>1, CommandMoves
<1>5. CASE Cleanup(c) \/ AbortSwap(c) \/ RestoreRemove(c) \/ RestoreRename(c)
  <2>1. \/ UNCHANGED named \/ RemoveName("pod") \/ RemoveId(c) \/ RemoveId(parked[c])
        \/ Rename("parked", "pod")
    BY Zenon, <1>5 DEF Cleanup, AbortSwap, RestoreRemove, RestoreRename
  <2> QED
    BY Zenon, <1>1, <2>1, CommandMoves
<1> QED
  BY Zenon, <1>2, <1>3, <1>4, <1>5 DEF Forward, Backward

\* No step does anything else to them.
LEMMA NextMoves ==
    ASSUME TypeOK, [Next]_vars
    PROVE  NamesMove
<1>1. named \in [{"pod", "parked"} -> Create \cup {None}]
  BY Zenon DEF TypeOK
<1> HIDE DEF RemoveId, RemoveName
<1>2. ASSUME NEW c \in Create, Begin(c) \/ Leave(c) \/ WaitStepsRunsOut(c) \/ StepAfterReply(c) \/ LateKill(c)
      PROVE  NamesMove
  <2>1. UNCHANGED named \/ RemoveId(parked[c])
    BY Zenon, <1>2 DEF Begin, Leave, WaitStepsRunsOut, StepAfterReply, StartInspector,
                       RemoveParked, LateKill
  <2> QED
    BY Zenon, <1>1, <2>1, CommandMoves
<1>3. ASSUME AskDelete \/ DeleteStep \/ CreatesWaitRunsOut \/ StepsWaitRunsOut \/ Crash
             \/ UNCHANGED vars
      PROVE  NamesMove
  <2>1. UNCHANGED named \/ RemoveName("pod")
    BY Zenon, <1>3 DEF AskDelete, DeleteStep, CreatesLeft, StepsDone, DeleteRemove,
                       DeleteForget, DeleteInspector, CreatesWaitRunsOut, StepsWaitRunsOut,
                       Crash, vars
  <2> QED
    BY Zenon, <1>1, <2>1, CommandMoves
<1> QED
  BY Zenon, <1>2, <1>3, CreateCommands DEF Next, CreateStep

\* Only a reply tells the backend of a container, and failures are only counted up.
LEMMA ToldAndCounted ==
    ASSUME TypeOK, [Next]_vars
    PROVE  /\ standing' = standing \/ \E c \in Create : step[c] = "reply" /\ standing' = c
           /\ mishaps' = 0 => mishaps = 0
<1>1. mishaps' \in {mishaps, mishaps + 1}
  <2>1. ASSUME NEW c \in Create, Forward(c) PROVE mishaps' \in {mishaps, mishaps + 1}
    BY Zenon, <2>1 DEF Forward, Connect, Image, WaitSteps, Park, ParkDrop, ParkRecover,
                       ParkAside, ParkStop, Sweep, SweepRemove, Prepare, Run, RunFails,
                       RunAgain, RunMeetsName, Boot, CacheRented, Reply
  <2>2. ASSUME NEW c \in Create, Backward(c) PROVE mishaps' \in {mishaps, mishaps + 1}
    BY Zenon, <2>2 DEF Backward, Cleanup, AbortSwap, RestoreRemove, RestoreRename, RestoreStart
  <2>3. ASSUME NEW c \in Create, Begin(c) \/ Leave(c) \/ WaitStepsRunsOut(c) \/ StepAfterReply(c) \/ LateKill(c)
        PROVE  mishaps' \in {mishaps, mishaps + 1}
    BY Zenon, <2>3 DEF Begin, Leave, WaitStepsRunsOut, StepAfterReply, StartInspector,
                       RemoveParked, LateKill
  <2>4. ASSUME AskDelete \/ DeleteStep \/ CreatesWaitRunsOut \/ StepsWaitRunsOut \/ Crash
               \/ UNCHANGED vars
        PROVE  mishaps' \in {mishaps, mishaps + 1}
    BY Zenon, <2>4 DEF AskDelete, DeleteStep, CreatesLeft, StepsDone, DeleteRemove,
                       DeleteForget, DeleteInspector, CreatesWaitRunsOut, StepsWaitRunsOut,
                       Crash, vars
  <2> QED
    BY Zenon, <2>1, <2>2, <2>3, <2>4 DEF Next, CreateStep
<1>2. mishaps \in 0..MaxMishaps
  BY Zenon DEF TypeOK
<1>3. mishaps' = 0 => mishaps = 0
  BY <1>1, <1>2
<1>4. standing' = standing \/ \E c \in Create : step[c] = "reply" /\ standing' = c
  <2>1. ASSUME NEW c \in Create, Forward(c) PROVE standing' = standing \/ (step[c] = "reply" /\ standing' = c)
    BY Zenon, <2>1 DEF Forward, Connect, Image, WaitSteps, Park, ParkDrop, ParkRecover,
                       ParkAside, ParkStop, Sweep, SweepRemove, Prepare, Run, RunFails,
                       RunAgain, RunMeetsName, Boot, CacheRented, Reply
  <2>2. ASSUME NEW c \in Create, Backward(c) PROVE standing' = standing
    BY Zenon, <2>2 DEF Backward, Cleanup, AbortSwap, RestoreRemove, RestoreRename, RestoreStart
  <2>3. ASSUME NEW c \in Create, Begin(c) \/ Leave(c) \/ WaitStepsRunsOut(c) \/ StepAfterReply(c) \/ LateKill(c)
        PROVE  standing' = standing
    BY Zenon, <2>3 DEF Begin, Leave, WaitStepsRunsOut, StepAfterReply, StartInspector,
                       RemoveParked, LateKill
  <2>4. ASSUME AskDelete \/ DeleteStep \/ CreatesWaitRunsOut \/ StepsWaitRunsOut \/ Crash
               \/ UNCHANGED vars
        PROVE  standing' = standing
    BY Zenon, <2>4 DEF AskDelete, DeleteStep, CreatesLeft, StepsDone, DeleteRemove,
                       DeleteForget, DeleteInspector, CreatesWaitRunsOut, StepsWaitRunsOut,
                       Crash, vars
  <2> QED
    BY Zenon, <2>1, <2>2, <2>3, <2>4 DEF Next, CreateStep
<1> QED
  BY Zenon, <1>3, <1>4

\* the steps only an edit takes
EditOnly == {"steps", "park", "drop", "recover", "aside", "stop", "unremove", "unrename", "unstart"}

\* What a step of create c does to the creates: it is in flight and stays so, the others stay
\* where they are, only a reply gives it steps after it, and only setting aside parks.
CreateMoves(c) ==
    /\ step[c] \in Busy /\ step'[c] \in Busy \cup {"ended"} /\ UNCHANGED live
    /\ \A d \in Create : d # c => step'[d] = step[d]
    /\ standing' = standing \/ (step[c] = "reply" /\ standing' = c /\ step'[c] = "ended")
    /\ \A d \in Create :
          after'[d] # "none" => after[d] # "none" \/ (d = c /\ step'[c] = "ended")
    /\ \A d \in Create : parked'[d] # None => parked[d] # None \/ (d = c /\ step[c] = "aside")
    /\ step'[c] \in EditOnly => c \in Edit \/ step[c] \in EditOnly \/ parked[c] # None

\* The steps of a create, one by one.
LEMMA StepsOfCreate ==
    ASSUME TypeOK, NEW c \in Create, Forward(c) \/ Backward(c) \/ WaitStepsRunsOut(c)
    PROVE  CreateMoves(c)
<1>t. /\ step \in [Create -> Ended \cup Busy] /\ after \in [Create -> {"none", "inspector", "remove"}]
      /\ parked \in [Create -> Create \cup {None}]
  BY Zenon DEF TypeOK
<1>b. \A s \in {"connect", "image", "steps", "park", "drop", "recover", "aside", "stop", "sweep",
                "remove", "prepare", "run", "boot", "cache", "reply", "clean", "cleanAbort",
                "abort", "unremove", "unrename", "unstart"} : s \in Busy
  BY Zenon
<1>g. \A s : Goes(c, s) => step'[c] = s /\ \A d \in Create : d # c => step'[d] = step[d]
  BY Zenon, <1>t
<1>e. /\ ErrorExit(c) \in Busy \cup {"ended"} /\ ErrorClean(c) \in Busy \cup {"ended"}
      /\ AbortClean(c) \in Busy
      /\ (ErrorExit(c) \in EditOnly \/ ErrorClean(c) \in EditOnly) => parked[c] # None
      /\ AbortClean(c) \notin EditOnly
  BY ZenonT(60), <1>b DEF EditOnly
<1>s. /\ \A s \in {"connect", "image", "sweep", "remove", "prepare", "run", "boot", "cache", "reply",
                   "clean", "cleanAbort", "abort", "ended"} : s \notin EditOnly
      /\ \A s \in {"steps", "park", "drop", "recover", "aside", "stop", "unremove", "unrename",
                   "unstart"} : s \in EditOnly
  BY Zenon DEF EditOnly
<1> HIDE DEF Busy, Ended, Goes, ErrorExit, ErrorClean, AbortClean, RemoveId, RemoveName,
             CanRename, Rename, Mishap, Timeout, CancelSteps, Waits
<1>1. CASE Connect(c) \/ Image(c) \/ WaitSteps(c) \/ Park(c) \/ ParkDrop(c) \/ ParkRecover(c)
  BY ZenonT(60), <1>b, <1>g, <1>s, <1>1
     DEF CreateMoves, Connect, Image, WaitSteps, Park, ParkDrop, ParkRecover
<1>2. CASE WaitStepsRunsOut(c)
  BY ZenonT(60), <1>b, <1>g, <1>s, <1>t, <1>2 DEF CreateMoves, WaitStepsRunsOut, CancelSteps
<1>3. CASE ParkAside(c)
  <2>1. /\ UNCHANGED <<live, standing, after>>
        /\ \A d \in Create : parked'[d] # None => parked[d] # None \/ d = c
    BY Zenon, <1>3, <1>t DEF ParkAside
  <2>2. step[c] = "aside" /\ (Goes(c, "stop") \/ Goes(c, "ended"))
    BY Zenon, <1>3 DEF ParkAside
  <2> QED
    BY ZenonT(60), <1>b, <1>g, <1>s, <2>1, <2>2 DEF CreateMoves
<1>9. CASE ParkStop(c)
  <2>1. /\ UNCHANGED <<live, standing, after>>
        /\ \A d \in Create : parked'[d] # None => parked[d] # None
    BY Zenon, <1>9, <1>t DEF ParkStop
  <2>2. step[c] = "stop" /\ (Goes(c, "sweep") \/ Goes(c, "ended") \/ Goes(c, "unremove"))
    BY Zenon, <1>9 DEF ParkStop
  <2> QED
    BY ZenonT(60), <1>b, <1>g, <1>s, <2>1, <2>2 DEF CreateMoves
<1>4. CASE Sweep(c) \/ SweepRemove(c) \/ Prepare(c)
  BY ZenonT(60), <1>b, <1>g, <1>s, <1>e, <1>4 DEF CreateMoves, Sweep, SweepRemove, Prepare
<1>5. CASE Run(c) \/ RunFails(c) \/ RunAgain(c) \/ RunMeetsName(c)
  BY ZenonT(60), <1>b, <1>g, <1>s, <1>e, <1>5 DEF CreateMoves, Run, RunFails, RunAgain, RunMeetsName
<1>6. CASE Boot(c) \/ CacheRented(c)
  BY ZenonT(60), <1>b, <1>g, <1>s, <1>6 DEF CreateMoves, Boot, CacheRented
<1>7. CASE Reply(c)
  BY ZenonT(60), <1>b, <1>g, <1>s, <1>t, <1>7 DEF CreateMoves, Reply
<1>8. CASE Backward(c)
  <2>1. CASE Cleanup(c)
    BY ZenonT(60), <1>b, <1>g, <1>s, <1>e, <2>1 DEF CreateMoves, Cleanup
  <2>2. CASE AbortSwap(c) \/ RestoreRemove(c) \/ RestoreRename(c) \/ RestoreStart(c)
    BY ZenonT(60), <1>b, <1>g, <1>s, <2>2
       DEF CreateMoves, AbortSwap, RestoreRemove, RestoreRename, RestoreStart
  <2> QED
    BY Zenon, <1>8, <2>1, <2>2 DEF Backward
<1> QED
  BY Zenon, <1>1, <1>2, <1>3, <1>4, <1>5, <1>6, <1>7, <1>8, <1>9 DEF Forward

\* What follows a reply, and the delete, move no create.
LEMMA StepsOfOthers ==
    ASSUME TypeOK,
           \/ \E c \in Create : StepAfterReply(c) \/ LateKill(c)
           \/ AskDelete \/ DeleteStep \/ CreatesWaitRunsOut \/ StepsWaitRunsOut \/ UNCHANGED vars
    PROVE  /\ UNCHANGED <<step, live, parked, standing>>
           /\ \A d \in Create : after'[d] # "none" => after[d] # "none"
<1>t. after \in [Create -> {"none", "inspector", "remove"}]
  BY Zenon DEF TypeOK
<1>1. ASSUME NEW c \in Create, StepAfterReply(c)
      PROVE  /\ UNCHANGED <<step, live, parked, standing>>
             /\ \A d \in Create : after'[d] # "none" => after[d] # "none"
  <2>1. CASE StartInspector(c)
    BY Zenon, <1>t, <2>1 DEF StartInspector
  <2>2. CASE RemoveParked(c)
    BY Zenon, <1>t, <2>2 DEF RemoveParked
  <2> QED
    BY Zenon, <1>1, <2>1, <2>2 DEF StepAfterReply
<1>4. ASSUME NEW c \in Create, LateKill(c) PROVE UNCHANGED <<step, live, parked, standing, after>>
  BY Zenon, <1>4 DEF LateKill
<1>2. CASE StepsWaitRunsOut
  BY Zenon, <1>t, <1>2 DEF StepsWaitRunsOut
<1>3. CASE AskDelete \/ DeleteStep \/ CreatesWaitRunsOut \/ UNCHANGED vars
  BY Zenon, <1>3 DEF AskDelete, DeleteStep, CreatesLeft, StepsDone, DeleteRemove, DeleteForget,
                     DeleteInspector, CreatesWaitRunsOut, vars
<1> QED
  BY Zenon, <1>1, <1>2, <1>3, <1>4

\* inflight_creates holds one create at a time, from Begin to Leave.
LEMMA StepOneCreate ==
    ASSUME SingleCreate PROVE IInv /\ [Next]_vars => OneCreate'
<1> SUFFICES ASSUME TypeOK, OneCreate, [Next]_vars PROVE OneCreate'
  BY Zenon DEF IInv
<1>t. step \in [Create -> Ended \cup Busy]
  BY Zenon DEF TypeOK
<1>b. /\ "idle" \notin Busy /\ "ended" \notin Busy /\ "left" \notin Busy /\ "cut" \notin Busy
      /\ "connect" \in Busy
  BY Zenon
<1>e. /\ "connect" \notin EditOnly /\ "left" \notin EditOnly /\ "aside" \in EditOnly
      /\ \A s \in EditOnly : s \in Busy
  BY Zenon DEF EditOnly
<1>o. OneCreate <=>
        /\ \A c \in Create : c \in live <=> step[c] \in Busy \cup {"ended"}
        /\ \A c, d \in live : c = d
        /\ \A c \in Create : after[c] # "none" => step[c] \in {"ended", "left"}
        /\ \A c \in Create : step[c] \in Busy => (c \in Edit <=> standing # None)
        /\ \A c \in Create : step[c] \in EditOnly => c \in Edit
        /\ \A c \in Create : parked[c] # None => c \in Edit
  BY Zenon DEF OneCreate, EditOnly
<1>a. \A c \in Create : after[c] # "none" => step[c] \in {"ended", "left"}
  BY Zenon, <1>o
<1>k. \A c \in Create : step[c] \in Busy => (c \in Edit <=> standing # None)
  BY Zenon, <1>o
<1>q. \A c \in Create : (step[c] \in EditOnly \/ parked[c] # None) => c \in Edit
  BY Zenon, <1>o
<1>p. OneCreate' <=>
        /\ \A c \in Create : c \in live' <=> step'[c] \in Busy \cup {"ended"}
        /\ \A c, d \in live' : c = d
        /\ \A c \in Create : after'[c] # "none" => step'[c] \in {"ended", "left"}
        /\ \A c \in Create : step'[c] \in Busy => (c \in Edit <=> standing' # None)
        /\ \A c \in Create : step'[c] \in EditOnly => c \in Edit
        /\ \A c \in Create : parked'[c] # None => c \in Edit
  BY Zenon DEF OneCreate, EditOnly
<1>l. live \subseteq Create
  BY Zenon DEF TypeOK
<1> HIDE DEF Busy, Ended
<1>1. ASSUME NEW c \in Create, Begin(c) PROVE OneCreate'
  <2>1. /\ live = {} /\ live' = {c} /\ (c \in Edit <=> standing # None)
        /\ UNCHANGED <<parked, after, standing>> /\ step[c] = "idle"
    BY Zenon, <1>1 DEF Begin, SingleCreate
  <2>2. step'[c] = "connect" /\ \A d \in Create : d # c => step'[d] = step[d]
    BY Zenon, <1>1, <1>t DEF Begin
  <2> QED
    BY ZenonT(60), <1>b, <1>e, <1>o, <1>p, <2>1, <2>2
<1>2. ASSUME NEW c \in Create, Leave(c) PROVE OneCreate'
  <2>1. live' = live \ {c} /\ UNCHANGED <<parked, after, standing>> /\ step[c] = "ended"
    BY Zenon, <1>2 DEF Leave
  <2>2. step'[c] = "left" /\ \A d \in Create : d # c => step'[d] = step[d]
    BY Zenon, <1>2, <1>t DEF Leave
  <2>3. \A d \in Create : d \in live' <=> step'[d] \in Busy \cup {"ended"}
    BY Zenon, <1>b, <1>o, <2>1, <2>2
  <2>4. \A d \in Create : after'[d] # "none" => step'[d] \in {"ended", "left"}
    BY Zenon, <1>a, <2>1, <2>2
  <2>5. \A d \in Create : step'[d] \in Busy => (d \in Edit <=> standing' # None)
    BY Zenon, <1>b, <1>k, <2>1, <2>2
  <2>6. \A d \in Create : (step'[d] \in EditOnly \/ parked'[d] # None) => d \in Edit
    BY Zenon, <1>e, <1>q, <2>1, <2>2
  <2>7. \A d, e \in live' : d = e
    BY Zenon, <1>o, <2>1
  <2> QED
    BY Zenon, <1>p, <2>3, <2>4, <2>5, <2>6, <2>7
<1>3. ASSUME NEW c \in Create, Forward(c) \/ Backward(c) \/ WaitStepsRunsOut(c) PROVE OneCreate'
  <2>1. CreateMoves(c)
    BY Zenon, <1>3, StepsOfCreate
  <2>2. \A d \in Create : d # c => step[d] \notin Busy
    BY Zenon, <1>o, <2>1 DEF CreateMoves
  <2>3. \A d \in Create : d \in live' <=> step'[d] \in Busy \cup {"ended"}
    BY Zenon, <1>o, <2>1 DEF CreateMoves
  <2>4. ASSUME NEW d \in Create, after'[d] # "none" PROVE step'[d] \in {"ended", "left"}
    <3>1. after[d] # "none" \/ (d = c /\ step'[c] = "ended")
      BY Zenon, <2>1, <2>4 DEF CreateMoves
    <3>2. after[c] = "none"
      BY Zenon, <1>a, <1>b, <2>1 DEF CreateMoves
    <3>3. d # c => step'[d] = step[d]
      BY Zenon, <2>1 DEF CreateMoves
    <3> QED
      BY Zenon, <1>a, <3>1, <3>2, <3>3
  <2>5. ASSUME NEW d \in Create, step'[d] \in Busy PROVE d \in Edit <=> standing' # None
    <3>1. d = c
      BY Zenon, <2>1, <2>2, <2>5 DEF CreateMoves
    <3>2. standing' = standing /\ step[c] \in Busy
      BY Zenon, <1>b, <2>1, <2>5, <3>1 DEF CreateMoves
    <3> QED
      BY Zenon, <1>k, <3>1, <3>2
  <2>6. \A d \in Create : step'[d] \in EditOnly => d \in Edit
    BY Zenon, <1>q, <2>1 DEF CreateMoves
  <2>7. ASSUME NEW d \in Create, parked'[d] # None PROVE d \in Edit
    <3>1. parked[d] # None \/ (d = c /\ step[c] = "aside")
      BY Zenon, <2>1, <2>7 DEF CreateMoves
    <3> QED
      BY Zenon, <1>e, <1>q, <3>1
  <2>8. \A d, e \in live' : d = e
    BY Zenon, <1>o, <2>1 DEF CreateMoves
  <2> QED
    BY Zenon, <1>p, <2>3, <2>4, <2>5, <2>6, <2>7, <2>8
<1>4. CASE \/ \E c \in Create : StepAfterReply(c) \/ LateKill(c)
           \/ AskDelete \/ DeleteStep \/ CreatesWaitRunsOut \/ StepsWaitRunsOut \/ UNCHANGED vars
  BY Zenon, <1>4, <1>o, <1>p, StepsOfOthers
<1>5. CASE Crash
  <2>1. /\ live' = {} /\ UNCHANGED <<parked, standing>> /\ \A c \in Create : after'[c] = "none"
        /\ \A c \in Create : step'[c] = IF c \in live THEN "cut" ELSE step[c]
    BY Zenon, <1>5 DEF Crash
  <2>2. \A c \in Create : step'[c] \notin Busy \cup {"ended"}
    BY Zenon, <1>b, <1>o, <2>1
  <2> QED
    BY Zenon, <1>e, <1>o, <1>p, <2>1, <2>2
<1> QED
  BY Zenon, <1>1, <1>2, <1>3, <1>4, <1>5 DEF Next, CreateStep

\* No create goes back to a step before its docker run.
LEMMA NoReturn ==
    ASSUME TypeOK, [Next]_vars, NEW c \in Create
    PROVE  /\ step'[c] \in Unborn => step[c] \in Unborn
           /\ step'[c] = "run" => step[c] \in Unborn \cup {"run"}
<1>t. step \in [Create -> Ended \cup Busy]
  BY Zenon DEF TypeOK
<1>g. \A d \in Create : \A s : Goes(d, s) => step'[d] = s /\ (d # c => step'[c] = step[c])
  BY Zenon, <1>t
<1>e. /\ ErrorExit(c) \notin Unborn \cup {"run"} /\ ErrorClean(c) \notin Unborn \cup {"run"}
      /\ AbortClean(c) \notin Unborn \cup {"run"}
  BY Zenon DEF Unborn, Before
<1>l. \A s \in {"boot", "cache", "reply", "clean", "cleanAbort", "abort", "unremove", "unrename",
                "unstart", "ended", "left", "cut"} : s \notin Unborn \cup {"run"}
  BY Zenon DEF Unborn, Before
<1>u. \A s \in {"idle", "connect", "image", "steps", "park", "drop", "recover", "aside", "stop",
                "sweep", "remove", "prepare"} : s \in Unborn
  BY Zenon DEF Unborn, Before
<1> DEFINE Stays == step[c] \in Unborn \/ step'[c] = step[c] \/ step'[c] \notin Unborn \cup {"run"}
<1> HIDE DEF Busy, Ended, Goes, ErrorExit, ErrorClean, AbortClean, RemoveId, RemoveName,
             CanRename, Rename, Mishap, Timeout, CancelSteps, Waits
<1>1. ASSUME NEW d \in Create, Begin(d) \/ Leave(d) PROVE Stays
  BY Zenon, <1>1, <1>g, <1>l, <1>u DEF Begin, Leave
<1>2. ASSUME NEW d \in Create, d # c, Forward(d) \/ Backward(d) \/ WaitStepsRunsOut(d) PROVE Stays
  BY Zenon, <1>2, StepsOfCreate DEF CreateMoves
<1>3. CASE Forward(c) \/ Backward(c) \/ WaitStepsRunsOut(c)
  <2>1. CASE Connect(c) \/ Image(c) \/ WaitSteps(c) \/ WaitStepsRunsOut(c) \/ Park(c) \/ ParkDrop(c)
             \/ ParkRecover(c) \/ ParkAside(c) \/ ParkStop(c) \/ Sweep(c) \/ SweepRemove(c) \/ Prepare(c)
    BY Zenon, <1>u, <2>1 DEF Connect, Image, WaitSteps, WaitStepsRunsOut, Park, ParkDrop,
                ParkRecover, ParkAside, ParkStop, Sweep, SweepRemove, Prepare
  <2>2. CASE Run(c) \/ RunFails(c) \/ RunAgain(c) \/ RunMeetsName(c)
    BY Zenon, <1>g, <1>e, <1>l, <2>2 DEF Run, RunFails, RunAgain, RunMeetsName
  <2>3. CASE Boot(c) \/ CacheRented(c) \/ Reply(c)
    BY Zenon, <1>g, <1>l, <2>3 DEF Boot, CacheRented, Reply
  <2>4. CASE Backward(c)
    BY Zenon, <1>g, <1>e, <1>l, <2>4
       DEF Backward, Cleanup, AbortSwap, RestoreRemove, RestoreRename, RestoreStart
  <2> QED
    BY Zenon, <1>3, <2>1, <2>2, <2>3, <2>4 DEF Forward
<1>4. CASE \/ \E d \in Create : StepAfterReply(d) \/ LateKill(d)
           \/ AskDelete \/ DeleteStep \/ CreatesWaitRunsOut \/ StepsWaitRunsOut \/ UNCHANGED vars
  BY Zenon, <1>4, StepsOfOthers
<1>5. CASE Crash
  BY Zenon, <1>5, <1>l DEF Crash
<1>6. Stays
  BY Zenon, <1>1, <1>2, <1>3, <1>4, <1>5 DEF Next, CreateStep
<1> QED
  BY Zenon, <1>6

\* Only docker run gives a new container a name, and only an edit parks one.
LEMMA StepNames ==
    ASSUME SingleCreate PROVE IInv /\ [Next]_vars => Names'
<1> SUFFICES ASSUME TypeOK, OneCreate, Names, [Next]_vars PROVE Names'
  BY Zenon DEF IInv
<1>1. NamesMove
  BY Zenon, NextMoves
<1>2. \A c \in Create : c # None
  BY Zenon
<1>3. \A c \in Create : step[c] = "aside" => c \in Edit /\ standing # None
  BY Zenon DEF OneCreate
<1>4. \A c, d \in Create : step[c] = "aside" /\ step[d] = "run" => FALSE
  <2>1. \A c, d \in Create : step[c] = "aside" /\ step[d] = "run" => c = d
    BY Zenon DEF OneCreate
  <2> QED
    BY Zenon, <2>1
<1>5. ASSUME standing' = None PROVE named'["parked"] = None
  <2>1. standing = None
    BY Zenon, <1>2, <1>5, ToldAndCounted
  <2>2. named["parked"] = None
    BY Zenon, <2>1 DEF Names
  <2> QED
    BY Zenon, <1>1, <1>3, <2>1, <2>2 DEF NamesMove
<1>6. ASSUME NEW c \in Create, step'[c] \in Unborn PROVE named'["pod"] # c
  <2>1. step[c] \in Unborn /\ step[c] # "run"
    BY Zenon, <1>6, NoReturn DEF Unborn, Before
  <2>2. named["pod"] # c /\ named["parked"] # c
    BY Zenon, <2>1 DEF Names
  <2> QED
    BY Zenon, <1>1, <1>2, <2>1, <2>2 DEF NamesMove
<1>7. ASSUME NEW c \in Create, step'[c] \in Unborn \cup {"run"} PROVE named'["parked"] # c
  <2>1. step[c] \in Unborn \cup {"run"}
    BY Zenon, <1>7, NoReturn
  <2>2. named["parked"] # c /\ (named["pod"] # c \/ step[c] = "run")
    BY Zenon, <2>1 DEF Names
  <2> QED
    BY Zenon, <1>1, <1>2, <1>4, <2>2 DEF NamesMove
<1> QED
  BY Zenon, <1>5, <1>6, <1>7 DEF Names

\* Renames move a name, and docker run names a container that has none.
LEMMA StepNamesDiffer ==
    TypeOK /\ Names /\ NamesDiffer /\ [Next]_vars => NamesDiffer'
<1> SUFFICES ASSUME TypeOK, Names, NamesDiffer, [Next]_vars PROVE NamesDiffer'
  BY Zenon
<1>1. NamesMove
  BY Zenon, NextMoves
<1>2. \A c \in Create : c # None
  BY Zenon
<1>3. \A c \in Create : step[c] = "run" => named["parked"] # c
  BY Zenon DEF Names
<1> QED
  BY Zenon, <1>1, <1>2, <1>3 DEF NamesMove, NamesDiffer

\* What happens to a container by a kill or an undo, and to whom.
LEMMA FateMoves ==
    ASSUME TypeOK, [Next]_vars, NEW c \in Create
    PROVE  \/ fate'[c] \in {fate[c], "none"} \/ fate[c] = "dying"
           \/ c = named["parked"] /\ \E d \in Create : step[d] = "stop"
           \/ \E d \in Create : step[d] = "unstart" /\ step'[d] = "ended" /\ c = named["pod"]
<1>t. fate \in [Create -> {"none", "dying", "killed", "unstarted"}] /\ step \in [Create -> Ended \cup Busy]
  BY Zenon DEF TypeOK
<1>1. ASSUME NEW d \in Create, ParkStop(d)
      PROVE  fate'[c] = fate[c] \/ (c = named["parked"] /\ step[d] = "stop")
  BY Zenon, <1>t, <1>1 DEF ParkStop
<1>2. ASSUME NEW d \in Create, RestoreStart(d)
      PROVE  fate'[c] = fate[c] \/ (step[d] = "unstart" /\ step'[d] = "ended" /\ c = named["pod"])
  BY Zenon, <1>t, <1>2 DEF RestoreStart
<1>3. ASSUME NEW d \in Create, LateKill(d) PROVE fate'[c] = fate[c] \/ fate[c] = "dying"
  BY Zenon, <1>t, <1>3 DEF LateKill
<1>4. ASSUME NEW d \in Create, Forward(d), ~ParkStop(d) PROVE UNCHANGED fate
  BY Zenon, <1>4 DEF Forward, Connect, Image, WaitSteps, Park, ParkDrop, ParkRecover,
                     ParkAside, Sweep, SweepRemove, Prepare, Run, RunFails, RunAgain,
                     RunMeetsName, Boot, CacheRented, Reply
<1>5. ASSUME NEW d \in Create, Backward(d), ~RestoreStart(d) PROVE UNCHANGED fate
  BY Zenon, <1>5 DEF Backward, Cleanup, AbortSwap, RestoreRemove, RestoreRename
<1>6. ASSUME NEW d \in Create, Begin(d) \/ Leave(d) \/ WaitStepsRunsOut(d) \/ StepAfterReply(d)
      PROVE  UNCHANGED fate
  BY Zenon, <1>6 DEF Begin, Leave, WaitStepsRunsOut, StepAfterReply, StartInspector, RemoveParked
<1>7. ASSUME AskDelete \/ DeleteStep \/ CreatesWaitRunsOut \/ StepsWaitRunsOut \/ Crash
             \/ UNCHANGED vars
      PROVE  UNCHANGED fate
  BY Zenon, <1>7 DEF AskDelete, DeleteStep, CreatesLeft, StepsDone, DeleteRemove,
                     DeleteForget, DeleteInspector, CreatesWaitRunsOut, StepsWaitRunsOut,
                     Crash, vars
<1> QED
  BY Zenon, <1>1, <1>2, <1>3, <1>4, <1>5, <1>6, <1>7 DEF Next, CreateStep

\* No create comes to life in one step.
LEMMA BusyBefore ==
    ASSUME TypeOK, [Next]_vars, NEW c \in Create, step'[c] \in Busy \cup {"idle"}
    PROVE  step[c] \in Busy \cup {"idle"}
<1>t. step \in [Create -> Ended \cup Busy]
  BY Zenon DEF TypeOK
<1>b. "left" \notin Busy \cup {"idle"} /\ "cut" \notin Busy \cup {"idle"}
  BY Zenon
<1> HIDE DEF Busy, Ended
<1>1. ASSUME NEW d \in Create, Begin(d) \/ Leave(d)
      PROVE  step'[c] = step[c] \/ step[c] = "idle" \/ step'[c] = "left"
  BY Zenon, <1>1, <1>t DEF Begin, Leave
<1>2. ASSUME NEW d \in Create, Forward(d) \/ Backward(d) \/ WaitStepsRunsOut(d)
      PROVE  step'[c] = step[c] \/ step[c] \in Busy
  BY Zenon, <1>2, StepsOfCreate DEF CreateMoves
<1>3. CASE \/ \E d \in Create : StepAfterReply(d) \/ LateKill(d)
           \/ AskDelete \/ DeleteStep \/ CreatesWaitRunsOut \/ StepsWaitRunsOut \/ UNCHANGED vars
  BY Zenon, <1>3, StepsOfOthers
<1>4. ASSUME Crash PROVE step'[c] = step[c] \/ step'[c] = "cut"
  BY Zenon, <1>4 DEF Crash
<1> QED
  BY Zenon, <1>b, <1>1, <1>2, <1>3, <1>4 DEF Next, CreateStep

\* A kill and an undo mark a container whose create is over, for the one in flight has not
\* run its own when it parks; and a create is misled by a mishap.
LEMMA StepFates ==
    ASSUME SingleCreate PROVE IInv /\ [Next]_vars => Fates'
<1> SUFFICES ASSUME TypeOK, OneCreate, Names, Fates, [Next]_vars PROVE Fates'
  BY Zenon DEF IInv
<1>1. ASSUME NEW c \in Create, step'[c] \in Busy \cup {"idle"} PROVE fate'[c] = "none"
  <2>1. step[c] \in Busy \cup {"idle"}
    BY Zenon, <1>1, BusyBefore
  <2>2. fate[c] = "none"
    BY Zenon, <2>1 DEF Fates
  <2>3. ASSUME NEW d \in Create, step[d] = "stop" PROVE c # named["parked"]
    <3>1. step[c] \in Busy => c = d
      BY Zenon, <2>3 DEF OneCreate
    <3> QED
      BY Zenon, <2>1, <2>3, <3>1 DEF Names, Unborn
  <2>4. ASSUME NEW d \in Create, step[d] = "unstart", step'[d] = "ended" PROVE c # named["pod"]
    <3>1. step[c] \in Busy => c = d
      BY Zenon, <2>4 DEF OneCreate
    <3>2. step[c] = "idle"
      BY Zenon, <1>1, <2>1, <2>4, <3>1
    <3> QED
      BY Zenon, <3>2 DEF Names, Unborn
  <2> QED
    BY Zenon, <2>2, <2>3, <2>4, FateMoves
<1>2. ASSUME NEW c \in Create, step'[c] \in Unborn PROVE error'[c] # "back"
  <2>1. step[c] \in Unborn /\ step'[c] # "unremove"
    BY Zenon, <1>2, NoReturn DEF Unborn, Before
  <2>2. error[c] # "back"
    BY Zenon, <2>1 DEF Fates
  <2> QED
    BY Zenon, <2>1, <2>2, ErrorMoves
<1>3. ASSUME Misled' PROVE mishaps' # 0
  <2>0. mishaps \in 0..MaxMishaps
    BY Zenon DEF TypeOK
  <2>1. PICK c \in Create : error'[c] = "back"
    BY Zenon, <1>3 DEF Misled
  <2>2. CASE error[c] = "back"
    <3>1. mishaps # 0
      BY Zenon, <2>2 DEF Fates, Misled
    <3> QED
      BY Zenon, <3>1, ToldAndCounted
  <2>3. CASE error[c] # "back"
    <3>1. Mishap
      BY Zenon, <2>1, <2>3, ErrorMoves
    <3> QED
      BY <2>0, <3>1
  <2> QED
    BY Zenon, <2>2, <2>3
<1> QED
  BY Zenon, <1>1, <1>2, <1>3 DEF Fates

\* What may start to run: the container of a docker run, and the pod's own by restore.
RunsMove ==
    \/ running' \subseteq running
    \/ \E c \in Create : /\ step[c] = "run" /\ running' = running \cup {c}
                         /\ named'["parked"] = named["parked"]
    \/ \E c \in Create : /\ step[c] = "unstart" /\ UNCHANGED named
                         /\ running' = running \cup ({named["pod"]} \ {None})

\* No step starts anything else.
LEMMA NextRuns ==
    ASSUME TypeOK, [Next]_vars
    PROVE  RunsMove
<1>t. named \in [{"pod", "parked"} -> Create \cup {None}]
  BY Zenon DEF TypeOK
<1>1. ASSUME NEW c \in Create, Run(c) PROVE RunsMove
  BY Zenon, <1>1, <1>t DEF Run, RunsMove
<1>2. ASSUME NEW c \in Create, RestoreStart(c) PROVE RunsMove
  BY Zenon, <1>2 DEF RestoreStart, RunsMove
<1>7. ASSUME NEW c \in Create, RunFails(c) PROVE RunsMove
  BY Zenon, <1>7, <1>t DEF RunFails, RunsMove
<1>3. ASSUME NEW c \in Create, Forward(c), ~Run(c), ~RunFails(c) PROVE running' \subseteq running
  BY Zenon, <1>3 DEF Forward, Connect, Image, WaitSteps, Park, ParkDrop, ParkRecover, ParkAside,
                ParkStop, Sweep, SweepRemove, Prepare, RunAgain, RunMeetsName, Boot,
                CacheRented, Reply
<1>4. ASSUME NEW c \in Create, Backward(c), ~RestoreStart(c) PROVE running' \subseteq running
  BY Zenon, <1>4 DEF Backward, Cleanup, AbortSwap, RestoreRemove, RestoreRename
<1>5. ASSUME NEW c \in Create, Begin(c) \/ Leave(c) \/ WaitStepsRunsOut(c) \/ StepAfterReply(c) \/ LateKill(c)
      PROVE  running' \subseteq running
  BY Zenon, <1>5 DEF Begin, Leave, WaitStepsRunsOut, StepAfterReply, StartInspector, RemoveParked, LateKill
<1>6. ASSUME AskDelete \/ DeleteStep \/ CreatesWaitRunsOut \/ StepsWaitRunsOut \/ Crash
             \/ UNCHANGED vars
      PROVE  running' \subseteq running
  BY Zenon, <1>6 DEF AskDelete, DeleteStep, CreatesLeft, StepsDone, DeleteRemove, DeleteForget,
                DeleteInspector, CreatesWaitRunsOut, StepsWaitRunsOut, Crash, vars
<1> QED
  BY Zenon, <1>1, <1>2, <1>3, <1>4, <1>5, <1>6, <1>7 DEF Next, CreateStep, RunsMove

\* A create gets to its docker run with what is parked stopped, and an undo to its start with
\* nothing parked.
LEMMA StoppedOnEntry ==
    ASSUME TypeOK, OneCreate, Names, [Next]_vars, NEW c \in Create
    PROVE  /\ step'[c] \in Empty => step[c] \in Empty \/ named'["parked"] \notin running'
           /\ step'[c] = "unstart" => step[c] = "unstart" \/ named'["parked"] = None
<1>t. /\ step \in [Create -> Ended \cup Busy] /\ running \subseteq Create
      /\ named \in [{"pod", "parked"} -> Create \cup {None}]
  BY Zenon DEF TypeOK
<1>n. None \notin running
  BY Zenon, <1>t
<1>g. \A d \in Create : \A s : Goes(d, s) => step'[d] = s /\ (d # c => step'[c] = step[c])
  BY Zenon, <1>t
<1>e. /\ ErrorExit(c) \notin Empty \cup {"unstart"} /\ ErrorClean(c) \notin Empty \cup {"unstart"}
      /\ AbortClean(c) \notin Empty \cup {"unstart"}
  BY Zenon DEF Empty
<1>l. \A s \in {"connect", "image", "steps", "park", "drop", "recover", "aside", "stop", "boot",
                "cache", "reply", "clean", "cleanAbort", "abort", "unremove", "unrename", "ended",
                "left", "cut"} : s \notin Empty \cup {"unstart"}
  BY Zenon DEF Empty
<1>u. /\ \A s \in {"sweep", "remove", "prepare", "run"} : s \in Empty
      /\ \A s \in Empty : s # "unstart"
  BY Zenon DEF Empty
<1>r. Rename("parked", "pod") => named'["parked"] = None
  BY Zenon, <1>t
<1> DEFINE Stays == step'[c] = step[c] \/ step'[c] \notin Empty \cup {"unstart"}
<1> HIDE DEF Busy, Ended, Goes, ErrorExit, ErrorClean, AbortClean, RemoveId, RemoveName,
             CanRename, Rename, Mishap, Timeout, CancelSteps, Waits
<1>1. ASSUME NEW d \in Create, Begin(d) \/ Leave(d) PROVE Stays
  BY Zenon, <1>1, <1>g, <1>l DEF Begin, Leave
<1>2. ASSUME NEW d \in Create, d # c, Forward(d) \/ Backward(d) \/ WaitStepsRunsOut(d) PROVE Stays
  BY Zenon, <1>2, StepsOfCreate DEF CreateMoves
<1>3. CASE Forward(c) \/ Backward(c) \/ WaitStepsRunsOut(c)
  <2>1. CASE Connect(c) \/ WaitSteps(c) \/ WaitStepsRunsOut(c) \/ ParkDrop(c) \/ ParkRecover(c)
             \/ ParkAside(c)
    <3>1. Stays
      BY Zenon, <1>g, <1>l, <2>1
         DEF Connect, WaitSteps, WaitStepsRunsOut, ParkDrop, ParkRecover, ParkAside
    <3> QED
      BY Zenon, <3>1
  <2>2. CASE Image(c)
    <3>1. c \notin Edit => named["parked"] = None
      BY Zenon, <2>2 DEF Image, OneCreate, Names, Busy
    <3>2. UNCHANGED <<named, running>>
      BY Zenon, <2>2 DEF Image
    <3>3. Stays \/ (step'[c] = "sweep" /\ c \notin Edit)
      BY Zenon, <1>g, <1>l, <2>2 DEF Image
    <3> QED
      BY Zenon, <1>n, <1>u, <3>1, <3>2, <3>3
  <2>3. CASE Park(c)
    <3>1. UNCHANGED <<named, running>>
      BY Zenon, <2>3 DEF Park
    <3>2. Stays \/ (step'[c] = "sweep" /\ named["parked"] = None)
      BY Zenon, <1>g, <1>l, <2>3 DEF Park
    <3> QED
      BY Zenon, <1>n, <1>u, <3>1, <3>2
  <2>4. CASE ParkStop(c)
    <3> HIDE DEF Fate, Fails
    <3>1. \/ Goes(c, "ended") \/ Goes(c, "unremove")
          \/ Goes(c, "sweep") /\ UNCHANGED named /\ running' = running \ {named["parked"]}
      BY Zenon, <2>4 DEF ParkStop
    <3>2. Goes(c, "ended") => step'[c] = "ended"
      BY Zenon, <1>g
    <3>3. Goes(c, "unremove") => step'[c] = "unremove"
      BY Zenon, <1>g
    <3>4. Goes(c, "sweep") => step'[c] = "sweep"
      BY Zenon, <1>g
    <3> QED
      BY Zenon, <1>l, <1>u, <3>1, <3>2, <3>3, <3>4
  <2>5. CASE Sweep(c) \/ SweepRemove(c) \/ Prepare(c)
    <3>1. step[c] \in Empty /\ step'[c] # "unstart"
      BY Zenon, <1>g, <1>e, <1>l, <1>u, <2>5 DEF Sweep, SweepRemove, Prepare
    <3> QED
      BY Zenon, <3>1
  <2>6. CASE Run(c) \/ RunFails(c) \/ RunAgain(c) \/ RunMeetsName(c)
    <3>1. Stays
      BY Zenon, <1>g, <1>e, <1>l, <2>6 DEF Run, RunFails, RunAgain, RunMeetsName
    <3> QED
      BY Zenon, <3>1
  <2>7. CASE Boot(c) \/ CacheRented(c) \/ Reply(c)
    <3>1. Stays
      BY Zenon, <1>g, <1>l, <2>7 DEF Boot, CacheRented, Reply
    <3> QED
      BY Zenon, <3>1
  <2>8. CASE Cleanup(c) \/ AbortSwap(c) \/ RestoreRemove(c) \/ RestoreStart(c)
    <3>1. Stays
      BY Zenon, <1>g, <1>e, <1>l, <2>8 DEF Cleanup, AbortSwap, RestoreRemove, RestoreStart
    <3> QED
      BY Zenon, <3>1
  <2>9. CASE RestoreRename(c)
    <3>1. (Rename("parked", "pod") /\ Goes(c, "unstart")) \/ Goes(c, "ended")
      BY Zenon, <2>9 DEF RestoreRename
    <3>2. step'[c] = "ended" \/ (step'[c] = "unstart" /\ named'["parked"] = None)
      BY Zenon, <1>g, <1>r, <3>1
    <3> QED
      BY Zenon, <1>l, <1>u, <3>2
  <2> QED
    BY Zenon, <1>3, <2>1, <2>2, <2>3, <2>4, <2>5, <2>6, <2>7, <2>8, <2>9 DEF Forward, Backward
<1>4. CASE \/ \E d \in Create : StepAfterReply(d) \/ LateKill(d)
           \/ AskDelete \/ DeleteStep \/ CreatesWaitRunsOut \/ StepsWaitRunsOut \/ UNCHANGED vars
  BY Zenon, <1>4, StepsOfOthers
<1>5. ASSUME Crash PROVE Stays
  BY Zenon, <1>5, <1>l DEF Crash
<1>6. CASE Stays
  BY Zenon, <1>6
<1> HIDE DEF Stays
<1> QED
  BY Zenon, <1>1, <1>2, <1>3, <1>4, <1>5, <1>6 DEF Next, CreateStep

\* _park stops what it renamed before anything else runs, and restore starts it only
\* under the pod's name.
LEMMA StepParkedStopped ==
    ASSUME SingleCreate PROVE IInv /\ [Next]_vars => ParkedStopped'
<1> SUFFICES ASSUME TypeOK, OneCreate, Names, ParkedStopped, [Next]_vars PROVE ParkedStopped'
  BY Zenon DEF IInv
<1>1. NamesMove /\ RunsMove
  BY Zenon, NextMoves, NextRuns
<1>2. None \notin running /\ None \notin Create
  BY Zenon DEF TypeOK
<1>3. /\ \A c \in Create : step[c] \in Empty => named["parked"] \notin running
      /\ \A c \in Create : step[c] = "unstart" => named["parked"] = None
      /\ ~(named["pod"] \in running /\ named["parked"] \in running)
  BY Zenon DEF ParkedStopped, NeverBothRun
<1>4. \A c \in Create : step[c] = "run" => named["parked"] # c /\ named["parked"] \notin running
  BY Zenon, <1>3 DEF Names, Empty
<1>5. \A c, d \in Create : step[c] \in Busy /\ step[d] \in Busy => c = d
  BY Zenon DEF OneCreate
<1>6. named'["parked"] \in {None, named["parked"]} \/ \E c \in Create : step[c] = "aside"
  BY Zenon, <1>1 DEF NamesMove
<1>7. ASSUME named'["pod"] \in running', named'["parked"] \in running' PROVE FALSE
  <2>1. CASE running' \subseteq running
    BY Zenon, <1>1, <1>2, <1>3, <1>4, <1>7, <2>1 DEF NamesMove
  <2>2. CASE \E c \in Create : /\ step[c] = "run" /\ running' = running \cup {c}
                               /\ named'["parked"] = named["parked"]
    BY Zenon, <1>4, <1>7, <2>2
  <2>3. CASE \E c \in Create : /\ step[c] = "unstart" /\ UNCHANGED named
                               /\ running' = running \cup ({named["pod"]} \ {None})
    BY Zenon, <1>2, <1>3, <1>7, <2>3
  <2> QED
    BY Zenon, <1>1, <2>1, <2>2, <2>3 DEF RunsMove
<1>8. ASSUME NEW c \in Create, step'[c] \in Empty PROVE named'["parked"] \notin running'
  <2>1. CASE step[c] \in Empty
    <3>1. \A d \in Create : step[d] # "aside" /\ step[d] # "unstart"
      BY Zenon, <1>5, <2>1 DEF Empty
    <3>2. named'["parked"] \in {None, named["parked"]} /\ named["parked"] \notin running
      BY Zenon, <1>3, <1>6, <2>1, <3>1
    <3>3. \/ running' \subseteq running
          \/ \E d \in Create : /\ step[d] = "run" /\ running' = running \cup {d}
                               /\ named'["parked"] = named["parked"]
      BY Zenon, <1>1, <3>1 DEF RunsMove
    <3>4. CASE running' \subseteq running
      BY Zenon, <1>2, <3>2, <3>4
    <3>5. CASE \E d \in Create : /\ step[d] = "run" /\ running' = running \cup {d}
                                 /\ named'["parked"] = named["parked"]
      BY Zenon, <1>4, <3>5
    <3> QED
      BY Zenon, <3>3, <3>4, <3>5
  <2> QED
    BY Zenon, <1>8, <2>1, StoppedOnEntry
<1>9. ASSUME NEW c \in Create, step'[c] = "unstart" PROVE named'["parked"] = None
  <2>1. CASE step[c] = "unstart"
    <3>1. \A d \in Create : step[d] # "aside"
      BY Zenon, <1>5, <2>1
    <3> QED
      BY Zenon, <1>3, <1>6, <2>1, <3>1
  <2> QED
    BY Zenon, <1>9, <2>1, StoppedOnEntry
<1> QED
  BY Zenon, <1>7, <1>8, <1>9 DEF ParkedStopped, NeverBothRun

\* Where the container the backend knows is while nothing went wrong, told for each place
\* at which one is removed.
LEMMA KnownIs ==
    ASSUME IInv, standing # None, del = "none", mishaps = 0, NEW c \in Create
    PROVE  /\ step[c] = "drop" => named["pod"] = standing
           /\ step[c] = "remove" => seen[c] = None
           /\ step[c] \in {"run", "clean", "unremove"} => c # standing /\ named["pod"] \in {None, c}
           /\ step[c] \notin {"cleanAbort", "abort"}
           /\ after[c] # "none" /\ parked[c] # None => parked[c] # standing
<1>1. \A d \in Create : step[d] \in Busy => d \in Edit
  BY Zenon DEF IInv, OneCreate
<1>2. \A d, e \in Create : step[d] \in Busy /\ step[e] \in Busy => d = e
  BY Zenon DEF IInv, OneCreate
<1>3. \A d \in Create : step[d] \notin {"cleanAbort", "abort"}
  BY Zenon DEF IInv, Kept, Knows
<1>4. step[c] = "drop" => named["pod"] = standing
  <2>1. step[c] = "drop" => \A d \in Create : step[d] \notin Busy \ Before
    BY Zenon, <1>2 DEF Before
  <2>2. (\A d \in Create : step[d] \notin Busy \ Before) => named["pod"] = standing
    BY Zenon DEF IInv, Undone
  <2> QED
    BY Zenon, <2>1, <2>2
<1>5. step[c] = "remove" => seen[c] = None
  BY Zenon, <1>1 DEF IInv, Kept, Knows
<1>0. ~Misled
  BY Zenon DEF IInv, Fates
<1>6. \A d \in Edit : step[d] \in Swapped => parked[d] = named["parked"] /\ named["parked"] = standing
  BY Zenon, <1>0 DEF IInv, Kept, Knows, Undone
<1>7. step[c] \in {"run", "clean", "unremove"} => c # standing /\ named["pod"] \in {None, c}
  <2>1. step[c] \in Busy => parked[c] # c
    BY Zenon DEF IInv, Kept
  <2>2. step[c] \in {"run", "clean", "unremove"} => named["pod"] \in {None, c}
    BY Zenon DEF IInv, Undone
  <2> QED
    BY Zenon, <1>1, <1>6, <2>1, <2>2 DEF Swapped, Empty
<1>8. after[c] # "none" /\ parked[c] # None => parked[c] # standing
  <2> SUFFICES ASSUME after[c] # "none", parked[c] # None PROVE parked[c] # standing
    BY Zenon
  <2>1. /\ named["pod"] # parked[c]
        /\ named["parked"] = parked[c] => \A d \in Edit : step[d] \notin Swapped
    BY Zenon DEF IInv, Kept, Spares
  <2>2. CASE named["pod"] = standing
    BY Zenon, <2>1, <2>2
  <2>3. CASE named["pod"] # standing
    <3>1. PICK d \in Create : step[d] \in Busy \ Before
      BY Zenon, <2>3 DEF IInv, Undone
    <3>2. step[d] # "unstart"
      BY Zenon, <2>3 DEF IInv, Undone
    <3>3. step[d] \in Swapped /\ d \in Edit
      BY Zenon, <1>1, <1>3, <3>1, <3>2 DEF Swapped, Empty, Up, Before
    <3> QED
      BY Zenon, <1>6, <2>1, <3>3
  <2> QED
    BY Zenon, <2>2, <2>3
<1> QED
  BY Zenon, <1>3, <1>4, <1>5, <1>7, <1>8

\* A step that leaves the count of mishaps at zero is none.
LEMMA NoMishap ==
    ASSUME mishaps = 0, mishaps' = 0
    PROVE  ~Mishap
  OBVIOUS

\* The removal of a half-built replacement leaves the parked container where it is, and the
\* pod's name free (cleanup_failed_container_creation, restore).
LEMMA UndoClears ==
    ASSUME IInv, NEW c \in Create, Cleanup(c) \/ RestoreRemove(c), mishaps = 0, mishaps' = 0,
           del' = "none", standing' # None
    PROVE  Undone'
<1>t. named \in [{"pod", "parked"} -> Create \cup {None}] /\ step \in [Create -> Ended \cup Busy]
  BY Zenon DEF IInv, TypeOK
<1>1. /\ UNCHANGED <<standing, del>> /\ step[c] \in {"clean", "cleanAbort", "unremove"}
      /\ \A d \in Create : d # c => step'[d] = step[d]
  BY Zenon, <1>t DEF Cleanup, RestoreRemove
<1>2. step[c] \in {"clean", "unremove"} /\ c # standing /\ named["pod"] \in {None, c}
  BY Zenon, <1>1, KnownIs
<1>3. named["parked"] = standing /\ parked[c] # None
  <2>1. c \in Edit
    BY Zenon, <1>1, <1>2 DEF IInv, OneCreate
  <2>2. ~Misled
    BY Zenon DEF IInv, Fates
  <2> QED
    BY Zenon, <1>1, <1>2, <2>1, <2>2 DEF IInv, Undone, Kept, Knows, Swapped
<1>4. step'[c] \in {"unremove", "unrename"}
  <2>1. CASE Cleanup(c)
    BY Zenon, <1>t, <1>2, <1>3, <2>1 DEF Cleanup
  <2>2. CASE RestoreRemove(c)
    BY Zenon, <1>t, <2>2 DEF RestoreRemove
  <2> QED
    BY Zenon, <2>1, <2>2
<1>5. RemoveId(c) \/ RemoveName("pod")
  <2> HIDE DEF RemoveId, RemoveName, Mishap
  <2> QED
    BY Zenon, NoMishap DEF Cleanup, RestoreRemove
<1>6. named'["pod"] = None /\ named'["parked"] = standing
  BY Zenon, <1>t, <1>2, <1>3, <1>5
<1>7. \A d \in Create : d # c => step'[d] \notin Busy
  <2>1. \A d \in Create : step[d] \in Busy => d = c
    BY Zenon, <1>2 DEF IInv, OneCreate
  <2> QED
    BY Zenon, <1>1, <2>1
<1>8. step'[c] \in Busy \ Before
  BY Zenon, <1>4 DEF Before
<1>9. Swapped \subseteq Busy
  BY Zenon DEF Swapped, Empty, Up
<1> QED
  BY Zenon, <1>1, <1>4, <1>6, <1>7, <1>8, <1>9 DEF Undone

\* The three ways Undone holds: the container the backend knows has the pod's name and is as
\* the edit left it, and no edit is past its rename;
LEMMA UndoneStanding ==
    ASSUME named'["pod"] = standing', AsLeft(standing)',
           \A d \in Create : step'[d] \notin Busy \ Before
    PROVE  Undone'
<1>1. \A s \in Swapped \cup {"run", "clean", "unremove", "unrename", "unstart"} : s \in Busy \ Before
  BY Zenon DEF Swapped, Empty, Up, Before
<1> HIDE DEF Busy
<1> QED
  BY Zenon, <1>1 DEF Undone

\* it is parked by the edit in flight, which has the pod's name for its own container or free;
LEMMA UndoneParked ==
    ASSUME NEW c \in Create, step'[c] \in Swapped, named'["parked"] = standing',
           step'[c] \in {"run", "clean", "unremove"} => named'["pod"] \in {None, c},
           step'[c] = "unrename" => named'["pod"] = None,
           \A d \in Create : d # c => step'[d] \notin Busy
    PROVE  Undone'
<1>1. \A s \in Swapped \cup {"run", "clean", "unremove", "unrename", "unstart"} : s \in Busy
  BY Zenon DEF Swapped, Empty, Up
<1>2. \A s \in Swapped : s \in Busy \ Before /\ s # "unstart"
  BY Zenon DEF Swapped, Empty, Up, Before
<1> HIDE DEF Busy
<1> QED
  BY ZenonT(60), <1>1, <1>2 DEF Undone

\* or the undo has just given it the pod's name back.
LEMMA UndoneRenamed ==
    ASSUME NEW c \in Create, step'[c] = "unstart", named'["pod"] = standing',
           \A d \in Create : d # c => step'[d] \notin Busy
    PROVE  Undone'
<1>1. \A s \in Swapped \cup {"run", "clean", "unremove", "unrename", "unstart"} : s \in Busy
  BY Zenon DEF Swapped, Empty, Up
<1>2. /\ "unstart" \in Busy \ Before
      /\ \A s \in Swapped \cup {"run", "clean", "unremove", "unrename"} : s # "unstart"
  BY Zenon DEF Swapped, Empty, Up, Before
<1> HIDE DEF Busy
<1> QED
  BY Zenon, <1>1, <1>2 DEF Undone

\* No edit past its rename: the backend's container has the pod's name.
LEMMA StandingBefore ==
    ASSUME IInv, mishaps = 0, del = "none", standing # None,
           \A d \in Create : step[d] \notin Busy \ Before
    PROVE  named["pod"] = standing /\ AsLeft(standing) /\ named["parked"] # standing
  BY Zenon DEF IInv, Undone, NamesDiffer

\* An edit past its rename: the backend's container is the one it parked.
LEMMA ParkedDuring ==
    ASSUME IInv, mishaps = 0, del = "none", standing # None, NEW c \in Create, step[c] \in Swapped
    PROVE  /\ named["parked"] = standing /\ parked[c] # None
           /\ step[c] \in {"stop", "sweep", "remove", "prepare"} => named["pod"] = None
<1>1. step[c] \in Busy
  BY Zenon DEF Swapped, Empty, Up
<1>2. c \in Edit /\ ~Misled
  BY Zenon, <1>1 DEF IInv, OneCreate, Fates
<1> QED
  BY Zenon, <1>2 DEF IInv, Undone, Kept, Knows

\* The steps before and while an edit sets the container aside.
LEMMA ForwardUndone ==
    ASSUME IInv, NEW c \in Create, CreateMoves(c), mishaps = 0, del = "none", standing # None,
           mishaps' = 0, UNCHANGED standing, \A d \in Create : d # c => step'[d] \notin Busy,
           \/ Connect(c) \/ Image(c) \/ WaitSteps(c) \/ WaitStepsRunsOut(c) \/ Park(c)
           \/ ParkDrop(c) \/ ParkRecover(c) \/ ParkAside(c)
    PROVE  Undone'
<1>t. named \in [{"pod", "parked"} -> Create \cup {None}] /\ step \in [Create -> Ended \cup Busy]
  BY Zenon DEF IInv, TypeOK
<1>k. cancelled = {}
  BY Zenon DEF IInv, Kept
<1>g. \A s : Goes(c, s) => step'[c] = s
  BY Zenon, <1>t
<1>b. \A s \in {"connect", "image", "steps", "park", "drop", "recover", "aside", "ended"} :
         s \notin Busy \ Before
  BY Zenon DEF Before
<1>1. step[c] \in {"connect", "image", "steps", "park", "drop", "recover", "aside"}
  BY Zenon DEF Connect, Image, WaitSteps, WaitStepsRunsOut, Park, ParkDrop, ParkRecover, ParkAside
<1>2. \A d \in Create : step[d] \notin Busy \ Before
  <2>1. \A d \in Create : step[d] \in Busy => d = c
    BY Zenon DEF CreateMoves, IInv, OneCreate
  <2> HIDE DEF Busy
  <2> QED
    BY Zenon, <1>1, <1>b, <2>1
<1>3. named["pod"] = standing /\ AsLeft(standing) /\ named["parked"] # standing
  BY Zenon, <1>2, StandingBefore
<1>m. ~Mishap
  BY Zenon, NoMishap
<1>4. c \in Edit
  BY Zenon, <1>1 DEF IInv, OneCreate
<1> HIDE DEF Busy, Ended, Goes
<1>5. CASE \/ Connect(c) \/ Image(c) \/ WaitSteps(c) \/ WaitStepsRunsOut(c) \/ Park(c)
           \/ ParkDrop(c) \/ ParkRecover(c)
  <2>1. \/ Goes(c, "image") \/ Goes(c, "steps") \/ Goes(c, "park") \/ Goes(c, "drop")
        \/ Goes(c, "recover") \/ Goes(c, "aside") \/ Goes(c, "ended")
    BY Zenon, <1>3, <1>4, <1>5, <1>k
       DEF Connect, Image, WaitSteps, WaitStepsRunsOut, Park, ParkDrop, ParkRecover
  <2>2. UNCHANGED fate /\ (UNCHANGED <<named, running>> \/ RemoveName("parked"))
    BY Zenon, <1>3, <1>5
       DEF Connect, Image, WaitSteps, WaitStepsRunsOut, Park, ParkDrop, ParkRecover
  <2>3. named'["pod"] = standing' /\ AsLeft(standing)'
    BY Zenon, <1>t, <1>3, <2>2 DEF AsLeft
  <2>4. step'[c] \notin Busy \ Before
    BY Zenon, <1>b, <1>g, <2>1
  <2> QED
    BY Zenon, <2>3, <2>4, UndoneStanding
<1>6. CASE ParkAside(c)
  <2>1. CASE Rename("pod", "parked") /\ Goes(c, "stop")
    <3>1. named'["parked"] = standing' /\ step'[c] = "stop"
      BY Zenon, <1>t, <1>g, <1>3, <2>1
    <3> QED
      BY Zenon, <3>1, UndoneParked DEF Swapped
  <2>2. CASE UNCHANGED <<named, running, fate>> /\ Goes(c, "ended")
    <3>1. named'["pod"] = standing' /\ AsLeft(standing)' /\ step'[c] \notin Busy \ Before
      BY Zenon, <1>b, <1>g, <1>3, <2>2 DEF AsLeft
    <3> QED
      BY Zenon, <3>1, UndoneStanding
  <2> HIDE DEF Mishap
  <2> QED
    BY Zenon, <1>6, <1>m, <2>1, <2>2 DEF ParkAside
<1> QED
  BY Zenon, <1>5, <1>6

\* The steps with the container aside, up to the reply.
LEMMA SwapUndone ==
    ASSUME IInv, NEW c \in Create, CreateMoves(c), mishaps = 0, mishaps' = 0, del = "none",
           standing # None, UNCHANGED standing, \A d \in Create : d # c => step'[d] \notin Busy,
           \/ ParkStop(c) \/ Sweep(c) \/ SweepRemove(c) \/ Prepare(c) \/ Run(c) \/ RunFails(c)
           \/ RunAgain(c) \/ RunMeetsName(c) \/ Boot(c) \/ CacheRented(c)
    PROVE  Undone'
<1>t. named \in [{"pod", "parked"} -> Create \cup {None}] /\ step \in [Create -> Ended \cup Busy]
  BY Zenon DEF IInv, TypeOK
<1>k. cancelled = {}
  BY Zenon DEF IInv, Kept
<1>g. \A s : Goes(c, s) => step'[c] = s
  BY Zenon, <1>t
<1>1. step[c] \in Swapped
  BY Zenon DEF ParkStop, Sweep, SweepRemove, Prepare, Run, RunFails, RunAgain, RunMeetsName, Boot,
               CacheRented, Swapped, Empty, Up
<1>2. /\ named["parked"] = standing /\ parked[c] # None
      /\ step[c] \in {"stop", "sweep", "remove", "prepare"} => named["pod"] = None
  BY Zenon, <1>1, ParkedDuring
<1>s. /\ \A s \in {"sweep", "remove", "prepare", "run", "boot", "cache", "reply", "clean",
                   "unremove"} : s \in Swapped /\ s # "unrename"
  BY Zenon DEF Swapped, Empty, Up
<1>e. /\ ErrorExit(c) = "unremove" /\ ErrorClean(c) \in {"clean", "unremove"}
  BY Zenon, <1>2
<1>m. ~Mishap
  BY Zenon, NoMishap
<1> HIDE DEF Busy, Ended, Goes, ErrorExit, ErrorClean, AbortClean, Mishap
<1>3. CASE ParkStop(c)
  <2>1. CASE UNCHANGED named /\ (Goes(c, "sweep") \/ Goes(c, "unremove"))
    BY Zenon, <1>2, <1>g, <1>s, <1>3, <2>1, UndoneParked DEF ParkStop
  <2>2. CASE named["parked"] \in running /\ Rename("parked", "pod") /\ Goes(c, "ended") /\ UNCHANGED running
    <3>1. named'["pod"] = standing' /\ AsLeft(standing)' /\ step'[c] = "ended"
      BY Zenon, <1>t, <1>2, <1>g, <2>2 DEF AsLeft
    <3> QED
      BY Zenon, <3>1, UndoneStanding DEF Busy
  <2> QED
    BY Zenon, <1>3, <1>m, <2>1, <2>2 DEF ParkStop
<1>4. CASE Sweep(c)
  BY Zenon, <1>2, <1>g, <1>s, <1>4, UndoneParked DEF Sweep
<1>5. CASE SweepRemove(c)
  <2>1. seen[c] = None
    BY Zenon, <1>5, KnownIs DEF SweepRemove
  <2>2. named'["pod"] = None /\ named'["parked"] = standing'
    BY Zenon, <1>t, <1>2, <1>5, <2>1 DEF SweepRemove
  <2>3. step'[c] \in {"prepare", "unremove"}
    BY Zenon, <1>e, <1>g, <1>5 DEF SweepRemove
  <2> QED
    BY Zenon, <1>s, <2>2, <2>3, UndoneParked
<1>6. CASE Prepare(c)
  <2>1. UNCHANGED named /\ named["pod"] = None
    BY Zenon, <1>2, <1>6 DEF Prepare
  <2>2. step'[c] \in {"run", "clean", "unremove"}
    BY Zenon, <1>e, <1>g, <1>k, <1>6 DEF Prepare
  <2> QED
    BY Zenon, <1>2, <1>s, <2>1, <2>2, UndoneParked
<1>7. CASE Run(c) \/ RunFails(c) \/ RunAgain(c) \/ RunMeetsName(c)
  <2>1. named["pod"] \in {None, c}
    BY Zenon, <1>7, KnownIs DEF Run, RunFails, RunAgain, RunMeetsName
  <2>2. UNCHANGED named \/ named' = [named EXCEPT !["pod"] = c] \/ named' = [named EXCEPT !["pod"] = None]
    BY Zenon, <1>7, <1>m DEF Run, RunFails, RunAgain, RunMeetsName
  <2>3. named'["pod"] \in {None, c} /\ named'["parked"] = standing'
    BY Zenon, <1>t, <1>2, <2>1, <2>2
  <2>4. step'[c] \in {"boot", "run", "clean", "unremove"}
    BY Zenon, <1>e, <1>g, <1>7, <1>m DEF Run, RunFails, RunAgain, RunMeetsName
  <2> QED
    BY Zenon, <1>s, <2>3, <2>4, UndoneParked
<1>8. CASE Boot(c) \/ CacheRented(c)
  <2>1. UNCHANGED named /\ named["pod"] = c
    BY Zenon, <1>8 DEF Boot, CacheRented, IInv, Kept, Knows, Up
  <2>2. step'[c] \in {"cache", "reply", "clean"}
    BY Zenon, <1>g, <1>k, <1>8 DEF Boot, CacheRented
  <2> QED
    BY Zenon, <1>2, <1>s, <2>1, <2>2, UndoneParked
<1> QED
  BY Zenon, <1>3, <1>4, <1>5, <1>6, <1>7, <1>8

\* The end of an undo, and the reply.
LEMMA EndUndone ==
    ASSUME IInv, NEW c \in Create, CreateMoves(c), mishaps = 0, mishaps' = 0, del = "none",
           standing' # None, \A d \in Create : d # c => step'[d] \notin Busy,
           Reply(c) \/ AbortSwap(c) \/ RestoreRename(c) \/ RestoreStart(c)
    PROVE  Undone'
<1>t. named \in [{"pod", "parked"} -> Create \cup {None}] /\ step \in [Create -> Ended \cup Busy]
  BY Zenon DEF IInv, TypeOK
<1>g. \A s : Goes(c, s) => step'[c] = s
  BY Zenon, <1>t
<1>m. ~Mishap
  BY Zenon, NoMishap
<1>e. "ended" \notin Busy \ Before
  BY Zenon
<1> HIDE DEF Busy, Ended, Goes, Mishap
<1>1. CASE Reply(c)
  <2>1. /\ standing' = c /\ UNCHANGED <<named, running>> /\ step'[c] = "ended"
        /\ named["pod"] = c /\ c \in running
    BY Zenon, <1>g, <1>1 DEF Reply, IInv, Kept, Knows, Up
  <2>2. AsLeft(standing)'
    BY Zenon, <2>1 DEF AsLeft
  <2> QED
    BY Zenon, <1>e, <2>1, <2>2, UndoneStanding
<1>2. CASE AbortSwap(c)
  BY Zenon, <1>2 DEF AbortSwap, IInv, Kept, Knows
<1>3. CASE RestoreRename(c)
  <2>1. UNCHANGED standing /\ step[c] = "unrename"
    BY Zenon, <1>3 DEF RestoreRename
  <2>2. named["parked"] = standing /\ named["pod"] = None
    BY Zenon, <2>1 DEF IInv, Undone, Swapped
  <2>3. Rename("parked", "pod") /\ Goes(c, "unstart")
    BY Zenon, <1>3, <1>m, <2>1, <2>2 DEF RestoreRename
  <2>4. named'["pod"] = standing' /\ step'[c] = "unstart"
    BY Zenon, <1>t, <1>g, <2>1, <2>2, <2>3
  <2> QED
    BY Zenon, <2>4, UndoneRenamed
<1>4. CASE RestoreStart(c)
  <2>1. UNCHANGED <<standing, named>> /\ step[c] = "unstart" /\ step'[c] = "ended"
    BY Zenon, <1>g, <1>4 DEF RestoreStart
  <2>2. named["pod"] = standing
    BY Zenon, <2>1 DEF IInv, Undone
  <2>3. AsLeft(standing)'
    <3>1. standing \in Create
      BY Zenon, <2>1 DEF IInv, TypeOK
    <3>2. standing' \in running' \/ fate'[standing'] = "unstarted"
      BY Zenon, <1>4, <1>m, <2>1, <2>2, <3>1 DEF RestoreStart
    <3> QED
      BY Zenon, <3>2 DEF AsLeft
  <2> QED
    BY Zenon, <1>e, <2>1, <2>2, <2>3, UndoneStanding
<1> QED
  BY Zenon, <1>1, <1>2, <1>3, <1>4

\* The removal after a reply takes none of the containers Undone speaks of.
LEMMA RemovalUndone ==
    ASSUME IInv, NEW c \in Create, RemoveParked(c), mishaps = 0, mishaps' = 0, del = "none",
           standing' # None
    PROVE  Undone'
<1>t. named \in [{"pod", "parked"} -> Create \cup {None}]
  BY Zenon DEF IInv, TypeOK
<1>1. UNCHANGED <<step, standing, del, fate>> /\ after[c] # "none"
  BY Zenon DEF RemoveParked
<1>2. RemoveId(parked[c])
  <2> HIDE DEF RemoveId, Mishap
  <2> QED
    BY Zenon, NoMishap DEF RemoveParked
<1>3. parked[c] # standing
  BY Zenon, <1>1, KnownIs
<1>4. /\ \A n \in {"pod", "parked"} : named[n] = standing => named'[n] = standing
      /\ \A n \in {"pod", "parked"} : named'[n] \in {None, named[n]}
      /\ AsLeft(standing) => AsLeft(standing)'
  BY Zenon, <1>t, <1>1, <1>2, <1>3 DEF AsLeft
<1>5. /\ (\A d \in Create : step[d] \notin Busy \ Before) => named["pod"] = standing /\ AsLeft(standing)
      /\ \A d \in Create : step[d] \in Swapped => named["parked"] = standing
      /\ \A d \in Create : step[d] \in {"run", "clean", "unremove"} => named["pod"] \in {None, d}
      /\ \A d \in Create : step[d] = "unrename" => named["pod"] = None
      /\ \A d \in Create : step[d] = "unstart" => named["pod"] = standing
  BY Zenon, <1>1 DEF IInv, Undone
<1> HIDE DEF Busy
<1> QED
  BY ZenonT(60), <1>1, <1>4, <1>5 DEF Undone

\* A delete that was asked for stays so.
LEMMA DeleteStays ==
    ASSUME [Next]_vars, del' = "none"
    PROVE  /\ del = "none"
           /\ ~AskDelete /\ ~DeleteStep /\ ~CreatesWaitRunsOut /\ ~StepsWaitRunsOut
<1>1. ~AskDelete /\ ~DeleteStep /\ ~CreatesWaitRunsOut /\ ~StepsWaitRunsOut
  BY Zenon DEF AskDelete, DeleteStep, CreatesLeft, StepsDone, DeleteRemove, DeleteForget,
               DeleteInspector, CreatesWaitRunsOut, StepsWaitRunsOut
<1>2. ASSUME Crash PROVE del = "none"
  BY Zenon, <1>2 DEF Crash
<1>3. ASSUME NEW c \in Create, Forward(c) PROVE del = "none"
  BY Zenon, <1>3 DEF Forward, Connect, Image, WaitSteps, Park, ParkDrop, ParkRecover, ParkAside,
                ParkStop, Sweep, SweepRemove, Prepare, Run, RunFails, RunAgain, RunMeetsName,
                Boot, CacheRented, Reply
<1>4. ASSUME NEW c \in Create, Backward(c) PROVE del = "none"
  BY Zenon, <1>4 DEF Backward, Cleanup, AbortSwap, RestoreRemove, RestoreRename, RestoreStart
<1>5. ASSUME NEW c \in Create, Begin(c) \/ Leave(c) \/ WaitStepsRunsOut(c) \/ StepAfterReply(c) \/ LateKill(c)
      PROVE  del = "none"
  BY Zenon, <1>5 DEF Begin, Leave, WaitStepsRunsOut, StepAfterReply, StartInspector, RemoveParked, LateKill
<1>6. ASSUME UNCHANGED vars PROVE del = "none"
  BY Zenon, <1>6 DEF vars
<1> QED
  BY Zenon, <1>1, <1>2, <1>3, <1>4, <1>5, <1>6 DEF Next, CreateStep

\* Until a command of an undo fails, the container the backend knows can be put back.
LEMMA StepUndone ==
    ASSUME SingleCreate PROVE IInv /\ [Next]_vars => Undone'
<1> SUFFICES ASSUME IInv, [Next]_vars, mishaps' = 0, del' = "none", standing' # None
             PROVE  Undone'
  BY Zenon DEF Undone
<1>t. TypeOK /\ step \in [Create -> Ended \cup Busy]
  BY Zenon DEF IInv, TypeOK
<1>1. mishaps = 0 /\ del = "none"
  BY Zenon, <1>t, ToldAndCounted, DeleteStays
<1>2. ASSUME NEW c \in Create, Begin(c) \/ Leave(c) PROVE Undone'
  <2>1. /\ UNCHANGED <<named, running, fate, standing>> /\ step[c] \in {"idle", "ended"}
        /\ step'[c] \in {"connect", "left"} /\ \A d \in Create : d # c => step'[d] = step[d]
    BY Zenon, <1>2, <1>t DEF Begin, Leave
  <2>2. \A d \in Create : step[d] \notin Busy
    <3>1. /\ \A d \in Create : step[d] \in Busy \cup {"ended"} => d \in live
          /\ \A a, b \in live : a = b
      BY Zenon DEF IInv, OneCreate
    <3>2. "ended" \notin Busy
      BY Zenon
    <3> HIDE DEF Busy, Ended, Goes
    <3>3. live = {} \/ step[c] = "ended"
      BY Zenon, <1>2 DEF Begin, Leave, SingleCreate
    <3> QED
      BY Zenon, <3>1, <3>2, <3>3
  <2>3. "connect" \notin Busy \ Before /\ "left" \notin Busy
    BY Zenon DEF Before
  <2> HIDE DEF Busy, Ended
  <2>4. named'["pod"] = standing' /\ AsLeft(standing)'
    BY Zenon, <1>1, <2>1, <2>2, StandingBefore DEF AsLeft
  <2> QED
    BY Zenon, <2>1, <2>2, <2>3, <2>4, UndoneStanding
<1>3. ASSUME NEW c \in Create, Forward(c) \/ Backward(c) \/ WaitStepsRunsOut(c) PROVE Undone'
  <2>1. CreateMoves(c)
    BY Zenon, <1>3, <1>t, StepsOfCreate
  <2>2. \A d \in Create : d # c => step'[d] \notin Busy
    BY Zenon, <2>1 DEF CreateMoves, IInv, OneCreate
  <2>3. CASE Reply(c) \/ AbortSwap(c) \/ RestoreRename(c) \/ RestoreStart(c)
    BY Zenon, <1>1, <2>1, <2>2, <2>3, EndUndone
  <2>4. CASE Cleanup(c) \/ RestoreRemove(c)
    BY Zenon, <1>1, <2>4, UndoClears
  <2>5. CASE ~(Reply(c) \/ AbortSwap(c) \/ RestoreRename(c) \/ RestoreStart(c)) /\ ~(Cleanup(c) \/ RestoreRemove(c))
    <3>1. UNCHANGED standing
      BY Zenon, <1>3, <2>5 DEF Forward, Backward, Connect, Image, WaitSteps, WaitStepsRunsOut, Park,
         ParkDrop, ParkRecover, ParkAside, ParkStop, Sweep, SweepRemove, Prepare, Run, RunFails,
         RunAgain, RunMeetsName, Boot, CacheRented
    <3>2. \/ Connect(c) \/ Image(c) \/ WaitSteps(c) \/ WaitStepsRunsOut(c) \/ Park(c)
          \/ ParkDrop(c) \/ ParkRecover(c) \/ ParkAside(c)
          \/ ParkStop(c) \/ Sweep(c) \/ SweepRemove(c) \/ Prepare(c) \/ Run(c) \/ RunFails(c)
          \/ RunAgain(c) \/ RunMeetsName(c) \/ Boot(c) \/ CacheRented(c)
      BY Zenon, <1>3, <2>5 DEF Forward, Backward
    <3> QED
      BY Zenon, <1>1, <2>1, <2>2, <3>1, <3>2, ForwardUndone, SwapUndone
  <2> QED
    BY Zenon, <2>3, <2>4, <2>5
<1>4. ASSUME NEW c \in Create, StepAfterReply(c) PROVE Undone'
  <2>1. CASE RemoveParked(c)
    BY Zenon, <1>1, <2>1, RemovalUndone
  <2>2. CASE StartInspector(c)
    BY Zenon, <1>1, <2>2 DEF StartInspector, IInv, Undone, AsLeft
  <2> QED
    BY Zenon, <1>4, <2>1, <2>2 DEF StepAfterReply
<1>5. ~Crash
  BY Zenon, <1>1, NoMishap DEF Crash
<1>6. CASE UNCHANGED vars
  BY Zenon, <1>1, <1>6 DEF vars, IInv, Undone, AsLeft
<1>7. ASSUME NEW c \in Create, LateKill(c) PROVE Undone'
  <2>1. UNCHANGED <<named, step, standing, del, mishaps>>
    BY Zenon, <1>7 DEF LateKill
  <2>2. AsLeft(standing) => AsLeft(standing)'
    <3>1. standing \in Create
      BY Zenon, <2>1 DEF IInv, TypeOK
    <3> QED
      BY Zenon, <1>7, <3>1 DEF LateKill, AsLeft
  <2> QED
    BY Zenon, <1>1, <2>1, <2>2 DEF IInv, Undone
<1> QED
  BY Zenon, <1>2, <1>3, <1>4, <1>5, <1>6, <1>7, DeleteStays DEF Next, CreateStep

\* The node starts without a container of the pod.
LEMMA InitIInv == Init => IInv
<1> SUFFICES ASSUME Init PROVE IInv
  BY Zenon
<1> USE DEF Init, Before, Unborn, Empty, Up, Swapped
<1>1. TypeOK /\ OneCreate /\ Names
  BY DEF TypeOK, OneCreate, Names
<1>2. ParkedStopped
  BY Zenon DEF ParkedStopped, NeverBothRun
<1>3. Kept /\ Undone
  BY Zenon DEF Kept, CopyKept, Knows, Spares, Undone
<1>4. NamesDiffer /\ Fates
  BY Zenon DEF NamesDiffer, Fates, Misled
<1> QED
  BY Zenon, <1>1, <1>2, <1>3, <1>4 DEF IInv

\* The invariant is inductive.
LEMMA StepIInv ==
    ASSUME SingleCreate PROVE IInv /\ [Next]_vars => IInv'
<1> SUFFICES ASSUME IInv, [Next]_vars PROVE IInv'
  BY Zenon
<1>1. TypeOK'
  BY Zenon, StepTypeOK DEF IInv
<1> QED
  BY Zenon, <1>1, StepOneCreate, StepNames, StepNamesDiffer, StepFates, StepParkedStopped,
     StepKept, StepUndone DEF IInv

\* Between edits and while one undoes itself, the pod is where Undone says it is.
LEMMA UndoneWhenQuiet == IInv => EditUndone
  BY Zenon DEF IInv, OneCreate, Undone, EditUndone

\* Every reachable state satisfies it.
LEMMA InvariantHolds ==
    ASSUME SingleCreate PROVE Spec => []IInv
<1>1. IInv /\ [Next]_vars => IInv'
  BY Zenon, StepIInv
<1> QED
  BY <1>1, InitIInv, PTL DEF Spec

\* The state of the swap, the registries and the delete keeps its types, for any number
\* of creates in flight.
THEOREM TypeCorrect == Spec => []TypeOK
<1>1. Init => TypeOK
  BY Zenon, InitIInv DEF IInv
<1> QED
  BY <1>1, StepTypeOK, PTL DEF Spec

\* A pod that is up and not being deleted keeps a container on its node, whatever else
\* fails and wherever the connector dies (_EditSwap), until the rename back after a failed
\* stop is carried out but reported failed, if its creates come one at a time.
THEOREM CopyAlwaysKept ==
    ASSUME SingleCreate PROVE Spec => []CopyKept
<1>1. IInv => CopyKept
  BY Zenon DEF IInv, Kept, CopyKept
<1> QED
  BY <1>1, InvariantHolds, PTL

\* The parked container and its replacement never run together (_EditSwap._park stops
\* before create_container runs), if the creates come one at a time.
THEOREM BothNeverRun ==
    ASSUME SingleCreate PROVE Spec => []NeverBothRun
<1>1. IInv => NeverBothRun
  BY Zenon DEF IInv, ParkedStopped
<1> QED
  BY <1>1, InvariantHolds, PTL

\* A failed edit leaves the pod's container under the pod's name, and running unless a late
\* kill stopped it or its GPUs left the node (_EditSwap.restore), as long as no command of
\* an undo failed, no rename was carried out but reported failed and no connector died.
THEOREM FailedEditUndone ==
    ASSUME SingleCreate PROVE Spec => []EditUndone
<1> QED
  BY UndoneWhenQuiet, InvariantHolds, PTL

-----------------------------------------------------------------------------
\* The inspector of a node is off once its pod is deleted (DeleteInspector comes after the
\* steps that start it), also with creates that overlap.
THEOREM InspectorStops == Spec => []InspectorOff
<1>1. Init => TypeOK /\ Settled
  BY DEF Init, TypeOK, Settled
<1>2. TypeOK /\ Settled /\ [Next]_vars => TypeOK' /\ Settled'
  BY Zenon, StepTypeOK, StepSettled
<1>3. Settled => InspectorOff
  BY Zenon DEF Settled, InspectorOff
<1> QED
  BY <1>1, <1>2, <1>3, PTL DEF Spec

\* A deleted pod leaves no container, under its name or parked (delete_container after
\* _stop_create_before_delete), if the creates come one at a time.
THEOREM DeletedPodsGo ==
    ASSUME SingleCreate PROVE Spec => []DeletedIsGone
<1>1. Init => TypeOK /\ Settled /\ Aside
  BY DEF Init, TypeOK, Settled, Aside, Before, Unborn, Up, Holding
<1>2. IInv /\ Settled /\ Aside /\ [Next]_vars => Settled' /\ Aside'
  BY Zenon, StepSettled, StepAside DEF IInv
<1>3. ASSUME IInv, Settled, Aside, del = "done", Quiet, mishaps = 0, timeouts = 0
      PROVE  named["pod"] = None /\ named["parked"] = None /\ running = {}
  <2>1. named["pod"] = None /\ running \subseteq {named["pod"], named["parked"]}
    BY Zenon, <1>3 DEF Settled
  <2>2. \A c \in Create : step[c] \notin Busy /\ after[c] = "none"
    BY Zenon, <1>3 DEF IInv, OneCreate, Quiet
  <2>3. named["parked"] = None
    BY Zenon, <1>3, <2>2 DEF Aside, Holding
  <2>4. None \notin running
    BY Zenon, <1>3 DEF IInv, TypeOK
  <2> QED
    BY Zenon, <2>1, <2>3, <2>4
<1> QED
  <2>1. IInv /\ Settled /\ Aside => DeletedIsGone
    BY Zenon, <1>3 DEF DeletedIsGone
  <2> QED
    BY <1>1, <1>2, <2>1, InvariantHolds, PTL DEF Spec

-----------------------------------------------------------------------------
(* What an edit drops                                                      *)

\* the steps of an edit before it has removed a leftover
Listing == {"connect", "image", "steps", "park", "drop"}

\* While no command of an undo failed: what is parked when an edit lists the host is not
\* the container the backend knows.
StaleAhead ==
    mishaps = 0 /\ standing # None =>
        \A c \in Create : step[c] \in Listing => named["parked"] # standing

\* An edit is in its first steps because it was begun or was there before.
LEMMA ListingStep ==
    ASSUME TypeOK, [Next]_vars, NEW c \in Create, step'[c] \in Listing
    PROVE  step[c] \in Listing \/ Begin(c)
<1>1. step \in [Create -> Ended \cup Busy]
  BY Zenon DEF TypeOK
<1>2. ASSUME NEW d \in Create, NEW s, Goes(d, s), s \notin Listing
      PROVE  step[c] \in Listing
  BY Zenon, <1>1, <1>2
<1>0. /\ \A d \in Create : /\ ErrorExit(d) \notin Listing /\ ErrorClean(d) \notin Listing
                           /\ AbortClean(d) \notin Listing
      /\ \A s \in {"recover", "aside", "stop", "sweep", "remove", "prepare", "run", "boot", "cache",
                 "reply", "clean", "cleanAbort", "abort", "unremove", "unrename", "unstart",
                 "ended", "left"} : s \notin Listing
  BY Zenon DEF Listing
<1> HIDE DEF Goes, ErrorExit, ErrorClean, AbortClean
<1>3. ASSUME NEW d \in Create, Begin(d) PROVE step[c] \in Listing \/ Begin(c)
  BY Zenon, <1>1, <1>3 DEF Begin, Goes
<1>4. ASSUME NEW d \in Create,
             Connect(d) \/ Image(d) \/ WaitSteps(d) \/ WaitStepsRunsOut(d) \/ Park(d) \/ ParkDrop(d)
      PROVE  step[c] \in Listing
  <2>1. step[d] \in Listing /\ \E s : Goes(d, s)
    BY Zenon, <1>4 DEF Connect, Image, WaitSteps, WaitStepsRunsOut, Park, ParkDrop, Listing
  <2> QED
    BY Zenon, <1>1, <2>1 DEF Goes
<1>5. ASSUME NEW d \in Create, ParkRecover(d) \/ ParkAside(d) \/ ParkStop(d) \/ Sweep(d)
             \/ SweepRemove(d) \/ Prepare(d)
      PROVE  step[c] \in Listing
  <2>1. \E s : Goes(d, s) /\ s \notin Listing
    BY Zenon, <1>0, <1>5 DEF ParkRecover, ParkAside, ParkStop, Sweep, SweepRemove, Prepare
  <2> QED
    BY Zenon, <2>1, <1>2
<1>6. ASSUME NEW d \in Create, Run(d) \/ RunFails(d) \/ RunAgain(d) \/ RunMeetsName(d)
             \/ Boot(d) \/ CacheRented(d) \/ Reply(d)
      PROVE  step[c] \in Listing
  <2>1. UNCHANGED step \/ \E s : Goes(d, s) /\ s \notin Listing
    BY Zenon, <1>0, <1>6 DEF Run, RunFails, RunAgain, RunMeetsName, Boot, CacheRented, Reply
  <2> QED
    BY Zenon, <2>1, <1>2
<1>7. ASSUME NEW d \in Create, Backward(d) \/ Leave(d) \/ StepAfterReply(d) \/ LateKill(d)
      PROVE  step[c] \in Listing
  <2>1. UNCHANGED step \/ \E s : Goes(d, s) /\ s \notin Listing
    BY Zenon, <1>0, <1>7 DEF Backward, Cleanup, AbortSwap, RestoreRemove, RestoreRename,
                       RestoreStart, Leave, StepAfterReply, StartInspector, RemoveParked,
                       LateKill
  <2> QED
    BY Zenon, <2>1, <1>2
<1>8. ASSUME AskDelete \/ DeleteStep \/ CreatesWaitRunsOut \/ StepsWaitRunsOut \/ UNCHANGED vars
      PROVE  step[c] \in Listing
  <2>1. UNCHANGED step
    BY Zenon, <1>8 DEF AskDelete, DeleteStep, CreatesLeft, StepsDone, DeleteRemove,
                       DeleteForget, DeleteInspector, CreatesWaitRunsOut, StepsWaitRunsOut, vars
  <2> QED
    BY Zenon, <2>1
<1>9. ASSUME Crash PROVE step[c] \in Listing
  BY Zenon, <1>9 DEF Crash, Listing
<1> QED
  BY Zenon, <1>3, <1>4, <1>5, <1>6, <1>7, <1>8, <1>9 DEF Next, CreateStep, Forward

\* An edit begins while the container the backend knows has the pod's name, and until its
\* first removal nobody else parks one.
LEMMA StepStaleAhead ==
    ASSUME SingleCreate
    PROVE  IInv /\ StaleAhead /\ [Next]_vars => StaleAhead'
<1> SUFFICES ASSUME IInv, StaleAhead, [Next]_vars, mishaps' = 0, standing' # None,
                    NEW c \in Create, step'[c] \in Listing
             PROVE  named'["parked"] # standing'
  BY Zenon DEF StaleAhead
<1>0. TypeOK
  BY Zenon DEF IInv
<1>1. mishaps = 0
  BY Zenon, <1>0, ToldAndCounted
<1>2. CASE Begin(c)
  <2>1. UNCHANGED <<named, standing>> /\ del = "none" /\ live = {}
    BY Zenon, <1>2 DEF Begin, SingleCreate
  <2>2. \A d \in Create : step[d] \notin Busy
    BY Zenon, <2>1 DEF IInv, OneCreate
  <2>3. named["pod"] = standing
    BY Zenon, <1>1, <2>1, <2>2 DEF IInv, Undone
  <2> QED
    BY Zenon, <2>1, <2>3 DEF IInv, NamesDiffer
<1>3. CASE step[c] \in Listing
  <2>1. \A d \in Create : step[d] \in Busy => d = c
    BY Zenon, <1>3 DEF IInv, OneCreate, Listing
  <2>2. \A d \in Create : step[d] \notin {"aside", "run", "reply"}
    BY Zenon, <1>3, <2>1 DEF Listing
  <2>3. standing' = standing
    BY Zenon, <1>0, <2>2, ToldAndCounted
  <2>4. named["parked"] # standing
    BY Zenon, <1>1, <1>3, <2>3 DEF StaleAhead
  <2>5. named'["parked"] \in {None, named["parked"]}
    BY Zenon, <1>0, <2>2, NextMoves DEF NamesMove
  <2> QED
    BY Zenon, <2>3, <2>4, <2>5
<1> QED
  BY Zenon, <1>0, <1>2, <1>3, ListingStep

\* _park removes a parked container as a leftover only if the backend does not know it, as
\* its comment says, until a command of an undo fails, a rename is carried out but reported
\* failed or the connector dies; the creates come one at a time.
THEOREM LeftoversAreStale ==
    ASSUME SingleCreate PROVE Spec => [](mishaps = 0 => DroppedIsStale)
<1>1. Init => StaleAhead
  BY Zenon DEF Init, StaleAhead
<1>2. IInv /\ StaleAhead /\ [Next]_vars => StaleAhead'
  BY Zenon, StepStaleAhead
<1>3. IInv /\ StaleAhead => (mishaps = 0 => DroppedIsStale)
  BY Zenon DEF IInv, OneCreate, StaleAhead, DroppedIsStale, Listing
<1> QED
  BY <1>1, <1>2, <1>3, InvariantHolds, PTL DEF Spec

-----------------------------------------------------------------------------
(* The swap implements the contract                                        *)

INSTANCE PodSwapContract

ContractStep == [Contract!Next]_(Contract!contractVars)

\* What the contract is told of mishaps only gets worse.
LEMMA CleanMoves ==
    ASSUME TypeOK, Misled => Misled', mishaps' \in {mishaps, mishaps + 1}
    PROVE  Contract!MayFail
<1>1. (mishaps' = 0 => mishaps = 0)
  BY DEF TypeOK
<1>2. /\ Clean = IF Misled THEN "misled" ELSE IF mishaps = 0 THEN "yes" ELSE "no"
      /\ Clean' = IF Misled' THEN "misled" ELSE IF mishaps' = 0 THEN "yes" ELSE "no"
  BY Zenon DEF Clean, Misled
<1> QED
  BY Zenon, <1>1, <1>2 DEF Contract!MayFail

\* A step that shows the contract nothing but perhaps a mishap.
LEMMA QuietStep ==
    ASSUME TypeOK, Misled => Misled', mishaps' \in {mishaps, mishaps + 1},
           UNCHANGED <<standing, Copies, Closing>>
    PROVE  ContractStep
  BY Zenon, CleanMoves DEF ContractStep, Contract!Next, Contract!Slips

\* The copies of a pod are containers of its creates.
LEMMA CopiesAreCreates ==
    ASSUME named \in [{"pod", "parked"} -> Create \cup {None}]
    PROVE  Copies \subseteq Create
  BY Zenon DEF Copies

\* The container i may go: it is not the one the backend knows, or a mishap or the delete
\* came before.
MayGo(i) == standing # None /\ del = "none" /\ mishaps = 0 => i # standing

\* Removing such a container is a step of the contract, if a copy of the pod is left
\* (docker rm of _EditSwap, the sweep and the cleanup).
LEMMA DropStep ==
    ASSUME TypeOK, CopyKept', NEW i, MayGo(i), Copies' \in {Copies, Copies \ {i}},
           mishaps' \in {mishaps, mishaps + 1}, UNCHANGED <<error, standing, del>>
    PROVE  ContractStep
<1>0. Misled' <=> Misled
  BY Zenon DEF Misled
<1>1. /\ UNCHANGED Closing /\ (Closing = "no" => del = "none") /\ (Clean = "yes" => mishaps = 0)
      /\ Clean # "misled" => ~Misled
  BY Zenon DEF Closing, Clean, Misled
<1>2. CASE Copies' = Copies
  BY Zenon, <1>0, <1>1, <1>2, QuietStep
<1>3. CASE i \in Copies /\ Copies' = Copies \ {i}
  <2>1. i \in Create
    BY Zenon, <1>3, CopiesAreCreates DEF TypeOK
  <2>2. standing # None /\ Closing = "no" =>
           (Clean # "misled" => Copies' # {}) /\ (Clean = "yes" => i # standing)
    BY Zenon, <1>0, <1>1 DEF CopyKept, Copies, MayGo
  <2>3. Contract!Drops(i)
    BY Zenon, <1>0, <1>1, <1>3, <2>2, CleanMoves DEF Contract!Drops
  <2> QED
    BY Zenon, <2>1, <2>3 DEF ContractStep, Contract!Next
<1>4. CASE i \notin Copies
  BY Zenon, <1>2, <1>4
<1> QED
  BY Zenon, <1>2, <1>3, <1>4

\* Running a create's container is a step of the contract (docker run).
LEMMA AddStep ==
    ASSUME TypeOK, NEW c \in Create, c \notin Copies, Copies' = Copies \cup {c},
           Misled => Misled', mishaps' \in {mishaps, mishaps + 1}, UNCHANGED <<standing, del>>
    PROVE  ContractStep
<1>1. UNCHANGED Closing
  BY Zenon DEF Closing
<1>2. Contract!Adds(c)
  BY Zenon, <1>1, CleanMoves DEF Contract!Adds
<1> QED
  BY Zenon, <1>2 DEF ContractStep, Contract!Next

\* What Docker's commands do to the set of copies.
LEMMA RemovesOne ==
    ASSUME TypeOK
    PROVE  /\ \A i : RemoveId(i) => Copies' \in {Copies, Copies \ {i}}
           /\ \A n \in {"pod", "parked"} : RemoveName(n) => Copies' \in {Copies, Copies \ {named[n]}}
  BY DEF Copies, TypeOK

\* Renames, waits and what goes to other parts of the system show nothing.
LEMMA Unseen ==
    ASSUME TypeOK, Misled => Misled', mishaps' \in {mishaps, mishaps + 1},
           UNCHANGED <<standing, del>>,
           \/ UNCHANGED named
           \/ CanRename("pod", "parked") /\ Rename("pod", "parked")
           \/ CanRename("parked", "pod") /\ Rename("parked", "pod")
    PROVE  ContractStep
<1>1. UNCHANGED Copies
  BY Zenon DEF Copies, TypeOK
<1>2. UNCHANGED Closing
  BY Zenon DEF Closing
<1> QED
  BY Zenon, <1>1, <1>2, QuietStep

\* Every step is one of the contract, or shows it nothing: a removal takes nothing the
\* backend knows, a run adds its own container, a reply tells of one that is there.
LEMMA StepContract ==
    ASSUME SingleCreate PROVE IInv /\ IInv' /\ [Next]_vars => ContractStep
<1> SUFFICES ASSUME IInv, IInv', [Next]_vars PROVE ContractStep
  BY Zenon
<1> TypeOK /\ CopyKept' /\ (Misled => Misled')
  BY Zenon, MisledStays DEF IInv, Kept, CopyKept
<1>1. ASSUME NEW c \in Create, Begin(c) \/ WaitStepsRunsOut(c) \/ Leave(c) PROVE ContractStep
  BY Zenon, <1>1, Unseen DEF Begin, WaitStepsRunsOut, Leave, TypeOK
<1>2. ASSUME NEW c \in Create, Forward(c) PROVE ContractStep
  <2>1. CASE Connect(c) \/ Image(c) \/ WaitSteps(c) \/ Park(c)
    <3>1. UNCHANGED <<named, standing, del, mishaps>>
      BY Zenon, <2>1 DEF Connect, Image, WaitSteps, Park
    <3> QED
      BY Zenon, <3>1, Unseen
  <2>2. CASE ParkDrop(c)
    <3>1. MayGo(named["parked"]) \/ named["parked"] = named["pod"]
      BY Zenon, <2>2, KnownIs DEF ParkDrop, MayGo
    <3>2. UNCHANGED <<error, standing, del, mishaps>>
      BY Zenon, <2>2 DEF ParkDrop
    <3>3. CASE RemoveName("parked")
      <4>1. Copies' \in {Copies, Copies \ {named["parked"]}}
        BY Zenon, <3>3, RemovesOne
      <4>2. named["parked"] = named["pod"] => Copies' = Copies
        BY Zenon, <3>3 DEF Copies, TypeOK
      <4>3. UNCHANGED Closing
        BY Zenon, <3>2 DEF Closing
      <4>4. CASE MayGo(named["parked"])
        BY Zenon, <3>2, <4>1, <4>4, DropStep
      <4>5. CASE named["parked"] = named["pod"]
        BY Zenon, <3>2, <4>2, <4>3, <4>5, QuietStep
      <4> QED
        BY Zenon, <3>1, <4>4, <4>5
    <3>4. CASE UNCHANGED named
      BY Zenon, <3>2, <3>4, Unseen
    <3> QED
      BY Zenon, <2>2, <3>3, <3>4 DEF ParkDrop
  <2>3. CASE ParkRecover(c) \/ ParkAside(c) \/ ParkStop(c)
    <3>1. /\ UNCHANGED <<standing, del>> /\ mishaps' \in {mishaps, mishaps + 1}
          /\ \/ UNCHANGED named
             \/ CanRename("pod", "parked") /\ Rename("pod", "parked")
             \/ CanRename("parked", "pod") /\ Rename("parked", "pod")
      BY Zenon, <2>3 DEF ParkRecover, ParkAside, ParkStop
    <3> QED
      BY Zenon, <3>1, Unseen
  <2>4. CASE Sweep(c) \/ Prepare(c) \/ Boot(c) \/ CacheRented(c)
    <3>1. UNCHANGED <<named, standing, del, mishaps>>
      BY Zenon, <2>4 DEF Sweep, Prepare, Boot, CacheRented
    <3> QED
      BY Zenon, <3>1, Unseen
  <2>5. CASE SweepRemove(c)
    <3>1. MayGo(seen[c])
      BY Zenon, <2>5, KnownIs DEF SweepRemove, MayGo
    <3>2. UNCHANGED <<error, standing, del, mishaps>> /\ (RemoveId(seen[c]) \/ UNCHANGED named)
      BY Zenon, <2>5 DEF SweepRemove
    <3>3. Copies' \in {Copies, Copies \ {seen[c]}}
      BY Zenon, <3>2, RemovesOne DEF Copies
    <3> QED
      BY Zenon, <3>1, <3>2, <3>3, DropStep
  <2>6. CASE Run(c) \/ RunFails(c) \/ RunAgain(c)
    <3>1. c \notin Copies
      BY Zenon, <2>6 DEF Run, RunFails, RunAgain, Copies, IInv, Names
    <3> UNCHANGED <<standing, del>> /\ mishaps' \in {mishaps, mishaps + 1}
      BY Zenon, <2>6 DEF Run, RunFails, RunAgain
    <3>2. CASE named' = [named EXCEPT !["pod"] = c]
      <4>1. Copies' = Copies \cup {c}
        BY Zenon, <2>6, <3>2 DEF Run, RunFails, RunAgain, Copies, TypeOK
      <4> QED
        BY Zenon, <3>1, <4>1, AddStep
    <3>3. CASE UNCHANGED named
      BY Zenon, <3>3, Unseen
    <3> QED
      BY Zenon, <2>6, <3>2, <3>3 DEF Run, RunFails, RunAgain
  <2>7. CASE RunMeetsName(c)
    <3>1. MayGo(named["pod"])
      BY Zenon, <2>7, KnownIs DEF RunMeetsName, MayGo
    <3>2. Copies' \in {Copies, Copies \ {named["pod"]}}
      BY <2>7 DEF RunMeetsName, Copies, TypeOK
    <3> QED
      BY Zenon, <2>7, <3>1, <3>2, DropStep DEF RunMeetsName
  <2>8. CASE Reply(c)
    <3>1. UNCHANGED <<Copies, Closing, Clean>>
      BY Zenon, <2>8 DEF Reply, Copies, Closing, Clean
    <3>2. Closing = "no" => c \in Copies
      BY Zenon, <2>8 DEF Reply, Closing, Copies, IInv, Kept, Knows, Up
    <3> QED
      BY Zenon, <2>8, <3>1, <3>2 DEF Reply, ContractStep, Contract!Next, Contract!Tells
  <2> QED
    BY Zenon, <1>2, <2>1, <2>2, <2>3, <2>4, <2>5, <2>6, <2>7, <2>8 DEF Forward
<1>3. ASSUME NEW c \in Create, Backward(c) PROVE ContractStep
  <2>1. CASE Cleanup(c) \/ RestoreRemove(c)
    <3>1. step[c] \in {"clean", "cleanAbort", "unremove"} /\ UNCHANGED <<error, standing, del>>
      BY Zenon, <2>1 DEF Cleanup, RestoreRemove
    <3>2. MayGo(c)
      BY Zenon, <3>1, KnownIs DEF MayGo
    <3>3. MayGo(named["pod"])
      BY Zenon, <3>1, <3>2, KnownIs DEF MayGo
    <3>4. \/ UNCHANGED mishaps /\ (RemoveId(c) \/ RemoveName("pod"))
          \/ Mishap /\ UNCHANGED named
      BY Zenon, <2>1 DEF Cleanup, RestoreRemove
    <3>5. CASE UNCHANGED mishaps /\ (RemoveId(c) \/ RemoveName("pod"))
      <4>1. Copies' \in {Copies, Copies \ {c}} \/ Copies' \in {Copies, Copies \ {named["pod"]}}
        BY Zenon, <3>5, RemovesOne
      <4> QED
        BY Zenon, <3>1, <3>2, <3>3, <3>5, <4>1, DropStep
    <3>6. CASE Mishap /\ UNCHANGED named
      BY Zenon, <3>1, <3>6, Unseen
    <3> QED
      BY Zenon, <3>4, <3>5, <3>6
  <2>2. CASE AbortSwap(c)
    <3>1. MayGo(parked[c])
      BY Zenon, <2>2, KnownIs DEF AbortSwap, MayGo
    <3>2. UNCHANGED <<error, standing, del>>
      BY Zenon, <2>2 DEF AbortSwap
    <3>3. CASE RemoveId(parked[c]) /\ UNCHANGED mishaps
      <4>1. Copies' \in {Copies, Copies \ {parked[c]}}
        BY Zenon, <3>3, RemovesOne
      <4> QED
        BY Zenon, <3>1, <3>2, <3>3, <4>1, DropStep
    <3>4. CASE Mishap /\ UNCHANGED named
      BY Zenon, <3>2, <3>4, Unseen
    <3> QED
      BY Zenon, <2>2, <3>3, <3>4 DEF AbortSwap
  <2>3. CASE RestoreRename(c) \/ RestoreStart(c)
    BY Zenon, <2>3, Unseen DEF RestoreRename, RestoreStart, TypeOK
  <2> QED
    BY Zenon, <1>3, <2>1, <2>2, <2>3 DEF Backward
<1>4. ASSUME NEW c \in Create, StartInspector(c) PROVE ContractStep
  BY Zenon, <1>4, Unseen DEF StartInspector, TypeOK
<1>5. ASSUME NEW c \in Create, RemoveParked(c) PROVE ContractStep
  <2>1. MayGo(parked[c])
    BY Zenon, <1>5, KnownIs DEF RemoveParked, MayGo
  <2>2. UNCHANGED <<error, standing, del>>
    BY ZenonT(60), <1>5 DEF RemoveParked
  <2>3. CASE RemoveId(parked[c]) /\ UNCHANGED mishaps
    <3>1. Copies' \in {Copies, Copies \ {parked[c]}}
      BY Zenon, <2>3, RemovesOne
    <3> QED
      BY Zenon, <2>1, <2>2, <2>3, <3>1, DropStep
  <2>4. CASE Mishap /\ UNCHANGED named
    BY Zenon, <2>2, <2>4, Unseen
  <2> QED
    BY Zenon, <1>5, <2>3, <2>4 DEF RemoveParked
<1>6. ASSUME AskDelete \/ DeleteStep \/ CreatesWaitRunsOut \/ StepsWaitRunsOut PROVE ContractStep
  <2>1. CASE AskDelete
    <3>1. UNCHANGED <<standing, Copies, Clean>>
      BY Zenon, <2>1 DEF AskDelete, Copies, Clean
    <3>2. Closing' = "asked" /\ Closing \in {"no", "asked"}
      BY Zenon, <2>1 DEF AskDelete, Closing
    <3> QED
      BY Zenon, <3>1, <3>2 DEF ContractStep, Contract!Next, Contract!Asks, Contract!contractVars
  <2>2. CASE CreatesLeft \/ CreatesWaitRunsOut \/ StepsDone \/ StepsWaitRunsOut \/ DeleteForget
    <3>1. UNCHANGED <<standing, Copies>> /\ mishaps' \in {mishaps, mishaps + 1}
      BY Zenon, <2>2 DEF CreatesLeft, CreatesWaitRunsOut, StepsDone, StepsWaitRunsOut, DeleteForget, Copies
    <3>2. UNCHANGED Closing
      BY Zenon, <2>2 DEF CreatesLeft, CreatesWaitRunsOut, StepsDone, StepsWaitRunsOut, DeleteForget, Closing
    <3> QED
      BY Zenon, <3>1, <3>2, QuietStep
  <2>3. CASE DeleteRemove
    <3>1. UNCHANGED <<standing, Closing>> /\ del # "none" /\ Closing # "no"
      BY Zenon, <2>3 DEF DeleteRemove, Closing
    <3>2. mishaps' \in {mishaps, mishaps + 1} /\ (UNCHANGED named \/ RemoveName("pod"))
      BY ZenonT(60), <2>3 DEF DeleteRemove
    <3>3. Copies' = Copies \/ (Copies' = Copies \ {named["pod"]} /\ named["pod"] \in Copies)
      <4>1. UNCHANGED named => Copies' = Copies
        BY Zenon DEF Copies
      <4>2. Copies' \in {Copies, Copies \ {named["pod"]}}
        BY Zenon, <3>2, <4>1, RemovesOne
      <4>3. named["pod"] \notin Copies => Copies \ {named["pod"]} = Copies
        BY Zenon
      <4> QED
        BY Zenon, <4>2, <4>3
    <3>4. named["pod"] \in Copies => named["pod"] \in Create
      BY Zenon DEF Copies, TypeOK
    <3>5. Contract!MayFail
      BY Zenon, <3>2, CleanMoves
    <3>6. CASE Copies' = Copies
      BY Zenon, <3>1, <3>2, <3>6, QuietStep
    <3>7. CASE Copies' = Copies \ {named["pod"]} /\ named["pod"] \in Copies
      BY Zenon, <3>1, <3>4, <3>5, <3>7 DEF ContractStep, Contract!Next, Contract!Drops
    <3> QED
      BY Zenon, <3>3, <3>6, <3>7
  <2>4. CASE DeleteInspector
    <3>1. UNCHANGED <<standing, Copies>> /\ mishaps' \in {mishaps, mishaps + 1}
      BY Zenon, <2>4 DEF DeleteInspector, Copies
    <3>3. Contract!MayFail
      BY Zenon, <3>1, CleanMoves
    <3>2. Closing = "asked" /\ Closing' = "done"
      BY Zenon, <2>4 DEF DeleteInspector, Closing
    <3> QED
      BY Zenon, <3>1, <3>2, <3>3 DEF ContractStep, Contract!Next, Contract!Answers
  <2> QED
    BY Zenon, <1>6, <2>1, <2>2, <2>3, <2>4 DEF DeleteStep
<1>7. ASSUME Crash PROVE ContractStep
  <2>1. UNCHANGED <<standing, Copies>> /\ mishaps' = mishaps + 1
    BY Zenon, <1>7 DEF Crash, Copies
  <2>2. UNCHANGED Closing
    BY Zenon, <1>7 DEF Crash, Closing
  <2> QED
    BY Zenon, <2>1, <2>2, QuietStep
<1>8. ASSUME UNCHANGED vars PROVE ContractStep
  BY Zenon, <1>8, Unseen DEF vars
<1>9. ASSUME NEW c \in Create, LateKill(c) PROVE ContractStep
  BY Zenon, <1>9, Unseen DEF LateKill
<1> QED
  BY Zenon, <1>1, <1>2, <1>3, <1>4, <1>5, <1>6, <1>7, <1>8, <1>9 DEF Next, CreateStep, StepAfterReply

\* The creates, edits and delete of a pod keep what PodContract promises the backend, for any
\* number of them, of failures and of crashes, if the creates come one at a time; the promise
\* of a container ends with a rename back that was carried out but reported failed.
THEOREM SwapKeepsContract ==
    ASSUME SingleCreate PROVE Spec => KeepsContract
<1>1. Init => Contract!Init
  BY DEF Init, Contract!Init, Copies, Closing, Clean
<1>2. IInv /\ IInv' /\ [Next]_vars => [Contract!Next]_(Contract!contractVars)
  BY Zenon, StepContract DEF ContractStep
<1> QED
  BY <1>1, <1>2, InvariantHolds, PTL DEF Spec, KeepsContract, Contract!Spec
=============================================================================
