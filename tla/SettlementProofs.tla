---------------------------- MODULE SettlementProofs ----------------------------
(***************************************************************************)
(* Proofs about the settlement, for every number of tempos, cycles, live   *)
(* submissions, failed calls and kills, and every cap.                     *)
(***************************************************************************)
EXTENDS Settlement, TLAPS

\* What the loop over the pending inclusions knows: an inclusion it drops is acknowledged, a
\* window is fetched and submitted only when every landed one is, and on the way there what is
\* not is still to be confirmed.
WindowsInv ==
    /\ WindowsAccounted
    /\ pc = "drop" => cur \in acked
    /\ pc \in {"fetch", "submit"} => landed \subseteq acked \cup dropped
    /\ pc \in {"retry", "keep", "tell", "drop", "keepAgain"} /\ caller = "submit"
       => landed \ (acked \cup dropped) \subseteq todo

\* A window lands only over acknowledged ones.
LandsOverAcked == \A w \in landed' \ landed : landed \ {w} \subseteq acked \cup dropped

\* A list shrinks only by what was delivered: what the pass has not still to deliver is
\* delivered, and after a pass that reached its end all of it is.
ReportsInv ==
    /\ lives \in Nat
    /\ ReportsAccounted
    /\ pc \in {"deliver", "lrem"} => rReports \ replay \subseteq delivered
    /\ pc = "lrem" => Oldest(replay) \subseteq delivered
    /\ pc = "cap" /\ failed # "yes" => rReports \subseteq delivered
    /\ pc \in {"drainSend", "drainRem"} => rLive \ replay \subseteq taken
    /\ pc = "drainRem" => Oldest(replay) \subseteq taken
    /\ pc = "capLive" /\ failed # "yes" => rLive \subseteq taken

\* Redis and memory agree, each at its moment.
IdsInv ==
    torn = "no" =>
        /\ ids = scores
        /\ pc = "persistIds" => rScores = scores
        /\ pc # "persistIds" => rIds = rScores
        /\ pc = "start" => scores = {}

\* The backend is told only of what there is: inclusions of windows that landed, reports of
\* cycles that were scored and of live submissions that were accepted, however often they are
\* kept, read back after a kill, retried and replayed.
NothingInvented == acked \subseteq landed /\ delivered \subseteq owed /\ taken \subseteq 1..lives

\* So is every place on the way there: memory, the lists of Redis, and what a loop has still to
\* tell or is telling.
RealInv ==
    /\ acked \cup unack \cup rPending \cup todo \subseteq landed
    /\ pc \in {"keep", "tell", "drop", "keepAgain"} => cur \in landed
    /\ rReports \cup delivered \cup lostReport \subseteq owed
    /\ pc \in {"report", "sendOnce"} => cycle \in owed
    /\ pc \in {"deliver", "lrem"} => replay \subseteq owed
    /\ rLive \cup taken \cup lostLive \subseteq 1..lives
    /\ pc \in {"tellLive", "sendLive"} => lives \in 1..lives
    /\ pc \in {"drainSend", "drainRem"} => replay \subseteq 1..lives

\* Where sync() is and who waits for it: a window is submitted for the tempo of its caller.
PlaceTypes ==
    /\ mode \in Mode /\ pc \in PC /\ warm \in {"no", "yes"} /\ failed \in {"no", "yes"}
    /\ torn \in {"no", "yes"} /\ faults \in 0..MaxFaults /\ kills \in 0..MaxKills
    /\ caller \in {"none", "submit", "landed", "pass"}
    /\ caller = "submit" => index \in Tempo
    /\ pc \in {"fetch", "submit"} => caller = "submit"

\* The types of the rest, as far as they do not follow from RealInv.
DataTypes ==
    /\ scores \subseteq Cycle /\ ids \subseteq Cycle /\ rScores \subseteq Cycle /\ rIds \subseteq Cycle
    /\ cycle \in Cycle \cup {None} /\ owed \subseteq Cycle /\ cycles \in 0..MaxCycles
    /\ tempo \in Tempo /\ landed \subseteq Tempo /\ dropped \subseteq Tempo
    /\ done \in Tempo \cup {None} /\ index \in Tempo \cup {None} /\ cur \in Tempo \cup {None}
    /\ replay \subseteq Cycle \cup Live /\ lives \in 0..MaxLives

--------------------------------------------------------------------------------
\* Every step keeps landed windows accounted for, and lands a window only over acknowledged ones.
LEMMA WindowsStep == WindowsInv /\ [Next]_vars => WindowsInv' /\ LandsOverAcked
<1> SUFFICES ASSUME WindowsInv, [Next]_vars PROVE WindowsInv' /\ LandsOverAcked
  BY Zenon
<1> USE DEF memory, control, saved, live, outside, history, vars, Goto
<1>1. CASE WeightsStep
  <2>1. CASE Start
    BY Zenon, <2>1 DEF Start, WindowsInv, WindowsAccounted, LandsOverAcked
  <2>2. CASE NoWeights
    BY Zenon, <2>2 DEF NoWeights, WindowsInv, WindowsAccounted, LandsOverAcked
  <2>3. CASE NoMiners
    BY Zenon, <2>3 DEF NoMiners, WindowsInv, WindowsAccounted, LandsOverAcked
  <2>4. CASE LiveWeights
    BY Zenon, <2>4 DEF LiveWeights, WindowsInv, WindowsAccounted, LandsOverAcked
  <2>5. CASE SetWeights
    BY Zenon, <2>5 DEF SetWeights, AfterLive, WindowsInv, WindowsAccounted, LandsOverAcked
  <2>6. CASE KeepLive
    BY Zenon, <2>6 DEF KeepLive, WindowsInv, WindowsAccounted, LandsOverAcked
  <2>7. CASE SendLive
    BY Zenon, <2>7 DEF SendLive, AfterLive, WindowsInv, WindowsAccounted, LandsOverAcked
  <2>8. CASE ReadLive
    BY Zenon, <2>8 DEF ReadLive, AfterDrain, WindowsInv, WindowsAccounted, LandsOverAcked
  <2>9. CASE DrainSend
    BY Zenon, <2>9 DEF DrainSend, AfterDrain, Oldest, WindowsInv, WindowsAccounted, LandsOverAcked
  <2>10. CASE DrainRemove
    BY Zenon, <2>10 DEF DrainRemove, Oldest, WindowsInv, WindowsAccounted, LandsOverAcked
  <2>11. CASE CapLive
    BY Zenon, <2>11 DEF CapLive, AfterLive, FreshControl, WindowsInv, WindowsAccounted, LandsOverAcked
  <2>12. CASE ShadowReads
    BY Zenon, <2>12 DEF ShadowReads, WindowsInv, WindowsAccounted, LandsOverAcked
  <2> QED
    BY <1>1, <2>1, <2>2, <2>3, <2>4, <2>5, <2>6, <2>7, <2>8, <2>9, <2>10, <2>11, <2>12, Zenon
       DEF WeightsStep
<1>2. CASE WindowStep
  <2>1. CASE SettledTempo
    BY Zenon, <2>1 DEF SettledTempo, WindowsInv, WindowsAccounted, LandsOverAcked
  <2>2. CASE ConfirmNext
    BY Zenon, <2>2 DEF ConfirmNext, WindowsInv, WindowsAccounted, LandsOverAcked
  <2>3. CASE AllConfirmed
    BY Zenon, <2>3 DEF AllConfirmed, WindowsInv, WindowsAccounted, LandsOverAcked
  <2>4. CASE KeepBefore
    BY Zenon, <2>4 DEF KeepBefore, Keep, PendingWith, WindowsInv, WindowsAccounted, LandsOverAcked
  <2>5. CASE Tell
    BY Zenon, <2>5 DEF Tell, WindowsInv, WindowsAccounted, LandsOverAcked
  <2>6. CASE DropKept
    BY Zenon, <2>6 DEF DropKept, PendingWithout, WindowsInv, WindowsAccounted, LandsOverAcked
  <2>7. CASE KeepAgain
    BY Zenon, <2>7 DEF KeepAgain, Keep, PendingWith, AfterRefusal, WindowsInv, WindowsAccounted,
       LandsOverAcked
  <2>8. CASE Fetch
    BY Zenon, <2>8 DEF Fetch, WindowsInv, WindowsAccounted, LandsOverAcked
  <2>9. CASE Submit
    BY ZenonT(60), <2>9 DEF Submit, WindowsInv, WindowsAccounted, LandsOverAcked
  <2>10. CASE Clear
    BY Zenon, <2>10 DEF Clear, FreshControl, WindowsInv, WindowsAccounted, LandsOverAcked
  <2> QED
    BY <1>2, <2>1, <2>2, <2>3, <2>4, <2>5, <2>6, <2>7, <2>8, <2>9, <2>10, Zenon DEF WindowStep
<1>3. CASE CycleStep
  <2>1. CASE NoCycle
    BY Zenon, <2>1 DEF NoCycle, WindowsInv, WindowsAccounted, LandsOverAcked
  <2>2. CASE Score
    BY Zenon, <2>2 DEF Score, WindowsInv, WindowsAccounted, LandsOverAcked
  <2>3. CASE LaterCycle \/ UnreportedCycle
    BY Zenon, <2>3 DEF LaterCycle, UnreportedCycle, WindowsInv, WindowsAccounted, LandsOverAcked
  <2>4. CASE KeepReport
    BY Zenon, <2>4 DEF KeepReport, KeptWith, WindowsInv, WindowsAccounted, LandsOverAcked
  <2>5. CASE SendOnce
    BY Zenon, <2>5 DEF SendOnce, WindowsInv, WindowsAccounted, LandsOverAcked
  <2>6. CASE Pass
    BY Zenon, <2>6 DEF Pass, PassTodo, WindowsInv, WindowsAccounted, LandsOverAcked
  <2>7. CASE ReadReports
    BY Zenon, <2>7 DEF ReadReports, WindowsInv, WindowsAccounted, LandsOverAcked
  <2>8. CASE Deliver
    BY Zenon, <2>8 DEF Deliver, Oldest, WindowsInv, WindowsAccounted, LandsOverAcked
  <2>9. CASE RemoveDelivered
    BY Zenon, <2>9 DEF RemoveDelivered, Oldest, WindowsInv, WindowsAccounted, LandsOverAcked
  <2>10. CASE BudgetSpent
    BY <2>10 DEF BudgetSpent, PendingWith, PendingWithout, Oldest, WindowsInv, WindowsAccounted,
       LandsOverAcked
  <2>11. CASE CapReports
    BY Zenon, <2>11 DEF CapReports, WindowsInv, WindowsAccounted, LandsOverAcked
  <2>12. CASE Finish
    BY Zenon, <2>12 DEF Finish, FreshControl, WindowsInv, WindowsAccounted, LandsOverAcked
  <2>13. CASE Persist
    BY Zenon, <2>13 DEF Persist, FreshControl, WindowsInv, WindowsAccounted, LandsOverAcked
  <2>14. CASE PersistIds
    BY Zenon, <2>14 DEF PersistIds, WindowsInv, WindowsAccounted, LandsOverAcked
  <2> QED
    BY Zenon, <1>3, <2>1, <2>2, <2>3, <2>4, <2>5, <2>6, <2>7, <2>8, <2>9, <2>10, <2>11, <2>12, <2>13,
       <2>14, Zenon DEF CycleStep
<1>4. CASE TempoPasses
  BY Zenon, <1>4 DEF TempoPasses, WindowsInv, WindowsAccounted, LandsOverAcked
<1>5. CASE Kill
  BY Zenon, <1>5 DEF Kill, FreshControl, WindowsInv, WindowsAccounted, LandsOverAcked
<1>6. CASE UNCHANGED vars
  BY Zenon, <1>6 DEF WindowsInv, WindowsAccounted, LandsOverAcked
<1> QED
  BY <1>1, <1>2, <1>3, <1>4, <1>5, <1>6, Zenon DEF Next, Tick

\* Every step keeps the cycle and live weights reports accounted for.
LEMMA ReportsStep == ReportsInv /\ [Next]_vars => ReportsInv'
<1> SUFFICES ASSUME ReportsInv, [Next]_vars PROVE ReportsInv'
  BY Zenon
<1> USE DEF memory, control, saved, live, outside, history, vars, Goto
<1>1. CASE WeightsStep
  <2>1. CASE Start
    BY Zenon, <2>1 DEF Start, ReportsInv, ReportsAccounted
  <2>2. CASE NoWeights
    BY Zenon, <2>2 DEF NoWeights, ReportsInv, ReportsAccounted
  <2>3. CASE NoMiners
    BY Zenon, <2>3 DEF NoMiners, ReportsInv, ReportsAccounted
  <2>4. CASE LiveWeights
    BY Zenon, <2>4 DEF LiveWeights, ReportsInv, ReportsAccounted
  <2>5. CASE SetWeights
    BY <2>5 DEF SetWeights, AfterLive, ReportsInv, ReportsAccounted
  <2>6. CASE KeepLive
    BY Zenon, <2>6 DEF KeepLive, ReportsInv, ReportsAccounted
  <2>7. CASE SendLive
    BY Zenon, <2>7 DEF SendLive, AfterLive, ReportsInv, ReportsAccounted
  <2>8. CASE ReadLive
    BY Zenon, <2>8 DEF ReadLive, AfterDrain, ReportsInv, ReportsAccounted
  <2>9. CASE DrainSend
    BY Zenon, <2>9 DEF DrainSend, AfterDrain, Oldest, ReportsInv, ReportsAccounted
  <2>10. CASE DrainRemove
    BY Zenon, <2>10 DEF DrainRemove, Oldest, ReportsInv, ReportsAccounted
  <2>11. CASE CapLive
    BY Zenon, <2>11 DEF CapLive, AfterLive, FreshControl, ReportsInv, ReportsAccounted
  <2>12. CASE ShadowReads
    BY Zenon, <2>12 DEF ShadowReads, ReportsInv, ReportsAccounted
  <2> QED
    BY <1>1, <2>1, <2>2, <2>3, <2>4, <2>5, <2>6, <2>7, <2>8, <2>9, <2>10, <2>11, <2>12, Zenon
       DEF WeightsStep
<1>2. CASE WindowStep
  <2>1. CASE SettledTempo
    BY Zenon, <2>1 DEF SettledTempo, ReportsInv, ReportsAccounted
  <2>2. CASE ConfirmNext
    BY Zenon, <2>2 DEF ConfirmNext, ReportsInv, ReportsAccounted
  <2>3. CASE AllConfirmed
    BY Zenon, <2>3 DEF AllConfirmed, ReportsInv, ReportsAccounted
  <2>4. CASE KeepBefore
    BY Zenon, <2>4 DEF KeepBefore, Keep, PendingWith, ReportsInv, ReportsAccounted
  <2>5. CASE Tell
    BY Zenon, <2>5 DEF Tell, ReportsInv, ReportsAccounted
  <2>6. CASE DropKept
    BY Zenon, <2>6 DEF DropKept, PendingWithout, ReportsInv, ReportsAccounted
  <2>7. CASE KeepAgain
    BY Zenon, <2>7 DEF KeepAgain, Keep, PendingWith, AfterRefusal, ReportsInv, ReportsAccounted
  <2>8. CASE Fetch
    BY Zenon, <2>8 DEF Fetch, ReportsInv, ReportsAccounted
  <2>9. CASE Submit
    BY Zenon, <2>9 DEF Submit, ReportsInv, ReportsAccounted
  <2>10. CASE Clear
    BY Zenon, <2>10 DEF Clear, FreshControl, ReportsInv, ReportsAccounted
  <2> QED
    BY <1>2, <2>1, <2>2, <2>3, <2>4, <2>5, <2>6, <2>7, <2>8, <2>9, <2>10, Zenon DEF WindowStep
<1>3. CASE CycleStep
  <2>1. CASE NoCycle
    BY Zenon, <2>1 DEF NoCycle, ReportsInv, ReportsAccounted
  <2>2. CASE Score
    BY Zenon, <2>2 DEF Score, ReportsInv, ReportsAccounted
  <2>3. CASE LaterCycle \/ UnreportedCycle
    BY Zenon, <2>3 DEF LaterCycle, UnreportedCycle, ReportsInv, ReportsAccounted
  <2>4. CASE KeepReport
    BY Zenon, <2>4 DEF KeepReport, KeptWith, ReportsInv, ReportsAccounted
  <2>5. CASE SendOnce
    BY Zenon, <2>5 DEF SendOnce, ReportsInv, ReportsAccounted
  <2>6. CASE Pass
    BY Zenon, <2>6 DEF Pass, PassTodo, ReportsInv, ReportsAccounted
  <2>7. CASE ReadReports
    BY Zenon, <2>7 DEF ReadReports, ReportsInv, ReportsAccounted
  <2>8. CASE Deliver
    BY Zenon, <2>8 DEF Deliver, Oldest, ReportsInv, ReportsAccounted
  <2>9. CASE RemoveDelivered
    BY Zenon, <2>9 DEF RemoveDelivered, Oldest, ReportsInv, ReportsAccounted
  <2>10. CASE BudgetSpent
    BY Zenon, <2>10 DEF BudgetSpent, PendingWith, PendingWithout, Oldest, ReportsInv, ReportsAccounted
  <2>11. CASE CapReports
    BY Zenon, <2>11 DEF CapReports, ReportsInv, ReportsAccounted
  <2>12. CASE Finish
    BY Zenon, <2>12 DEF Finish, FreshControl, ReportsInv, ReportsAccounted
  <2>13. CASE Persist
    BY Zenon, <2>13 DEF Persist, FreshControl, ReportsInv, ReportsAccounted
  <2>14. CASE PersistIds
    BY Zenon, <2>14 DEF PersistIds, ReportsInv, ReportsAccounted
  <2> QED
    BY Zenon, <1>3, <2>1, <2>2, <2>3, <2>4, <2>5, <2>6, <2>7, <2>8, <2>9, <2>10, <2>11, <2>12, <2>13,
       <2>14, Zenon DEF CycleStep
<1>4. CASE TempoPasses
  BY Zenon, <1>4 DEF TempoPasses, ReportsInv, ReportsAccounted
<1>5. CASE Kill
  BY ZenonT(60), <1>5 DEF Kill, FreshControl, ReportsInv, ReportsAccounted
<1>6. CASE UNCHANGED vars
  BY ZenonT(60), <1>6 DEF ReportsInv, ReportsAccounted
<1> QED
  BY <1>1, <1>2, <1>3, <1>4, <1>5, <1>6, Zenon DEF Next, Tick

\* Every step keeps the scores and the ids together.
LEMMA IdsStep == IdsInv /\ [Next]_vars => IdsInv'
<1> SUFFICES ASSUME IdsInv, [Next]_vars PROVE IdsInv'
  BY Zenon
<1> USE DEF memory, control, saved, live, outside, history, vars, Goto
<1>1. CASE WeightsStep
  <2>1. CASE Start
    BY Zenon, <2>1 DEF Start, IdsInv
  <2>2. CASE NoWeights
    BY Zenon, <2>2 DEF NoWeights, IdsInv
  <2>3. CASE NoMiners
    BY Zenon, <2>3 DEF NoMiners, IdsInv
  <2>4. CASE LiveWeights
    BY Zenon, <2>4 DEF LiveWeights, IdsInv
  <2>5. CASE SetWeights
    BY Zenon, <2>5 DEF SetWeights, AfterLive, IdsInv
  <2>6. CASE KeepLive
    BY Zenon, <2>6 DEF KeepLive, IdsInv
  <2>7. CASE SendLive
    BY Zenon, <2>7 DEF SendLive, AfterLive, IdsInv
  <2>8. CASE ReadLive
    BY Zenon, <2>8 DEF ReadLive, AfterDrain, IdsInv
  <2>9. CASE DrainSend
    BY Zenon, <2>9 DEF DrainSend, AfterDrain, Oldest, IdsInv
  <2>10. CASE DrainRemove
    BY Zenon, <2>10 DEF DrainRemove, Oldest, IdsInv
  <2>11. CASE CapLive
    BY Zenon, <2>11 DEF CapLive, AfterLive, FreshControl, IdsInv
  <2>12. CASE ShadowReads
    BY Zenon, <2>12 DEF ShadowReads, IdsInv
  <2> QED
    BY <1>1, <2>1, <2>2, <2>3, <2>4, <2>5, <2>6, <2>7, <2>8, <2>9, <2>10, <2>11, <2>12, Zenon
       DEF WeightsStep
<1>2. CASE WindowStep
  <2>1. CASE SettledTempo
    BY Zenon, <2>1 DEF SettledTempo, IdsInv
  <2>2. CASE ConfirmNext
    BY Zenon, <2>2 DEF ConfirmNext, IdsInv
  <2>3. CASE AllConfirmed
    BY Zenon, <2>3 DEF AllConfirmed, IdsInv
  <2>4. CASE KeepBefore
    BY Zenon, <2>4 DEF KeepBefore, Keep, PendingWith, IdsInv
  <2>5. CASE Tell
    BY Zenon, <2>5 DEF Tell, IdsInv
  <2>6. CASE DropKept
    BY Zenon, <2>6 DEF DropKept, PendingWithout, IdsInv
  <2>7. CASE KeepAgain
    BY Zenon, <2>7 DEF KeepAgain, Keep, PendingWith, AfterRefusal, IdsInv
  <2>8. CASE Fetch
    BY Zenon, <2>8 DEF Fetch, IdsInv
  <2>9. CASE Submit
    BY ZenonT(60), <2>9 DEF Submit, IdsInv
  <2>10. CASE Clear
    BY Zenon, <2>10 DEF Clear, FreshControl, IdsInv
  <2> QED
    BY <1>2, <2>1, <2>2, <2>3, <2>4, <2>5, <2>6, <2>7, <2>8, <2>9, <2>10, Zenon DEF WindowStep
<1>3. CASE CycleStep
  <2>1. CASE NoCycle
    BY Zenon, <2>1 DEF NoCycle, IdsInv
  <2>2. CASE Score
    BY Zenon, <2>2 DEF Score, IdsInv
  <2>3. CASE LaterCycle \/ UnreportedCycle
    BY Zenon, <2>3 DEF LaterCycle, UnreportedCycle, IdsInv
  <2>4. CASE KeepReport
    BY Zenon, <2>4 DEF KeepReport, KeptWith, IdsInv
  <2>5. CASE SendOnce
    BY Zenon, <2>5 DEF SendOnce, IdsInv
  <2>6. CASE Pass
    BY Zenon, <2>6 DEF Pass, PassTodo, IdsInv
  <2>7. CASE ReadReports
    BY Zenon, <2>7 DEF ReadReports, IdsInv
  <2>8. CASE Deliver
    BY Zenon, <2>8 DEF Deliver, Oldest, IdsInv
  <2>9. CASE RemoveDelivered
    BY Zenon, <2>9 DEF RemoveDelivered, Oldest, IdsInv
  <2>10. CASE BudgetSpent
    BY Zenon, <2>10 DEF BudgetSpent, PendingWith, PendingWithout, Oldest, IdsInv
  <2>11. CASE CapReports
    BY Zenon, <2>11 DEF CapReports, IdsInv
  <2>12. CASE Finish
    BY Zenon, <2>12 DEF Finish, FreshControl, IdsInv
  <2>13. CASE Persist
    BY Zenon, <2>13 DEF Persist, FreshControl, IdsInv
  <2>14. CASE PersistIds
    BY Zenon, <2>14 DEF PersistIds, IdsInv
  <2> QED
    BY Zenon, <1>3, <2>1, <2>2, <2>3, <2>4, <2>5, <2>6, <2>7, <2>8, <2>9, <2>10, <2>11, <2>12, <2>13,
       <2>14, Zenon DEF CycleStep
<1>4. CASE TempoPasses
  BY Zenon, <1>4 DEF TempoPasses, IdsInv
<1>5. CASE Kill
  BY Zenon, <1>5 DEF Kill, FreshControl, IdsInv
<1>6. CASE UNCHANGED vars
  BY Zenon, <1>6 DEF IdsInv
<1> QED
  BY <1>1, <1>2, <1>3, <1>4, <1>5, <1>6, Zenon DEF Next, Tick

\* Every step tells, keeps and gives up only what there is.
LEMMA RealStep == lives \in Nat /\ RealInv /\ [Next]_vars => RealInv'
<1> SUFFICES ASSUME lives \in Nat, RealInv, [Next]_vars PROVE RealInv'
  BY Zenon
<1> USE DEF memory, control, saved, live, outside, history, vars, Goto, NoFault
<1>l. lives' = lives + 1 => 1..lives \subseteq 1..lives' /\ lives' \in 1..lives'
  OBVIOUS
<1>n. \A R : Newest(R) \subseteq R
  BY Zenon DEF Newest
<1>1. CASE WeightsStep
  <2>1. CASE Start
    BY Zenon, <2>1 DEF Start, RealInv
  <2>2. CASE NoWeights
    BY Zenon, <2>2 DEF NoWeights, RealInv
  <2>3. CASE NoMiners
    BY Zenon, <2>3 DEF NoMiners, RealInv
  <2>4. CASE LiveWeights
    BY Zenon, <2>4 DEF LiveWeights, RealInv
  <2>5. CASE SetWeights
    BY Zenon, <1>l, <2>5 DEF SetWeights, AfterLive, RealInv
  <2>6. CASE KeepLive
    BY Zenon, <2>6 DEF KeepLive, RealInv
  <2>7. CASE SendLive
    BY Zenon, <2>7 DEF SendLive, AfterLive, RealInv
  <2>8. CASE ReadLive
    BY Zenon, <2>8 DEF ReadLive, AfterDrain, RealInv
  <2>9. CASE DrainSend
    BY Zenon, <2>9 DEF DrainSend, AfterDrain, Oldest, RealInv
  <2>10. CASE DrainRemove
    BY Zenon, <2>10 DEF DrainRemove, Oldest, RealInv
  <2>11. CASE CapLive
    BY Zenon, <1>n, <2>11 DEF CapLive, AfterLive, FreshControl, RealInv
  <2>12. CASE ShadowReads
    BY Zenon, <2>12 DEF ShadowReads, RealInv
  <2> QED
    BY Zenon, <1>1, <2>1, <2>2, <2>3, <2>4, <2>5, <2>6, <2>7, <2>8, <2>9, <2>10, <2>11, <2>12 DEF
       WeightsStep
<1>2. CASE WindowStep
  <2>1. CASE SettledTempo
    BY Zenon, <2>1 DEF SettledTempo, RealInv
  <2>2. CASE ConfirmNext
    BY Zenon, <2>2 DEF ConfirmNext, RealInv
  <2>3. CASE AllConfirmed
    BY Zenon, <2>3 DEF AllConfirmed, RealInv
  <2>4. CASE KeepBefore
    BY Zenon, <2>4 DEF KeepBefore, Keep, PendingWith, RealInv
  <2>5. CASE Tell
    BY Zenon, <2>5 DEF Tell, RealInv
  <2>6. CASE DropKept
    BY Zenon, <2>6 DEF DropKept, PendingWithout, RealInv
  <2>7. CASE KeepAgain
    BY Zenon, <2>7 DEF KeepAgain, Keep, PendingWith, AfterRefusal, RealInv
  <2>8. CASE Fetch
    BY Zenon, <2>8 DEF Fetch, RealInv
  <2>9. CASE Submit
    BY Zenon, <2>9 DEF Submit, RealInv
  <2>10. CASE Clear
    BY Zenon, <2>10 DEF Clear, FreshControl, RealInv
  <2> QED
    BY Zenon, <1>2, <2>1, <2>2, <2>3, <2>4, <2>5, <2>6, <2>7, <2>8, <2>9, <2>10 DEF
       WindowStep
<1>3. CASE CycleStep
  <2>1. CASE NoCycle
    BY Zenon, <2>1 DEF NoCycle, RealInv
  <2>2. CASE Score
    BY Zenon, <2>2 DEF Score, RealInv
  <2>3. CASE LaterCycle \/ UnreportedCycle
    BY Zenon, <2>3 DEF LaterCycle, UnreportedCycle, RealInv
  <2>4. CASE KeepReport
    BY Zenon, <2>4 DEF KeepReport, KeptWith, RealInv
  <2>5. CASE SendOnce
    BY Zenon, <2>5 DEF SendOnce, RealInv
  <2>6. CASE Pass
    BY Zenon, <2>6 DEF Pass, PassTodo, RealInv
  <2>7. CASE ReadReports
    BY Zenon, <2>7 DEF ReadReports, RealInv
  <2>8. CASE Deliver
    BY Zenon, <2>8 DEF Deliver, Oldest, RealInv
  <2>9. CASE RemoveDelivered
    BY Zenon, <2>9 DEF RemoveDelivered, Oldest, RealInv
  <2>10. CASE BudgetSpent
    BY ZenonT(60), <2>10 DEF BudgetSpent, PendingWith, PendingWithout, Oldest, RealInv
  <2>11. CASE CapReports
    BY Zenon, <1>n, <2>11 DEF CapReports, RealInv
  <2>12. CASE Finish
    BY Zenon, <2>12 DEF Finish, FreshControl, RealInv
  <2>13. CASE Persist
    BY Zenon, <2>13 DEF Persist, FreshControl, RealInv
  <2>14. CASE PersistIds
    BY Zenon, <2>14 DEF PersistIds, RealInv
  <2> QED
    BY Zenon, <1>3, <2>1, <2>2, <2>3, <2>4, <2>5, <2>6, <2>7, <2>8, <2>9, <2>10, <2>11, <2>12, <2>13,
       <2>14 DEF
       CycleStep
<1>4. CASE TempoPasses
  BY Zenon, <1>4 DEF TempoPasses, RealInv
<1>5. CASE Kill
  BY Zenon, <1>5 DEF Kill, FreshControl, RealInv
<1>6. CASE UNCHANGED vars
  BY Zenon, <1>6 DEF RealInv
<1> QED
  BY Zenon, <1>1, <1>2, <1>3, <1>4, <1>5, <1>6 DEF Next, Tick

\* Every step goes to a place of sync() that its caller expects.
LEMMA PlaceStep == PlaceTypes /\ tempo \in Tempo /\ [Next]_vars => PlaceTypes'
<1> SUFFICES ASSUME PlaceTypes, tempo \in Tempo, [Next]_vars PROVE PlaceTypes'
  BY Zenon
<1> USE DEF memory, control, saved, live, outside, history, vars, Goto, NoFault
<1>p. /\ "start" \in PC /\ "idle" \in PC /\ "retry" \in PC /\ "keep" \in PC /\ "tell" \in PC
      /\ "drop" \in PC /\ "keepAgain" \in PC /\ "fetch" \in PC /\ "submit" \in PC /\ "clear" \in PC
      /\ "live" \in PC /\ "tellLive" \in PC /\ "sendLive" \in PC /\ "drain" \in PC /\ "drainSend" \in PC
      /\ "drainRem" \in PC /\ "capLive" \in PC /\ "shadow" \in PC /\ "job" \in PC /\ "report" \in PC
      /\ "sendOnce" \in PC /\ "pass" \in PC /\ "replay" \in PC /\ "deliver" \in PC /\ "lrem" \in PC
      /\ "cap" \in PC /\ "finish" \in PC /\ "persist" \in PC /\ "persistIds" \in PC
  BY Zenon DEF PC
<1>f. Fault => faults' \in 0..MaxFaults
  BY SettlementAssumption DEF Fault, PlaceTypes
<1>k. kills < MaxKills /\ kills' = kills + 1 => kills' \in 0..MaxKills
  BY SettlementAssumption DEF PlaceTypes
<1> USE <1>p
<1>1. CASE WeightsStep
  <2>1. CASE Start
    BY Zenon, <1>f, <2>1 DEF Start, PlaceTypes
  <2>2. CASE NoWeights
    BY Zenon, <2>2 DEF NoWeights, PlaceTypes
  <2>3. CASE NoMiners
    BY Zenon, <1>f, <2>3 DEF NoMiners, PlaceTypes
  <2>4. CASE LiveWeights
    BY Zenon, <2>4 DEF LiveWeights, PlaceTypes
  <2>5. CASE SetWeights
    BY Zenon, <1>f, <2>5 DEF SetWeights, AfterLive, PlaceTypes
  <2>6. CASE KeepLive
    BY Zenon, <1>f, <2>6 DEF KeepLive, PlaceTypes
  <2>7. CASE SendLive
    BY Zenon, <1>f, <2>7 DEF SendLive, AfterLive, PlaceTypes
  <2>8. CASE ReadLive
    BY Zenon, <1>f, <2>8 DEF ReadLive, AfterDrain, PlaceTypes
  <2>9. CASE DrainSend
    BY Zenon, <1>f, <2>9 DEF DrainSend, AfterDrain, Oldest, PlaceTypes
  <2>10. CASE DrainRemove
    BY Zenon, <1>f, <2>10 DEF DrainRemove, Oldest, PlaceTypes
  <2>11. CASE CapLive
    BY Zenon, <1>f, <2>11 DEF CapLive, AfterLive, FreshControl, PlaceTypes
  <2>12. CASE ShadowReads
    BY Zenon, <1>f, <2>12 DEF ShadowReads, PlaceTypes
  <2> QED
    BY Zenon, <1>1, <2>1, <2>2, <2>3, <2>4, <2>5, <2>6, <2>7, <2>8, <2>9, <2>10, <2>11, <2>12 DEF
       WeightsStep
<1>2. CASE WindowStep
  <2>1. CASE SettledTempo
    BY Zenon, <1>f, <2>1 DEF SettledTempo, PlaceTypes
  <2>2. CASE ConfirmNext
    BY Zenon, <2>2 DEF ConfirmNext, PlaceTypes
  <2>3. CASE AllConfirmed
    BY Zenon, <2>3 DEF AllConfirmed, PlaceTypes
  <2>4. CASE KeepBefore
    BY Zenon, <1>f, <2>4 DEF KeepBefore, Keep, PendingWith, PlaceTypes
  <2>5. CASE Tell
    BY Zenon, <1>f, <2>5 DEF Tell, PlaceTypes
  <2>6. CASE DropKept
    BY Zenon, <1>f, <2>6 DEF DropKept, PendingWithout, PlaceTypes
  <2>7. CASE KeepAgain
    BY Zenon, <1>f, <2>7 DEF KeepAgain, Keep, PendingWith, AfterRefusal, PlaceTypes
  <2>8. CASE Fetch
    BY Zenon, <1>f, <2>8 DEF Fetch, PlaceTypes
  <2>9. CASE Submit
    BY Zenon, <1>f, <2>9 DEF Submit, PlaceTypes
  <2>10. CASE Clear
    BY Zenon, <2>10 DEF Clear, FreshControl, PlaceTypes
  <2> QED
    BY Zenon, <1>2, <2>1, <2>2, <2>3, <2>4, <2>5, <2>6, <2>7, <2>8, <2>9, <2>10 DEF
       WindowStep
<1>3. CASE CycleStep
  <2>1. CASE NoCycle
    BY Zenon, <2>1 DEF NoCycle, PlaceTypes
  <2>2. CASE Score
    BY Zenon, <2>2 DEF Score, PlaceTypes
  <2>3. CASE LaterCycle \/ UnreportedCycle
    BY Zenon, <2>3 DEF LaterCycle, UnreportedCycle, PlaceTypes
  <2>4. CASE KeepReport
    BY Zenon, <1>f, <2>4 DEF KeepReport, KeptWith, PlaceTypes
  <2>5. CASE SendOnce
    BY Zenon, <1>f, <2>5 DEF SendOnce, PlaceTypes
  <2>6. CASE Pass
    BY Zenon, <1>f, <2>6 DEF Pass, PassTodo, PlaceTypes
  <2>7. CASE ReadReports
    BY Zenon, <1>f, <2>7 DEF ReadReports, PlaceTypes
  <2>8. CASE Deliver
    BY Zenon, <1>f, <2>8 DEF Deliver, Oldest, PlaceTypes
  <2>9. CASE RemoveDelivered
    BY Zenon, <1>f, <2>9 DEF RemoveDelivered, Oldest, PlaceTypes
  <2>10. CASE BudgetSpent
    BY Zenon, <1>f, <2>10 DEF BudgetSpent, PendingWith, PendingWithout, Oldest, PlaceTypes
  <2>11. CASE CapReports
    BY Zenon, <1>f, <2>11 DEF CapReports, PlaceTypes
  <2>12. CASE Finish
    BY Zenon, <1>f, <2>12 DEF Finish, FreshControl, PlaceTypes
  <2>13. CASE Persist
    BY Zenon, <1>f, <2>13 DEF Persist, FreshControl, PlaceTypes
  <2>14. CASE PersistIds
    BY Zenon, <1>f, <2>14 DEF PersistIds, PlaceTypes
  <2> QED
    BY Zenon, <1>3, <2>1, <2>2, <2>3, <2>4, <2>5, <2>6, <2>7, <2>8, <2>9, <2>10, <2>11, <2>12, <2>13,
       <2>14 DEF
       CycleStep
<1>4. CASE TempoPasses
  BY Zenon, <1>4 DEF TempoPasses, PlaceTypes
<1>5. CASE Kill
  BY Zenon, <1>k, <1>5 DEF Kill, FreshControl, PlaceTypes
<1>6. CASE UNCHANGED vars
  BY Zenon, <1>6 DEF PlaceTypes
<1> QED
  BY Zenon, <1>1, <1>2, <1>3, <1>4, <1>5, <1>6 DEF Next, Tick

\* Every step keeps the types of what the places hold.
LEMMA DataStep == RealInv /\ PlaceTypes /\ DataTypes /\ [Next]_vars => DataTypes'
<1> SUFFICES ASSUME RealInv, PlaceTypes, DataTypes, [Next]_vars PROVE DataTypes'
  BY Zenon
<1> USE DEF memory, control, saved, live, outside, history, vars, Goto, NoFault
<1>0. UNCHANGED <<scores, ids, rScores, rIds, cycle, owed, cycles, tempo, landed, dropped, done, index,
                  cur, replay, lives>> => DataTypes'
  BY Zenon DEF DataTypes
<1>l. lives < MaxLives /\ lives' = lives + 1 => lives' \in 0..MaxLives
  BY SettlementAssumption DEF DataTypes
<1>c. cycles < MaxCycles /\ cycles' = cycles + 1 => cycles' \in 0..MaxCycles /\ cycles' \in Cycle
  BY SettlementAssumption DEF DataTypes, Cycle
<1>m. tempo < MaxTempo /\ tempo' = tempo + 1 => tempo' \in Tempo
  BY SettlementAssumption DEF DataTypes, Tempo
<1>i. pc \in {"fetch", "submit"} => index \in Tempo
  BY Zenon DEF PlaceTypes
<1>r. todo \subseteq Tempo /\ rReports \subseteq Cycle /\ rLive \subseteq Live
  <2>1. 1..lives \subseteq Live
    BY SettlementAssumption DEF DataTypes, Live
  <2> QED
    BY Zenon, <2>1 DEF RealInv, DataTypes
<1>1. CASE WeightsStep
  <2>1. CASE Start
    BY Zenon, <2>1 DEF Start, DataTypes
  <2>2. CASE NoWeights
    BY Zenon, <1>0, <2>2 DEF NoWeights
  <2>3. CASE NoMiners
    BY Zenon, <1>0, <2>3 DEF NoMiners
  <2>4. CASE LiveWeights
    BY Zenon, <1>0, <2>4 DEF LiveWeights
  <2>5. CASE SetWeights
    BY Zenon, <1>l, <2>5 DEF SetWeights, AfterLive, DataTypes
  <2>6. CASE KeepLive
    BY Zenon, <1>0, <2>6 DEF KeepLive
  <2>7. CASE SendLive
    BY Zenon, <1>0, <2>7 DEF SendLive
  <2>8. CASE ReadLive
    BY Zenon, <1>r, <2>8 DEF ReadLive, AfterDrain, DataTypes
  <2>9. CASE DrainSend
    BY Zenon, <2>9 DEF DrainSend, AfterDrain, Oldest, DataTypes
  <2>10. CASE DrainRemove
    BY Zenon, <2>10 DEF DrainRemove, Oldest, DataTypes
  <2>11. CASE CapLive
    BY Zenon, <2>11 DEF CapLive, AfterLive, FreshControl, DataTypes
  <2>12. CASE ShadowReads
    BY Zenon, <2>12 DEF ShadowReads, DataTypes
  <2> QED
    BY Zenon, <1>1, <2>1, <2>2, <2>3, <2>4, <2>5, <2>6, <2>7, <2>8, <2>9, <2>10, <2>11, <2>12 DEF
       WeightsStep
<1>2. CASE WindowStep
  <2>1. CASE SettledTempo
    BY Zenon, <2>1 DEF SettledTempo, DataTypes
  <2>2. CASE ConfirmNext
    BY Zenon, <1>r, <2>2 DEF ConfirmNext, DataTypes
  <2>3. CASE AllConfirmed
    BY Zenon, <1>0, <2>3 DEF AllConfirmed
  <2>4. CASE KeepBefore
    BY Zenon, <1>0, <2>4 DEF KeepBefore
  <2>5. CASE Tell
    BY Zenon, <1>0, <2>5 DEF Tell
  <2>6. CASE DropKept
    BY Zenon, <2>6 DEF DropKept, PendingWithout, DataTypes
  <2>7. CASE KeepAgain
    BY Zenon, <2>7 DEF KeepAgain, Keep, PendingWith, AfterRefusal, DataTypes
  <2>8. CASE Fetch
    BY Zenon, <1>i, <2>8 DEF Fetch, DataTypes
  <2>9. CASE Submit
    BY Zenon, <1>i, <2>9 DEF Submit, DataTypes
  <2>10. CASE Clear
    BY Zenon, <2>10 DEF Clear, FreshControl, DataTypes
  <2> QED
    BY Zenon, <1>2, <2>1, <2>2, <2>3, <2>4, <2>5, <2>6, <2>7, <2>8, <2>9, <2>10 DEF
       WindowStep
<1>3. CASE CycleStep
  <2>1. CASE NoCycle
    BY Zenon, <1>0, <2>1 DEF NoCycle
  <2>2. CASE Score
    BY Zenon, <1>c, <2>2 DEF Score, DataTypes
  <2>3. CASE LaterCycle \/ UnreportedCycle
    BY Zenon, <1>0, <2>3 DEF LaterCycle, UnreportedCycle
  <2>4. CASE KeepReport
    BY Zenon, <1>0, <2>4 DEF KeepReport
  <2>5. CASE SendOnce
    BY Zenon, <1>0, <2>5 DEF SendOnce
  <2>6. CASE Pass
    BY Zenon, <1>0, <2>6 DEF Pass
  <2>7. CASE ReadReports
    BY Zenon, <1>r, <2>7 DEF ReadReports, DataTypes
  <2>8. CASE Deliver
    BY Zenon, <1>0, <2>8 DEF Deliver
  <2>9. CASE RemoveDelivered
    BY Zenon, <2>9 DEF RemoveDelivered, Oldest, DataTypes
  <2>10. CASE BudgetSpent
    BY Zenon, <1>0, <2>10 DEF BudgetSpent
  <2>11. CASE CapReports
    BY Zenon, <1>0, <2>11 DEF CapReports
  <2>12. CASE Finish
    BY Zenon, <2>12 DEF Finish, FreshControl, DataTypes
  <2>13. CASE Persist
    BY Zenon, <2>13 DEF Persist, FreshControl, DataTypes
  <2>14. CASE PersistIds
    BY Zenon, <2>14 DEF PersistIds, DataTypes
  <2> QED
    BY Zenon, <1>3, <2>1, <2>2, <2>3, <2>4, <2>5, <2>6, <2>7, <2>8, <2>9, <2>10, <2>11, <2>12, <2>13,
       <2>14 DEF
       CycleStep
<1>4. CASE TempoPasses
  BY Zenon, <1>m, <1>4 DEF TempoPasses, DataTypes
<1>5. CASE Kill
  BY Zenon, <1>5 DEF Kill, FreshControl, DataTypes
<1>6. CASE UNCHANGED vars
  BY Zenon, <1>6 DEF DataTypes
<1> QED
  BY Zenon, <1>1, <1>2, <1>3, <1>4, <1>5, <1>6 DEF Next, Tick

--------------------------------------------------------------------------------
\* A landed window is acknowledged or remembered, whatever fails and whenever the process is
\* killed (submit_settled_window, _keep_pending_inclusion).
THEOREM WindowsAreAccounted == Spec => []WindowsAccounted
<1>1. Init => WindowsInv
  BY Zenon DEF Init, WindowsInv, WindowsAccounted
<1>2. WindowsInv /\ [Next]_vars => WindowsInv'
  BY Zenon, WindowsStep
<1>3. WindowsInv => WindowsAccounted
  BY Zenon DEF WindowsInv
<1> QED
  BY <1>1, <1>2, <1>3, PTL DEF Spec

\* A window lands only when the backend has the inclusion of every one before it
\* (submit_settled_window waits for _retry_pending_inclusion).
THEOREM WindowsWait == Spec => NextWindowWaits
<1>1. Init => WindowsInv
  BY Zenon DEF Init, WindowsInv, WindowsAccounted
<1>2. WindowsInv /\ [Next]_vars => WindowsInv'
  BY Zenon, WindowsStep
<1>3. WindowsInv /\ [Next]_vars =>
        [\A w \in landed' \ landed : landed \ {w} \subseteq acked \cup dropped]_vars
  BY Zenon, WindowsStep DEF LandsOverAcked
<1> QED
  BY <1>1, <1>2, <1>3, PTL DEF Spec, NextWindowWaits

\* No report is given up but knowingly or with the process (report_cycle_scores,
\* report_live_weights).
THEOREM ReportsAreAccounted == Spec => []ReportsAccounted
<1>1. Init => ReportsInv
  BY DEF Init, ReportsInv, ReportsAccounted
<1>2. ReportsInv /\ [Next]_vars => ReportsInv'
  BY Zenon, ReportsStep
<1>3. ReportsInv => ReportsAccounted
  BY Zenon DEF ReportsInv
<1> QED
  BY <1>1, <1>2, <1>3, PTL DEF Spec

\* The ids reported for live weights are those of the cycles in the sum, as long as the two were
\* saved and read together (sync's finally, initiate_services).
THEOREM IdsNameTheSum == Spec => []IdsAreTheSummed
<1>1. Init => IdsInv
  BY Zenon DEF Init, IdsInv
<1>2. IdsInv /\ [Next]_vars => IdsInv'
  BY Zenon, IdsStep
<1>3. IdsInv => IdsAreTheSummed
  BY Zenon DEF IdsInv, IdsAreTheSummed
<1> QED
  BY <1>1, <1>2, <1>3, PTL DEF Spec

\* The backend hears of no window, cycle or live submission that was not
\* (_confirm_inclusion, _deliver_kept_settlement_reports, drain_live_weights).
THEOREM NothingIsInvented == Spec => []NothingInvented
<1>1. Init => ReportsInv /\ RealInv
  <2>1. Init => ReportsInv
    BY DEF Init, ReportsInv, ReportsAccounted
  <2>2. Init => RealInv
    BY Zenon DEF Init, RealInv
  <2> QED
    BY Zenon, <2>1, <2>2
<1>2. ReportsInv /\ RealInv /\ [Next]_vars => ReportsInv' /\ RealInv'
  BY Zenon, ReportsStep, RealStep DEF ReportsInv
<1>3. RealInv => NothingInvented
  BY Zenon DEF RealInv, NothingInvented
<1> QED
  BY <1>1, <1>2, <1>3, PTL DEF Spec

\* Every variable keeps its type: what a loop hands on is what the next step expects, and a window
\* is submitted for a tempo of the chain.
THEOREM TypeCorrect == Spec => []TypeOK
<1>1. Init => RealInv /\ PlaceTypes /\ DataTypes
  <2>1. Init => RealInv
    BY Zenon DEF Init, RealInv
  <2>2. 1 \in Tempo /\ 0 \in 0..MaxCycles /\ 0 \in 0..MaxLives /\ 0 \in 0..MaxFaults /\ 0 \in 0..MaxKills
    BY SettlementAssumption DEF Tempo
  <2>3. Init => PlaceTypes /\ DataTypes
    BY Zenon, <2>2 DEF Init, PlaceTypes, DataTypes, PC
  <2> QED
    BY Zenon, <2>1, <2>3
<1>2. RealInv /\ PlaceTypes /\ DataTypes /\ [Next]_vars => RealInv' /\ PlaceTypes' /\ DataTypes'
  <2>1. DataTypes => lives \in Nat
    BY SettlementAssumption DEF DataTypes
  <2> QED
    BY Zenon, <2>1, RealStep, PlaceStep, DataStep DEF DataTypes
<1>3. RealInv /\ PlaceTypes /\ DataTypes => TypeOK
  <2>1. DataTypes => 1..lives \subseteq Live
    BY SettlementAssumption DEF DataTypes, Live
  <2> QED
    BY Zenon, <2>1 DEF RealInv, PlaceTypes, DataTypes, TypeOK
<1> QED
  BY <1>1, <1>2, <1>3, PTL DEF Spec
================================================================================
