-------------------------- MODULE RunnerUpdateProofs --------------------------
(***************************************************************************)
(* For any number of containers, images, failures, deaths and pushes: a    *)
(* node keeps a container known to start, gathers no probe containers,     *)
(* replaces its runner only after the probe passed unless a CVM's lookup   *)
(* failed, and, until something fails, runs one runner at a time.          *)
(***************************************************************************)
EXTENDS RunnerUpdate, TLAPS

\* the steps of recreate_container with the new container made
Switching == {"stop", "start", "remove", "undo"}

\* The probe counts its containers.
ProbeCount ==
    /\ OneProbe
    /\ pc = "probeCreate" => probes = 0
    /\ pc \in {"probeRun", "probeRemove"} => probes = 1

\* What an update or a repair removes is not the only container known to start.
Spared ==
    /\ pc \in UsesFound \/ (pc = "digest" /\ found # None) => found \in Here
    /\ pc \in Switching => fresh # found
    /\ pc \in {"stop", "start", "firstStart"} => state[fresh] = "created"
    /\ pc = "remove" => state[fresh] = "running"
    /\ pc \in {"clear", "clearRemove"} => found \notin leftovers /\ leftovers \subseteq Here
    /\ pc = "clearRemove" => fresh \in leftovers /\ state[found] = "running"
    /\ pc = "clear" /\ listed = "running" => state[found] = "running"

\* Until something fails there is one container, and during a switch the new one.
Orderly ==
    mishaps = 0 =>
        /\ pc \notin {"undo", "undoName", "undoStart", "restore", "clearRemove", "renameBack"}
        /\ leftovers = {} /\ known = <<>>
        /\ pc \notin Switching \cup {"create"} =>
              (\A c, d \in Here : c = d) /\ (\A c \in Here : name[c] = <<>>)
        /\ pc = "create" => Here = {found} /\ name[found] # <<>>
        /\ pc \in Switching => Here = {found, fresh} /\ name[fresh] = <<>>
        /\ pc \in {"start", "remove"} => state[found] # "running"
        /\ pc = "first" \/ (pc \in {"digest", "pull"} /\ found = None) => Here = {}
        /\ pc = "list" /\ stack = "cvm" => Here = {}
        /\ pc = "firstStart" => Here = {fresh}

\* the update went past the probe: it passed, or the lookup failed on a CVM
LetThrough == verdict = "ready" \/ (verdict = "blind" /\ stack = "cvm")

\* An update that was not let through by the probe is a first boot; a compose node always
\* has a runner for its lookup to find.
Judged ==
    /\ stack = "compose" => Proven # {}
    /\ pc \in {"idle", "byName"} /\ within = "check" => verdict = "none"
    /\ pc \in {"list", "clear", "clearRemove", "restore", "digest"} /\ within = "check"
          => verdict \in {"none", "blind"}
    /\ pc = "list" /\ within = "check" /\ verdict = "none" /\ stack = "cvm" => ~Taken(<<>>)
    /\ pc = "digest" /\ found = None => LetThrough \/ Here = {}
    /\ pc = "pull" \/ within = "update" => LetThrough \/ Here = {} \/ pc = "firstStart"
    /\ pc \in {"aside", "create", "renameBack", "stop", "start", "remove", "undo", "undoName",
               "undoStart", "first", "firstStart"} => within = "update"
    /\ pc \in {"idle", "digest", "probe", "probeCreate", "probeRun", "probeRemove", "pull"}
          => within = "check"

IInv == TypeOK /\ ProbeCount /\ Spared /\ Orderly /\ Judged

\* what every step of a proof may use
USE WatchtowerAssumption
    DEF Here, IsPrevious, Taken, Mishap, Well, Ends, Goes, Elsewhere, Rename, SetState,
        Made, Removed, Returns, hostVars, cycleVars, Steps, UsesFound, UsesFresh, States,
        Verdicts

\* A name without a suffix is a name.
LEMMA NoSuffix == <<>> \in Seq(Id)
  OBVIOUS

\* Neither does a name lose its type with its last suffix.
LEMMA WithoutLast == \A n \in Seq(Id) : SubSeq(n, 1, Len(n) - 1) \in Seq(Id)
  OBVIOUS

\* Docker's commands keep the types of what they change.
HostType ==
    /\ name \in [Id -> Seq(Id)] /\ state \in [Id -> States]
    /\ image \in [Id -> Digest \cup {None}]

LEMMA RenameTyped ==
    ASSUME HostType, NEW c \in Id, NEW n \in Seq(Id), Rename(c, n) PROVE HostType'
  BY Zenon DEF HostType

LEMMA SetStateTyped ==
    ASSUME HostType, NEW c \in Id, NEW s \in States, SetState(c, s) PROVE HostType'
  BY Zenon DEF HostType

LEMMA MadeTyped ==
    ASSUME HostType, NEW c \in Id, NEW n \in Seq(Id), NEW d \in Digest \cup {None}, Made(c, n, d)
    PROVE  HostType'
  BY Zenon DEF HostType

LEMMA RemovedTyped == ASSUME HostType, NEW c \in Id, Removed(c) PROVE HostType'
  BY Zenon, NoSuffix DEF HostType

\* A cycle that ends leaves typed values behind.
LEMMA EndsTyped ==
    Ends => /\ pc' = "idle" /\ within' \in {"check", "update"}
            /\ found' \in Id \cup {None} /\ known' \in Seq(Id) /\ fresh' \in Id \cup {None}
            /\ leftovers' \subseteq Id /\ listed' \in States
            /\ target' \in Digest \cup {None} /\ verdict' \in Verdicts
  BY Zenon, NoSuffix

\* Mishaps are counted up to their bound.
LEMMA MishapTyped == mishaps \in 0..MaxMishaps /\ Mishap => mishaps' \in 0..MaxMishaps
  OBVIOUS

\* Every step keeps the types.
LEMMA StepTypeOK == TypeOK /\ ProbeCount /\ [Next]_vars => TypeOK'
<1> SUFFICES ASSUME TypeOK /\ ProbeCount, [Next]_vars PROVE TypeOK'
  BY Zenon
<1> USE DEF TypeOK, HostType, ProbeCount, OneProbe
<1> HIDE DEF Ends, Mishap, Rename, SetState, Made, Removed
<1>1. CASE Wake
  BY ZenonT(120), <1>1 DEF Wake
<1>2. CASE Lookup
  <2>1. CASE FindByName
    BY <2>1, NoSuffix, MishapTyped, ZenonT(120) DEF FindByName
  <2>2. CASE ListByLabel
    BY <2>2, NoSuffix, EndsTyped, MishapTyped, ZenonT(120) DEF ListByLabel, Runners, Leftovers
  <2>3. CASE ClearPrevious
    BY ZenonT(120), <2>3, MishapTyped, SetStateTyped DEF ClearPrevious
  <2>4. CASE ClearRemove
    BY <2>4, MishapTyped, RemovedTyped, ZenonT(120) DEF ClearRemove
  <2>5. CASE Cleared
    BY Zenon, <2>5 DEF Cleared
  <2>6. CASE RestorePrevious
    <3>1. SubSeq(name[found], 1, Len(name[found]) - 1) \in Seq(Id)
      BY Zenon, <2>6, WithoutLast DEF RestorePrevious
    <3>2. HostType'
      BY Zenon, <3>1, <2>6, RenameTyped DEF RestorePrevious
    <3>3. mishaps' \in 0..MaxMishaps
      BY Zenon, <2>6, MishapTyped DEF RestorePrevious
    <3>4. PICK n \in Seq(Id) : Returns(found, n)
      BY ZenonT(120), <3>1, <2>6 DEF RestorePrevious
    <3>5. found \in Id /\ UNCHANGED <<stack, remote, runtime, pushes, probes>>
      BY Zenon, <2>6 DEF RestorePrevious
    <3> QED
      BY Zenon, <3>2, <3>3, <3>4, <3>5
  <2> QED
    BY Zenon, <1>2, <2>1, <2>2, <2>3, <2>4, <2>5, <2>6 DEF Lookup
<1>3. CASE Check
  <2>1. CASE CheckDigest
    BY ZenonT(120), <2>1, EndsTyped, MishapTyped DEF CheckDigest
  <2>2. CASE ProbeClean
    <3>1. CASE probes' = 0 /\ Goes("probeCreate") /\ Well
      <4>1. probes' \in Nat
        BY Zenon, <3>1
      <4>2. UNCHANGED <<hostVars, cycleVars, mishaps, stack, remote, runtime, pushes>> /\ pc' = "probeCreate"
        BY Zenon, <2>2, <3>1 DEF ProbeClean
      <4>3. HostType' /\ found' # None
        BY Zenon, <2>2, <4>2 DEF ProbeClean
      <4> HIDE DEF HostType
      <4> QED
        BY ZenonT(120), <4>1, <4>2, <4>3 DEF HostType
    <3>2. CASE Mishap /\ Ends /\ probes' \in {0, probes}
      <4>1. probes' \in Nat
        BY <3>2
      <4> QED
        BY <4>1, <3>2, <2>2, EndsTyped, MishapTyped, ZenonT(120) DEF ProbeClean
    <3> QED
      BY <2>2, <3>1, <3>2, Zenon DEF ProbeClean
  <2>3. CASE ProbeCreate
    BY <2>3, EndsTyped, MishapTyped DEF ProbeCreate
  <2>4. CASE ProbeRun
    BY ZenonT(120), <2>4, MishapTyped DEF ProbeRun
  <2>5. CASE ProbeRemove
    BY <2>5, EndsTyped, MishapTyped DEF ProbeRemove
  <2>6. CASE Pull
    BY ZenonT(120), <2>6, EndsTyped, MishapTyped DEF Pull
  <2> QED
    BY Zenon, <1>3, <2>1, <2>2, <2>3, <2>4, <2>5, <2>6 DEF Check
<1>4. CASE Recreate
  <2>1. CASE RenameAside
    <3>1. Append(known, found) \in Seq(Id)
      BY <2>1 DEF RenameAside
    <3> QED
      BY <3>1, <2>1, EndsTyped, MishapTyped, RenameTyped, ZenonT(120) DEF RenameAside
  <2>2. CASE CreateNew
    <3>1. ASSUME NEW i \in Unused, Made(i, known, target) PROVE HostType'
      BY Zenon, <3>1, MadeTyped DEF Unused
    <3>2. \A i \in Unused : i \in Id
      BY Zenon DEF Unused
    <3> QED
      BY ZenonT(120), <2>2, <3>1, <3>2, MishapTyped DEF CreateNew
  <2>3. CASE RenameBack
    BY ZenonT(120), <2>3, EndsTyped, MishapTyped, RenameTyped DEF RenameBack
  <2>4. CASE StopOld
    BY SMTT(60), <2>4, MishapTyped, SetStateTyped DEF StopOld
  <2>5. CASE StartNew
    <3>1. HostType'
      BY Zenon, <2>5, SetStateTyped DEF StartNew
    <3>2. mishaps' \in 0..MaxMishaps
      BY Zenon, <2>5, MishapTyped DEF StartNew
    <3> HIDE DEF HostType, Well
    <3> QED
      BY ZenonT(120), <2>5, <3>1, <3>2 DEF StartNew, HostType
  <2>6. CASE RemoveOld
    BY ZenonT(120), <2>6, EndsTyped, MishapTyped, RemovedTyped DEF RemoveOld
  <2>7. CASE UndoRemove
    BY <2>7, EndsTyped, MishapTyped, RemovedTyped, ZenonT(120) DEF UndoRemove
  <2>8. CASE UndoName
    BY <2>8, EndsTyped, MishapTyped, RenameTyped, ZenonT(120) DEF UndoName
  <2>9. CASE UndoStart
    BY ZenonT(120), <2>9, EndsTyped, MishapTyped, SetStateTyped DEF UndoStart
  <2>10. CASE FirstCreate
    BY <2>10, NoSuffix, EndsTyped, MishapTyped, MadeTyped, ZenonT(120) DEF FirstCreate, Unused
  <2>11. CASE FirstStart
    BY <2>11, EndsTyped, MishapTyped, SetStateTyped, ZenonT(120) DEF FirstStart
  <2> QED
    BY Zenon, <1>4, <2>1, <2>2, <2>3, <2>4, <2>5, <2>6, <2>7, <2>8, <2>9, <2>10, <2>11 DEF Recreate
<1>5. CASE Die
  BY Zenon, <1>5, EndsTyped, MishapTyped DEF Die
<1>6. CASE Push
  BY <1>6 DEF Push
<1>7. CASE RuntimeTurns
  BY <1>7 DEF RuntimeTurns
<1>8. CASE UNCHANGED vars
  BY <1>8 DEF vars
<1> QED
  BY Zenon, <1>1, <1>2, <1>3, <1>4, <1>5, <1>6, <1>7, <1>8 DEF Next, Cycle

\* A probe starts with none of its containers on the host.
LEMMA StepProbeCount == TypeOK /\ ProbeCount /\ [Next]_vars => ProbeCount'
<1> SUFFICES ASSUME TypeOK /\ ProbeCount, [Next]_vars PROVE ProbeCount'
  BY Zenon
<1>t. pc \in Steps /\ probes \in Nat
  BY Zenon DEF TypeOK
<1> USE <1>t DEF ProbeCount, OneProbe
<1> HIDE DEF Here, Taken, Rename, SetState, Made, Removed, hostVars
<1>1. CASE Wake
  BY Zenon, <1>1 DEF Wake
<1>2. CASE Lookup
  <2>1. CASE FindByName
    BY Zenon, <2>1 DEF FindByName
  <2>2. CASE ListByLabel
    BY Zenon, <2>2 DEF ListByLabel, Runners, Leftovers
  <2>3. CASE ClearPrevious
    BY Zenon, <2>3 DEF ClearPrevious
  <2>4. CASE ClearRemove
    BY Zenon, <2>4 DEF ClearRemove
  <2>5. CASE Cleared
    BY Zenon, <2>5 DEF Cleared
  <2>6. CASE RestorePrevious
    BY Zenon, <2>6 DEF RestorePrevious
  <2> QED
    BY Zenon, <1>2, <2>1, <2>2, <2>3, <2>4, <2>5, <2>6 DEF Lookup
<1>3. CASE Check
  <2>1. CASE CheckDigest
    BY Zenon, <2>1 DEF CheckDigest
  <2>2. CASE ProbeClean
    BY <2>2 DEF ProbeClean
  <2>3. CASE ProbeCreate
    BY <2>3 DEF ProbeCreate
  <2>4. CASE ProbeRun
    BY Zenon, <2>4 DEF ProbeRun
  <2>5. CASE ProbeRemove
    BY <2>5 DEF ProbeRemove
  <2>6. CASE Pull
    BY Zenon, <2>6 DEF Pull
  <2> QED
    BY Zenon, <1>3, <2>1, <2>2, <2>3, <2>4, <2>5, <2>6 DEF Check
<1>4. CASE Recreate
  <2>1. CASE RenameAside
    BY Zenon, <2>1 DEF RenameAside
  <2>2. CASE CreateNew
    BY Zenon, <2>2 DEF CreateNew, Unused
  <2>3. CASE RenameBack
    BY Zenon, <2>3 DEF RenameBack
  <2>4. CASE StopOld
    BY Zenon, <2>4 DEF StopOld
  <2>5. CASE StartNew
    BY Zenon, <2>5 DEF StartNew
  <2>6. CASE RemoveOld
    BY Zenon, <2>6 DEF RemoveOld
  <2>7. CASE UndoRemove
    BY Zenon, <2>7 DEF UndoRemove
  <2>8. CASE UndoName
    BY Zenon, <2>8 DEF UndoName
  <2>9. CASE UndoStart
    BY Zenon, <2>9 DEF UndoStart
  <2>10. CASE FirstCreate
    BY Zenon, <2>10 DEF FirstCreate, Unused
  <2>11. CASE FirstStart
    BY Zenon, <2>11 DEF FirstStart
  <2> QED
    BY Zenon, <1>4, <2>1, <2>2, <2>3, <2>4, <2>5, <2>6, <2>7, <2>8, <2>9, <2>10, <2>11 DEF Recreate
<1>5. CASE Die
  BY Zenon, <1>5 DEF Die
<1>6. CASE Push
  BY Zenon, <1>6 DEF Push
<1>7. CASE RuntimeTurns
  BY Zenon, <1>7 DEF RuntimeTurns
<1>8. CASE UNCHANGED vars
  BY Zenon, <1>8 DEF vars
<1> QED
  BY Zenon, <1>1, <1>2, <1>3, <1>4, <1>5, <1>6, <1>7, <1>8 DEF Next, Cycle

\* The lookup and the update keep track of what they may remove.
LEMMA StepSpared == TypeOK /\ Spared /\ [Next]_vars => Spared'
<1> SUFFICES ASSUME TypeOK /\ Spared, [Next]_vars PROVE Spared'
  BY Zenon
<1>t. /\ state \in [Id -> States] /\ pc \in Steps
      /\ found \in Id \cup {None} /\ fresh \in Id \cup {None}
      /\ pc \in UsesFound => found # None
      /\ pc \in UsesFresh => fresh # None
      /\ leftovers \subseteq Id /\ listed \in States /\ mishaps \in Nat
  BY DEF TypeOK
<1> USE <1>t DEF Spared, Switching
<1> HIDE DEF IsPrevious
<1>1. CASE Wake
  BY Zenon, <1>1 DEF Wake
<1>2. CASE Lookup
  <2>1. CASE FindByName
    BY Zenon, <2>1 DEF FindByName
  <2>2. CASE ListByLabel
    BY ZenonT(120), <2>2 DEF ListByLabel, Runners, Leftovers
  <2>3. CASE ClearPrevious
    BY ZenonT(120), <2>3 DEF ClearPrevious
  <2>4. CASE ClearRemove
    BY ZenonT(120), <2>4 DEF ClearRemove
  <2>5. CASE Cleared
    BY Zenon, <2>5 DEF Cleared
  <2>6. CASE RestorePrevious
    BY Zenon, <2>6 DEF RestorePrevious
  <2> QED
    BY Zenon, <1>2, <2>1, <2>2, <2>3, <2>4, <2>5, <2>6 DEF Lookup
<1>3. CASE Check
  <2>1. CASE CheckDigest
    BY Zenon, <2>1 DEF CheckDigest
  <2>2. CASE ProbeClean
    BY Zenon, <2>2 DEF ProbeClean
  <2>3. CASE ProbeCreate
    BY Zenon, <2>3 DEF ProbeCreate
  <2>4. CASE ProbeRun
    BY Zenon, <2>4 DEF ProbeRun
  <2>5. CASE ProbeRemove
    BY ZenonT(120), <2>5 DEF ProbeRemove
  <2>6. CASE Pull
    BY Zenon, <2>6 DEF Pull
  <2> QED
    BY Zenon, <1>3, <2>1, <2>2, <2>3, <2>4, <2>5, <2>6 DEF Check
<1>4. CASE Recreate
  <2>1. CASE RenameAside
    BY Zenon, <2>1 DEF RenameAside
  <2>2. CASE CreateNew
    BY <2>2 DEF CreateNew, Unused
  <2>3. CASE RenameBack
    BY Zenon, <2>3 DEF RenameBack
  <2>4. CASE StopOld
    BY Zenon, <2>4 DEF StopOld
  <2>5. CASE StartNew
    BY ZenonT(120), <2>5 DEF StartNew
  <2>6. CASE RemoveOld
    BY Zenon, <2>6 DEF RemoveOld
  <2>7. CASE UndoRemove
    BY ZenonT(120), <2>7 DEF UndoRemove
  <2>8. CASE UndoName
    BY ZenonT(120), <2>8 DEF UndoName
  <2>9. CASE UndoStart
    BY Zenon, <2>9 DEF UndoStart
  <2>10. CASE FirstCreate
    BY <2>10 DEF FirstCreate, Unused
  <2>11. CASE FirstStart
    BY Zenon, <2>11 DEF FirstStart
  <2> QED
    BY Zenon, <1>4, <2>1, <2>2, <2>3, <2>4, <2>5, <2>6, <2>7, <2>8, <2>9, <2>10, <2>11 DEF Recreate
<1>5. CASE Die
  BY Zenon, <1>5 DEF Die
<1>6. CASE Push
  BY Zenon, <1>6 DEF Push
<1>7. CASE RuntimeTurns
  BY Zenon, <1>7 DEF RuntimeTurns
<1>8. CASE UNCHANGED vars
  BY Zenon, <1>8 DEF vars
<1> QED
  BY Zenon, <1>1, <1>2, <1>3, <1>4, <1>5, <1>6, <1>7, <1>8 DEF Next, Cycle

\* A step without a failure keeps the order of an update.
LEMMA StepOrderly == TypeOK /\ Spared /\ Orderly /\ [Next]_vars => Orderly'
<1> SUFFICES ASSUME TypeOK /\ Spared /\ Orderly, [Next]_vars PROVE Orderly'
  BY Zenon
<1>t. /\ state \in [Id -> States] /\ pc \in Steps
      /\ found \in Id \cup {None} /\ fresh \in Id \cup {None}
      /\ pc \in UsesFound => found # None
      /\ pc \in UsesFresh => fresh # None
      /\ leftovers \subseteq Id /\ listed \in States /\ mishaps \in Nat
      /\ DOMAIN name = Id /\ within \in {"check", "update"}
      /\ stack \in {"cvm", "compose"}
      /\ name = [c \in Id |-> name[c]]
  BY DEF TypeOK
<1> USE <1>t DEF Spared, Orderly, Switching
<1>1. CASE Wake
  BY <1>1 DEF Wake
<1>2. CASE Lookup
  <2>1. CASE FindByName
    BY <2>1 DEF FindByName
  <2>2. CASE ListByLabel
    <3> SUFFICES ASSUME mishaps' = 0 PROVE Orderly'
      BY Zenon
    <3>1. mishaps = 0 /\ Well
      BY <2>2 DEF ListByLabel
    <3>2. Leftovers = {} /\ (Runners = {} => Here = {})
      <4>1. pc = "list"
        BY Zenon, <2>2 DEF ListByLabel
      <4>2. (\A c \in Here : name[c] = <<>>) /\ (stack = "cvm" => Here = {})
        BY Zenon, <3>1, <4>1
      <4> HIDE DEF Here, Orderly, Spared, Switching
      <4>3. Leftovers = {}
        BY Zenon, <4>2 DEF Leftovers
      <4>4. stack = "compose" => Runners = Here
        BY Zenon, <4>2 DEF Runners
      <4> QED
        BY Zenon, <4>2, <4>3, <4>4
    <3>3. CASE Ends
      BY <3>1, <3>2, <3>3, <2>2 DEF ListByLabel
    <3>4. CASE Runners = {} /\ Returns(None, <<>>)
      BY ZenonT(120), <3>1, <3>2, <3>4, <2>2 DEF ListByLabel
    <3>5. ASSUME NEW r \in Runners, pc' = "clear", known' = <<>>, leftovers' = Leftovers,
                 UNCHANGED <<within, verdict>>
          PROVE  Orderly'
      BY <3>1, <3>2, <3>5, <2>2 DEF ListByLabel
    <3> QED
      BY <3>1, <3>2, <3>3, <3>4, <3>5, <2>2, ZenonT(120) DEF ListByLabel
  <2>3. CASE ClearPrevious
    BY <2>3 DEF ClearPrevious
  <2>4. CASE ClearRemove
    BY <2>4 DEF ClearRemove
  <2>5. CASE Cleared
    BY <2>5 DEF Cleared
  <2>6. CASE RestorePrevious
    BY <2>6 DEF RestorePrevious
  <2> QED
    BY Zenon, <1>2, <2>1, <2>2, <2>3, <2>4, <2>5, <2>6 DEF Lookup
<1>3. CASE Check
  <2>1. CASE CheckDigest
    BY <2>1 DEF CheckDigest
  <2>2. CASE ProbeClean
    BY <2>2 DEF ProbeClean
  <2>3. CASE ProbeCreate
    BY <2>3 DEF ProbeCreate
  <2>4. CASE ProbeRun
    BY <2>4 DEF ProbeRun
  <2>5. CASE ProbeRemove
    BY <2>5 DEF ProbeRemove
  <2>6. CASE Pull
    BY <2>6 DEF Pull
  <2> QED
    BY Zenon, <1>3, <2>1, <2>2, <2>3, <2>4, <2>5, <2>6 DEF Check
<1>4. CASE Recreate
  <2>1. CASE RenameAside
    BY <2>1 DEF RenameAside
  <2>2. CASE CreateNew
    <3> SUFFICES ASSUME mishaps' = 0 PROVE Orderly'
      BY Zenon
    <3>1. mishaps = 0 /\ Here = {found} /\ ~Taken(known) /\ known = <<>>
      BY <2>2 DEF CreateNew
    <3>2. PICK i \in Unused : /\ Made(i, known, target) /\ fresh' = i /\ pc' = "stop"
                            /\ UNCHANGED <<within, found, known, leftovers, verdict>>
      BY <2>2, <3>1 DEF CreateNew
    <3>3. Here' = Here \cup {i} /\ name'[i] = <<>>
      BY <3>1, <3>2 DEF Unused
    <3> QED
      BY ZenonT(120), <3>1, <3>2, <3>3, <2>2 DEF CreateNew
  <2>3. CASE RenameBack
    BY <2>3 DEF RenameBack
  <2>4. CASE StopOld
    BY <2>4 DEF StopOld
  <2>5. CASE StartNew
    BY <2>5 DEF StartNew
  <2>6. CASE RemoveOld
    <3> SUFFICES ASSUME mishaps' = 0 PROVE Orderly'
      BY Zenon
    <3>1. mishaps = 0 /\ Here = {found, fresh} /\ Removed(found) /\ name[fresh] = <<>>
      BY <2>6 DEF RemoveOld
    <3>2. Here' = {fresh} /\ name'[fresh] = <<>>
      BY <3>1, <2>6 DEF RemoveOld
    <3> QED
      BY ZenonT(120), <3>1, <3>2, <2>6 DEF RemoveOld
  <2>7. CASE UndoRemove
    BY <2>7 DEF UndoRemove
  <2>8. CASE UndoName
    BY <2>8 DEF UndoName
  <2>9. CASE UndoStart
    BY <2>9 DEF UndoStart
  <2>10. CASE FirstCreate
    BY <2>10 DEF FirstCreate, Unused
  <2>11. CASE FirstStart
    BY <2>11 DEF FirstStart
  <2> QED
    BY Zenon, <1>4, <2>1, <2>2, <2>3, <2>4, <2>5, <2>6, <2>7, <2>8, <2>9, <2>10, <2>11 DEF Recreate
<1>5. CASE Die
  BY <1>5 DEF Die
<1>6. CASE Push
  BY <1>6 DEF Push
<1>7. CASE RuntimeTurns
  BY <1>7 DEF RuntimeTurns
<1>8. CASE UNCHANGED vars
  BY <1>8 DEF vars
<1> QED
  BY Zenon, <1>1, <1>2, <1>3, <1>4, <1>5, <1>6, <1>7, <1>8 DEF Next, Cycle

\* No step removes the last container known to start.
LEMMA StepKept == TypeOK /\ Spared /\ [Next]_vars => (Proven # {} => Proven' # {})
<1> SUFFICES ASSUME TypeOK /\ Spared, [Next]_vars PROVE Proven # {} => Proven' # {}
  BY Zenon
<1>t. /\ state \in [Id -> States] /\ pc \in Steps
      /\ found \in Id \cup {None} /\ fresh \in Id \cup {None}
      /\ pc \in UsesFound => found # None
      /\ pc \in UsesFresh => fresh # None
      /\ leftovers \subseteq Id /\ listed \in States /\ mishaps \in Nat
  BY DEF TypeOK
<1> USE <1>t DEF Spared, Switching, Proven
<1> HIDE DEF IsPrevious
<1>1. CASE Wake
  BY Zenon, <1>1 DEF Wake
<1>2. CASE Lookup
  <2>1. CASE FindByName
    BY Zenon, <2>1 DEF FindByName
  <2>2. CASE ListByLabel
    BY Zenon, <2>2 DEF ListByLabel, Runners, Leftovers
  <2>3. CASE ClearPrevious
    BY Zenon, <2>3 DEF ClearPrevious
  <2>4. CASE ClearRemove
    BY Zenon, <2>4 DEF ClearRemove
  <2>5. CASE Cleared
    BY ZenonT(120), <2>5 DEF Cleared
  <2>6. CASE RestorePrevious
    BY Zenon, <2>6 DEF RestorePrevious
  <2> QED
    BY Zenon, <1>2, <2>1, <2>2, <2>3, <2>4, <2>5, <2>6 DEF Lookup
<1>3. CASE Check
  <2>1. CASE CheckDigest
    BY Zenon, <2>1 DEF CheckDigest
  <2>2. CASE ProbeClean
    BY Zenon, <2>2 DEF ProbeClean
  <2>3. CASE ProbeCreate
    BY Zenon, <2>3 DEF ProbeCreate
  <2>4. CASE ProbeRun
    BY Zenon, <2>4 DEF ProbeRun
  <2>5. CASE ProbeRemove
    BY Zenon, <2>5 DEF ProbeRemove
  <2>6. CASE Pull
    BY Zenon, <2>6 DEF Pull
  <2> QED
    BY Zenon, <1>3, <2>1, <2>2, <2>3, <2>4, <2>5, <2>6 DEF Check
<1>4. CASE Recreate
  <2>1. CASE RenameAside
    BY Zenon, <2>1 DEF RenameAside
  <2>2. CASE CreateNew
    BY Zenon, <2>2 DEF CreateNew, Unused
  <2>3. CASE RenameBack
    BY Zenon, <2>3 DEF RenameBack
  <2>4. CASE StopOld
    BY Zenon, <2>4 DEF StopOld
  <2>5. CASE StartNew
    BY ZenonT(120), <2>5 DEF StartNew
  <2>6. CASE RemoveOld
    BY Zenon, <2>6 DEF RemoveOld
  <2>7. CASE UndoRemove
    BY Zenon, <2>7 DEF UndoRemove
  <2>8. CASE UndoName
    BY Zenon, <2>8 DEF UndoName
  <2>9. CASE UndoStart
    BY Zenon, <2>9 DEF UndoStart
  <2>10. CASE FirstCreate
    BY Zenon, <2>10 DEF FirstCreate, Unused
  <2>11. CASE FirstStart
    BY Zenon, <2>11 DEF FirstStart
  <2> QED
    BY Zenon, <1>4, <2>1, <2>2, <2>3, <2>4, <2>5, <2>6, <2>7, <2>8, <2>9, <2>10, <2>11 DEF Recreate
<1>5. CASE Die
  BY Zenon, <1>5 DEF Die
<1>6. CASE Push
  BY Zenon, <1>6 DEF Push
<1>7. CASE RuntimeTurns
  BY Zenon, <1>7 DEF RuntimeTurns
<1>8. CASE UNCHANGED vars
  BY Zenon, <1>8 DEF vars
<1> QED
  BY Zenon, <1>1, <1>2, <1>3, <1>4, <1>5, <1>6, <1>7, <1>8 DEF Next, Cycle

\* No step takes an update past a probe that did not pass.
LEMMA StepJudged == TypeOK /\ Spared /\ Judged /\ [Next]_vars => Judged'
<1> SUFFICES ASSUME TypeOK /\ Spared /\ Judged, [Next]_vars PROVE Judged'
  BY Zenon
<1>t. /\ state \in [Id -> States] /\ pc \in Steps
      /\ found \in Id \cup {None} /\ fresh \in Id \cup {None}
      /\ pc \in UsesFound => found # None
      /\ pc \in UsesFresh => fresh # None
      /\ leftovers \subseteq Id
      /\ within \in {"check", "update"} /\ verdict \in Verdicts
      /\ stack \in {"cvm", "compose"}
  BY Zenon DEF TypeOK
<1>k. stack' = stack /\ (stack = "compose" => Proven' # {})
  <2>1. stack' = stack
    BY Zenon DEF Next, Cycle, Wake, Lookup, FindByName, ListByLabel, ClearPrevious, ClearRemove,
       Cleared, RestorePrevious, Check, CheckDigest, ProbeClean, ProbeCreate, ProbeRun,
       ProbeRemove, Pull, Recreate, RenameAside, CreateNew, RenameBack, StopOld, StartNew,
       RemoveOld, UndoRemove, UndoName, UndoStart, FirstCreate, FirstStart, Die, Push,
       RuntimeTurns, vars
  <2> QED
    BY Zenon, <2>1, StepKept DEF Judged
<1> USE <1>t, <1>k DEF Judged, LetThrough, Spared, Switching
<1> HIDE DEF IsPrevious, Mishap, Proven
<1>1. CASE Wake
  BY Zenon, <1>1 DEF Wake
<1>2. CASE Lookup
  <2>1. CASE FindByName
    BY Zenon, <2>1 DEF FindByName
  <2>2. CASE ListByLabel
    <3>1. CASE Ends
      BY Zenon, <3>1, <2>2 DEF ListByLabel
    <3>2. ASSUME NEW r \in Runners, found' = r, pc' = "clear",
                 UNCHANGED <<hostVars, within, verdict>>
          PROVE  Judged'
      BY Zenon, <3>2, <2>2 DEF ListByLabel
    <3>3. ASSUME NEW l \in Leftovers, found' = l, pc' = "restore",
                 UNCHANGED <<hostVars, within, verdict>>
          PROVE  Judged'
      BY Zenon, <3>3, <2>2 DEF ListByLabel
    <3>4. CASE Runners = {} /\ Leftovers = {} /\ Returns(None, <<>>) /\ UNCHANGED hostVars
      <4>1. Here \subseteq {c \in Here : name[c] = <<>>} /\ (stack = "compose" => Here = {})
        BY Zenon, <3>4 DEF Runners, Leftovers, IsPrevious
      <4>2. Here # {} => Taken(<<>>) /\ stack = "cvm"
        BY Zenon, <4>1
      <4>3. stack = "compose" => Here # {}
        BY Zenon DEF Proven
      <4>4. within = "check" => LetThrough \/ Here = {}
        BY Zenon, <4>2, <2>2 DEF ListByLabel
      <4> QED
        BY Zenon, <3>4, <4>2, <4>3, <4>4, <2>2 DEF ListByLabel
    <3> QED
      BY Zenon, <2>2, <3>1, <3>2, <3>3, <3>4 DEF ListByLabel
  <2>3. CASE ClearPrevious
    BY ZenonT(120), <2>3 DEF ClearPrevious
  <2>4. CASE ClearRemove
    BY ZenonT(120), <2>4 DEF ClearRemove
  <2>5. CASE Cleared
    BY Zenon, <2>5 DEF Cleared
  <2>6. CASE RestorePrevious
    BY Zenon, <2>6 DEF RestorePrevious
  <2> QED
    BY Zenon, <1>2, <2>1, <2>2, <2>3, <2>4, <2>5, <2>6 DEF Lookup
<1>3. CASE Check
  <2>1. CASE CheckDigest
    BY Zenon, <2>1 DEF CheckDigest
  <2>2. CASE ProbeClean
    BY Zenon, <2>2 DEF ProbeClean
  <2>3. CASE ProbeCreate
    BY Zenon, <2>3 DEF ProbeCreate
  <2>4. CASE ProbeRun
    BY Zenon, <2>4 DEF ProbeRun
  <2>5. CASE ProbeRemove
    BY ZenonT(120), <2>5 DEF ProbeRemove
  <2>6. CASE Pull
    BY Zenon, <2>6 DEF Pull
  <2> QED
    BY Zenon, <1>3, <2>1, <2>2, <2>3, <2>4, <2>5, <2>6 DEF Check
<1>4. CASE Recreate
  <2>1. CASE RenameAside
    BY Zenon, <2>1 DEF RenameAside
  <2>2. CASE CreateNew
    BY <2>2 DEF CreateNew, Unused
  <2>3. CASE RenameBack
    BY Zenon, <2>3 DEF RenameBack
  <2>4. CASE StopOld
    BY Zenon, <2>4 DEF StopOld
  <2>5. CASE StartNew
    BY ZenonT(120), <2>5 DEF StartNew
  <2>6. CASE RemoveOld
    BY Zenon, <2>6 DEF RemoveOld
  <2>7. CASE UndoRemove
    BY ZenonT(120), <2>7 DEF UndoRemove
  <2>8. CASE UndoName
    BY ZenonT(120), <2>8 DEF UndoName
  <2>9. CASE UndoStart
    BY Zenon, <2>9 DEF UndoStart
  <2>10. CASE FirstCreate
    BY <2>10 DEF FirstCreate, Unused
  <2>11. CASE FirstStart
    BY Zenon, <2>11 DEF FirstStart
  <2> QED
    BY Zenon, <1>4, <2>1, <2>2, <2>3, <2>4, <2>5, <2>6, <2>7, <2>8, <2>9, <2>10, <2>11 DEF Recreate
<1>5. CASE Die
  BY Zenon, <1>5 DEF Die
<1> HIDE <1>t DEF Spared, Switching
<1>u. ASSUME UNCHANGED <<name, image, state, pc, within, found, verdict>> PROVE Judged'
  <2> Here' = Here /\ Taken(<<>>)' = Taken(<<>>)
    BY Zenon, <1>u
  <2> HIDE DEF Here, Taken
  <2> QED
    BY ZenonT(120), <1>u
<1> HIDE <1>k DEF Judged, LetThrough
<1>6. CASE Push
  BY Zenon, <1>6, <1>u DEF Push
<1>7. CASE RuntimeTurns
  BY Zenon, <1>7, <1>u DEF RuntimeTurns
<1>8. CASE UNCHANGED vars
  BY Zenon, <1>8, <1>u DEF vars
<1> QED
  BY Zenon, <1>1, <1>2, <1>3, <1>4, <1>5, <1>6, <1>7, <1>8 DEF Next, Cycle

-----------------------------------------------------------------------------

\* A node starts in the invariant.
LEMMA InitIInv == Init => IInv
<1> SUFFICES ASSUME Init PROVE IInv
  BY Zenon
<1>1. TypeOK
  BY NoSuffix DEF Init, TypeOK
<1>2. \A c, d \in Here : c = d
  <2>1. PICK up \in SUBSET Id :
           (\A c, d \in up : c = d)
           /\ state = [c \in Id |-> IF c \in up THEN "running" ELSE "absent"]
    BY Zenon DEF Init
  <2>2. Here = up
    BY Zenon, <2>1
  <2> QED
    BY Zenon, <2>1, <2>2
<1>3. stack = "compose" => Proven # {}
  <2>1. PICK up \in SUBSET Id :
           (stack = "compose" => up # {})
           /\ state = [c \in Id |-> IF c \in up THEN "running" ELSE "absent"]
    BY Zenon DEF Init
  <2>2. pc = "idle"
    BY Zenon DEF Init
  <2>3. up \subseteq Proven
    BY Zenon, <2>1, <2>2 DEF Proven
  <2> QED
    BY Zenon, <2>1, <2>3
<1>4. Judged
  BY Zenon, <1>3 DEF Init, Judged, LetThrough
<1> QED
  BY <1>1, <1>2, <1>4 DEF Init, IInv, ProbeCount, OneProbe, Spared, Orderly, Switching

\* The invariant is inductive.
LEMMA StepIInv == IInv /\ [Next]_vars => IInv'
  BY StepTypeOK, StepProbeCount, StepSpared, StepOrderly, StepJudged, Zenon DEF IInv

\* Every reachable state satisfies it.
LEMMA InvariantHolds == Spec => []IInv
  BY InitIInv, StepIInv, PTL DEF Spec

\* Every state of the watchtower and of its node has its type.
THEOREM TypeCorrect == Spec => []TypeOK
<1>1. IInv => TypeOK
  BY Zenon DEF IInv
<1> QED
  BY <1>1, InvariantHolds, PTL

\* However often updates are held, a node has at most one probe container.
THEOREM ProbesBounded == Spec => []OneProbe
<1>1. IInv => OneProbe
  BY Zenon DEF IInv, ProbeCount
<1> QED
  BY <1>1, InvariantHolds, PTL

\* A node never loses its last container known to start: recreate_container and the repairs
\* of the lookup keep one in every case.
THEOREM ProvenCopyKept == Spec => ProvenKept
<1>1. IInv /\ [Next]_vars => [Proven # {} => Proven' # {}]_vars
  BY StepKept, Zenon DEF IInv
<1> QED
  BY <1>1, InvariantHolds, PTL DEF Spec, ProvenKept

\* Until something fails an update stops the old runner before it starts the new one.
THEOREM OrderlyUpdates == Spec => []OneRuns
<1>1. IInv => OneRuns
  <2> SUFFICES ASSUME IInv, mishaps = 0, NEW c \in Running, NEW d \in Running PROVE c = d
    BY Zenon DEF OneRuns
  <2> USE DEF IInv, Spared, Orderly, Switching
  <2>1. c \in Here /\ d \in Here /\ state[c] = "running" /\ state[d] = "running"
    BY Zenon DEF Running
  <2>2. CASE pc \in Switching
    BY <2>1, <2>2
  <2>3. CASE pc = "create"
    BY <2>1, <2>3
  <2> QED
    BY ZenonT(120), <2>1, <2>2, <2>3
<1> QED
  BY <1>1, InvariantHolds, PTL

\* A runner is replaced only if this cycle's probe passed (probe_nvidia_runtime), whatever
\* fails, but for a CVM whose first lookup by name failed.
THEOREM ReplacedAreProbed == Spec => []ReplacedIsProbed
<1>1. IInv => ReplacedIsProbed
  BY Zenon DEF IInv, TypeOK, Spared, Switching, Judged, LetThrough, ReplacedIsProbed
<1> QED
  BY <1>1, InvariantHolds, PTL
=============================================================================
