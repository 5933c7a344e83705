------------------------------ MODULE PodContract ------------------------------
(***************************************************************************)
(* What creates, edits and the delete of a pod promise the backend, told   *)
(* without names, parking, sweeps and undo: the pod it was told of has a   *)
(* container on the node until it asks for the delete, one it is told of   *)
(* is there, and without a mishap the container kept is the one it knows.  *)
(* The first promise ends when an edit is misled: told that the rename     *)
(* back of a container it could not stop failed, when it was carried out.  *)
(***************************************************************************)
CONSTANTS Create, None

VARIABLES
    pod,      \* the create whose container the backend takes for the pod
    copies,   \* the pod's containers on the node, by the create that ran them
    closing,  \* the delete: "no" until it is asked for, then "asked", "done"
    clean     \* "yes", "no" after a mishap, "misled" after that one

contractVars == <<pod, copies, closing, clean>>

Init == pod = None /\ copies = {} /\ closing = "no" /\ clean = "yes"

\* a mishap may come with any step; a misled edit stays one
MayFail ==
    \/ clean' \in {clean, "misled"}
    \/ clean = "yes" /\ clean' = "no"

Adds(c) ==
    /\ c \notin copies /\ copies' = copies \cup {c}
    /\ MayFail /\ UNCHANGED <<pod, closing>>

\* not the last container of a pod that is up, unless an edit was misled, and without a
\* mishap not the one known
Drops(c) ==
    /\ c \in copies /\ copies' = copies \ {c}
    /\ pod # None /\ closing = "no" =>
          (clean # "misled" => copies' # {}) /\ (clean = "yes" => c # pod)
    /\ MayFail /\ UNCHANGED <<pod, closing>>

Tells(c) ==
    /\ closing = "no" => c \in copies
    /\ pod' = c
    /\ UNCHANGED <<copies, closing, clean>>

Slips == MayFail /\ UNCHANGED <<pod, copies, closing>>

Asks == closing = "no" /\ closing' = "asked" /\ UNCHANGED <<pod, copies, clean>>

Answers == closing = "asked" /\ closing' = "done" /\ MayFail /\ UNCHANGED <<pod, copies>>

Next ==
    \/ \E c \in Create : Adds(c) \/ Drops(c) \/ Tells(c)
    \/ Slips \/ Asks \/ Answers

Spec == Init /\ [][Next]_contractVars
=============================================================================
