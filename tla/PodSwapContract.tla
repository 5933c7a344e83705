---------------------------- MODULE PodSwapContract ----------------------------
(***************************************************************************)
(* How PodSwap implements PodContract.  The variables are those of         *)
(* PodSwap.                                                                *)
(***************************************************************************)
EXTENDS Integers

CONSTANTS Create, None

VARIABLES named, error, del, standing, mishaps

\* What the contract is told of the swap.
Copies == {named["pod"], named["parked"]} \ {None}
Closing == CASE del = "none" -> "no" [] del = "done" -> "done" [] OTHER -> "asked"
Clean ==
    IF \E c \in Create : error[c] = "back" THEN "misled"
    ELSE IF mishaps = 0 THEN "yes" ELSE "no"

Contract == INSTANCE PodContract WITH
    pod <- standing, copies <- Copies, closing <- Closing, clean <- Clean

\* Parking, sweeping and undoing keep what the backend was promised: every step of a
\* create, an edit or the delete adds or removes at most one container of the pod, never
\* the last of a pod that is up, until a rename back after a failed stop is carried out but
\* reported failed, and without a mishap never the one the backend knows.
KeepsContract == Contract!Spec
================================================================================
