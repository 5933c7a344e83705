---- MODULE MCNodeSharing ----
(* Two renters' pods, which no definition tells apart, and one probe. *)
EXTENDS NodeSharing, TLC

MCSymmetry == Permutations(Pod)

====
