------------------------------ MODULE MCDeadline ------------------------------
(* Instances of Deadline for TLC. *)
EXTENDS Deadline, TLC

CONSTANTS g1, g2

RegionSymmetry == Permutations(Regions)
=============================================================================
