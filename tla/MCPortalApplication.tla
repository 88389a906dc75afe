-------------------------- MODULE MCPortalApplication --------------------------
(* Instances of PortalApplication for TLC. *)
EXTENDS PortalApplication, TLC

CONSTANTS o1, o2, x, y, z, w1, w2

WorkerSymmetry == Permutations(Workers)
=============================================================================
