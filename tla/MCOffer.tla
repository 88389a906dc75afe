------------------------------- MODULE MCOffer -------------------------------
(* Instances of Offer for TLC. *)
EXTENDS Offer, TLC

CONSTANTS p1, p2, p3, p4, a1, u, v, w, r1, r2

StaffSymmetry == Permutations(Persons) \cup Permutations(Requests)
=============================================================================
