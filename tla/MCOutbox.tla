------------------------------- MODULE MCOutbox -------------------------------
(* Instances of Outbox for TLC. *)
EXTENDS Outbox, TLC

CONSTANTS e1, e2, e3, c1, c2

AllAtomic  == [e \in Events |-> "atomic"]
AllApart   == [e \in Events |-> "apart"]
\* One consumer that records in the act's transaction and one that drops.
Mixed   == [e \in Events |-> IF e = e1 THEN "atomic" ELSE "drop"]

RunSymmetry == Permutations(Runs)
=============================================================================
