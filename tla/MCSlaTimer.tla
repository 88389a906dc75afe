------------------------------ MODULE MCSlaTimer ------------------------------
(* Instances of SlaTimer for TLC. *)
EXTENDS SlaTimer, TLC

CONSTANTS k1, k2, s1, s2, x1, t1, t2, t3, c1, c2, r1

\* One subject: s1 starts its timer, x1 cancels it, s2 is a second start.
OneKey == [e \in Events |-> k1]

\* Two subjects with a start each.
TwoKeys == [e \in Events |-> IF e = s2 THEN k2 ELSE k1]

Symmetry == Permutations(TimerIds) \cup Permutations(CronRuns)
=============================================================================
