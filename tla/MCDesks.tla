-------------------------------- MODULE MCDesks --------------------------------
(***************************************************************************)
(* Model values and the constant functions of Desks for TLC.               *)
(***************************************************************************)
EXTENDS Desks, TLC

CONSTANTS p1, p2, p3, q1, q2, rm, boss, s, t, g1, c1, c2, w1, w2, w3, r1, r2

MCIdsOf == [crc |-> {1}, operations |-> {1, 2}, governance |-> {1, 2}, pipeline |-> {1, 2}]
MCPersonsOf == [crc |-> {p1, p2, p3}, operations |-> {p1, p2, p3},
                governance |-> {q1, q2}, pipeline |-> {rm, boss}]
MCCommitsOf == [crc |-> 6, operations |-> 7, governance |-> 3, pipeline |-> 4]
MoreCommitsOf == [MCCommitsOf EXCEPT !["crc"] = 8]
MCSeed == [w \in {w1, w2} |-> IF w = w1 THEN Total ELSE 0]

Symmetry == Permutations({p1, p2, p3}) \cup Permutations({q1, q2}) \cup
            Permutations(Requests) \cup Permutations(Signatories)
=============================================================================
