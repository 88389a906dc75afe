------------------------------- MODULE MCJourney -------------------------------
(***************************************************************************)
(* The journey for TLC: its people, parameters, requests and instances are *)
(* model values, and a bound on commits for each part.                     *)
(***************************************************************************)
EXTENDS Journey, TLC

CONSTANTS p1, p2, ta, tb, r1, r2, i1, i2, n1, n2, k1
=============================================================================
