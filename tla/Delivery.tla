------------------------------- MODULE Delivery -------------------------------
(***************************************************************************)
(* What the transactional outbox and the processed_event table promise two *)
(* services: an event takes effect only when the business change it        *)
(* describes has been committed, and it takes effect once.                 *)
(***************************************************************************)
CONSTANT Events

VARIABLES
    committed,  \* events whose business change has been committed
    applied     \* events that have taken effect at their consumer

deliveryVars == <<committed, applied>>

Init == committed = {} /\ applied = {}

Commit(e) ==
    /\ e \notin committed
    /\ committed' = committed \cup {e}
    /\ UNCHANGED applied

Apply(e) ==
    /\ e \in committed \ applied
    /\ applied' = applied \cup {e}
    /\ UNCHANGED committed

Next == \E e \in Events : Commit(e) \/ Apply(e)

Spec == Init /\ [][Next]_deliveryVars
=============================================================================
