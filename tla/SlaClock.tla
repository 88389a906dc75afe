------------------------------- MODULE SlaClock -------------------------------
(***************************************************************************)
(* What the SLA engine promises the flows that use it: each subject has at *)
(* most one clock running towards one deadline, and a breach is announced  *)
(* only for a deadline that was set and has passed.                        *)
(***************************************************************************)
EXTENDS Naturals

CONSTANTS
    Keys,       \* the subjects
    Deadlines   \* the deadlines a clock can be given

VARIABLES
    now,      \* the wall clock
    clock,    \* per subject: the deadlines it runs to, one or none
    started,  \* <<subject, deadline>> of every clock ever started
    fired     \* <<subject, deadline>> of every breach announced

clockVars == <<now, clock, started, fired>>

Init ==
    /\ now = 0
    /\ clock = [k \in Keys |-> {}]
    /\ started = {}
    /\ fired = {}

Tick == now' = now + 1 /\ UNCHANGED <<clock, started, fired>>

Start(k, d) ==
    /\ clock[k] = {}
    /\ clock' = [clock EXCEPT ![k] = {d}]
    /\ started' = started \cup {<<k, d>>}
    /\ UNCHANGED <<now, fired>>

Cancel(k) ==
    /\ clock[k] # {}
    /\ clock' = [clock EXCEPT ![k] = {}]
    /\ UNCHANGED <<now, started, fired>>

\* The announcement may come after a cancel that raced it, and then leaves
\* alone a clock the subject has started since.
Fire(k, d) ==
    /\ <<k, d>> \in started
    /\ d < now
    /\ fired' = fired \cup {<<k, d>>}
    /\ \/ UNCHANGED clock
       \/ d \in clock[k] /\ clock' = [clock EXCEPT ![k] = {}]
    /\ UNCHANGED <<now, started>>

Next ==
    \/ Tick
    \/ \E k \in Keys : Cancel(k) \/ \E d \in Deadlines : Start(k, d)
    \/ \E sd \in started : Fire(sd[1], sd[2])

Spec == Init /\ [][Next]_clockVars
=============================================================================
