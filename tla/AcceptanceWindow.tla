---------------------------- MODULE AcceptanceWindow ----------------------------
(***************************************************************************)
(* One offer that has been sent, the windows in which the applicant may    *)
(* answer it, the SLA engine's timers for them and the messages between    *)
(* apps/risk-operation and apps/product-configurator.  SLA_TIMER_START and *)
(* _CANCEL are handled in the transaction that records them; SLA_BREACHED  *)
(* is handled and recorded apart.  The topics have two partitions and the  *)
(* messages no key, so messages are handled in any order.  What overlaps   *)
(* within one service is the subject of Offer and SlaTimer.                *)
(***************************************************************************)
EXTENDS Naturals, FiniteSets

CONSTANTS
    MaxWindows,  \* bound on how often the offer is sent
    MaxFaults    \* bound on breaches handled twice or dropped

VARIABLES
    offer,     \* the offer's status, from SENT on
    window,    \* how often it has been sent
    timers,    \* window -> the timer its SLA_TIMER_START made
    messages,  \* messages recorded in an outbox and not yet handled
    lapsedBy,  \* the window whose breach lapsed the offer last
    repeated,  \* breaches handled and to be handled again
    dropped    \* breaches whose handler failed

vars == <<offer, window, timers, messages, lapsedBy, repeated, dropped>>
faults == <<repeated, dropped>>

Windows == 1..MaxWindows
Message == [kind : {"START", "CANCEL", "BREACHED"}, window : Windows]
Msg(kind, w) == [kind |-> kind, window |-> w]

Init ==
    /\ offer = "SENT" /\ window = 1
    /\ timers = [w \in Windows |-> "none"]
    /\ messages = {Msg("START", 1)}
    /\ lapsedBy = 0 /\ repeated = {} /\ dropped = {}

-----------------------------------------------------------------------------
(* The offer. *)

\* The applicant's answer, or the RM's in its place.
Answer ==
    /\ offer = "SENT"
    /\ offer' = "ANSWERED"
    /\ messages' = messages \cup {Msg("CANCEL", window)}
    /\ UNCHANGED <<window, timers, lapsedBy, faults>>

\* Mutant: the offer is sent again without a clock.
RefreshUnclocked ==
    /\ offer = "LAPSED" /\ window < MaxWindows
    /\ offer' = "SENT" /\ window' = window + 1
    /\ UNCHANGED <<messages, timers, lapsedBy, faults>>

Refresh ==
    /\ offer = "LAPSED" /\ window < MaxWindows
    /\ offer' = "SENT" /\ window' = window + 1
    /\ messages' = messages \cup {Msg("START", window + 1)}
    /\ UNCHANGED <<timers, lapsedBy, faults>>

Close ==
    /\ offer = "LAPSED"
    /\ offer' = "CLOSED_ARCHIVED"
    /\ UNCHANGED <<window, timers, messages, lapsedBy, faults>>

\* A breach of whatever window lapses the offer that is out.
Lapse(w) ==
    IF offer = "SENT" THEN offer' = "LAPSED" /\ lapsedBy' = w
    ELSE UNCHANGED <<offer, lapsedBy>>

OnBreach(w) ==
    /\ Msg("BREACHED", w) \in messages
    /\ Lapse(w)
    /\ messages' = messages \ {Msg("BREACHED", w)}
    /\ UNCHANGED <<window, timers, faults>>

Trouble == Cardinality(repeated) + Cardinality(dropped) < MaxFaults

\* The consumer dies before it records the message.
OnBreachUnrecorded(w) ==
    /\ Msg("BREACHED", w) \in messages /\ Trouble
    /\ Lapse(w)
    /\ repeated' = repeated \cup {w}
    /\ UNCHANGED <<window, timers, messages, dropped>>

\* The handler fails and its catch lets the message go.
OnBreachFails(w) ==
    /\ Msg("BREACHED", w) \in messages /\ Trouble
    /\ messages' = messages \ {Msg("BREACHED", w)}
    /\ dropped' = dropped \cup {w}
    /\ UNCHANGED <<offer, window, timers, lapsedBy, repeated>>

-----------------------------------------------------------------------------
(* The SLA engine. *)

Running == {w \in Windows : timers[w] = "RUNNING"}

\* A subject has one running timer: a start beside one makes no other.
OnStart(w) ==
    /\ Msg("START", w) \in messages
    /\ timers' = IF Running = {} THEN [timers EXCEPT ![w] = "RUNNING"] ELSE timers
    /\ messages' = messages \ {Msg("START", w)}
    /\ UNCHANGED <<offer, window, lapsedBy, faults>>

\* The cancel names the subject, not the window.
OnCancel(w) ==
    /\ Msg("CANCEL", w) \in messages
    /\ timers' = [x \in Windows |-> IF x \in Running THEN "CANCELLED" ELSE timers[x]]
    /\ messages' = messages \ {Msg("CANCEL", w)}
    /\ UNCHANGED <<offer, window, lapsedBy, faults>>

\* Mutant: a timer that has breached breaches again.
BreachTwice(w) ==
    /\ timers[w] \in {"RUNNING", "BREACHED"}
    /\ timers' = [timers EXCEPT ![w] = "BREACHED"]
    /\ messages' = messages \cup {Msg("BREACHED", w)}
    /\ UNCHANGED <<offer, window, lapsedBy, faults>>

\* The cron finds the timer overdue.
Breach(w) ==
    /\ timers[w] = "RUNNING"
    /\ timers' = [timers EXCEPT ![w] = "BREACHED"]
    /\ messages' = messages \cup {Msg("BREACHED", w)}
    /\ UNCHANGED <<offer, window, lapsedBy, faults>>

Handled(w) == OnStart(w) \/ OnCancel(w) \/ OnBreach(w)

Next ==
    \/ Answer \/ Refresh \/ Close
    \/ \E w \in Windows :
         Handled(w) \/ Breach(w) \/ OnBreachUnrecorded(w) \/ OnBreachFails(w)

Spec == Init /\ [][Next]_vars

-----------------------------------------------------------------------------
\* Every variable holds a value the code can give it.
TypeOK ==
    /\ offer \in {"SENT", "ANSWERED", "LAPSED", "CLOSED_ARCHIVED"}
    /\ window \in Windows /\ lapsedBy \in Windows \cup {0}
    /\ timers \in [Windows -> {"none", "RUNNING", "BREACHED", "CANCELLED"}]
    /\ messages \subseteq Message
    /\ repeated \cup dropped \subseteq Windows

\* An offer lapses by its own window's deadline, in whatever order messages
\* come, unless a consumer that died was given an older breach again.
LapseIsOwn == offer = "LAPSED" => lapsedBy = window \/ repeated # {}

\* offers.service.ts: refresh of a lapsed offer starts another acceptance
\* window, and only its own breach lapses the offer again.
WindowIsWhole == offer = "LAPSED" => lapsedBy = window

\* No offer stays out for ever: it is answered, or its window's breach lapses it
\* unless the handler of a breach failed.
WindowEnds == offer = "SENT" ~> offer # "SENT" \/ dropped # {}
=============================================================================
