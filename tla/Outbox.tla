-------------------------------- MODULE Outbox --------------------------------
(***************************************************************************)
(* The transactional outbox every service of the backend uses, with the    *)
(* Kafka topic behind it and the consumer in front: outbox_event rows, the *)
(* relay's cron, the producer's client, the topic, the consumer's handler  *)
(* and its processed_event table.                                          *)
(*                                                                         *)
(* Three facts about libraries are modelled from how the code uses them.   *)
(* ClientKafka.emit returns before the message is sent and nobody watches  *)
(* what becomes of it.  The cron does not wait for a run to end before it  *)
(* starts the next.  A consumer process takes one message after the other  *)
(* and sees a message again unless its handler returned.                   *)
(***************************************************************************)
EXTENDS Naturals, FiniteSets

CONSTANTS
    Events,      \* the events, each with its outbox row
    Style,       \* how the event's consumer acts and records
    Runs,        \* runs of relayPendingEvents that may overlap
    TakeLimit,   \* rows one run lists (50 in the code)
    FaultKinds,  \* what may go wrong
    MaxFaults,   \* bound on the faults
    NONE         \* no event

\* The consumers of the repository: they act and record in one transaction
\* ("atomic"), in two ("apart"), in two within a try whose catch lets the
\* message go ("drop"), or catch only the act and then record ("swallow").
Styles == {"atomic", "apart", "drop", "swallow"}

ASSUME ConstantsAssumption ==
    /\ IsFiniteSet(Events)
    /\ Style \in [Events -> Styles]
    /\ TakeLimit \in Nat \ {0}
    /\ MaxFaults \in Nat
    /\ NONE \notin Events

VARIABLES
    row,        \* outbox_event.status, "absent" before the producer's commit
    created,    \* outbox_event.created_at
    relay,      \* per run of the relay: rows to visit, row in hand
    wire,       \* copies handed to the producer's client and not yet sent
    topic,      \* copies in the topic that the consumer has not finished with
    consumer,   \* the consumer: the event in hand
    processed,  \* processed_event
    effects,    \* how often an event's business change was made
    handed,     \* events emitted at least once
    lost,       \* events a copy of which the producer's client lost
    dropped,    \* events a handler finished with but did not act on
    faults      \* faults so far

producer == <<row, created, relay, handed>>
broker   == <<wire, topic, lost>>
handler  == <<consumer, processed, effects, dropped>>
vars == <<producer, broker, handler, faults>>

RowStatus == {"absent", "pending", "sent", "failed"}

IdleRelay    == [todo |-> {}, pc |-> "idle", event |-> NONE]
IdleConsumer == [pc |-> "idle", event |-> NONE]

Fault(kind) == kind \in FaultKinds /\ faults < MaxFaults /\ faults' = faults + 1

-----------------------------------------------------------------------------
Init ==
    /\ row = [e \in Events |-> "absent"]
    /\ created = [e \in Events |-> 0]
    /\ relay = [c \in Runs |-> IdleRelay]
    /\ wire = [e \in Events |-> 0]
    /\ topic = [e \in Events |-> 0]
    /\ consumer = IdleConsumer
    /\ processed = {}
    /\ effects = [e \in Events |-> 0]
    /\ handed = {} /\ lost = {} /\ dropped = {}
    /\ faults = 0

\* The business transaction that inserts the row commits; when it rolls back,
\* there is no row either.
Record(e) ==
    /\ row[e] = "absent"
    /\ row' = [row EXCEPT ![e] = "pending"]
    /\ created' = [created EXCEPT ![e] = Cardinality({x \in Events : row[x] # "absent"})]
    /\ UNCHANGED <<relay, handed, broker, handler, faults>>

-----------------------------------------------------------------------------
(* relayPendingEvents. *)

PendingRows == {e \in Events : row[e] = "pending"}

\* findPending: the oldest TakeLimit rows that are pending.
Listing(S) ==
    /\ S \subseteq PendingRows
    /\ IF Cardinality(PendingRows) <= TakeLimit
       THEN S = PendingRows
       ELSE /\ Cardinality(S) = TakeLimit
            /\ \A e \in S, x \in PendingRows \ S : created[e] <= created[x]

List(c) ==
    /\ relay[c] = IdleRelay
    /\ \E S \in SUBSET Events :
         S # {} /\ Listing(S) /\ relay' = [relay EXCEPT ![c].todo = S]
    /\ UNCHANGED <<row, created, handed, broker, handler, faults>>

OldestOf(S) == {e \in S : \A x \in S : created[e] <= created[x]}

\* A run that is done with its row goes on with its list.
Between(c) == [todo |-> relay[c].todo, pc |-> "idle", event |-> NONE]

\* The next row of the list, in whatever state it is by now.
Visit(c, e) ==
    /\ relay[c].pc = "idle"
    /\ e \in OldestOf(relay[c].todo)
    /\ relay' = [relay EXCEPT ![c] = [todo |-> relay[c].todo \ {e}, pc |-> "mark",
                                      event |-> e]]

\* Mutant: the row is marked before the message is handed over.
MarkFirst(c) ==
    /\ \E e \in Events :
         /\ Visit(c, e)
         /\ \/ row' = [row EXCEPT ![e] = "sent"] /\ UNCHANGED <<wire, handed>>
            \/ /\ row[e] = "sent"
               /\ wire' = [wire EXCEPT ![e] = @ + 1]
               /\ handed' = handed \cup {e}
               /\ UNCHANGED row
    /\ UNCHANGED <<created, topic, lost, handler, faults>>

Emit(c) ==
    /\ \E e \in Events :
         /\ Visit(c, e)
         /\ wire' = [wire EXCEPT ![e] = @ + 1]
         /\ handed' = handed \cup {e}
    /\ UNCHANGED <<row, created, topic, lost, handler, faults>>

MarkSent(c) ==
    /\ relay[c].pc = "mark"
    /\ row' = [row EXCEPT ![relay[c].event] = "sent"]
    /\ relay' = [relay EXCEPT ![c] = Between(c)]
    /\ UNCHANGED <<created, handed, broker, handler, faults>>

MarkSentFails(c) ==
    /\ relay[c].pc = "mark"
    /\ Fault("database")
    /\ relay' = [relay EXCEPT ![c].pc = "fail"]
    /\ UNCHANGED <<row, created, handed, broker, handler>>

MarkFailed(c) ==
    /\ relay[c].pc = "fail"
    /\ row' = [row EXCEPT ![relay[c].event] = "failed"]
    /\ relay' = [relay EXCEPT ![c] = Between(c)]
    /\ UNCHANGED <<created, handed, broker, handler, faults>>

\* Thrown out of the catch: the run ends with its list unfinished.
MarkFailedFails(c) ==
    /\ relay[c].pc = "fail"
    /\ Fault("database")
    /\ relay' = [relay EXCEPT ![c] = IdleRelay]
    /\ UNCHANGED <<row, created, handed, broker, handler>>

-----------------------------------------------------------------------------
(* The producer's client and the topic. *)

Send(e) ==
    /\ wire[e] > 0
    /\ wire' = [wire EXCEPT ![e] = @ - 1]
    /\ topic' = [topic EXCEPT ![e] = @ + 1]
    /\ UNCHANGED <<producer, lost, handler, faults>>

\* The broker keeps the message but its answer is lost: it is sent again.
SendTwice(e) ==
    /\ wire[e] > 0
    /\ Fault("answer")
    /\ topic' = [topic EXCEPT ![e] = @ + 1]
    /\ UNCHANGED <<producer, wire, lost, handler>>

\* The client gives up; emit's caller has long moved on.
SendFails(e) ==
    /\ wire[e] > 0
    /\ Fault("send")
    /\ wire' = [wire EXCEPT ![e] = @ - 1]
    /\ lost' = lost \cup {e}
    /\ UNCHANGED <<producer, topic, handler>>

\* The producing service dies with whatever its client had not sent.
ProducerCrash ==
    /\ Fault("producer")
    /\ relay' = [c \in Runs |-> IdleRelay]
    /\ wire' = [e \in Events |-> 0]
    /\ lost' = lost \cup {e \in Events : wire[e] > 0}
    /\ UNCHANGED <<row, created, handed, topic, handler>>

-----------------------------------------------------------------------------
(* The consumer's handler. *)

\* The message will not be delivered again.
Done(e) == topic' = [topic EXCEPT ![e] = @ - 1] /\ consumer' = IdleConsumer

\* Mutant: processed_event is not looked up.
ReceiveAlways(e) ==
    /\ consumer = IdleConsumer /\ topic[e] > 0
    /\ consumer' = [pc |-> "act", event |-> e]
    /\ UNCHANGED <<processed, effects, dropped, producer, broker, faults>>

\* Mutant: the offset is committed when the message is taken.
ReceiveAcks(e) ==
    /\ consumer = IdleConsumer /\ topic[e] > 0
    /\ topic' = [topic EXCEPT ![e] = @ - 1]
    /\ consumer' = IF e \in processed THEN IdleConsumer
                   ELSE [pc |-> "act", event |-> e]
    /\ UNCHANGED <<processed, effects, dropped, producer, wire, lost, faults>>

Receive(e) ==
    /\ consumer = IdleConsumer /\ topic[e] > 0
    /\ IF e \in processed THEN Done(e)
       ELSE consumer' = [pc |-> "act", event |-> e] /\ UNCHANGED topic
    /\ UNCHANGED <<processed, effects, dropped, producer, wire, lost, faults>>

Act(e) ==
    /\ consumer = [pc |-> "act", event |-> e]
    /\ effects' = [effects EXCEPT ![e] = @ + 1]
    /\ IF Style[e] = "atomic"
       THEN processed' = processed \cup {e} /\ Done(e)
       ELSE /\ consumer' = [pc |-> "record", event |-> e]
            /\ UNCHANGED <<processed, topic>>
    /\ UNCHANGED <<dropped, producer, wire, lost, faults>>

\* Mutant: an error of any consumer ends the message.
ActFailureDrops(e) ==
    /\ consumer = [pc |-> "act", event |-> e]
    /\ Fault("act")
    /\ Done(e)
    /\ UNCHANGED <<processed, effects, dropped, producer, wire, lost>>

ActFails(e) ==
    /\ consumer = [pc |-> "act", event |-> e]
    /\ Fault("act")
    /\ CASE Style[e] = "swallow" -> /\ consumer' = [pc |-> "record", event |-> e]
                                    /\ dropped' = dropped \cup {e}
                                    /\ UNCHANGED topic
         [] Style[e] = "drop"    -> Done(e) /\ dropped' = dropped \cup {e}
         [] OTHER                -> consumer' = IdleConsumer /\ UNCHANGED <<topic, dropped>>
    /\ UNCHANGED <<processed, effects, producer, wire, lost>>

RecordProcessed(e) ==
    /\ consumer = [pc |-> "record", event |-> e]
    /\ processed' = processed \cup {e}
    /\ Done(e)
    /\ UNCHANGED <<effects, dropped, producer, wire, lost, faults>>

RecordFails(e) ==
    /\ consumer = [pc |-> "record", event |-> e]
    /\ Fault("record")
    /\ IF Style[e] = "drop" THEN Done(e)
       ELSE consumer' = IdleConsumer /\ UNCHANGED topic
    /\ UNCHANGED <<processed, effects, dropped, producer, wire, lost>>

ConsumerCrash ==
    /\ consumer # IdleConsumer
    /\ Fault("consumer")
    /\ consumer' = IdleConsumer
    /\ UNCHANGED <<processed, effects, dropped, producer, broker>>

Next ==
    \/ \E e \in Events :
         \/ Record(e)
         \/ Send(e) \/ SendTwice(e) \/ SendFails(e)
         \/ Receive(e) \/ Act(e) \/ ActFails(e)
         \/ RecordProcessed(e) \/ RecordFails(e)
    \/ \E c \in Runs :
         \/ List(c) \/ Emit(c) \/ MarkSent(c) \/ MarkSentFails(c)
         \/ MarkFailed(c) \/ MarkFailedFails(c)
    \/ ProducerCrash \/ ConsumerCrash

Spec == Init /\ [][Next]_vars

\* The cron fires every five seconds and a run goes on to its end; the client
\* sends what it holds; the consumer takes every message and finishes it, and
\* is given it again after a failure.
Fairness ==
    /\ \A c \in Runs : /\ WF_vars(List(c)) /\ WF_vars(Emit(c))
                       /\ WF_vars(MarkSent(c)) /\ WF_vars(MarkFailed(c))
    /\ \A e \in Events : /\ WF_vars(Send(e)) /\ SF_vars(Receive(e))
                         /\ WF_vars(Act(e)) /\ WF_vars(RecordProcessed(e))

FairSpec == Spec /\ Fairness

-----------------------------------------------------------------------------
\* Every variable holds a value the code can give it.
TypeOK ==
    /\ row \in [Events -> RowStatus]
    /\ created \in [Events -> Nat]
    /\ relay \in [Runs -> [todo : SUBSET Events, pc : {"idle", "mark", "fail"},
                           event : Events \cup {NONE}]]
    /\ wire \in [Events -> Nat]
    /\ topic \in [Events -> Nat]
    /\ consumer \in [pc : {"idle", "act", "record"}, event : Events \cup {NONE}]
    /\ processed \subseteq Events
    /\ effects \in [Events -> Nat]
    /\ handed \subseteq Events /\ lost \subseteq Events /\ dropped \subseteq Events
    /\ faults \in Nat

Committed(e) == row[e] # "absent"

\* No event falls between two steps of the relay, whichever runs overlap and
\* wherever the process dies: a committed event is pending, on its way, has
\* taken effect, or a copy of it is known to be lost or dropped.
Accounted ==
    \A e \in Events : Committed(e) =>
        \/ row[e] = "pending" \/ wire[e] > 0 \/ topic[e] > 0
        \/ effects[e] > 0
        \/ e \in lost \cup dropped

\* A row leaves the pending state only after its message was handed over: a
\* relay that dies between the two emits it again and never skips it.
LeftPendingAfterEmit ==
    \A e \in Events : row[e] \in {"sent", "failed"} => e \in handed

\* No event slips through: it is accounted for, and never skipped.
NothingSlips == Accounted /\ LeftPendingAfterEmit

\* A consumer that records in the transaction of its business change applies an
\* event once, whatever was sent twice, relayed by two runs or cut by a crash,
\* and only when the change the event tells of was committed.
Delivered ==
    INSTANCE Delivery WITH
        Events    <- {e \in Events : Style[e] = "atomic"},
        committed <- {e \in Events : Style[e] = "atomic" /\ Committed(e)},
        applied   <- {e \in Events : Style[e] = "atomic" /\ effects[e] > 0}

ExactlyOnce ==
    /\ Delivered!Spec
    /\ [][\A e \in Events : Style[e] = "atomic" /\ effects[e] > 0 =>
                               effects'[e] = effects[e]]_vars

\* Whatever crashes and whatever statement fails, an event of which the
\* producer's client loses no copy takes effect at a consumer that lets its
\* errors through.
EveryEventTakesEffect ==
    \A e \in Events :
        Committed(e) /\ Style[e] \in {"atomic", "apart"}
            ~> effects[e] > 0 \/ e \in lost

\* outbox-event.entity.ts: the outbox "avoids the dual-write problem between a
\* service's own database and Kafka": a row is sent when Kafka has its message.
SentIsPublished ==
    \A e \in Events : row[e] = "sent" =>
        wire[e] > 0 \/ topic[e] > 0 \/ effects[e] > 0

\* processed-event.entity.ts: a consumer writes the record "in the same
\* transaction as the resulting business change", so no event is applied twice.
NeverAppliedTwice == \A e \in Events : effects[e] <= 1
=============================================================================
