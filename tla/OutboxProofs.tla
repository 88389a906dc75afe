----------------------------- MODULE OutboxProofs -----------------------------
(***************************************************************************)
(* Proofs about Outbox, for any set of events, consumers of any style, any *)
(* number of overlapping relay runs and any faults.                        *)
(***************************************************************************)
EXTENDS Outbox, FiniteSetTheorems, TLAPS

\* An event the relay handed over is on its way, has taken effect, or a copy of
\* it is known to be gone.
HandedOver ==
    \A e \in handed :
        \/ wire[e] > 0 \/ topic[e] > 0 \/ effects[e] > 0
        \/ e \in lost \cup dropped

\* The relay visits and marks rows of committed events, and marks after it emits.
RelayInv ==
    /\ \A c \in Runs : \A e \in relay[c].todo : Committed(e)
    /\ \A c \in Runs : relay[c].pc # "idle" => relay[c].event \in handed
    /\ \A e \in Events :
         e \in handed \/ wire[e] > 0 \/ topic[e] > 0 \/ effects[e] > 0 => Committed(e)

\* The consumer holds a message that is not recorded yet, and records only what
\* it acted on or gave up.
ConsumerInv ==
    /\ consumer.pc # "idle" =>
         /\ consumer.event \in Events
         /\ topic[consumer.event] > 0
         /\ consumer.event \notin processed
    /\ consumer.pc = "record" =>
         /\ Style[consumer.event] # "atomic"
         /\ effects[consumer.event] > 0 \/ consumer.event \in dropped
    /\ \A e \in processed : effects[e] > 0 \/ e \in dropped
    /\ \A e \in Events : Style[e] = "atomic" /\ effects[e] > 0 => e \in processed

IInv == /\ TypeOK
        /\ HandedOver
        /\ LeftPendingAfterEmit
        /\ RelayInv
        /\ ConsumerInv

-----------------------------------------------------------------------------
\* The initial state has no row, no message and no record.
LEMMA InitInv == Init => IInv
  <1> SUFFICES ASSUME Init PROVE IInv
    OBVIOUS
  <1> USE DEF Init, IdleRelay, IdleConsumer
  <1>1. TypeOK
    BY DEF TypeOK, RowStatus
  <1>2. HandedOver /\ LeftPendingAfterEmit /\ RelayInv
    BY DEF HandedOver, LeftPendingAfterEmit, RelayInv
  <1>3. ConsumerInv
    BY DEF ConsumerInv
  <1> QED BY <1>1, <1>2, <1>3 DEF IInv

\* The commit of a business change makes its row pending.
LEMMA RecordInv ==
  ASSUME IInv, NEW e \in Events, Record(e)
  PROVE  IInv'
  <1> USE ConstantsAssumption DEF IInv, Record, producer, broker, handler
  <1>0. Cardinality({x \in Events : row[x] # "absent"}) \in Nat
    BY FS_Subset, FS_CardinalityType
  <1>1. TypeOK'
    <2>1. PICK n \in Nat : created' = [created EXCEPT ![e] = n]
      BY <1>0
    <2>2. created' \in [Events -> Nat]
      BY <2>1 DEF TypeOK
    <2> QED BY <2>2 DEF TypeOK, RowStatus
  <1>2. HandedOver'
    BY DEF TypeOK, HandedOver, RelayInv, ConsumerInv
  <1>3. LeftPendingAfterEmit'
    BY DEF TypeOK, LeftPendingAfterEmit, RelayInv, RowStatus
  <1>4. RelayInv'
    BY DEF TypeOK, RelayInv, Committed, RowStatus
  <1>5. ConsumerInv'
    BY DEF TypeOK, ConsumerInv
  <1> QED BY <1>1, <1>2, <1>3, <1>4, <1>5

\* A run lists pending rows.
LEMMA ListInv ==
  ASSUME IInv, NEW c \in Runs, List(c)
  PROVE  IInv'
  <1> USE ConstantsAssumption DEF IInv, List, Listing, PendingRows, IdleRelay, producer, broker, handler
  <1>1. TypeOK'
    BY DEF TypeOK, RowStatus
  <1>2. HandedOver'
    BY DEF TypeOK, HandedOver, RelayInv, ConsumerInv
  <1>3. LeftPendingAfterEmit'
    BY DEF TypeOK, LeftPendingAfterEmit, RelayInv, RowStatus
  <1>4. RelayInv'
    BY DEF TypeOK, RelayInv, Committed, RowStatus
  <1>5. ConsumerInv'
    BY DEF TypeOK, ConsumerInv
  <1> QED BY <1>1, <1>2, <1>3, <1>4, <1>5

\* A run hands a listed event to the client before it marks the row.
LEMMA EmitInv ==
  ASSUME IInv, NEW c \in Runs, Emit(c)
  PROVE  IInv'
  <1> USE ConstantsAssumption DEF IInv, Emit, Visit, OldestOf, producer, broker, handler
  <1>1. TypeOK'
    BY DEF TypeOK, RowStatus
  <1>2. HandedOver'
    BY DEF TypeOK, HandedOver, RelayInv, ConsumerInv
  <1>3. LeftPendingAfterEmit'
    BY DEF TypeOK, LeftPendingAfterEmit, RelayInv, RowStatus
  <1>4. RelayInv'
    BY DEF TypeOK, RelayInv, Committed, RowStatus
  <1>5. ConsumerInv'
    BY DEF TypeOK, ConsumerInv
  <1> QED BY <1>1, <1>2, <1>3, <1>4, <1>5

\* The marked row is one that was handed over.
LEMMA MarkSentInv ==
  ASSUME IInv, NEW c \in Runs, MarkSent(c)
  PROVE  IInv'
  <1> USE ConstantsAssumption DEF IInv, MarkSent, Between, producer, broker, handler
  <1>1. TypeOK'
    BY DEF TypeOK, RowStatus
  <1>2. HandedOver'
    BY DEF TypeOK, HandedOver, RelayInv, ConsumerInv
  <1>3. LeftPendingAfterEmit'
    BY DEF TypeOK, LeftPendingAfterEmit, RelayInv, RowStatus
  <1>4. RelayInv'
    BY DEF TypeOK, RelayInv, Committed, RowStatus
  <1>5. ConsumerInv'
    BY DEF TypeOK, ConsumerInv
  <1> QED BY <1>1, <1>2, <1>3, <1>4, <1>5

\* A failed mark leaves the row as it was.
LEMMA MarkSentFailsInv ==
  ASSUME IInv, NEW c \in Runs, MarkSentFails(c)
  PROVE  IInv'
  <1> USE ConstantsAssumption DEF IInv, MarkSentFails, Fault, producer, broker, handler
  <1>1. TypeOK'
    BY DEF TypeOK, RowStatus
  <1>2. HandedOver'
    BY DEF TypeOK, HandedOver, RelayInv, ConsumerInv
  <1>3. LeftPendingAfterEmit'
    BY DEF TypeOK, LeftPendingAfterEmit, RelayInv, RowStatus
  <1>4. RelayInv'
    BY DEF TypeOK, RelayInv, Committed, RowStatus
  <1>5. ConsumerInv'
    BY DEF TypeOK, ConsumerInv
  <1> QED BY <1>1, <1>2, <1>3, <1>4, <1>5

\* A row marked failed was handed over too.
LEMMA MarkFailedInv ==
  ASSUME IInv, NEW c \in Runs, MarkFailed(c)
  PROVE  IInv'
  <1> USE ConstantsAssumption DEF IInv, MarkFailed, Between, producer, broker, handler
  <1>1. TypeOK'
    BY DEF TypeOK, RowStatus
  <1>2. HandedOver'
    BY DEF TypeOK, HandedOver, RelayInv, ConsumerInv
  <1>3. LeftPendingAfterEmit'
    BY DEF TypeOK, LeftPendingAfterEmit, RelayInv, RowStatus
  <1>4. RelayInv'
    BY DEF TypeOK, RelayInv, Committed, RowStatus
  <1>5. ConsumerInv'
    BY DEF TypeOK, ConsumerInv
  <1> QED BY <1>1, <1>2, <1>3, <1>4, <1>5

\* A run that throws forgets its list.
LEMMA MarkFailedFailsInv ==
  ASSUME IInv, NEW c \in Runs, MarkFailedFails(c)
  PROVE  IInv'
  <1> USE ConstantsAssumption DEF IInv, MarkFailedFails, Fault, IdleRelay, producer, broker, handler
  <1>1. TypeOK'
    BY DEF TypeOK, RowStatus
  <1>2. HandedOver'
    BY DEF TypeOK, HandedOver, RelayInv, ConsumerInv
  <1>3. LeftPendingAfterEmit'
    BY DEF TypeOK, LeftPendingAfterEmit, RelayInv, RowStatus
  <1>4. RelayInv'
    BY DEF TypeOK, RelayInv, Committed, RowStatus
  <1>5. ConsumerInv'
    BY DEF TypeOK, ConsumerInv
  <1> QED BY <1>1, <1>2, <1>3, <1>4, <1>5

\* A copy moves from the client to the topic.
LEMMA SendInv ==
  ASSUME IInv, NEW e \in Events, Send(e)
  PROVE  IInv'
  <1> USE ConstantsAssumption DEF IInv, Send, producer, broker, handler
  <1>1. TypeOK'
    BY DEF TypeOK, RowStatus
  <1>2. HandedOver'
    BY DEF TypeOK, HandedOver, RelayInv, ConsumerInv
  <1>3. LeftPendingAfterEmit'
    BY DEF TypeOK, LeftPendingAfterEmit, RelayInv, RowStatus
  <1>4. RelayInv'
    BY DEF TypeOK, RelayInv, Committed, RowStatus
  <1>5. ConsumerInv'
    BY DEF TypeOK, ConsumerInv
  <1> QED BY <1>1, <1>2, <1>3, <1>4, <1>5

\* A copy more in the topic.
LEMMA SendTwiceInv ==
  ASSUME IInv, NEW e \in Events, SendTwice(e)
  PROVE  IInv'
  <1> USE ConstantsAssumption DEF IInv, SendTwice, Fault, producer, broker, handler
  <1>1. TypeOK'
    BY DEF TypeOK, RowStatus
  <1>2. HandedOver'
    BY DEF TypeOK, HandedOver, RelayInv, ConsumerInv
  <1>3. LeftPendingAfterEmit'
    BY DEF TypeOK, LeftPendingAfterEmit, RelayInv, RowStatus
  <1>4. RelayInv'
    BY DEF TypeOK, RelayInv, Committed, RowStatus
  <1>5. ConsumerInv'
    BY DEF TypeOK, ConsumerInv
  <1> QED BY <1>1, <1>2, <1>3, <1>4, <1>5

\* A copy less in the client, and the event is known as lost.
LEMMA SendFailsInv ==
  ASSUME IInv, NEW e \in Events, SendFails(e)
  PROVE  IInv'
  <1> USE ConstantsAssumption DEF IInv, SendFails, Fault, producer, broker, handler
  <1>1. TypeOK'
    BY DEF TypeOK, RowStatus
  <1>2. HandedOver'
    BY DEF TypeOK, HandedOver, RelayInv, ConsumerInv
  <1>3. LeftPendingAfterEmit'
    BY DEF TypeOK, LeftPendingAfterEmit, RelayInv, RowStatus
  <1>4. RelayInv'
    BY DEF TypeOK, RelayInv, Committed, RowStatus
  <1>5. ConsumerInv'
    BY DEF TypeOK, ConsumerInv
  <1> QED BY <1>1, <1>2, <1>3, <1>4, <1>5

\* A crash loses the client's copies, and only those.
LEMMA ProducerCrashInv ==
  ASSUME IInv, ProducerCrash
  PROVE  IInv'
  <1> USE ConstantsAssumption DEF IInv, ProducerCrash, Fault, IdleRelay, producer, broker, handler
  <1>1. TypeOK'
    BY DEF TypeOK, RowStatus
  <1>2. HandedOver'
    BY DEF TypeOK, HandedOver, RelayInv, ConsumerInv
  <1>3. LeftPendingAfterEmit'
    BY DEF TypeOK, LeftPendingAfterEmit, RelayInv, RowStatus
  <1>4. RelayInv'
    BY DEF TypeOK, RelayInv, Committed, RowStatus
  <1>5. ConsumerInv'
    BY DEF TypeOK, ConsumerInv
  <1> QED BY <1>1, <1>2, <1>3, <1>4, <1>5

\* Only a recorded message is passed over.
LEMMA ReceiveInv ==
  ASSUME IInv, NEW e \in Events, Receive(e)
  PROVE  IInv'
  <1> USE ConstantsAssumption DEF IInv, Receive, Done, IdleConsumer, producer, broker, handler
  <1>1. TypeOK'
    BY DEF TypeOK, RowStatus
  <1>2. HandedOver'
    BY DEF TypeOK, HandedOver, RelayInv, ConsumerInv
  <1>3. LeftPendingAfterEmit'
    BY DEF TypeOK, LeftPendingAfterEmit, RelayInv, RowStatus
  <1>4. RelayInv'
    BY DEF TypeOK, RelayInv, Committed, RowStatus
  <1>5. ConsumerInv'
    BY DEF TypeOK, ConsumerInv
  <1> QED BY <1>1, <1>2, <1>3, <1>4, <1>5

\* The change is made, with the record where they share a transaction.
LEMMA ActInv ==
  ASSUME IInv, NEW e \in Events, Act(e)
  PROVE  IInv'
  <1> USE ConstantsAssumption DEF IInv, Act, Done, IdleConsumer, Styles, producer, broker, handler
  <1>1. TypeOK'
    BY DEF TypeOK, RowStatus, ConsumerInv
  <1>2. HandedOver'
    BY DEF TypeOK, HandedOver, RelayInv, ConsumerInv
  <1>3. LeftPendingAfterEmit'
    BY DEF TypeOK, LeftPendingAfterEmit, RelayInv, RowStatus
  <1>4. RelayInv'
    BY DEF TypeOK, RelayInv, ConsumerInv, Committed, RowStatus
  <1>5. ConsumerInv'
    BY DEF TypeOK, ConsumerInv
  <1> QED BY <1>1, <1>2, <1>3, <1>4, <1>5

\* A message let go without its change is known as dropped.
LEMMA ActFailsInv ==
  ASSUME IInv, NEW e \in Events, ActFails(e)
  PROVE  IInv'
  <1> USE ConstantsAssumption DEF IInv, ActFails, Done, Fault, IdleConsumer, Styles, producer, broker, handler
  <1>1. TypeOK'
    BY DEF TypeOK, RowStatus, ConsumerInv
  <1>2. HandedOver'
    BY DEF TypeOK, HandedOver, RelayInv, ConsumerInv
  <1>3. LeftPendingAfterEmit'
    BY DEF TypeOK, LeftPendingAfterEmit, RelayInv, RowStatus
  <1>4. RelayInv'
    BY DEF TypeOK, RelayInv, ConsumerInv, Committed, RowStatus
  <1>5. ConsumerInv'
    BY DEF TypeOK, ConsumerInv
  <1> QED BY <1>1, <1>2, <1>3, <1>4, <1>5

\* What is recorded was acted on or dropped.
LEMMA RecordProcessedInv ==
  ASSUME IInv, NEW e \in Events, RecordProcessed(e)
  PROVE  IInv'
  <1> USE ConstantsAssumption DEF IInv, RecordProcessed, Done, IdleConsumer, producer, broker, handler
  <1>1. TypeOK'
    BY DEF TypeOK, RowStatus, ConsumerInv
  <1>2. HandedOver'
    BY DEF TypeOK, HandedOver, RelayInv, ConsumerInv
  <1>3. LeftPendingAfterEmit'
    BY DEF TypeOK, LeftPendingAfterEmit, RelayInv, RowStatus
  <1>4. RelayInv'
    BY DEF TypeOK, RelayInv, ConsumerInv, Committed, RowStatus
  <1>5. ConsumerInv'
    BY DEF TypeOK, ConsumerInv
  <1> QED BY <1>1, <1>2, <1>3, <1>4, <1>5

\* A message let go without its record was acted on or dropped.
LEMMA RecordFailsInv ==
  ASSUME IInv, NEW e \in Events, RecordFails(e)
  PROVE  IInv'
  <1> USE ConstantsAssumption DEF IInv, RecordFails, Done, Fault, IdleConsumer, producer, broker, handler
  <1>1. TypeOK'
    BY DEF TypeOK, RowStatus, ConsumerInv
  <1>2. HandedOver'
    BY DEF TypeOK, HandedOver, RelayInv, ConsumerInv
  <1>3. LeftPendingAfterEmit'
    BY DEF TypeOK, LeftPendingAfterEmit, RelayInv, RowStatus
  <1>4. RelayInv'
    BY DEF TypeOK, RelayInv, ConsumerInv, Committed, RowStatus
  <1>5. ConsumerInv'
    BY DEF TypeOK, ConsumerInv
  <1> QED BY <1>1, <1>2, <1>3, <1>4, <1>5

\* A crash of the consumer leaves the message in the topic.
LEMMA ConsumerCrashInv ==
  ASSUME IInv, ConsumerCrash
  PROVE  IInv'
  <1> USE ConstantsAssumption DEF IInv, ConsumerCrash, Fault, IdleConsumer, producer, broker, handler
  <1>1. TypeOK'
    BY DEF TypeOK, RowStatus
  <1>2. HandedOver'
    BY DEF TypeOK, HandedOver, RelayInv, ConsumerInv
  <1>3. LeftPendingAfterEmit'
    BY DEF TypeOK, LeftPendingAfterEmit, RelayInv, RowStatus
  <1>4. RelayInv'
    BY DEF TypeOK, RelayInv, Committed, RowStatus
  <1>5. ConsumerInv'
    BY DEF TypeOK, ConsumerInv
  <1> QED BY <1>1, <1>2, <1>3, <1>4, <1>5

\* Every step keeps the invariant.
LEMMA NextInv == IInv /\ [Next]_vars => IInv'
  <1> SUFFICES ASSUME IInv, [Next]_vars PROVE IInv'
    OBVIOUS
  <1>1. ASSUME NEW e \in Events,
               Record(e) \/ Send(e) \/ SendTwice(e) \/ SendFails(e)
        PROVE  IInv'
    BY <1>1, RecordInv, SendInv, SendTwiceInv, SendFailsInv
  <1>2. ASSUME NEW e \in Events,
               Receive(e) \/ Act(e) \/ ActFails(e) \/ RecordProcessed(e) \/ RecordFails(e)
        PROVE  IInv'
    BY <1>2, ReceiveInv, ActInv, ActFailsInv, RecordProcessedInv, RecordFailsInv
  <1>3. ASSUME NEW c \in Runs,
               List(c) \/ Emit(c) \/ MarkSent(c) \/ MarkSentFails(c)
                 \/ MarkFailed(c) \/ MarkFailedFails(c)
        PROVE  IInv'
    BY <1>3, ListInv, EmitInv, MarkSentInv, MarkSentFailsInv, MarkFailedInv,
       MarkFailedFailsInv
  <1>4. CASE ProducerCrash \/ ConsumerCrash
    BY <1>4, ProducerCrashInv, ConsumerCrashInv
  <1>5. CASE UNCHANGED vars
    BY <1>5 DEF vars, producer, broker, handler, IInv, TypeOK, HandedOver,
       LeftPendingAfterEmit, RelayInv, ConsumerInv, Committed
  <1> QED BY <1>1, <1>2, <1>3, <1>4, <1>5 DEF Next

LEMMA Invariance == Spec => []IInv
  BY InitInv, NextInv, PTL DEF Spec

-----------------------------------------------------------------------------
\* Rows, copies, records and the consumer's position keep their types: no count
\* of copies goes below zero, whatever is acknowledged.
THEOREM TypeCorrect == Spec => []TypeOK
  <1>1. IInv => TypeOK
    BY DEF IInv
  <1> QED BY <1>1, Invariance, PTL

\* A row leaves the pending state only after its message was handed over,
\* wherever a run of the relay is cut.
THEOREM EmitsFirst == Spec => []LeftPendingAfterEmit
  <1>1. IInv => LeftPendingAfterEmit
    BY DEF IInv
  <1> QED BY <1>1, Invariance, PTL

\* No committed event falls between two steps of the relay or the consumer.
THEOREM NothingVanishes == Spec => []Accounted
  <1>1. IInv => Accounted
    <2> SUFFICES ASSUME IInv, NEW e \in Events, Committed(e), row[e] # "pending"
                 PROVE  \/ wire[e] > 0 \/ topic[e] > 0
                        \/ effects[e] > 0
                        \/ e \in lost \cup dropped
      BY DEF Accounted
    <2>1. row[e] \in {"sent", "failed"}
      BY DEF IInv, TypeOK, RowStatus, Committed
    <2> QED BY <2>1 DEF IInv, LeftPendingAfterEmit, HandedOver
  <1> QED BY <1>1, Invariance, PTL

\* No event slips through the relay or the consumer.
THEOREM SlipsNowhere == Spec => []NothingSlips
  <1>1. Accounted /\ LeftPendingAfterEmit => NothingSlips
    BY DEF NothingSlips
  <1> QED BY <1>1, NothingVanishes, EmitsFirst, PTL

-----------------------------------------------------------------------------
(* Delivery, through the events whose consumer records atomically. *)

Atomic       == {e \in Events : Style[e] = "atomic"}
committedBar == {e \in Events : Style[e] = "atomic" /\ Committed(e)}
appliedBar   == {e \in Events : Style[e] = "atomic" /\ effects[e] > 0}

\* A step that neither commits a row nor acts leaves Delivery where it is.
Quiet == effects' = effects /\ \A e \in Events : Committed(e)' <=> Committed(e)

LEMMA QuietStutters ==
  ASSUME Quiet
  PROVE  committedBar' = committedBar /\ appliedBar' = appliedBar
  BY DEF Quiet, committedBar, appliedBar

\* The steps that are quiet: all of the relay, the client and the topic, and
\* those of the consumer that make no business change.
LEMMA RelayQuiet ==
  ASSUME IInv, NEW c \in Runs,
         List(c) \/ Emit(c) \/ MarkSent(c) \/ MarkSentFails(c)
           \/ MarkFailed(c) \/ MarkFailedFails(c)
  PROVE  Quiet
  <1> USE DEF Quiet, Committed, handler
  <1>1. CASE List(c)
    BY <1>1 DEF List
  <1>2. CASE Emit(c)
    BY <1>2 DEF Emit
  <1>3. CASE MarkSent(c)
    BY <1>3 DEF MarkSent, IInv, TypeOK, RelayInv
  <1>4. CASE MarkSentFails(c)
    BY <1>4 DEF MarkSentFails
  <1>5. CASE MarkFailed(c)
    BY <1>5 DEF MarkFailed, IInv, TypeOK, RelayInv
  <1>6. CASE MarkFailedFails(c)
    BY <1>6 DEF MarkFailedFails
  <1> QED BY <1>1, <1>2, <1>3, <1>4, <1>5, <1>6

LEMMA MessageQuiet ==
  ASSUME NEW e \in Events,
         Send(e) \/ SendTwice(e) \/ SendFails(e) \/ Receive(e) \/ ActFails(e)
           \/ RecordProcessed(e) \/ RecordFails(e)
  PROVE  Quiet
  BY DEF Send, SendTwice, SendFails, Receive, ActFails, RecordProcessed,
         RecordFails, Quiet, Committed, producer, handler

LEMMA CrashQuiet ==
  ASSUME ProducerCrash \/ ConsumerCrash \/ UNCHANGED vars
  PROVE  Quiet
  BY DEF ProducerCrash, ConsumerCrash, Quiet, Committed, vars, producer, handler

\* The commit of an event with an atomic consumer is a commit of Delivery.
LEMMA RecordCommits ==
  ASSUME IInv, NEW e \in Events, Record(e)
  PROVE  \/ Style[e] = "atomic" /\ Delivered!Commit(e)
         \/ committedBar' = committedBar /\ appliedBar' = appliedBar
  <1>1. /\ ~Committed(e) /\ Committed(e)'
        /\ \A x \in Events \ {e} : Committed(x)' <=> Committed(x)
        /\ effects' = effects
    BY DEF Record, Committed, IInv, TypeOK, handler
  <1> QED BY <1>1 DEF Delivered!Commit, committedBar, appliedBar

\* The act of an atomic consumer is the one application of its event.
LEMMA ActApplies ==
  ASSUME IInv, NEW e \in Events, Act(e)
  PROVE  \/ Style[e] = "atomic" /\ Delivered!Apply(e)
         \/ committedBar' = committedBar /\ appliedBar' = appliedBar
  <1>1. effects' = [effects EXCEPT ![e] = @ + 1] /\ row' = row
    BY DEF Act, producer
  <1>2. Committed(e) /\ (Style[e] = "atomic" => ~(effects[e] > 0))
    BY DEF Act, IInv, ConsumerInv, RelayInv, TypeOK
  <1>3. /\ effects'[e] > 0
        /\ \A x \in Events \ {e} : effects'[x] = effects[x]
        /\ \A x \in Events : Committed(x)' <=> Committed(x)
    BY <1>1 DEF IInv, TypeOK, Committed
  <1> QED BY <1>2, <1>3 DEF Delivered!Apply, committedBar, appliedBar

LEMMA StepDelivers ==
  IInv /\ [Next]_vars =>
    \/ \E e \in Atomic : Delivered!Commit(e) \/ Delivered!Apply(e)
    \/ committedBar' = committedBar /\ appliedBar' = appliedBar
  <1> SUFFICES ASSUME IInv, [Next]_vars
               PROVE  \/ \E e \in Atomic : Delivered!Commit(e) \/ Delivered!Apply(e)
                      \/ committedBar' = committedBar /\ appliedBar' = appliedBar
    OBVIOUS
  <1>1. CASE \E e \in Events : Record(e)
    BY <1>1, RecordCommits DEF Atomic
  <1>2. CASE \E e \in Events : Act(e)
    BY <1>2, ActApplies DEF Atomic
  <1>3. CASE \E e \in Events :
               Send(e) \/ SendTwice(e) \/ SendFails(e) \/ Receive(e) \/ ActFails(e)
                 \/ RecordProcessed(e) \/ RecordFails(e)
    BY <1>3, MessageQuiet, QuietStutters
  <1>4. CASE \E c \in Runs :
               List(c) \/ Emit(c) \/ MarkSent(c) \/ MarkSentFails(c)
                 \/ MarkFailed(c) \/ MarkFailedFails(c)
    BY <1>4, RelayQuiet, QuietStutters
  <1>5. CASE ProducerCrash \/ ConsumerCrash \/ UNCHANGED vars
    BY <1>5, CrashQuiet, QuietStutters
  <1> QED BY <1>1, <1>2, <1>3, <1>4, <1>5 DEF Next

\* What has been applied atomically is not applied again: its record stands, and
\* the consumer holds no recorded message.
LEMMA NeverAgain ==
  IInv /\ [Next]_vars =>
    \A e \in Events : Style[e] = "atomic" /\ effects[e] > 0 => effects'[e] = effects[e]
  <1> SUFFICES ASSUME IInv, [Next]_vars, NEW e \in Events,
                      Style[e] = "atomic", effects[e] > 0
               PROVE  effects'[e] = effects[e]
    OBVIOUS
  <1>1. CASE \E x \in Events : Act(x)
    <2> PICK x \in Events : Act(x)
      BY <1>1
    <2>1. x # e
      BY DEF Act, IInv, ConsumerInv
    <2> QED BY <2>1 DEF Act, IInv, TypeOK
  <1>2. CASE \E x \in Events :
               Send(x) \/ SendTwice(x) \/ SendFails(x) \/ Receive(x) \/ ActFails(x)
                 \/ RecordProcessed(x) \/ RecordFails(x)
    BY <1>2, MessageQuiet DEF Quiet
  <1>3. CASE \E c \in Runs :
               List(c) \/ Emit(c) \/ MarkSent(c) \/ MarkSentFails(c)
                 \/ MarkFailed(c) \/ MarkFailedFails(c)
    BY <1>3, RelayQuiet DEF Quiet
  <1>4. CASE ProducerCrash \/ ConsumerCrash \/ UNCHANGED vars
    BY <1>4, CrashQuiet DEF Quiet
  <1>5. CASE \E x \in Events : Record(x)
    BY <1>5 DEF Record, handler
  <1> QED BY <1>1, <1>2, <1>3, <1>4, <1>5 DEF Next

\* A consumer that records in the transaction of its change applies an event of
\* a committed change once, under crashes, lost answers and overlapping runs.
THEOREM AtomicConsumers == Spec => ExactlyOnce
  <1>1. Init => Delivered!Init
    BY DEF Init, Delivered!Init, Committed
  <1>2. IInv /\ [Next]_vars => [Delivered!Next]_Delivered!deliveryVars
    BY StepDelivers DEF Delivered!Next, Delivered!deliveryVars, Atomic,
       committedBar, appliedBar
  <1>3. Spec => Delivered!Spec
    BY <1>1, <1>2, Invariance, PTL DEF Spec, Delivered!Spec
  <1>4. IInv /\ [Next]_vars =>
          [\A e \in Events : Style[e] = "atomic" /\ effects[e] > 0 =>
                               effects'[e] = effects[e]]_vars
    BY NeverAgain
  <1>5. Spec => [][\A e \in Events : Style[e] = "atomic" /\ effects[e] > 0 =>
                                        effects'[e] = effects[e]]_vars
    BY <1>4, Invariance, PTL DEF Spec
  <1> QED BY <1>3, <1>5 DEF ExactlyOnce
=============================================================================
