------------------------------- MODULE SlaTimer -------------------------------
(***************************************************************************)
(* The SLA engine of apps/product-configurator: rows of sla_timer, started *)
(* and resolved over REST and by the Kafka consumer, breached by a cron.   *)
(*                                                                         *)
(* Every handler reads in one statement and writes in a later one, with    *)
(* awaits in between and no lock: an operation is a Lookup action that     *)
(* takes a snapshot and a Save action that writes it back.  TypeORM's save *)
(* updates the columns in which the entity differs from the row; of the    *)
(* columns kept here only the status ever differs, so a save is one        *)
(* assignment of it, whatever the row has become since the lookup.         *)
(***************************************************************************)
EXTENDS Naturals, FiniteSets

CONSTANTS
    Keys,          \* (funder, slaCode, subjectType, subjectId) tuples
    TimerIds,      \* ids the sla_timer sequence can hand out (bounds the rows)
    StartEvents,   \* eventIds of SLA_TIMER_START messages
    CancelEvents,  \* eventIds of SLA_TIMER_CANCEL messages
    KeyOf,         \* the subject a message names
    Requests,      \* REST requests in flight
    CronRuns,      \* runs of fireOverdueTimers that may overlap
    Windows,       \* template windows, in ticks of the clock
    TakeLimit,     \* timers one cron run lists (100 in the code)
    MaxNow,        \* bound on the clock
    MaxFaults,     \* bound on crashes and failed statements
    NONE           \* SQL null, and "no snapshot"

Events == StartEvents \cup CancelEvents

ASSUME ConstantsAssumption ==
    /\ KeyOf \in [Events -> Keys]
    /\ StartEvents \cap CancelEvents = {}
    /\ Windows \subseteq Nat \ {0}
    /\ TakeLimit \in Nat \ {0}
    /\ MaxNow \in Nat /\ MaxFaults \in Nat
    /\ NONE \notin Keys /\ NONE \notin TimerIds /\ NONE \notin Events
    /\ NONE \notin Nat

VARIABLES
    now,        \* the wall clock
    timers,     \* sla_timer: id -> row
    template,   \* sla_template of each key's slaCode: NONE or its settings
    published,  \* eventIds the producers have put on the two topics
    processed,  \* processed_event
    rejected,   \* START events whose rejection the consumer logged
    breaches,   \* number of SLA_BREACHED outbox rows recorded for a timer
    rest,       \* per REST request: the write it is about to make
    consumer,   \* the Kafka consumer: the message in hand and its write
    cron,       \* per cron run: the ids still to visit and the row re-read
    faults      \* crashes and failed statements so far

vars == <<now, timers, template, published, processed, rejected, breaches,
          rest, consumer, cron, faults>>

Status == {"ABSENT", "RUNNING", "RESOLVED", "BREACHED"}

\* "origin" is a ghost: the START event that inserted the row, if one did.
Row == [key : Keys \cup {NONE}, status : Status, deadline : Nat,
        origin : Events \cup {NONE}]

AbsentRow ==
    [key |-> NONE, status |-> "ABSENT", deadline |-> 0, origin |-> NONE]

Template == [active : BOOLEAN, window : Windows]

\* What a handler will write once its reads are done.
NoWrite == [op |-> "none"]
Write == {NoWrite} \cup [op : {"insert"}, row : Row]
                   \cup [op : {"update"}, id : TimerIds, row : Row]

IdleConsumer == [pc |-> "idle"]
IdleCron     == [queue |-> {}, read |-> NoWrite]

-----------------------------------------------------------------------------
\* Queries

IsRunning(i) == timers[i].status = "RUNNING"

\* Mutant: the subject is left out of the where clause.
AnyRunning(k) == {i \in TimerIds : IsRunning(i)}

RunningFor(k) == {i \in TimerIds : IsRunning(i) /\ timers[i].key = k}

\* Mutant: lists the timers due now and misses those already past.
DueNow == {i \in TimerIds : IsRunning(i) /\ timers[i].deadline = now}

\* Mutant: the deadline is left out of the where clause.
AllRunning == {i \in TimerIds : IsRunning(i)}

Overdue == {i \in TimerIds : IsRunning(i) /\ timers[i].deadline < now}

TemplateUsable(k) == template[k] # NONE /\ template[k].active

NewRow(k, from, e) ==
    [key |-> k, status |-> "RUNNING", deadline |-> from + template[k].window,
     origin |-> e]

\* Mutant: a stopped timer of the subject is started again in place.
RestartWrite(k, from, e) ==
    IF \E i \in TimerIds : timers[i].key = k
    THEN LET i == CHOOSE i \in TimerIds : timers[i].key = k
         IN  [op |-> "update", id |-> i, row |-> NewRow(k, from, e)]
    ELSE [op |-> "insert", row |-> NewRow(k, from, e)]

\* start(): the insert to make, or none when the timer already runs.
StartWrite(k, from, e) ==
    IF RunningFor(k) # {} THEN NoWrite
    ELSE [op |-> "insert", row |-> NewRow(k, from, e)]

ResolveWrite(i) ==
    [op |-> "update", id |-> i, row |-> [timers[i] EXCEPT !.status = "RESOLVED"]]

\* Mutant: the migration forgets the index.
NoIndex(row) == TRUE

\* The partial unique index UQ_sla_timer_running_subject.
IndexAccepts(row) == RunningFor(row.key) = {}

\* A statement that succeeds; an insert takes an unused id.
Perform(w) ==
    \/ w.op = "none" /\ UNCHANGED timers
    \/ /\ w.op = "insert"
       /\ IndexAccepts(w.row)
       /\ \E i \in TimerIds : /\ timers[i].status = "ABSENT"
                               /\ timers' = [timers EXCEPT ![i] = w.row]
    \/ w.op = "update" /\ timers' = [timers EXCEPT ![w.id] = w.row]

\* A statement that throws: the index refuses it, or the database fails.
Fails(w) ==
    \/ w.op = "insert" /\ ~IndexAccepts(w.row) /\ UNCHANGED faults
    \/ w.op # "none" /\ faults < MaxFaults /\ faults' = faults + 1

-----------------------------------------------------------------------------
Init ==
    /\ now = 0
    /\ timers = [i \in TimerIds |-> AbsentRow]
    /\ template \in [Keys -> Template]
    /\ published = {} /\ processed = {} /\ rejected = {}
    /\ breaches = [i \in TimerIds |-> 0]
    /\ rest = [r \in Requests |-> NoWrite]
    /\ consumer = IdleConsumer
    /\ cron = [c \in CronRuns |-> IdleCron]
    /\ faults = 0

Tick ==
    /\ now < MaxNow
    /\ now' = now + 1
    /\ UNCHANGED <<timers, template, published, processed, rejected, breaches,
                   rest, consumer, cron, faults>>

\* The administrator edits or deletes a template; the foreign key keeps one
\* that a timer references.
UpsertTemplate(k) ==
    /\ \E t \in Template : template' = [template EXCEPT ![k] = t]
    /\ UNCHANGED <<now, timers, published, processed, rejected, breaches,
                   rest, consumer, cron, faults>>

DeleteTemplate(k) ==
    /\ \A i \in TimerIds : timers[i].key # k
    /\ template' = [template EXCEPT ![k] = NONE]
    /\ UNCHANGED <<now, timers, published, processed, rejected, breaches,
                   rest, consumer, cron, faults>>

-----------------------------------------------------------------------------
\* REST: POST /api/sla/timers and POST /api/sla/timers/:id/resolve. A start may
\* name any startedAt.

RestStartLookup(r, k) ==
    /\ rest[r] = NoWrite
    /\ TemplateUsable(k)
    /\ \E from \in 0..MaxNow :
         rest' = [rest EXCEPT ![r] = StartWrite(k, from, NONE)]
    /\ UNCHANGED <<now, timers, template, published, processed, rejected,
                   breaches, consumer, cron, faults>>

RestResolveLookup(r, i) ==
    /\ rest[r] = NoWrite
    /\ IsRunning(i)
    /\ rest' = [rest EXCEPT ![r] = ResolveWrite(i)]
    /\ UNCHANGED <<now, timers, template, published, processed, rejected,
                   breaches, consumer, cron, faults>>

RestSave(r) ==
    /\ rest[r] # NoWrite
    /\ \/ Perform(rest[r]) /\ UNCHANGED faults
       \/ Fails(rest[r]) /\ UNCHANGED timers
    /\ rest' = [rest EXCEPT ![r] = NoWrite]
    /\ UNCHANGED <<now, template, published, processed, rejected, breaches,
                   consumer, cron>>

-----------------------------------------------------------------------------
\* Kafka: the producers' relays publish (at least once, two topics, no order
\* between them), so any published message may be delivered at any time, again
\* too. One process consumes, one message after the other.

Publish(e) ==
    /\ e \notin published
    /\ published' = published \cup {e}
    /\ UNCHANGED <<now, timers, template, processed, rejected, breaches,
                   rest, consumer, cron, faults>>

Holding(e, w) == [pc |-> "holding", event |-> e, write |-> w]
Handled(e)    == [pc |-> "handled", event |-> e]

OnTimerStart(e) ==
    /\ consumer = IdleConsumer
    /\ e \in published \cap StartEvents
    /\ e \notin processed
    /\ IF TemplateUsable(KeyOf[e])
       THEN /\ consumer' = Holding(e, StartWrite(KeyOf[e], now, e))
            /\ UNCHANGED rejected
       ELSE /\ consumer' = Handled(e)
            /\ rejected' = rejected \cup {e}
    /\ UNCHANGED <<now, timers, template, published, processed, breaches,
                   rest, cron, faults>>

OnTimerCancel(e) ==
    /\ consumer = IdleConsumer
    /\ e \in published \cap CancelEvents
    /\ e \notin processed
    /\ \/ /\ RunningFor(KeyOf[e]) = {}
          /\ consumer' = Handled(e)
       \/ \E i \in RunningFor(KeyOf[e]) : consumer' = Holding(e, ResolveWrite(i))
    /\ UNCHANGED <<now, timers, template, published, processed, rejected,
                   breaches, rest, cron, faults>>

ConsumerSave ==
    /\ consumer.pc = "holding"
    /\ Perform(consumer.write)
    /\ consumer' = Handled(consumer.event)
    /\ UNCHANGED <<now, template, published, processed, rejected, breaches,
                   rest, cron, faults>>

\* Mutant: a failing cancel is caught, logged and recorded like a start.
ConsumerSwallows ==
    /\ consumer.pc = "holding"
    /\ Fails(consumer.write)
    /\ rejected' = rejected \cup {consumer.event}
    /\ consumer' = Handled(consumer.event)
    /\ UNCHANGED <<now, timers, template, published, processed, breaches,
                   rest, cron>>

\* A failing start is caught, logged and then recorded as processed; a failing
\* cancel throws out of the handler, before the record.
ConsumerSaveFails ==
    /\ consumer.pc = "holding"
    /\ Fails(consumer.write)
    /\ IF consumer.event \in StartEvents
       THEN /\ rejected' = rejected \cup {consumer.event}
            /\ consumer' = Handled(consumer.event)
       ELSE consumer' = IdleConsumer /\ UNCHANGED rejected
    /\ UNCHANGED <<now, timers, template, published, processed, breaches,
                   rest, cron>>

\* A transaction of its own, after the business write has committed.
RecordProcessed ==
    /\ consumer.pc = "handled"
    /\ processed' = processed \cup {consumer.event}
    /\ consumer' = IdleConsumer
    /\ UNCHANGED <<now, timers, template, published, rejected, breaches,
                   rest, cron, faults>>

-----------------------------------------------------------------------------
\* fireOverdueTimers: list, then re-read and breach each timer by deadline.

EarliestOf(S) == {i \in S : \A j \in S : timers[i].deadline <= timers[j].deadline}

\* The first TakeLimit overdue timers by deadline.
Listing(S) ==
    /\ S \subseteq Overdue
    /\ IF Cardinality(Overdue) <= TakeLimit
       THEN S = Overdue
       ELSE /\ Cardinality(S) = TakeLimit
            /\ \A i \in S, j \in Overdue \ S :
                 timers[i].deadline <= timers[j].deadline

CronList(c) ==
    /\ cron[c] = IdleCron
    /\ \E S \in SUBSET TimerIds :
         Listing(S) /\ cron' = [cron EXCEPT ![c].queue = S]
    /\ UNCHANGED <<now, timers, template, published, processed, rejected,
                   breaches, rest, consumer, faults>>

\* Mutant: the breach is stamped and announced, the status forgotten.
StampOnlyWrite(i) == [op |-> "update", id |-> i, row |-> timers[i]]

BreachWrite(i) ==
    [op |-> "update", id |-> i, row |-> [timers[i] EXCEPT !.status = "BREACHED"]]

\* The transaction's findOne: a timer no longer RUNNING is skipped.
BreachRead(c) ==
    /\ cron[c].read = NoWrite
    /\ \E i \in EarliestOf(cron[c].queue) :
         cron' = [cron EXCEPT ![c] =
                    [queue |-> cron[c].queue \ {i},
                     read  |-> IF IsRunning(i) THEN BreachWrite(i) ELSE NoWrite]]
    /\ UNCHANGED <<now, timers, template, published, processed, rejected,
                   breaches, rest, consumer, faults>>

\* The transaction's save and outbox insert commit together.
BreachCommit(c) ==
    /\ cron[c].read.op = "update"
    /\ Perform(cron[c].read)
    /\ breaches' = [breaches EXCEPT ![cron[c].read.id] = @ + 1]
    /\ cron' = [cron EXCEPT ![c].read = NoWrite]
    /\ UNCHANGED <<now, template, published, processed, rejected, rest,
                   consumer, faults>>

BreachRollback(c) ==
    /\ cron[c].read.op = "update"
    /\ Fails(cron[c].read)
    /\ cron' = [cron EXCEPT ![c].read = NoWrite]
    /\ UNCHANGED <<now, timers, template, published, processed, rejected,
                   breaches, rest, consumer>>

-----------------------------------------------------------------------------
\* The process dies: REST requests, the message in hand and the cron runs are
\* gone, the database stays; Kafka delivers the message again.
Crash ==
    /\ faults < MaxFaults
    /\ faults' = faults + 1
    /\ rest' = [r \in Requests |-> NoWrite]
    /\ consumer' = IdleConsumer
    /\ cron' = [c \in CronRuns |-> IdleCron]
    /\ UNCHANGED <<now, timers, template, published, processed, rejected,
                   breaches>>

Next ==
    \/ Tick
    \/ \E k \in Keys : UpsertTemplate(k) \/ DeleteTemplate(k)
    \/ \E r \in Requests :
         \/ \E k \in Keys : RestStartLookup(r, k)
         \/ \E i \in TimerIds : RestResolveLookup(r, i)
         \/ RestSave(r)
    \/ \E e \in Events : Publish(e) \/ OnTimerStart(e) \/ OnTimerCancel(e)
    \/ ConsumerSave \/ ConsumerSaveFails \/ RecordProcessed
    \/ \E c \in CronRuns :
         CronList(c) \/ BreachRead(c) \/ BreachCommit(c) \/ BreachRollback(c)
    \/ Crash

Spec == Init /\ [][Next]_vars

\* The scheduler runs the cron every 30 seconds and a run goes through its list;
\* nothing obliges a request or a message to arrive.
CronFairness ==
    \A c \in CronRuns :
        WF_vars(CronList(c)) /\ WF_vars(BreachRead(c)) /\ WF_vars(BreachCommit(c))

FairSpec == Spec /\ CronFairness

-----------------------------------------------------------------------------
\* Every variable holds a value the code can give it.
TypeOK ==
    /\ now \in 0..MaxNow
    /\ timers \in [TimerIds -> Row]
    /\ template \in [Keys -> Template \cup {NONE}]
    /\ published \subseteq Events
    /\ processed \subseteq Events
    /\ rejected \subseteq StartEvents
    /\ breaches \in [TimerIds -> Nat]
    /\ rest \in [Requests -> Write]
    /\ consumer \in {IdleConsumer}
                      \cup [pc : {"holding"}, event : Events, write : Write]
                      \cup [pc : {"handled"}, event : Events]
    /\ cron \in [CronRuns -> [queue : SUBSET TimerIds, read : Write]]
    /\ faults \in Nat

\* At most one RUNNING timer per (funder, slaCode, subject): start() looks
\* before it inserts, two starts can both see nothing, and only the partial
\* unique index stands between them.
OneRunningPerSubject ==
    \A i, j \in TimerIds :
        IsRunning(i) /\ IsRunning(j) /\ timers[i].key = timers[j].key => i = j

\* The breach and its SLA_BREACHED event commit together: whichever resolve,
\* second run or crash comes between, a BREACHED timer has told its flow, and
\* nobody is told of a deadline that has not passed.
BreachIsAnnounced ==
    \A i \in TimerIds :
        /\ timers[i].status = "BREACHED" => breaches[i] > 0
        /\ breaches[i] > 0 => timers[i].deadline < now

\* Whatever comes between, a subject has one clock, and the clock tells the truth.
ClockIsTruthful == OneRunningPerSubject /\ BreachIsAnnounced

\* With runs of the cron that never overlap, re-reading the row in the
\* transaction is enough: no timer is announced twice, whatever resolves do.
BreachedOnce == \A i \in TimerIds : breaches[i] <= 1

\* A START recorded in processed_event is never lost silently: its subject has
\* a timer, or the rejection was logged; the record comes after the insert.
ProcessedStartIsKept ==
    \A e \in processed \cap StartEvents :
        e \in rejected \/ \E i \in TimerIds : timers[i].key = KeyOf[e]

\* A start that is recorded has its timer, and with cron runs that never overlap
\* a breach is announced once.
KeptAndToldOnce == ProcessedStartIsKept /\ BreachedOnce

\* A stopped timer is never revived, however stale the entity that is saved
\* over it, and no save moves a timer to another subject or deadline.
OnlyStops(i) ==
    timers[i].status # "ABSENT" =>
        /\ timers'[i].status # "ABSENT"
        /\ timers'[i].key = timers[i].key
        /\ timers'[i].deadline = timers[i].deadline
        /\ timers'[i].status = "RUNNING" => IsRunning(i)

TimersOnlyStop == [][\A i \in TimerIds : OnlyStops(i)]_vars

\* The cron gets to every overdue timer, also after crashes and rollbacks.
OverdueStops ==
    \A i \in TimerIds :
        (IsRunning(i) /\ timers[i].deadline < now) ~> ~IsRunning(i)

\* The promise of SlaClock: per subject one clock, stopped or fired.
ClockOf(k) == {timers[i].deadline : i \in RunningFor(k)}

Identity(i) == <<timers[i].key, timers[i].deadline>>

Deadlines == {n + w : n \in 0..MaxNow, w \in Windows}

clockBar   == [k \in Keys |-> ClockOf(k)]
startedBar == {Identity(i) : i \in {j \in TimerIds : timers[j].status # "ABSENT"}}
firedBar   == {Identity(i) : i \in {j \in TimerIds : breaches[j] > 0}}

Clock == INSTANCE SlaClock
         WITH clock <- clockBar, started <- startedBar, fired <- firedBar

\* The rows, the index and the stale saves amount to one clock per subject that
\* only a cancel or its passed deadline stops, and that fires only when due.
ImplementsClock == Clock!Spec

\* sla-breach.service.ts: "Re-read inside the transaction so a concurrent
\* resolve wins cleanly": a committed resolve is never overwritten.
ResolveWins ==
    [][\A i \in TimerIds :
         timers[i].status = "RESOLVED" => timers'[i].status = "RESOLVED"]_vars

\* sla-timer.entity.ts: "a duplicate start is a no-op returning the existing
\* timer, so at-least-once Kafka delivery is naturally safe".
DuplicateStartIsNoOp ==
    \A i, j \in TimerIds :
        timers[i].origin = timers[j].origin /\ timers[i].origin # NONE => i = j

\* sla.consumer.ts: a rejected start is "a producer bug, not a retryable
\* fault": a start is rejected only when its template is missing or inactive.
RejectedIsProducerBug ==
    [][\A e \in rejected' \ rejected : ~TemplateUsable(KeyOf[e])]_vars
=============================================================================
