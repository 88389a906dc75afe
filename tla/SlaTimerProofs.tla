---------------------------- MODULE SlaTimerProofs ----------------------------
(***************************************************************************)
(* Proofs about SlaTimer, for any number of subjects, timers, requests,    *)
(* cron runs and messages, any windows and any number of faults.           *)
(***************************************************************************)
EXTENDS SlaTimer, TLAPS

USE DEF Events, Status

-----------------------------------------------------------------------------
(* Type correctness. *)

\* What start() computes is a write of a well-formed row.
LEMMA StartWriteType ==
    ASSUME TypeOK, ConstantsAssumption, NEW k \in Keys, TemplateUsable(k),
           NEW from \in Nat, NEW e \in Events \cup {NONE}
    PROVE  StartWrite(k, from, e) \in Write
<1>1. template[k] \in Template
  BY DEF TypeOK, TemplateUsable
<1>2. template[k].window \in Nat
  BY <1>1 DEF Template, ConstantsAssumption
<1>3. NewRow(k, from, e) \in Row
  BY <1>2 DEF NewRow, Row
<1> QED
  BY <1>3 DEF StartWrite, Write

\* So is what a resolve computes, and what the cron computes.
LEMMA UpdateWriteType ==
    ASSUME TypeOK, NEW i \in TimerIds
    PROVE  ResolveWrite(i) \in Write /\ BreachWrite(i) \in Write
<1>1. timers[i] \in Row /\ now \in Nat
  BY DEF TypeOK
<1>2. [timers[i] EXCEPT !.status = "RESOLVED"] \in Row
  BY <1>1 DEF Row
<1>3. [timers[i] EXCEPT !.status = "BREACHED"] \in Row
  BY <1>1 DEF Row
<1> QED
  BY <1>2, <1>3 DEF ResolveWrite, BreachWrite, Write

\* A statement that succeeds leaves rows.
LEMMA PerformType ==
    ASSUME timers \in [TimerIds -> Row], NEW w \in Write, Perform(w)
    PROVE  timers' \in [TimerIds -> Row]
<1>1. CASE w.op = "none"
  BY <1>1 DEF Perform
<1>2. CASE w.op = "insert"
  <2>1. w.row \in Row
    BY <1>2 DEF Write, NoWrite
  <2> QED
    BY <1>2, <2>1 DEF Perform
<1>3. CASE w.op = "update"
  <2>1. w.row \in Row /\ w.id \in TimerIds
    BY <1>3 DEF Write, NoWrite
  <2> QED
    BY <1>3, <2>1 DEF Perform
<1> QED
  BY <1>1, <1>2, <1>3 DEF Perform

\* What the consumer holds, by its program counter.
LEMMA ConsumerType ==
    ASSUME TypeOK
    PROVE  /\ consumer.pc = "holding" =>
                consumer.event \in Events /\ consumer.write \in Write
           /\ consumer.pc = "handled" => consumer.event \in Events
BY DEF TypeOK, IdleConsumer

LEMMA TypeInit == ASSUME ConstantsAssumption, Init PROVE TypeOK
<1>1. AbsentRow \in Row
  BY DEF AbsentRow, Row
<1>2. IdleCron \in [queue : SUBSET TimerIds, read : Write]
  BY DEF IdleCron, Write
<1> QED
  BY <1>1, <1>2 DEF Init, TypeOK, Write

LEMMA TypeStep ==
    ASSUME ConstantsAssumption, TypeOK, [Next]_vars
    PROVE  TypeOK'
<1> USE ConstantsAssumption
<1>0. NoWrite \in Write
  BY DEF Write
<1>1. CASE Tick
  BY <1>1 DEF Tick, TypeOK
<1>2. ASSUME NEW k \in Keys, UpsertTemplate(k) \/ DeleteTemplate(k)
      PROVE  TypeOK'
  BY <1>2 DEF UpsertTemplate, DeleteTemplate, TypeOK
<1>3. ASSUME NEW r \in Requests, NEW k \in Keys, RestStartLookup(r, k)
      PROVE  TypeOK'
  <2>1. PICK from \in 0..MaxNow :
          rest' = [rest EXCEPT ![r] = StartWrite(k, from, NONE)]
    BY <1>3 DEF RestStartLookup
  <2>2. StartWrite(k, from, NONE) \in Write
    BY <1>3, StartWriteType DEF RestStartLookup
  <2> QED
    BY <1>3, <2>1, <2>2 DEF RestStartLookup, TypeOK
<1>4. ASSUME NEW r \in Requests, NEW i \in TimerIds, RestResolveLookup(r, i)
      PROVE  TypeOK'
  BY <1>4, UpdateWriteType DEF RestResolveLookup, TypeOK
<1>5. ASSUME NEW r \in Requests, RestSave(r)
      PROVE  TypeOK'
  <2>1. timers' \in [TimerIds -> Row]
    BY <1>5, PerformType DEF RestSave, TypeOK
  <2>2. faults' \in Nat
    BY <1>5 DEF RestSave, Fails, TypeOK
  <2> QED
    BY <1>0, <1>5, <2>1, <2>2 DEF RestSave, TypeOK
<1>6. ASSUME NEW e \in Events, Publish(e)
      PROVE  TypeOK'
  BY <1>6 DEF Publish, TypeOK
<1>7. ASSUME NEW e \in Events, OnTimerStart(e)
      PROVE  TypeOK'
  <2>1. KeyOf[e] \in Keys /\ e \in StartEvents /\ now \in Nat
    BY <1>7 DEF OnTimerStart, ConstantsAssumption, TypeOK
  <2>2. TemplateUsable(KeyOf[e]) => StartWrite(KeyOf[e], now, e) \in Write
    BY <2>1, StartWriteType
  <2> QED
    BY <1>7, <2>1, <2>2 DEF OnTimerStart, Holding, Handled, TypeOK
<1>8. ASSUME NEW e \in Events, OnTimerCancel(e)
      PROVE  TypeOK'
  <2>1. \A i \in RunningFor(KeyOf[e]) : ResolveWrite(i) \in Write
    BY UpdateWriteType DEF RunningFor
  <2> QED
    BY <1>8, <2>1 DEF OnTimerCancel, Holding, Handled, TypeOK
<1>9. CASE ConsumerSave
  <2>1. consumer.event \in Events /\ timers' \in [TimerIds -> Row]
    BY <1>9, ConsumerType, PerformType DEF ConsumerSave, TypeOK
  <2> QED
    BY <1>9, <2>1 DEF ConsumerSave, Handled, TypeOK
<1>10. CASE ConsumerSaveFails
  <2>1. consumer.event \in Events
    BY <1>10, ConsumerType DEF ConsumerSaveFails
  <2>2. faults' \in Nat
    BY <1>10 DEF ConsumerSaveFails, Fails, TypeOK
  <2> QED
    BY <1>10, <2>1, <2>2 DEF ConsumerSaveFails, Handled, TypeOK
<1>11. CASE RecordProcessed
  <2>1. consumer.event \in Events
    BY <1>11, ConsumerType DEF RecordProcessed
  <2> QED
    BY <1>11, <2>1 DEF RecordProcessed, TypeOK
<1>12. ASSUME NEW c \in CronRuns, CronList(c)
       PROVE  TypeOK'
  BY <1>12 DEF CronList, TypeOK
<1>13. ASSUME NEW c \in CronRuns, BreachRead(c)
       PROVE  TypeOK'
  <2>1. PICK i \in EarliestOf(cron[c].queue) :
          cron' = [cron EXCEPT ![c] =
                     [queue |-> cron[c].queue \ {i},
                      read  |-> IF IsRunning(i) THEN BreachWrite(i) ELSE NoWrite]]
    BY <1>13 DEF BreachRead
  <2>2. i \in TimerIds
    BY DEF EarliestOf, TypeOK
  <2>3. BreachWrite(i) \in Write
    BY <2>2, UpdateWriteType
  <2> QED
    BY <1>0, <1>13, <2>1, <2>3 DEF BreachRead, TypeOK
<1>14. ASSUME NEW c \in CronRuns, BreachCommit(c)
       PROVE  TypeOK'
  <2>1. cron[c].read \in Write
    BY DEF TypeOK
  <2>2. timers' \in [TimerIds -> Row]
    BY <1>14, <2>1, PerformType DEF BreachCommit, TypeOK
  <2>3. breaches' \in [TimerIds -> Nat]
    <3>1. cron[c].read.id \in TimerIds
      BY <1>14, <2>1 DEF BreachCommit, Write, NoWrite
    <3> QED
      BY <1>14, <3>1 DEF BreachCommit, TypeOK
  <2> QED
    BY <1>0, <1>14, <2>2, <2>3 DEF BreachCommit, TypeOK
<1>15. ASSUME NEW c \in CronRuns, BreachRollback(c)
       PROVE  TypeOK'
  BY <1>0, <1>15 DEF BreachRollback, Fails, TypeOK
<1>16. CASE Crash
  <2>1. IdleCron \in [queue : SUBSET TimerIds, read : Write]
    BY <1>0 DEF IdleCron
  <2> QED
    BY <1>0, <1>16, <2>1 DEF Crash, TypeOK
<1>17. CASE UNCHANGED vars
  BY <1>17 DEF vars, TypeOK
<1> QED
  BY <1>1, <1>2, <1>3, <1>4, <1>5, <1>6, <1>7, <1>8, <1>9, <1>10, <1>11,
     <1>12, <1>13, <1>14, <1>15, <1>16, <1>17 DEF Next

\* Every reachable state of the engine is well-formed.
THEOREM TypeCorrect == Spec => []TypeOK
<1>1. Init => TypeOK
  BY ConstantsAssumption, TypeInit
<1>2. TypeOK /\ [Next]_vars => TypeOK'
  BY ConstantsAssumption, TypeStep
<1> QED
  BY <1>1, <1>2, PTL DEF Spec

-----------------------------------------------------------------------------
(* The safety invariants.  A handler writes from what it read earlier, so  *)
(* the induction needs what stays true of its snapshot while others write: *)
(* an update goes to a row that exists and repeats its subject, deadline   *)
(* and origin; only the cron writes BREACHED, only over a row that was     *)
(* overdue; nothing but an insert writes RUNNING, and the unique index is  *)
(* consulted at the insert, not at the lookup.                             *)

Exists(i) == timers[i].status # "ABSENT"

\* The pending write w agrees with the row it will overwrite.
Agrees(w) ==
    w.op = "update" =>
        /\ Exists(w.id)
        /\ w.row.key = timers[w.id].key
        /\ w.row.deadline = timers[w.id].deadline

\* A write of the REST face or of the consumer.
StartOrResolve(w) ==
    /\ Agrees(w)
    /\ w.op = "insert" => /\ w.row.status = "RUNNING"
                          /\ w.row.key \in Keys
                          /\ w.row.deadline \in Deadlines
    /\ w.op = "update" => w.row.status = "RESOLVED"

\* A write of the cron.
Breach(w) ==
    /\ Agrees(w)
    /\ w.op \in {"none", "update"}
    /\ w.op = "update" => w.row.status = "BREACHED" /\ w.row.deadline < now

PendingWrites ==
    /\ \A r \in Requests : StartOrResolve(rest[r])
    /\ consumer.pc = "holding" => StartOrResolve(consumer.write)
    /\ \A c \in CronRuns :
         /\ Breach(cron[c].read)
         /\ \A i \in cron[c].queue : Exists(i) /\ timers[i].deadline < now

AnnouncedExists == \A i \in TimerIds : breaches[i] > 0 => Exists(i)

KeyedRows == \A i \in TimerIds : Exists(i) => timers[i].key \in Keys

IInv == /\ TypeOK
        /\ PendingWrites
        /\ KeyedRows
        /\ AnnouncedExists
        /\ OneRunningPerSubject
        /\ BreachIsAnnounced

RowsOnlyStop == \A i \in TimerIds : OnlyStops(i)

\* The writes the handlers make keep every row's identity and revive none.
LEMMA PerformOnlyStops ==
    ASSUME TypeOK, NEW w \in Write, Perform(w), StartOrResolve(w) \/ Breach(w)
    PROVE  RowsOnlyStop
<1>1. CASE w.op = "none"
  BY <1>1 DEF Perform, RowsOnlyStop, OnlyStops, IsRunning
<1>2. CASE w.op = "insert"
  <2>1. PICK i \in TimerIds : timers[i].status = "ABSENT"
                              /\ timers' = [timers EXCEPT ![i] = w.row]
    BY <1>2 DEF Perform
  <2> QED
    BY <2>1 DEF RowsOnlyStop, OnlyStops, IsRunning, TypeOK
<1>3. CASE w.op = "update"
  <2>1. w.id \in TimerIds /\ timers' = [timers EXCEPT ![w.id] = w.row]
    BY <1>3 DEF Perform, Write, NoWrite
  <2>2. /\ w.row.key = timers[w.id].key
        /\ w.row.deadline = timers[w.id].deadline
        /\ w.row.status \in {"RESOLVED", "BREACHED"}
    BY <1>3 DEF StartOrResolve, Breach, Agrees
  <2> QED
    BY <2>1, <2>2 DEF RowsOnlyStop, OnlyStops, IsRunning, TypeOK
<1> QED
  BY <1>1, <1>2, <1>3 DEF Perform

\* Hence no step does anything else to a row.
LEMMA StepOnlyStops ==
    ASSUME TypeOK, PendingWrites, [Next]_vars
    PROVE  RowsOnlyStop
<1>0. UNCHANGED timers => RowsOnlyStop
  BY DEF RowsOnlyStop, OnlyStops, IsRunning
<1>1. ASSUME NEW r \in Requests, RestSave(r)
      PROVE  RowsOnlyStop
  <2>1. rest[r] \in Write /\ StartOrResolve(rest[r])
    BY DEF TypeOK, PendingWrites
  <2> QED
    BY <1>0, <1>1, <2>1, PerformOnlyStops DEF RestSave
<1>2. CASE ConsumerSave
  <2>1. consumer.write \in Write /\ StartOrResolve(consumer.write)
    BY <1>2, ConsumerType DEF ConsumerSave, PendingWrites
  <2> QED
    BY <1>2, <2>1, PerformOnlyStops DEF ConsumerSave
<1>3. ASSUME NEW c \in CronRuns, BreachCommit(c)
      PROVE  RowsOnlyStop
  <2>1. cron[c].read \in Write /\ Breach(cron[c].read)
    BY DEF TypeOK, PendingWrites
  <2> QED
    BY <1>3, <2>1, PerformOnlyStops DEF BreachCommit
<1> QED
  BY <1>0, <1>1, <1>2, <1>3
     DEF Next, vars, Tick, UpsertTemplate, DeleteTemplate, RestStartLookup,
         RestResolveLookup, Publish, OnTimerStart, OnTimerCancel,
         ConsumerSaveFails, RecordProcessed, CronList, BreachRead,
         BreachRollback, Crash

\* A snapshot taken before a step agrees with the rows after it.
LEMMA SnapshotSurvives ==
    ASSUME RowsOnlyStop, NEW w \in Write, Agrees(w)
    PROVE  Agrees(w)'
BY DEF RowsOnlyStop, OnlyStops, Agrees, Exists, Write, NoWrite

LEMMA DeadlineSum ==
    ASSUME NEW n \in 0..MaxNow, NEW w \in Windows
    PROVE  n + w \in Deadlines
BY DEF Deadlines

\* What the lookups compute is a well-formed pending write.
LEMMA LookupWrites ==
    ASSUME TypeOK, ConstantsAssumption
    PROVE  /\ StartOrResolve(NoWrite) /\ Breach(NoWrite)
           /\ \A k \in Keys, from \in 0..MaxNow, e \in Events \cup {NONE} :
                TemplateUsable(k) => StartOrResolve(StartWrite(k, from, e))
           /\ \A i \in TimerIds : IsRunning(i) =>
                /\ StartOrResolve(ResolveWrite(i))
                /\ timers[i].deadline < now => Breach(BreachWrite(i))
<1>1. StartOrResolve(NoWrite) /\ Breach(NoWrite)
  BY DEF NoWrite, StartOrResolve, Breach, Agrees
<1>2. ASSUME NEW k \in Keys, NEW from \in 0..MaxNow, NEW e \in Events \cup {NONE},
             TemplateUsable(k)
      PROVE  StartOrResolve(StartWrite(k, from, e))
  <2>1. template[k].window \in Windows
    BY <1>2 DEF TypeOK, TemplateUsable, Template
  <2>2. from + template[k].window \in Deadlines
    BY <2>1, DeadlineSum
  <2> QED
    BY <1>1, <2>2 DEF StartWrite, NewRow, StartOrResolve, Agrees
<1>3. ASSUME NEW i \in TimerIds, IsRunning(i)
      PROVE  /\ StartOrResolve(ResolveWrite(i))
             /\ timers[i].deadline < now => Breach(BreachWrite(i))
  <2>1. timers[i] \in Row /\ Exists(i)
    BY <1>3 DEF TypeOK, IsRunning, Exists
  <2> QED
    BY <2>1 DEF ResolveWrite, BreachWrite, StartOrResolve, Breach, Agrees, Row
<1> QED
  BY <1>1, <1>2, <1>3

\* Pending writes stay well-formed whatever the other handlers do.
LEMMA PendingStep ==
    ASSUME ConstantsAssumption, TypeOK, PendingWrites, [Next]_vars
    PROVE  PendingWrites'
<1> USE ConstantsAssumption
<1>1. RowsOnlyStop /\ TypeOK'
  BY StepOnlyStops, TypeStep
<1>2. now \in Nat /\ now' \in Nat /\ now <= now'
  <2>1. now' = now \/ now' = now + 1
    BY DEF Next, vars, Tick, UpsertTemplate, DeleteTemplate, RestStartLookup,
           RestResolveLookup, RestSave, Publish, OnTimerStart, OnTimerCancel,
           ConsumerSave, ConsumerSaveFails, RecordProcessed, CronList,
           BreachRead, BreachCommit, BreachRollback, Crash
  <2> QED
    BY <2>1 DEF TypeOK
<1>3. \A w \in Write : StartOrResolve(w) => StartOrResolve(w)'
  BY <1>1, SnapshotSurvives DEF StartOrResolve
<1>4. \A w \in Write : Breach(w) => Breach(w)'
  <2> SUFFICES ASSUME NEW w \in Write, Breach(w) PROVE Breach(w)'
    OBVIOUS
  <2>1. Agrees(w)'
    BY <1>1, SnapshotSurvives DEF Breach
  <2>2. w.op = "update" => w.row.deadline \in Nat
    BY DEF Write, NoWrite, Row
  <2> QED
    BY <1>2, <2>1, <2>2 DEF Breach
<1>5. \A i \in TimerIds : Exists(i) /\ timers[i].deadline < now
                            => (Exists(i) /\ timers[i].deadline < now)'
  BY <1>1, <1>2 DEF RowsOnlyStop, OnlyStops, Exists, TypeOK, Row
<1>6. ASSUME NEW r \in Requests
      PROVE  StartOrResolve(rest[r])'
  <2>1. rest[r] \in Write /\ StartOrResolve(rest[r])
    BY DEF TypeOK, PendingWrites
  <2>2. CASE rest'[r] = rest[r]
    BY <1>3, <2>1, <2>2 DEF StartOrResolve, Agrees, Exists
  <2>3. CASE rest'[r] = NoWrite
    BY <2>3 DEF NoWrite, StartOrResolve, Agrees
  <2>4. CASE \E k \in Keys : RestStartLookup(r, k)
    <3>1. PICK k \in Keys, from \in 0..MaxNow :
            rest'[r] = StartWrite(k, from, NONE) /\ TemplateUsable(k)
      BY <2>4 DEF RestStartLookup, TypeOK
    <3>2. StartWrite(k, from, NONE) \in Write
      BY <3>1, StartWriteType
    <3>3. StartOrResolve(StartWrite(k, from, NONE))
      BY <3>1, LookupWrites
    <3> QED
      BY <1>3, <3>1, <3>2, <3>3 DEF StartOrResolve, Agrees, Exists
  <2>5. CASE \E i \in TimerIds : RestResolveLookup(r, i)
    <3>1. PICK i \in TimerIds : rest'[r] = ResolveWrite(i) /\ IsRunning(i)
      BY <2>5 DEF RestResolveLookup, TypeOK
    <3>2. ResolveWrite(i) \in Write
      BY UpdateWriteType
    <3>3. StartOrResolve(ResolveWrite(i))
      BY <3>1, LookupWrites
    <3> QED
      BY <1>3, <3>1, <3>2, <3>3 DEF StartOrResolve, Agrees, Exists
  <2> QED
    BY <2>2, <2>3, <2>4, <2>5
       DEF Next, vars, Tick, UpsertTemplate, DeleteTemplate, RestStartLookup,
           RestResolveLookup, RestSave, Publish, OnTimerStart, OnTimerCancel,
           ConsumerSave, ConsumerSaveFails, RecordProcessed, CronList,
           BreachRead, BreachCommit, BreachRollback, Crash, TypeOK
<1>7. ASSUME consumer'.pc = "holding"
      PROVE  StartOrResolve(consumer.write)'
  <2>1. CASE consumer' = consumer
    <3>1. consumer.write \in Write /\ StartOrResolve(consumer.write)
      BY <1>7, <2>1, ConsumerType DEF PendingWrites
    <3> QED
      BY <1>3, <2>1, <3>1 DEF StartOrResolve, Agrees, Exists
  <2>2. CASE \E e \in Events : OnTimerStart(e)
    <3>1. PICK e \in Events : OnTimerStart(e)
      BY <2>2
    <3> DEFINE w == StartWrite(KeyOf[e], now, e)
    <3>2. consumer' = Holding(e, w) /\ TemplateUsable(KeyOf[e])
      BY <1>7, <3>1 DEF OnTimerStart, Handled
    <3>3. KeyOf[e] \in Keys
      BY DEF ConstantsAssumption
    <3>4. w \in Write
      BY <1>2, <3>2, <3>3, StartWriteType
    <3>5. StartOrResolve(w)
      BY <3>2, <3>3, LookupWrites DEF TypeOK
    <3>6. consumer'.write = w
      BY <3>2 DEF Holding
    <3> QED
      BY <1>3, <3>4, <3>5, <3>6 DEF StartOrResolve, Agrees, Exists
  <2>3. CASE \E e \in Events : OnTimerCancel(e)
    <3>1. PICK e \in Events : OnTimerCancel(e)
      BY <2>3
    <3>2. PICK i \in RunningFor(KeyOf[e]) : consumer' = Holding(e, ResolveWrite(i))
      BY <1>7, <3>1 DEF OnTimerCancel, Handled
    <3>3. i \in TimerIds /\ IsRunning(i)
      BY DEF RunningFor
    <3>4. ResolveWrite(i) \in Write /\ StartOrResolve(ResolveWrite(i))
      BY <3>3, UpdateWriteType, LookupWrites
    <3>5. consumer'.write = ResolveWrite(i)
      BY <3>2 DEF Holding
    <3> QED
      BY <1>3, <3>4, <3>5 DEF StartOrResolve, Agrees, Exists
  <2> QED
    BY <1>7, <2>1, <2>2, <2>3
       DEF Next, vars, Tick, UpsertTemplate, DeleteTemplate, RestStartLookup,
           RestResolveLookup, RestSave, Publish, ConsumerSave, Handled,
           ConsumerSaveFails, RecordProcessed, CronList, IdleConsumer,
           BreachRead, BreachCommit, BreachRollback, Crash
<1>8. ASSUME NEW c \in CronRuns
      PROVE  /\ Breach(cron[c].read)'
             /\ \A i \in cron'[c].queue : (Exists(i) /\ timers[i].deadline < now)'
  <2>1. /\ cron[c].read \in Write /\ Breach(cron[c].read)
        /\ cron[c].queue \subseteq TimerIds
        /\ \A i \in cron[c].queue : Exists(i) /\ timers[i].deadline < now
    BY DEF TypeOK, PendingWrites
  <2>2. Breach(NoWrite)'
    BY DEF NoWrite, Breach, Agrees
  <2>3. CASE cron'[c] = cron[c]
    BY <1>4, <1>5, <2>1, <2>3 DEF Breach, Agrees, Exists
  <2>4. CASE cron'[c] = IdleCron
    BY <2>2, <2>4 DEF IdleCron, Breach, Agrees
  <2>5. CASE CronList(c)
    <3>1. PICK S \in SUBSET TimerIds :
            Listing(S) /\ cron' = [cron EXCEPT ![c].queue = S]
      BY <2>5 DEF CronList
    <3>2. cron'[c].queue = S /\ cron'[c].read = cron[c].read
      BY <3>1 DEF TypeOK
    <3>3. \A i \in S : Exists(i) /\ timers[i].deadline < now
      BY <3>1 DEF Listing, Overdue, Exists, IsRunning
    <3> QED
      BY <1>4, <1>5, <2>1, <3>2, <3>3 DEF Breach, Agrees, Exists
  <2>6. CASE BreachRead(c)
    <3>1. PICK i \in cron[c].queue :
            cron'[c] = [queue |-> cron[c].queue \ {i},
                        read  |-> IF IsRunning(i) THEN BreachWrite(i) ELSE NoWrite]
      BY <2>6 DEF BreachRead, EarliestOf, TypeOK
    <3>2. \A j \in cron'[c].queue : (Exists(j) /\ timers[j].deadline < now)'
      BY <1>5, <2>1, <3>1
    <3>3. CASE IsRunning(i)
      <4>1. cron'[c].read = BreachWrite(i)
        BY <3>1, <3>3
      <4>2. BreachWrite(i) \in Write /\ Breach(BreachWrite(i))
        BY <2>1, <3>3, UpdateWriteType, LookupWrites
      <4> QED
        BY <1>4, <3>2, <4>1, <4>2 DEF Breach, Agrees, Exists
    <3>4. CASE ~IsRunning(i)
      BY <2>2, <3>1, <3>2, <3>4 DEF Breach, Agrees, Exists
    <3> QED
      BY <3>3, <3>4
  <2>7. CASE BreachCommit(c) \/ BreachRollback(c)
    <3>1. cron'[c].queue = cron[c].queue /\ cron'[c].read = NoWrite
      BY <2>7 DEF BreachCommit, BreachRollback, TypeOK
    <3> QED
      BY <1>5, <2>1, <2>2, <3>1 DEF Breach, Agrees, Exists
  <2> QED
    BY <2>3, <2>4, <2>5, <2>6, <2>7
       DEF Next, vars, Tick, UpsertTemplate, DeleteTemplate, RestStartLookup,
           RestResolveLookup, RestSave, Publish, OnTimerStart, OnTimerCancel,
           ConsumerSave, ConsumerSaveFails, RecordProcessed, CronList,
           BreachRead, BreachCommit, BreachRollback, Crash, TypeOK
<1> QED
  BY <1>6, <1>7, <1>8 DEF PendingWrites

-----------------------------------------------------------------------------
(* The invariants themselves. *)

\* A statement that succeeds keeps one RUNNING row per subject: an insert by
\* the index, an update because it writes a stopped status.
LEMMA PerformKeepsOneRunning ==
    ASSUME TypeOK, OneRunningPerSubject, NEW w \in Write, Perform(w),
           StartOrResolve(w) \/ Breach(w)
    PROVE  OneRunningPerSubject'
<1>1. CASE w.op = "none"
  BY <1>1 DEF Perform, OneRunningPerSubject, IsRunning
<1>2. CASE w.op = "insert"
  <2>1. PICK n \in TimerIds : timers' = [timers EXCEPT ![n] = w.row]
    BY <1>2 DEF Perform
  <2>2. \A i \in TimerIds : ~(IsRunning(i) /\ timers[i].key = w.row.key)
    BY <1>2 DEF Perform, IndexAccepts, RunningFor
  <2> QED
    BY <2>1, <2>2 DEF OneRunningPerSubject, IsRunning, TypeOK
<1>3. CASE w.op = "update"
  <2>1. w.id \in TimerIds /\ timers' = [timers EXCEPT ![w.id] = w.row]
    BY <1>3 DEF Perform, Write, NoWrite
  <2>2. w.row.status # "RUNNING"
    BY <1>3 DEF StartOrResolve, Breach
  <2> QED
    BY <2>1, <2>2 DEF OneRunningPerSubject, IsRunning, TypeOK
<1> QED
  BY <1>1, <1>2, <1>3 DEF Perform

\* Three actions write timers: a REST save, a consumer save, a breach.
LEMMA WhoWrites ==
    ASSUME [Next]_vars
    PROVE  \/ UNCHANGED <<timers, breaches>>
           \/ \E r \in Requests : RestSave(r) /\ Perform(rest[r])
           \/ ConsumerSave
           \/ \E c \in CronRuns : BreachCommit(c)
BY DEF Next, vars, Tick, UpsertTemplate, DeleteTemplate, RestStartLookup,
       RestResolveLookup, RestSave, Publish, OnTimerStart, OnTimerCancel,
       ConsumerSaveFails, RecordProcessed, CronList, BreachRead,
       BreachRollback, Crash

\* The write of each, and what becomes of the announcements.
LEMMA WhatIsWritten ==
    ASSUME TypeOK, PendingWrites, [Next]_vars
    PROVE  \/ UNCHANGED <<timers, breaches>>
           \/ \E w \in Write : /\ Perform(w) /\ StartOrResolve(w)
                               /\ UNCHANGED <<breaches, now>>
           \/ \E w \in Write :
                /\ w.op = "update" /\ Perform(w) /\ Breach(w)
                /\ breaches' = [breaches EXCEPT ![w.id] = @ + 1]
                /\ UNCHANGED now
<1>1. ASSUME NEW r \in Requests, RestSave(r), Perform(rest[r])
      PROVE  \E w \in Write : /\ Perform(w) /\ StartOrResolve(w)
                              /\ UNCHANGED <<breaches, now>>
  BY <1>1 DEF RestSave, TypeOK, PendingWrites
<1>2. CASE ConsumerSave
  BY <1>2, ConsumerType DEF ConsumerSave, PendingWrites
<1>3. ASSUME NEW c \in CronRuns, BreachCommit(c)
      PROVE  \E w \in Write :
                /\ w.op = "update" /\ Perform(w) /\ Breach(w)
                /\ breaches' = [breaches EXCEPT ![w.id] = @ + 1]
                /\ UNCHANGED now
  BY <1>3 DEF BreachCommit, TypeOK, PendingWrites
<1> QED
  BY <1>1, <1>2, <1>3, WhoWrites

LEMMA OneRunningStep ==
    ASSUME TypeOK, PendingWrites, OneRunningPerSubject, [Next]_vars
    PROVE  OneRunningPerSubject'
<1>1. CASE UNCHANGED timers
  BY <1>1 DEF OneRunningPerSubject, IsRunning
<1> QED
  BY <1>1, WhatIsWritten, PerformKeepsOneRunning

LEMMA KeyedStep ==
    ASSUME TypeOK, PendingWrites, KeyedRows, [Next]_vars
    PROVE  KeyedRows'
<1>2. CASE UNCHANGED timers
  BY <1>2 DEF KeyedRows, Exists
<1>3. ASSUME NEW w \in Write, Perform(w), StartOrResolve(w) \/ Breach(w)
      PROVE  KeyedRows'
  <2>1. CASE w.op = "none"
    BY <1>3, <2>1 DEF Perform, KeyedRows, Exists
  <2>2. CASE w.op = "insert"
    <3>1. w.row.key \in Keys
      BY <1>3, <2>2 DEF StartOrResolve, Breach
    <3> QED
      BY <1>3, <2>2, <3>1 DEF Perform, KeyedRows, Exists, TypeOK
  <2>3. CASE w.op = "update"
    <3>1. Agrees(w)
      BY <1>3 DEF StartOrResolve, Breach
    <3> QED
      BY <1>3, <2>3, <3>1 DEF Perform, Agrees, KeyedRows, Exists, TypeOK
  <2> QED
    BY <1>3, <2>1, <2>2, <2>3 DEF Perform
<1> QED
  BY <1>2, <1>3, WhatIsWritten

LEMMA AnnouncedStep ==
    ASSUME IInv, ConstantsAssumption, [Next]_vars
    PROVE  AnnouncedExists' /\ BreachIsAnnounced'
<1>0. now \in Nat /\ now' \in Nat /\ now <= now'
  <2>1. now' = now \/ now' = now + 1
    BY DEF Next, vars, Tick, UpsertTemplate, DeleteTemplate, RestStartLookup,
           RestResolveLookup, RestSave, Publish, OnTimerStart, OnTimerCancel,
           ConsumerSave, ConsumerSaveFails, RecordProcessed, CronList,
           BreachRead, BreachCommit, BreachRollback, Crash
  <2> QED
    BY <2>1 DEF IInv, TypeOK
<1>1. RowsOnlyStop
  BY StepOnlyStops DEF IInv
<1>2. \A i \in TimerIds : timers[i].deadline \in Nat /\ breaches[i] \in Nat
  BY DEF IInv, TypeOK, Row
<1>3. CASE UNCHANGED <<timers, breaches>>
  BY <1>0, <1>2, <1>3 DEF IInv, AnnouncedExists, BreachIsAnnounced, Exists
<1>4. ASSUME NEW w \in Write, Perform(w), StartOrResolve(w), UNCHANGED <<breaches, now>>
      PROVE  AnnouncedExists' /\ BreachIsAnnounced'
  <2>1. \A i \in TimerIds : timers'[i].status = "BREACHED" =>
                              timers[i].status = "BREACHED"
    <3>1. CASE w.op = "none"
      BY <1>4, <3>1 DEF Perform
    <3>2. CASE w.op = "insert"
      <4>1. w.row.status = "RUNNING"
        BY <1>4, <3>2 DEF StartOrResolve
      <4> QED
        BY <1>4, <3>2, <4>1 DEF Perform, IInv, TypeOK
    <3>3. CASE w.op = "update"
      <4>1. w.row.status = "RESOLVED"
        BY <1>4, <3>3 DEF StartOrResolve
      <4> QED
        BY <1>4, <3>3, <4>1 DEF Perform, IInv, TypeOK
    <3> QED
      BY <1>4, <3>1, <3>2, <3>3 DEF Perform
  <2> QED
    BY <1>1, <1>4, <2>1
       DEF IInv, AnnouncedExists, BreachIsAnnounced, RowsOnlyStop, OnlyStops, Exists
<1>5. ASSUME NEW w \in Write, w.op = "update", Perform(w), Breach(w),
             breaches' = [breaches EXCEPT ![w.id] = @ + 1], UNCHANGED now
      PROVE  AnnouncedExists' /\ BreachIsAnnounced'
  <2>1. w.id \in TimerIds /\ timers' = [timers EXCEPT ![w.id] = w.row]
    BY <1>5 DEF Perform, Write, NoWrite
  <2>2. Exists(w.id) /\ w.row.deadline < now
    BY <1>5 DEF Breach, Agrees
  <2>3. timers'[w.id].deadline < now /\ breaches'[w.id] > 0
    BY <1>2, <1>5, <2>1, <2>2 DEF IInv, TypeOK
  <2>4. \A i \in TimerIds \ {w.id} : timers'[i] = timers[i] /\ breaches'[i] = breaches[i]
    BY <1>5, <2>1 DEF IInv, TypeOK
  <2> QED
    BY <1>1, <1>5, <2>1, <2>2, <2>3, <2>4
       DEF IInv, AnnouncedExists, BreachIsAnnounced, RowsOnlyStop, OnlyStops, Exists
<1> QED
  BY <1>3, <1>4, <1>5, WhatIsWritten DEF IInv

LEMMA InvInit == ASSUME ConstantsAssumption, Init PROVE IInv
<1>1. TypeOK
  BY TypeInit
<1>2. PendingWrites
  BY DEF Init, PendingWrites, StartOrResolve, Breach, Agrees, NoWrite,
         IdleConsumer, IdleCron
<1> QED
  BY <1>1, <1>2
     DEF Init, IInv, AnnouncedExists, KeyedRows, Exists, OneRunningPerSubject,
         BreachIsAnnounced, AbsentRow, IsRunning

LEMMA InvStep ==
    ASSUME ConstantsAssumption, IInv, [Next]_vars
    PROVE  IInv'
BY TypeStep, PendingStep, KeyedStep, OneRunningStep, AnnouncedStep DEF IInv

LEMMA Inductive == Spec => []IInv
<1>1. Init => IInv
  BY ConstantsAssumption, InvInit
<1>2. IInv /\ [Next]_vars => IInv'
  BY ConstantsAssumption, InvStep
<1> QED
  BY <1>1, <1>2, PTL DEF Spec

\* At most one RUNNING timer per (funder, slaCode, subject).
THEOREM OneRunning == Spec => []OneRunningPerSubject
<1>1. IInv => OneRunningPerSubject
  BY DEF IInv
<1> QED
  BY <1>1, Inductive, PTL

\* A breached timer has been announced, and none before its deadline.
THEOREM Announced == Spec => []BreachIsAnnounced
<1>1. IInv => BreachIsAnnounced
  BY DEF IInv
<1> QED
  BY <1>1, Inductive, PTL

\* One clock, and it tells the truth.
THEOREM Truthful == Spec => []ClockIsTruthful
<1>1. IInv => ClockIsTruthful
  BY DEF IInv, ClockIsTruthful
<1> QED
  BY <1>1, Inductive, PTL

\* No save revives a timer or moves it to another subject or deadline.
THEOREM OnlyStop == Spec => TimersOnlyStop
<1>1. IInv /\ [Next]_vars => [\A i \in TimerIds : OnlyStops(i)]_vars
  BY StepOnlyStops DEF IInv, RowsOnlyStop
<1> QED
  BY <1>1, Inductive, PTL DEF Spec, TimersOnlyStop

-----------------------------------------------------------------------------
(* The engine implements SlaClock. *)

\* A row of one subject does not show in the clocks of the others.
LEMMA ClockFrame ==
    ASSUME TypeOK, NEW n \in TimerIds, NEW row \in Row,
           timers' = [timers EXCEPT ![n] = row],
           NEW k \in Keys, k # row.key, k # timers[n].key \/ ~IsRunning(n)
    PROVE  ClockOf(k)' = ClockOf(k)
<1>1. RunningFor(k)' = RunningFor(k)
  BY DEF TypeOK, RunningFor, IsRunning
<1>2. \A i \in RunningFor(k) : timers'[i] = timers[i]
  BY DEF TypeOK, RunningFor, IsRunning
<1> QED
  BY <1>1, <1>2 DEF ClockOf

LEMMA ClockInit == ASSUME ConstantsAssumption, Init PROVE Clock!Init
<1>1. \A k \in Keys : ClockOf(k) = {}
  BY DEF Init, ClockOf, RunningFor, IsRunning, AbsentRow
<1>2. startedBar = {} /\ firedBar = {}
  BY DEF Init, startedBar, firedBar, AbsentRow
<1> QED
  BY <1>1, <1>2 DEF Init, Clock!Init, clockBar

\* Inserting a timer starts the clock of its subject.
LEMMA InsertStarts ==
    ASSUME IInv, NEW w \in Write, w.op = "insert", Perform(w), StartOrResolve(w),
           UNCHANGED <<breaches, now>>
    PROVE  Clock!Start(w.row.key, w.row.deadline)
<1> DEFINE k == w.row.key
           d == w.row.deadline
<1>1. w.row \in Row /\ k \in Keys /\ w.row.status = "RUNNING" /\ TypeOK
  BY DEF Write, NoWrite, StartOrResolve, IInv
<1>2. PICK n \in TimerIds : /\ timers[n].status = "ABSENT"
                            /\ timers' = [timers EXCEPT ![n] = w.row]
  BY DEF Perform
<1>3. RunningFor(k) = {}
  BY DEF Perform, IndexAccepts
<1>4. ClockOf(k) = {} /\ ClockOf(k)' = {d}
  <2>1. RunningFor(k)' = {n}
    BY <1>1, <1>2, <1>3 DEF RunningFor, IsRunning, TypeOK
  <2>2. timers'[n].deadline = d
    BY <1>1, <1>2 DEF TypeOK
  <2> QED
    BY <1>3, <2>1, <2>2 DEF ClockOf
<1>5. \A j \in Keys \ {k} : ClockOf(j)' = ClockOf(j)
  BY <1>1, <1>2, ClockFrame DEF IsRunning
<1>6. clockBar' = [clockBar EXCEPT ![k] = {d}] /\ clockBar[k] = {}
  BY <1>1, <1>4, <1>5 DEF clockBar
<1>7. startedBar' = startedBar \cup {<<k, d>>}
  <2>1. {j \in TimerIds : timers'[j].status # "ABSENT"}
          = {j \in TimerIds : timers[j].status # "ABSENT"} \cup {n}
    BY <1>1, <1>2 DEF TypeOK
  <2>2. \A j \in TimerIds : timers[j].status # "ABSENT" => Identity(j)' = Identity(j)
    BY <1>1, <1>2 DEF TypeOK, Identity
  <2>3. Identity(n)' = <<k, d>>
    BY <1>1, <1>2 DEF TypeOK, Identity
  <2> QED
    BY <2>1, <2>2, <2>3 DEF startedBar
<1>8. firedBar' = firedBar
  <2>1. \A j \in TimerIds : breaches[j] > 0 => Identity(j)' = Identity(j)
    BY <1>1, <1>2 DEF IInv, AnnouncedExists, Exists, TypeOK, Identity
  <2> QED
    BY <2>1 DEF firedBar
<1> QED
  BY <1>6, <1>7, <1>8 DEF Clock!Start

\* Saving a stopped status over a timer stops the clock if it was running.
LEMMA UpdateStops ==
    ASSUME IInv, NEW w \in Write, w.op = "update", Perform(w),
           StartOrResolve(w) \/ Breach(w)
    PROVE  LET k == timers[w.id].key
               d == timers[w.id].deadline
           IN  /\ k \in Keys /\ <<k, d>> \in startedBar
               /\ startedBar' = startedBar
               /\ \A i \in TimerIds : Identity(i)' = Identity(i)
               /\ IF IsRunning(w.id)
                  THEN d \in clockBar[k] /\ clockBar' = [clockBar EXCEPT ![k] = {}]
                  ELSE clockBar' = clockBar
<1> DEFINE n == w.id
<1>1. /\ n \in TimerIds /\ w.row \in Row /\ TypeOK
      /\ timers' = [timers EXCEPT ![n] = w.row]
  BY DEF Perform, Write, NoWrite, IInv
<1>2. Exists(n) /\ Agrees(w) /\ w.row.status \in {"RESOLVED", "BREACHED"}
  BY DEF StartOrResolve, Breach, Agrees
<1>3. PICK k \in Keys, d \in Nat : k = timers[n].key /\ d = timers[n].deadline
  BY <1>1, <1>2 DEF IInv, KeyedRows, TypeOK, Row
<1>4. /\ Exists(n) /\ w.row.key = k /\ w.row.deadline = d
      /\ w.row.status \in {"RESOLVED", "BREACHED"} /\ k \in Keys
  BY <1>2, <1>3 DEF Agrees
<1>5. \A i \in TimerIds : Identity(i)' = Identity(i)
  BY <1>1, <1>4, <1>3 DEF Identity, TypeOK
<1>6. startedBar' = startedBar /\ <<k, d>> \in startedBar
  <2>1. {j \in TimerIds : timers'[j].status # "ABSENT"}
          = {j \in TimerIds : timers[j].status # "ABSENT"}
    BY <1>1, <1>4 DEF Exists, TypeOK
  <2> QED
    BY <1>1, <1>4, <1>5, <1>3, <2>1 DEF startedBar, Exists, Identity
<1>7. \A j \in Keys \ {k} : ClockOf(j)' = ClockOf(j)
  BY <1>1, <1>4, <1>3, ClockFrame
<1>8. CASE IsRunning(n)
  <2>1. RunningFor(k) = {n} /\ RunningFor(k)' = {}
    BY <1>1, <1>4, <1>8, <1>3
       DEF IInv, OneRunningPerSubject, RunningFor, IsRunning, TypeOK
  <2>2. ClockOf(k) = {d} /\ ClockOf(k)' = {}
    BY <1>3, <2>1 DEF ClockOf
  <2>3. d \in clockBar[k] /\ clockBar' = [clockBar EXCEPT ![k] = {}]
    BY <1>4, <1>7, <2>2 DEF clockBar
  <2> QED
    BY <1>4, <1>5, <1>6, <1>8, <1>3, <2>3
<1>9. CASE ~IsRunning(n)
  <2>1. RunningFor(k)' = RunningFor(k)
    BY <1>1, <1>4, <1>9 DEF RunningFor, IsRunning, TypeOK
  <2>2. \A i \in RunningFor(k) : timers'[i].deadline = timers[i].deadline
    BY <1>1, <1>4, <1>3 DEF RunningFor, TypeOK
  <2>3. ClockOf(k)' = ClockOf(k)
    BY <2>1, <2>2 DEF ClockOf
  <2>4. clockBar' = clockBar
    BY <1>4, <1>7, <2>3 DEF clockBar
  <2> QED
    BY <1>4, <1>5, <1>6, <1>9, <1>3, <2>4
<1> QED
  BY <1>8, <1>9

\* Every step of the engine is a step of the clocks, or none.
LEMMA ClockStep ==
    ASSUME IInv, ConstantsAssumption, [Next]_vars
    PROVE  [Clock!Next]_(Clock!clockVars)
<1>1. CASE UNCHANGED <<timers, breaches>>
  <2>1. now' = now \/ now' = now + 1
    BY DEF Next, vars, Tick, UpsertTemplate, DeleteTemplate, RestStartLookup,
           RestResolveLookup, RestSave, Publish, OnTimerStart, OnTimerCancel,
           ConsumerSave, ConsumerSaveFails, RecordProcessed, CronList,
           BreachRead, BreachCommit, BreachRollback, Crash
  <2>2. UNCHANGED <<clockBar, startedBar, firedBar>>
    BY <1>1 DEF clockBar, startedBar, firedBar, ClockOf, RunningFor, IsRunning, Identity
  <2> QED
    BY <2>1, <2>2 DEF Clock!Next, Clock!Tick, Clock!clockVars
<1>2. ASSUME NEW w \in Write, Perform(w), StartOrResolve(w), UNCHANGED <<breaches, now>>
      PROVE  [Clock!Next]_(Clock!clockVars)
  <2>1. CASE w.op = "none"
    BY <1>1, <1>2, <2>1 DEF Perform
  <2>2. CASE w.op = "insert"
    <3>1. w.row.key \in Keys /\ w.row.deadline \in Deadlines
      BY <1>2, <2>2 DEF StartOrResolve
    <3>2. Clock!Start(w.row.key, w.row.deadline)
      BY <1>2, <2>2, InsertStarts
    <3> QED
      BY <3>1, <3>2 DEF Clock!Next
  <2>3. CASE w.op = "update"
    <3> DEFINE k == timers[w.id].key
    <3>1. /\ k \in Keys /\ startedBar' = startedBar
          /\ \A i \in TimerIds : Identity(i)' = Identity(i)
          /\ \/ clockBar[k] # {} /\ clockBar' = [clockBar EXCEPT ![k] = {}]
             \/ clockBar' = clockBar
      BY <1>2, <2>3, UpdateStops
    <3>2. firedBar' = firedBar
      BY <1>2, <3>1 DEF firedBar
    <3> QED
      BY <1>2, <3>1, <3>2 DEF Clock!Next, Clock!Cancel, Clock!clockVars
  <2> QED
    BY <1>2, <2>1, <2>2, <2>3 DEF Perform
<1>3. ASSUME NEW w \in Write, w.op = "update", Perform(w), Breach(w),
             breaches' = [breaches EXCEPT ![w.id] = @ + 1], UNCHANGED now
      PROVE  [Clock!Next]_(Clock!clockVars)
  <2> DEFINE k == timers[w.id].key
             d == timers[w.id].deadline
  <2>1. /\ k \in Keys /\ <<k, d>> \in startedBar /\ startedBar' = startedBar
        /\ \A i \in TimerIds : Identity(i)' = Identity(i)
        /\ \/ d \in clockBar[k] /\ clockBar' = [clockBar EXCEPT ![k] = {}]
           \/ clockBar' = clockBar
    BY <1>3, UpdateStops
  <2>2. d < now
    BY <1>3 DEF Breach, Agrees
  <2>3. firedBar' = firedBar \cup {<<k, d>>}
    <3>1. w.id \in TimerIds /\ breaches \in [TimerIds -> Nat]
      BY <1>3 DEF Write, NoWrite, IInv, TypeOK
    <3>2. {j \in TimerIds : breaches'[j] > 0} = {j \in TimerIds : breaches[j] > 0} \cup {w.id}
      BY <1>3, <3>1
    <3>3. Identity(w.id) = <<k, d>>
      BY DEF Identity
    <3> QED
      BY <2>1, <3>1, <3>2, <3>3 DEF firedBar
  <2>4. Clock!Fire(k, d)
    BY <1>3, <2>1, <2>2, <2>3 DEF Clock!Fire
  <2> QED
    BY <2>1, <2>4 DEF Clock!Next
<1> QED
  BY <1>1, <1>2, <1>3, WhatIsWritten DEF IInv

\* The engine implements SlaClock: one clock per subject, stopped by a cancel
\* or its passed deadline, announced only when due.
THEOREM Implements == Spec => ImplementsClock
<1>1. Init => Clock!Init
  BY ConstantsAssumption, ClockInit
<1>2. IInv /\ [Next]_vars => [Clock!Next]_(Clock!clockVars)
  BY ConstantsAssumption, ClockStep
<1> QED
  BY <1>1, <1>2, Inductive, PTL DEF Spec, ImplementsClock, Clock!Spec
-----------------------------------------------------------------------------
(* What the consumer records is kept, and one cron run at a time tells once. *)

\* The start e has its timer, or was told to have none.
Kept(e) ==
    \/ e \in rejected
    \/ \E i \in TimerIds : Exists(i) /\ timers[i].key = KeyOf[e]

\* A start in hand will insert its subject's timer, found one, or was handled.
StartInHand ==
    consumer.pc \in {"holding", "handled"} /\ consumer.event \in StartEvents =>
        \/ Kept(consumer.event)
        \/ /\ consumer.pc = "holding" /\ consumer.write.op = "insert"
           /\ consumer.write.row.key = KeyOf[consumer.event]

KeptInv == StartInHand /\ \A e \in processed \cap StartEvents : Kept(e)

\* What is kept stays kept: rows keep their subject, rejections are logged.
LEMMA KeptStays ==
    ASSUME IInv, [Next]_vars
    PROVE  \A e : Kept(e) => Kept(e)'
<1>1. rejected \subseteq rejected'
  BY DEF Next, vars, Tick, UpsertTemplate, DeleteTemplate, RestStartLookup,
         RestResolveLookup, RestSave, Publish, OnTimerStart, OnTimerCancel,
         ConsumerSave, ConsumerSaveFails, RecordProcessed, CronList,
         BreachRead, BreachCommit, BreachRollback, Crash
<1>2. RowsOnlyStop
  BY StepOnlyStops DEF IInv
<1> QED
  BY <1>1, <1>2 DEF Kept, RowsOnlyStop, OnlyStops, Exists

\* The insert of a start in hand keeps it.
LEMMA InsertKeeps ==
    ASSUME IInv, KeptInv, ConsumerSave, consumer.event \in StartEvents
    PROVE  Kept(consumer.event) \/ \E i \in TimerIds :
             timers'[i].status # "ABSENT" /\ timers'[i].key = KeyOf[consumer.event]
<1> SUFFICES ASSUME ~Kept(consumer.event)
             PROVE  \E i \in TimerIds : /\ timers'[i].status # "ABSENT"
                                        /\ timers'[i].key = KeyOf[consumer.event]
  OBVIOUS
<1>1. /\ consumer.write.op = "insert" /\ consumer.write \in Write
      /\ consumer.write.row.key = KeyOf[consumer.event]
      /\ StartOrResolve(consumer.write)
  BY ConsumerType DEF ConsumerSave, KeptInv, StartInHand, IInv, PendingWrites
<1>2. PICK i \in TimerIds : timers' = [timers EXCEPT ![i] = consumer.write.row]
  BY <1>1 DEF ConsumerSave, Perform
<1>3. timers'[i] = consumer.write.row /\ consumer.write.row.status = "RUNNING"
  BY <1>1, <1>2 DEF IInv, TypeOK, StartOrResolve
<1> QED
  BY <1>1, <1>3

LEMMA KeptStep ==
    ASSUME ConstantsAssumption, IInv, KeptInv, [Next]_vars
    PROVE  KeptInv'
<1> USE ConstantsAssumption
<1>0. \A e : Kept(e) => Kept(e)'
  BY KeptStays
<1>1. CASE consumer' = consumer /\ processed' = processed
  <2>1. consumer.event \in StartEvents /\ Kept(consumer.event) => Kept(consumer.event)'
    BY <1>0, <1>1 DEF Kept
  <2> QED
    BY <1>0, <1>1, <2>1 DEF KeptInv, StartInHand
<1>2. CASE consumer' = IdleConsumer /\ processed' = processed
  BY <1>0, <1>2 DEF KeptInv, StartInHand, IdleConsumer
<1>3. ASSUME NEW e \in Events, OnTimerStart(e)
      PROVE  KeptInv'
  <2>1. e \in StartEvents /\ processed' = processed
    BY <1>3 DEF OnTimerStart
  <2>2. CASE TemplateUsable(KeyOf[e]) /\ RunningFor(KeyOf[e]) = {}
    <3>1. consumer' = Holding(e, [op |-> "insert", row |-> NewRow(KeyOf[e], now, e)])
      BY <1>3, <2>2 DEF OnTimerStart, StartWrite
    <3>2. /\ consumer'.pc = "holding" /\ consumer'.event = e
          /\ consumer'.write.op = "insert" /\ consumer'.write.row.key = KeyOf[e]
      BY <3>1 DEF Holding, NewRow
    <3> QED
      BY <1>0, <2>1, <3>2 DEF KeptInv, StartInHand
  <2>3. CASE TemplateUsable(KeyOf[e]) /\ RunningFor(KeyOf[e]) # {}
    <3>1. Kept(e)
      BY <2>3 DEF Kept, RunningFor, IsRunning, Exists
    <3>2. consumer'.event = e
      BY <1>3, <2>3 DEF OnTimerStart, Holding
    <3>3. Kept(consumer.event)'
      BY <1>0, <3>1, <3>2 DEF Kept
    <3> QED
      BY <1>0, <2>1, <3>3 DEF KeptInv, StartInHand
  <2>4. CASE ~TemplateUsable(KeyOf[e])
    <3>1. consumer'.event = e /\ e \in rejected'
      BY <1>3, <2>4 DEF OnTimerStart, Handled
    <3>2. Kept(consumer.event)'
      BY <3>1 DEF Kept
    <3> QED
      BY <1>0, <2>1, <3>2 DEF KeptInv, StartInHand
  <2> QED
    BY <2>2, <2>3, <2>4
<1>4. ASSUME NEW e \in Events, OnTimerCancel(e)
      PROVE  KeptInv'
  <2>1. e \notin StartEvents /\ processed' = processed
    BY <1>4 DEF OnTimerCancel
  <2>2. consumer'.event = e
    BY <1>4 DEF OnTimerCancel, Handled, Holding
  <2> QED
    BY <1>0, <2>1, <2>2 DEF KeptInv, StartInHand
<1>5. CASE ConsumerSave
  <2>1. /\ consumer'.event = consumer.event /\ processed' = processed
        /\ consumer'.pc = "handled"
    BY <1>5 DEF ConsumerSave, Handled
  <2>2. consumer.event \in StartEvents => Kept(consumer.event)'
    BY <1>0, <1>5, <2>1, InsertKeeps DEF Kept, Exists
  <2> QED
    BY <1>0, <2>1, <2>2 DEF KeptInv, StartInHand
<1>6. CASE ConsumerSaveFails
  <2>1. processed' = processed
    BY <1>6 DEF ConsumerSaveFails
  <2>2. CASE consumer.event \in StartEvents
    <3>1. consumer'.event = consumer.event /\ consumer.event \in rejected'
      BY <1>6, <2>2 DEF ConsumerSaveFails, Handled
    <3>2. Kept(consumer.event)'
      BY <3>1 DEF Kept
    <3> QED
      BY <1>0, <2>1, <3>2 DEF KeptInv, StartInHand
  <2>3. CASE consumer.event \notin StartEvents
    BY <1>2, <1>6, <2>1, <2>3 DEF ConsumerSaveFails
  <2> QED
    BY <2>2, <2>3
<1>7. CASE RecordProcessed
  <2>1. consumer.event \in StartEvents => Kept(consumer.event)
    BY <1>7 DEF RecordProcessed, KeptInv, StartInHand
  <2>2. \A e \in processed' \cap StartEvents : Kept(e)
    BY <1>7, <2>1 DEF RecordProcessed, KeptInv
  <2> QED
    BY <1>0, <1>7, <2>2 DEF RecordProcessed, KeptInv, StartInHand, IdleConsumer
<1> QED
  BY <1>1, <1>2, <1>3, <1>4, <1>5, <1>6, <1>7
     DEF Next, vars, Tick, UpsertTemplate, DeleteTemplate, RestStartLookup,
         RestResolveLookup, RestSave, Publish, CronList,
         BreachRead, BreachCommit, BreachRollback, Crash

\* A start recorded in processed_event has its timer or its logged rejection,
\* for any number of cron runs, requests and faults.
THEOREM StartsKept == Spec => []ProcessedStartIsKept
<1>1. Init => KeptInv
  BY DEF Init, KeptInv, StartInHand, IdleConsumer
<1>2. IInv /\ KeptInv /\ [Next]_vars => KeptInv'
  BY ConstantsAssumption, KeptStep
<1>3. KeptInv => ProcessedStartIsKept
  BY DEF KeptInv, Kept, ProcessedStartIsKept
<1> QED
  BY <1>1, <1>2, <1>3, Inductive, PTL DEF Spec

\* Between its read and its commit the only cron run holds a timer that was
\* RUNNING and never announced; what was announced has stopped.
TellsOnce(c) ==
    /\ BreachedOnce
    /\ \A i \in TimerIds : breaches[i] > 0 => Exists(i) /\ ~IsRunning(i)
    /\ cron[c].read.op = "update" => breaches[cron[c].read.id] = 0

LEMMA TellsOnceStep ==
    ASSUME NEW c, CronRuns = {c}, IInv, TellsOnce(c), [Next]_vars
    PROVE  TellsOnce(c)'
<1>0. RowsOnlyStop /\ TypeOK
  BY StepOnlyStops DEF IInv
<1>1. CASE UNCHANGED breaches /\ cron'[c].read \in {cron[c].read, NoWrite}
  <2>1. \A i \in TimerIds : Exists(i) /\ ~IsRunning(i) => (Exists(i) /\ ~IsRunning(i))'
    BY <1>0 DEF RowsOnlyStop, OnlyStops, Exists, IsRunning
  <2> QED
    BY <1>1, <2>1 DEF TellsOnce, BreachedOnce, NoWrite
<1>2. CASE BreachRead(c)
  <2>1. PICK i \in cron[c].queue :
          cron'[c].read = IF IsRunning(i) THEN BreachWrite(i) ELSE NoWrite
    BY <1>0, <1>2 DEF BreachRead, EarliestOf, TypeOK
  <2>2. UNCHANGED <<timers, breaches>> /\ i \in TimerIds
    BY <1>0, <1>2 DEF BreachRead, TypeOK
  <2>3. IsRunning(i) => breaches[i] = 0
    BY <1>0, <2>2 DEF TellsOnce, TypeOK
  <2>4. cron'[c].read.op = "update" => breaches'[cron'[c].read.id] = 0
    BY <2>1, <2>2, <2>3 DEF BreachWrite, NoWrite
  <2> QED
    BY <2>2, <2>4 DEF TellsOnce, BreachedOnce, Exists, IsRunning
<1>3. CASE BreachCommit(c)
  <2> DEFINE w == cron[c].read
  <2>1. w \in Write /\ w.op = "update" /\ Perform(w) /\ Breach(w)
    BY <1>3 DEF BreachCommit, IInv, TypeOK, PendingWrites
  <2>2. w.id \in TimerIds /\ w.row.status = "BREACHED"
    BY <2>1 DEF Write, NoWrite, Breach
  <2>3. /\ breaches' = [breaches EXCEPT ![w.id] = @ + 1] /\ breaches[w.id] = 0
        /\ timers' = [timers EXCEPT ![w.id] = w.row] /\ cron'[c].read = NoWrite
    BY <1>0, <1>3, <2>1 DEF BreachCommit, Perform, TellsOnce, TypeOK
  <2>4. \A i \in TimerIds : breaches'[i] <= 1
    BY <1>0, <2>2, <2>3 DEF TellsOnce, BreachedOnce, TypeOK
  <2>5. \A i \in TimerIds : breaches'[i] > 0 => (Exists(i) /\ ~IsRunning(i))'
    BY <1>0, <2>2, <2>3 DEF TellsOnce, Exists, IsRunning, TypeOK
  <2> QED
    BY <2>3, <2>4, <2>5 DEF TellsOnce, BreachedOnce, NoWrite
<1>4. CASE CronList(c) \/ BreachRollback(c) \/ Crash
  <2>1. UNCHANGED breaches /\ cron'[c].read \in {cron[c].read, NoWrite}
    BY <1>0, <1>4 DEF CronList, BreachRollback, Crash, IdleCron, TypeOK
  <2> QED
    BY <1>1, <2>1
<1> QED
  BY <1>1, <1>2, <1>3, <1>4
     DEF Next, vars, Tick, UpsertTemplate, DeleteTemplate, RestStartLookup,
         RestResolveLookup, RestSave, Publish, OnTimerStart, OnTimerCancel,
         ConsumerSave, ConsumerSaveFails, RecordProcessed

\* With cron runs that never overlap a breach is announced once as well.
THEOREM KeptAndTold ==
    ASSUME NEW c, CronRuns = {c}
    PROVE  Spec => []KeptAndToldOnce
<1>1. Init => TellsOnce(c)
  BY DEF Init, TellsOnce, BreachedOnce, IdleCron, NoWrite
<1>2. IInv /\ TellsOnce(c) /\ [Next]_vars => TellsOnce(c)'
  BY TellsOnceStep
<1>3. ProcessedStartIsKept /\ TellsOnce(c) => KeptAndToldOnce
  BY DEF TellsOnce, KeptAndToldOnce
<1> QED
  BY <1>1, <1>2, <1>3, Inductive, StartsKept, PTL DEF Spec
=============================================================================
