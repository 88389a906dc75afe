---------------------------- MODULE DeadlineProofs ----------------------------
(***************************************************************************)
(* Proofs about Deadline, for any calendar, start, window and guard rail.  *)
(***************************************************************************)
EXTENDS Deadline, FiniteSetTheorems, TLAPS

\* The loop's invariant: iterations and counted measure how far the date is.
LoopInv ==
    /\ day = timer.start + iterations
    /\ iterations <= MaxIterations
    /\ counted = Cardinality(OpenDays(day))
    /\ counted <= timer.window
    /\ counted = timer.window => day \in OpenDays(day)

\* Before the read the loop has not begun; after it the exclusions are the days
\* closed for the timer, and they stay so; a result has left the loop.
ReadInv ==
    /\ pc = "read" => iterations = 0
    /\ pc # "read" => \A d \in Nat : d \in exclusions <=> ClosedFor(d)
    /\ pc = "done" => ~More

IInv == TypeOK /\ LoopInv /\ ReadInv

-----------------------------------------------------------------------------
LEMMA TimerTypes ==
  ASSUME TypeOK
  PROVE  timer.start \in Nat /\ timer.window \in Nat /\ timer.window > 0
  <1>1. timer.start \in Starts /\ timer.window \in Windows
    BY DEF TypeOK, Timers
  <1>2. Starts \subseteq Nat /\ Windows \subseteq Nat \ {0}
    BY ConstantsAssumption
  <1>3. timer.start \in Nat /\ timer.window \in Nat \ {0}
    BY <1>1, <1>2
  <1> QED BY <1>3

\* The open days up to a date are finitely many days after the start.
LEMMA OpenDaysFinite ==
  ASSUME TypeOK, NEW last \in Nat
  PROVE  IsFiniteSet(OpenDays(last)) /\ Cardinality(OpenDays(last)) \in Nat
  <1>1. timer.start + 1 \in Int /\ last \in Int
    BY TimerTypes
  <1>2. IsFiniteSet((timer.start + 1)..last)
    BY <1>1, FS_Interval
  <1>3. OpenDays(last) \subseteq (timer.start + 1)..last
    BY DEF OpenDays
  <1> QED BY <1>2, <1>3, FS_Subset, FS_CardinalityType

\* A day more adds itself to the open days when it is one.
LEMMA OneMoreDay ==
  ASSUME TypeOK, NEW last \in Nat, last >= timer.start
  PROVE  Cardinality(OpenDays(last + 1)) =
           IF Weekday(last + 1) /\ ~ClosedFor(last + 1)
           THEN Cardinality(OpenDays(last)) + 1 ELSE Cardinality(OpenDays(last))
  <1>1. timer.start \in Nat
    BY TimerTypes
  <1>2. last + 1 \notin OpenDays(last)
    BY <1>1 DEF OpenDays
  <1>3. IsFiniteSet(OpenDays(last))
    BY OpenDaysFinite
  <1>4. (timer.start + 1)..(last + 1) = ((timer.start + 1)..last) \cup {last + 1}
    BY <1>1
  <1>5. CASE Weekday(last + 1) /\ ~ClosedFor(last + 1)
    <2>1. OpenDays(last + 1) = OpenDays(last) \cup {last + 1}
      BY <1>4, <1>5 DEF OpenDays
    <2> QED BY <2>1, <1>2, <1>3, <1>5, FS_AddElement
  <1>6. CASE ~(Weekday(last + 1) /\ ~ClosedFor(last + 1))
    <2>1. OpenDays(last + 1) = OpenDays(last)
      BY <1>4, <1>6 DEF OpenDays
    <2> QED BY <2>1, <1>6
  <1> QED BY <1>5, <1>6

\* No day is open on the start itself.
LEMMA NoDayYet ==
  ASSUME TypeOK
  PROVE  OpenDays(timer.start) = {} /\ Cardinality(OpenDays(timer.start)) = 0
  <1>1. timer.start \in Nat
    BY TimerTypes
  <1>2. (timer.start + 1)..timer.start = {}
    BY <1>1
  <1> QED BY <1>2, FS_EmptySet DEF OpenDays

-----------------------------------------------------------------------------
LEMMA InitInv == Init => IInv
  <1> SUFFICES ASSUME Init PROVE IInv
    OBVIOUS
  <1>1. TypeOK
    BY ConstantsAssumption DEF Init, TypeOK, Timers, DayTypes
  <1>2. LoopInv
    BY <1>1, NoDayYet, TimerTypes, ConstantsAssumption DEF Init, LoopInv
  <1>3. ReadInv
    BY DEF Init, ReadInv
  <1> QED BY <1>1, <1>2, <1>3 DEF IInv

\* The calendar changes only before the loop, when no open day can be counted.
LEMMA EditInv ==
  ASSUME IInv, EditCalendar
  PROVE  IInv'
  <1> USE DEF IInv
  <1>1. TypeOK'
    BY DEF EditCalendar, TypeOK, loop
  <1>2. /\ day' = timer'.start /\ counted' = 0 /\ timer'.window > 0
        /\ iterations' = 0 /\ pc' = "read" /\ timer' = timer
    <2>1. day = timer.start /\ counted = 0 /\ timer.window > 0
      BY NoDayYet, TimerTypes DEF EditCalendar, ReadInv, LoopInv
    <2> QED BY <2>1 DEF EditCalendar, loop, ReadInv
  <1>3. Cardinality(OpenDays(day))' = 0
    <2>1. timer'.start \in Nat
      BY <1>1, TimerTypes, <1>2
    <2>2. ((timer.start + 1)..day)' = {}
      BY <2>1, <1>2
    <2>3. OpenDays(day)' = {}
      BY <2>2 DEF OpenDays
    <2> QED BY <2>3, FS_EmptySet
  <1>4. LoopInv'
    <2>1. timer.start \in Nat /\ timer.window \in Nat
      BY TimerTypes
    <2> QED BY <1>2, <1>3, <2>1, ConstantsAssumption DEF LoopInv
  <1> QED BY <1>1, <1>2, <1>4 DEF ReadInv

LEMMA ReadCalendarInv ==
  ASSUME IInv, ReadCalendar
  PROVE  IInv'
  <1> USE DEF IInv
  <1>1. TypeOK'
    BY DEF ReadCalendar, TypeOK, ReadExclusions
  <1>2. OpenDays(day)' = OpenDays(day)
    BY DEF ReadCalendar, OpenDays, ClosedFor, Weekday, Closed
  <1>3. LoopInv'
    BY <1>2 DEF LoopInv, ReadCalendar
  <1>4. \A d \in Nat : d \in ReadExclusions <=> ClosedFor(d)
    <2>1. DOMAIN calendar = Regions \X Days
      BY DEF TypeOK
    <2>2. \A r \in Regions, d \in Nat : <<r, d>> \in DOMAIN calendar <=> d \in Days
      BY <2>1
    <2> QED BY <2>2, ConstantsAssumption DEF ReadExclusions, ClosedFor
  <1>5. \A d \in Nat : ClosedFor(d)' <=> ClosedFor(d)
    BY DEF ReadCalendar, ClosedFor, Closed
  <1>6. ReadInv'
    BY <1>4, <1>5 DEF ReadInv, ReadCalendar
  <1> QED BY <1>1, <1>3, <1>6

\* An iteration moves one day on and counts it when it is open.
LEMMA CountInv ==
  ASSUME IInv, Count
  PROVE  IInv'
  <1> USE DEF IInv
  <1>0. /\ day \in Nat /\ counted \in Nat /\ iterations \in Nat
        /\ timer.start \in Nat /\ timer.window \in Nat
        /\ counted < timer.window /\ iterations < MaxIterations
        /\ day >= timer.start /\ MaxIterations \in Nat
    BY ConstantsAssumption, TimerTypes DEF Count, More, TypeOK, LoopInv
  <1>1. TypeOK'
    BY <1>0 DEF Count, TypeOK
  <1>2. OpenDays(day)' = OpenDays(day + 1)
    BY DEF Count, OpenDays, ClosedFor, Weekday, Closed
  <1>3. IsWorkingDay(day + 1) <=> Weekday(day + 1) /\ ~ClosedFor(day + 1)
    BY <1>0 DEF Count, ReadInv, IsWorkingDay, Weekday
  <1>4. counted' = Cardinality(OpenDays(day + 1))
    BY <1>0, <1>3, OneMoreDay DEF Count, LoopInv
  <1>5. counted' = timer.window => day + 1 \in OpenDays(day + 1)
    BY <1>0, <1>3 DEF Count, OpenDays
  <1>6. LoopInv'
    BY <1>0, <1>2, <1>4, <1>5 DEF LoopInv, Count
  <1>7. ReadInv'
    <2>1. \A d \in Nat : ClosedFor(d)' <=> ClosedFor(d)
      BY DEF Count, ClosedFor, Closed
    <2> QED BY <2>1 DEF ReadInv, Count
  <1> QED BY <1>1, <1>6, <1>7

LEMMA ReturnInv ==
  ASSUME IInv, Return
  PROVE  IInv'
  <1> USE DEF IInv
  <1>1. TypeOK'
    BY DEF Return, TypeOK
  <1>2. OpenDays(day)' = OpenDays(day)
    BY DEF Return, OpenDays, ClosedFor, Weekday, Closed
  <1>3. \A d \in Nat : ClosedFor(d)' <=> ClosedFor(d)
    BY DEF Return, ClosedFor, Closed
  <1>4. LoopInv' /\ ReadInv'
    BY <1>2, <1>3 DEF LoopInv, ReadInv, Return, More
  <1> QED BY <1>1, <1>4

LEMMA StutterInv ==
  ASSUME IInv, UNCHANGED vars
  PROVE  IInv'
  <1> USE DEF vars, loop
  <1>1. /\ OpenDays(day)' = OpenDays(day)
        /\ \A d \in Nat : ClosedFor(d)' <=> ClosedFor(d)
    BY DEF OpenDays, ClosedFor, Weekday, Closed
  <1> QED BY <1>1 DEF IInv, TypeOK, LoopInv, ReadInv, More

LEMMA Invariance == Spec => []IInv
  <1>1. IInv /\ [Next]_vars => IInv'
    BY EditInv, ReadCalendarInv, CountInv, ReturnInv, StutterInv DEF Next
  <1> QED BY InitInv, <1>1, PTL DEF Spec

-----------------------------------------------------------------------------
\* The calendar's rows, the exclusions and the loop's counters keep their types.
THEOREM TypeCorrect == Spec => []TypeOK
  <1>1. IInv => TypeOK
    BY DEF IInv
  <1> QED BY <1>1, Invariance, PTL

\* Whatever the calendar, the loop returns the window-th open day after the
\* start, unless the guard rail ends it first.
THEOREM Exact == Spec => []DeadlineIsExact
  <1>1. IInv => DeadlineIsExact
    <2> SUFFICES ASSUME IInv, pc = "done"
                 PROVE  \/ /\ day \in OpenDays(day)
                           /\ Cardinality(OpenDays(day)) = timer.window
                        \/ /\ day = timer.start + MaxIterations
                           /\ Cardinality(OpenDays(day)) < timer.window
      BY DEF DeadlineIsExact
    <2>1. /\ counted \in Nat /\ iterations \in Nat /\ MaxIterations \in Nat
          /\ timer.window \in Nat
      BY ConstantsAssumption, TimerTypes DEF IInv, TypeOK
    <2>2. counted = timer.window \/ (counted < timer.window /\ iterations = MaxIterations)
      BY <2>1 DEF IInv, ReadInv, LoopInv, More
    <2> QED BY <2>2 DEF IInv, LoopInv
  <1> QED BY <1>1, Invariance, PTL
=============================================================================
