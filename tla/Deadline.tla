------------------------------- MODULE Deadline -------------------------------
(***************************************************************************)
(* computeDeadline of SlaTimerService: a window of working days counted    *)
(* over the funder's clearing calendar, which administrators edit.  Days   *)
(* are numbers; a deadline keeps the time of day of the start.  Windows in *)
(* hours and in days are an addition and are not modelled.                 *)
(***************************************************************************)
EXTENDS Naturals, FiniteSets

CONSTANTS
    Days,           \* days the calendar can name
    Starts,         \* days a timer can start on
    Regions,        \* regions of the funder's calendar
    Windows,        \* template windows, in working days
    MaxIterations,  \* the loop's guard rail (2000 in the code)
    MaxEdits,       \* bound on the edits of the calendar
    NONE            \* SQL null: no row, no region

ASSUME ConstantsAssumption ==
    /\ Days \subseteq Nat /\ Starts \subseteq Nat
    /\ Windows \subseteq Nat \ {0}
    /\ MaxIterations \in Nat /\ MaxEdits \in Nat
    /\ NONE \notin Regions

DayTypes == {"HOLIDAY", "HALF_DAY", "SHUTDOWN"}
Timers   == [start : Starts, window : Windows, region : Regions \cup {NONE}]

VARIABLES
    calendar,    \* calendar_day: the type of a region's day, or NONE
    timer,       \* what the deadline is computed for
    pc,          \* "read" the calendar, "count" its working days, "done"
    exclusions,  \* the days read from the calendar
    day,         \* the loop's date
    counted,     \* working days passed
    iterations,  \* iterations made
    edits        \* edits so far

loop == <<timer, pc, exclusions, day, counted, iterations>>
vars == <<calendar, loop, edits>>

Init ==
    /\ calendar = [x \in Regions \X Days |-> NONE]
    /\ timer \in Timers
    /\ pc = "read"
    /\ exclusions = {}
    /\ day = timer.start
    /\ counted = 0 /\ iterations = 0 /\ edits = 0

\* upsertDay and deleteDay: one row per region and date.  The calendar is read
\* once, so an edit after that is an edit for the next timer.
EditCalendar ==
    /\ pc = "read" /\ edits < MaxEdits
    /\ edits' = edits + 1
    /\ \E x \in Regions \X Days, type \in DayTypes \cup {NONE} :
         calendar' = [calendar EXCEPT ![x] = type]
    /\ UNCHANGED loop

Closed == {"HOLIDAY", "SHUTDOWN"}

\* The find's where clause: the timer's region when it has one.
ReadExclusions ==
    {d \in Days : \E r \in Regions : /\ timer.region \in {r, NONE}
                                     /\ calendar[<<r, d>>] \in Closed}

ReadCalendar ==
    /\ pc = "read"
    /\ exclusions' = ReadExclusions
    /\ pc' = "count"
    /\ UNCHANGED <<calendar, timer, day, counted, iterations, edits>>

\* Day 0 is a Monday.
IsWorkingDay(d) == d % 7 \notin {5, 6} /\ d \notin exclusions

More == counted < timer.window /\ iterations < MaxIterations

\* Mutant: a closed day is taken off what has passed.
CountBack ==
    /\ pc = "count" /\ More
    /\ day' = day + 1
    /\ counted' = IF IsWorkingDay(day + 1) THEN counted + 1 ELSE counted - 1
    /\ iterations' = iterations + 1
    /\ UNCHANGED <<calendar, timer, pc, exclusions, edits>>

\* Mutant: the start counts as the first day.
CountFromStart ==
    /\ pc = "count" /\ More
    /\ day' = day + 1
    /\ counted' = IF IsWorkingDay(day) THEN counted + 1 ELSE counted
    /\ iterations' = iterations + 1
    /\ UNCHANGED <<calendar, timer, pc, exclusions, edits>>

Count ==
    /\ pc = "count" /\ More
    /\ day' = day + 1
    /\ counted' = IF IsWorkingDay(day + 1) THEN counted + 1 ELSE counted
    /\ iterations' = iterations + 1
    /\ UNCHANGED <<calendar, timer, pc, exclusions, edits>>

Return ==
    /\ pc = "count" /\ ~More
    /\ pc' = "done"
    /\ UNCHANGED <<calendar, timer, exclusions, day, counted, iterations, edits>>

Next == EditCalendar \/ ReadCalendar \/ Count \/ Return

Spec == Init /\ [][Next]_vars

-----------------------------------------------------------------------------
\* Every variable holds a value the code can give it.
TypeOK ==
    /\ calendar \in [Regions \X Days -> DayTypes \cup {NONE}]
    /\ timer \in Timers
    /\ pc \in {"read", "count", "done"}
    /\ exclusions \subseteq Days
    /\ day \in Nat /\ counted \in Nat /\ iterations \in Nat /\ edits \in Nat

Weekday(d) == d % 7 \notin {5, 6}

\* Closed for the timer: in its region, or in any when it carries none.
ClosedFor(d) == \E r \in Regions : /\ timer.region = r \/ timer.region = NONE
                                   /\ <<r, d>> \in DOMAIN calendar
                                   /\ calendar[<<r, d>>] \in Closed

OpenDays(last) == {d \in (timer.start + 1)..last : Weekday(d) /\ ~ClosedFor(d)}

\* The deadline is the window-th open day after the start: it is one itself, and
\* the window's number of them have passed.  Only the guard rail may end the
\* count before.
DeadlineIsExact ==
    pc = "done" =>
        \/ day \in OpenDays(day) /\ Cardinality(OpenDays(day)) = timer.window
        \/ /\ day = timer.start + MaxIterations
           /\ Cardinality(OpenDays(day)) < timer.window

\* sla-timer.service.ts: "region-specific days apply only when the timer
\* carries that region": without one, the window is counted in weekdays.
RegionDaysNeedRegion ==
    pc = "done" /\ timer.region = NONE /\ counted = timer.window =>
        Cardinality({d \in (timer.start + 1)..day : Weekday(d)}) = timer.window
=============================================================================
