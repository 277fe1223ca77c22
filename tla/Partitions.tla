----------------------------- MODULE Partitions -----------------------------
(***************************************************************************)
(* backend/internal/partition: two loops that keep the partitions of       *)
(* event_outbox and event_inbox (one a week) and of notification_records   *)
(* (one a month) ahead of the clock.  An INSERT for which there is no      *)
(* partition fails.                                                        *)
(*                                                                         *)
(* A check looks for the partitions of its window by their names and       *)
(* creates the missing ones, all in one transaction; CREATE TABLE locks    *)
(* the parent, so a check is one step.  It may fail for any reason (a lost *)
(* connection, a deadlock with an event handler); it is tried again at the *)
(* next tick, or at the start of the next process.                         *)
(*                                                                         *)
(* Time is counted in days; day 0 is a Monday, 2026-08-31 for the dates of *)
(* the migrations.                                                         *)
(***************************************************************************)
EXTENDS Integers

CONSTANTS LookAheadWeeks,  \* lookAheadWeeks, 4 in the code
          LookAheadMonths, \* lookAheadMonths, 3 in the code
          LastMonth,
          MonthStart,      \* the first day of month 0, 1, ...: the calendar
          MigratedWeek,    \* first day of the first partitions of migrations/002
          MigratedWeeks,   \* and their number, 4
          MigratedMonths,  \* number of those of migrations/001, 3, from month 0
          LastDay          \* bound: how long the clock runs

ASSUME LookAheadAssumption ==
    LookAheadWeeks \in Nat /\ LookAheadMonths \in Nat

\* The months of the calendar follow each other without a gap and reach beyond
\* every window.
ASSUME CalendarAssumption ==
    /\ LastMonth \in Nat /\ LastDay \in Nat
    /\ MonthStart \in [0 .. LastMonth -> Nat]
    /\ \A m, n \in 0 .. LastMonth : m < n => MonthStart[m] < MonthStart[n]
    /\ \A day \in MonthStart[0] .. MonthStart[LastMonth] - 1 :
          \E m \in 0 .. LastMonth - 1 : MonthStart[m] <= day /\ day < MonthStart[m + 1]
    /\ LastMonth > LookAheadMonths + 1
    /\ LastDay < MonthStart[LastMonth - LookAheadMonths - 1]

ASSUME MigrationAssumption ==
    /\ MigratedWeek \in MonthStart[0] .. LastDay
    /\ MigratedWeek % 7 = 0
    /\ MigratedWeeks \in Nat
    /\ MigratedMonths \in 0 .. LastMonth - 1

VARIABLES now,      \* today
          up,       \* a process runs its loops
          checked,  \* the loops that have had today's tick
          parts,    \* the partitions
          promised  \* the day up to which the last good check has looked ahead

vars == <<now, up, checked, parts, promised>>

Family == {"weekly", "monthly"}

Tables(f) ==
    IF f = "weekly" THEN {"event_outbox", "event_inbox"}
                    ELSE {"notification_records"}

Partition == [table : UNION {Tables(f) : f \in Family},
              name : Nat,     \* the date its name ends in
              from : Nat, to : Nat]

TypeOK ==
    /\ now \in MigratedWeek .. LastDay
    /\ up \in BOOLEAN
    /\ checked \subseteq Family
    /\ parts \subseteq Partition
    /\ \A p \in parts : p.from < p.to
    /\ promised \in [Family -> Nat]

----------------------------------------------------------------------------
(* The calendar. *)

\* time.Weekday: Sunday is 0.
Weekday(day) == (day + 1) % 7

\* Seeded faults: the window starts today; a Sunday belongs to the week after it.
SlidingWindow(day) == day

MondayOfWeekday(day) == day - (Weekday(day) - 1)

MondayOf(day) ==
    LET weekday == IF Weekday(day) = 0 THEN 7 ELSE Weekday(day)
    IN  day - (weekday - 1)

MonthOf(day) ==
    CHOOSE m \in 0 .. LastMonth - 1 :
       MonthStart[m] <= day /\ day < MonthStart[m + 1]

FirstOfMonth(day) == MonthStart[MonthOf(day)]

\* AddDate on the first day of a period.
Later(f, start, i) ==
    IF f = "weekly" THEN start + 7 * i ELSE MonthStart[MonthOf(start) + i]

PeriodStart(f, day) == IF f = "weekly" THEN MondayOf(day) ELSE FirstOfMonth(day)

\* weekPartitionName formats the date, monthPartitionName year and month.
NameOf(f, from) == IF f = "weekly" THEN from ELSE FirstOfMonth(from)

\* Seeded fault: only the current period is ensured.
PeriodsToday(f) == {0}

Periods(f) == 0 .. (IF f = "weekly" THEN LookAheadWeeks ELSE LookAheadMonths)

----------------------------------------------------------------------------
(* ensureAllWeekly and ensureAllMonthly. *)

\* Seeded fault: the bounds are formatted in the wrong order.
PartitionBackwards(f, table, from) ==
    [table |-> table, name |-> NameOf(f, from), from |-> Later(f, from, 1),
     to |-> from]

PartitionOf(f, table, from) ==
    [table |-> table, name |-> NameOf(f, from), from |-> from,
     to |-> Later(f, from, 1)]

Window(f, day) ==
    {PartitionOf(f, table, Later(f, PeriodStart(f, day), i)) :
        table \in Tables(f), i \in Periods(f)}

\* Where the window of that day ends.
WindowEnd(f, day) ==
    Later(f, Later(f, PeriodStart(f, day), IF f = "weekly" THEN LookAheadWeeks ELSE LookAheadMonths), 1)

\* ensurePartition: to_regclass finds a partition by its name.
Missing(f) ==
    {p \in Window(f, now) : \A q \in parts : q.table = p.table => q.name # p.name}

Overlap(p, q) == p.table = q.table /\ p.from < q.to /\ q.from < p.to

\* PostgreSQL refuses a partition that overlaps one there is.
Refused(f) ==
    \E p \in Missing(f), q \in parts \cup Missing(f) : p # q /\ Overlap(p, q)

\* A tick, or the check at the start.
Tick(f) ==
    /\ up
    /\ f \notin checked
    /\ checked' = checked \cup {f}
    /\ UNCHANGED <<now, up>>

CheckSucceeds(f) ==
    /\ Tick(f)
    /\ ~Refused(f)
    /\ parts' = parts \cup Missing(f)
    /\ promised' = [promised EXCEPT ![f] = WindowEnd(f, now)]

\* The error is logged and the loop goes on; the transaction leaves nothing.
CheckFails(f) ==
    /\ Tick(f)
    /\ UNCHANGED <<parts, promised>>

----------------------------------------------------------------------------
(* The clock and the process.  The ticker fires every 24 hours, so while a *)
(* process is up no day passes without a check.                            *)

DayPasses ==
    /\ now < LastDay
    /\ up => checked = Family
    /\ now' = now + 1
    /\ checked' = {}
    /\ UNCHANGED <<up, parts, promised>>

Start ==
    /\ ~up
    /\ up' = TRUE
    /\ checked' = {}
    /\ UNCHANGED <<now, parts, promised>>

Stop ==
    /\ up
    /\ up' = FALSE
    /\ UNCHANGED <<now, checked, parts, promised>>

\* The partitions that the migrations create by hand.
Migrated ==
    {[table |-> table, name |-> from, from |-> from, to |-> from + 7] :
        table \in Tables("weekly"),
        from \in {MigratedWeek + 7 * i : i \in 0 .. MigratedWeeks - 1}}
    \cup
    {[table |-> table, name |-> MonthStart[m], from |-> MonthStart[m],
      to |-> MonthStart[m + 1]] :
        table \in Tables("monthly"), m \in 0 .. MigratedMonths - 1}

Init ==
    /\ now = MigratedWeek
    /\ up = FALSE
    /\ checked = {}
    /\ parts = Migrated
    /\ promised = [f \in Family |->
                     IF f = "weekly" THEN MigratedWeek + 7 * MigratedWeeks
                                     ELSE MonthStart[MigratedMonths]]

Next ==
    \/ \E f \in Family : CheckSucceeds(f) \/ CheckFails(f)
    \/ DayPasses
    \/ Start
    \/ Stop

Spec == Init /\ [][Next]_vars

----------------------------------------------------------------------------
(* Properties. *)

\* No check is refused by PostgreSQL: whatever day it runs and whatever
\* checks were missed, the partitions it finds missing by name are missing as
\* ranges too, those of the migrations included (mondayOf: a fixed anchor, not
\* a sliding window; monthly.go: one name format).
CreateIsNeverRefused == \A f \in Family : ~Refused(f)

Covers(p, table, day) == p.table = table /\ p.from <= day /\ day < p.to

\* Rows can be inserted from today to the end of the window that the last
\* good check looked ahead, without a gap, in every table and however many
\* checks failed or were not made since.
WindowIsCovered ==
    \A f \in Family : \A table \in Tables(f), day \in now .. promised[f] - 1 :
       \E p \in parts : Covers(p, table, day)
=============================================================================
