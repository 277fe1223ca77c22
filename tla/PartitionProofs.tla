-------------------------- MODULE PartitionProofs --------------------------
(***************************************************************************)
(* Proofs about Partitions, for every calendar, look-ahead and set of      *)
(* initial partitions.  Both families are treated alike: their periods are *)
(* numbered, Boundary(f, k) is the first day of period k, and every        *)
(* partition there ever is stands for one period of its table.             *)
(***************************************************************************)
EXTENDS Partitions, TLAPS

Index(f) == IF f = "weekly" THEN Nat ELSE 0 .. LastMonth - 1

Boundary(f, k) == IF f = "weekly" THEN 7 * k ELSE MonthStart[k]

Period(f, table, k) ==
    [table |-> table, name |-> Boundary(f, k), from |-> Boundary(f, k),
     to |-> Boundary(f, k + 1)]

\* What the look-ahead is for each family.
Ahead(f) == IF f = "weekly" THEN LookAheadWeeks ELSE LookAheadMonths

InPeriod(f, k, day) == Boundary(f, k) <= day /\ day < Boundary(f, k + 1)

USE DEF Family

----------------------------------------------------------------------------
(* The calendar. *)

\* Boundaries are days, in increasing order.
LEMMA BoundaryType ==
    ASSUME NEW f \in Family, NEW k \in Index(f)
    PROVE  k \in Nat /\ Boundary(f, k) \in Nat /\ Boundary(f, k + 1) \in Nat
           /\ Boundary(f, k) < Boundary(f, k + 1)
BY CalendarAssumption DEF Index, Boundary

\* The days the clock shows.
LEMMA Days ==
    /\ MonthStart[0] \in Nat /\ MigratedWeek \in Nat /\ LastDay \in Nat
    /\ MonthStart[0] <= MigratedWeek /\ MigratedWeek <= LastDay
    /\ MigratedWeek % 7 = 0
<1>1. 0 \in 0 .. LastMonth /\ MonthStart \in [0 .. LastMonth -> Nat] /\ LastDay \in Nat
  BY CalendarAssumption
<1>2. MonthStart[0] \in Nat
  BY <1>1
<1>3. MigratedWeek \in MonthStart[0] .. LastDay /\ MigratedWeek % 7 = 0
  BY MigrationAssumption
<1> QED
  BY <1>1, <1>2, <1>3

\* Later periods begin later.
LEMMA BoundaryOrder ==
    ASSUME NEW f \in Family, NEW j \in Index(f), NEW k \in Index(f), j < k
    PROVE  Boundary(f, j + 1) <= Boundary(f, k)
<1>1. CASE f = "weekly"
  BY <1>1 DEF Index, Boundary
<1>2. CASE f = "monthly"
  <2>1. j + 1 = k \/ j + 1 < k
    BY <1>2, CalendarAssumption DEF Index
  <2>2. j + 1 \in 0 .. LastMonth /\ k \in 0 .. LastMonth
    BY <1>2, CalendarAssumption DEF Index
  <2>3. MonthStart[j + 1] \in Nat /\ MonthStart[k] \in Nat
    BY <2>2, CalendarAssumption
  <2>4. j + 1 < k => MonthStart[j + 1] < MonthStart[k]
    BY <2>2, CalendarAssumption
  <2> QED
    BY <1>2, <2>1, <2>3, <2>4 DEF Boundary
<1> QED
  BY <1>1, <1>2

\* A day belongs to one period.
LEMMA OnePeriod ==
    ASSUME NEW f \in Family, NEW j \in Index(f), NEW k \in Index(f), NEW day \in Int,
           InPeriod(f, j, day), InPeriod(f, k, day)
    PROVE  j = k
<1>1. j \in Int /\ k \in Int
  BY BoundaryType
<1>2. ~(j < k) /\ ~(k < j)
  BY BoundaryOrder, BoundaryType DEF InPeriod
<1> QED
  BY <1>1, <1>2

\* Every day of the calendar lies in some period.
LEMMA DayHasPeriod ==
    ASSUME NEW f \in Family, NEW day \in Nat,
           f = "monthly" => MonthStart[0] <= day /\ day < MonthStart[LastMonth]
    PROVE  \E k \in Index(f) : InPeriod(f, k, day)
<1>1. CASE f = "weekly"
  <2>1. day \div 7 \in Nat /\ 7 * (day \div 7) <= day /\ day < 7 * ((day \div 7) + 1)
    OBVIOUS
  <2> QED
    BY <1>1, <2>1 DEF Index, InPeriod, Boundary
<1>2. CASE f = "monthly"
  <2>1. MonthStart[0] \in Nat /\ MonthStart[LastMonth] \in Nat
    BY CalendarAssumption
  <2>2. day \in MonthStart[0] .. MonthStart[LastMonth] - 1
    BY <1>2, <2>1
  <2> QED
    BY <1>2, <2>2, CalendarAssumption DEF Index, InPeriod, Boundary
<1> QED
  BY <1>1, <1>2

\* MonthOf finds the month.
LEMMA MonthFound ==
    ASSUME NEW k \in Index("monthly"), NEW day \in Nat, InPeriod("monthly", k, day)
    PROVE  MonthOf(day) = k
<1> DEFINE m == MonthOf(day)
<1>1. m \in 0 .. LastMonth - 1 /\ MonthStart[m] <= day /\ day < MonthStart[m + 1]
  BY DEF Index, InPeriod, Boundary, MonthOf
<1>2. m \in Index("monthly") /\ InPeriod("monthly", m, day)
  BY <1>1 DEF Index, InPeriod, Boundary
<1> QED
  BY <1>2, OnePeriod

\* A period contains its first day.
LEMMA BoundaryInPeriod ==
    ASSUME NEW f \in Family, NEW k \in Index(f)
    PROVE  InPeriod(f, k, Boundary(f, k))
BY BoundaryType DEF InPeriod

\* The anchor of a window is the first day of the period of the day: of the
\* week that began on Monday, Sundays included, or of the month.
LEMMA AnchorIsBoundary ==
    ASSUME NEW f \in Family, NEW k \in Index(f), NEW day \in Nat, InPeriod(f, k, day)
    PROVE  PeriodStart(f, day) = Boundary(f, k)
<1>1. CASE f = "weekly"
  <2>1. k \in Nat /\ 7 * k <= day /\ day < 7 * k + 7
    BY <1>1 DEF Index, InPeriod, Boundary
  <2>2. (day + 1) % 7 = IF day = 7 * k + 6 THEN 0 ELSE day + 1 - 7 * k
    BY <2>1
  <2>3. MondayOf(day) = 7 * k
    BY <2>1, <2>2 DEF MondayOf, Weekday
  <2> QED
    BY <1>1, <2>3 DEF PeriodStart, Boundary
<1>2. CASE f = "monthly"
  BY <1>2, MonthFound DEF PeriodStart, FirstOfMonth, Boundary
<1> QED
  BY <1>1, <1>2

\* Stepping i periods from a boundary gives the i-th boundary after it.
LEMMA LaterIsBoundary ==
    ASSUME NEW f \in Family, NEW k \in Index(f), NEW i \in Nat
    PROVE  Later(f, Boundary(f, k), i) = Boundary(f, k + i)
<1>1. CASE f = "weekly"
  BY <1>1 DEF Later, Boundary, Index
<1>2. CASE f = "monthly"
  <2>1. Boundary("monthly", k) \in Nat
    BY <1>2, BoundaryType
  <2>2. MonthOf(Boundary("monthly", k)) = k
    BY <1>2, <2>1, BoundaryInPeriod, MonthFound
  <2> QED
    BY <1>2, <2>2 DEF Later, Boundary
<1> QED
  BY <1>1, <1>2

\* The name of a partition that starts at a boundary stands for that boundary.
LEMMA NameIsBoundary ==
    ASSUME NEW f \in Family, NEW k \in Index(f)
    PROVE  NameOf(f, Boundary(f, k)) = Boundary(f, k)
<1>1. CASE f = "weekly"
  BY <1>1 DEF NameOf
<1>2. CASE f = "monthly"
  BY <1>2, BoundaryType, BoundaryInPeriod, MonthFound DEF NameOf, FirstOfMonth, Boundary
<1> QED
  BY <1>1, <1>2

----------------------------------------------------------------------------
(* The window of a check. *)

\* Every day the clock shows has a period, and the periods of its window are
\* in the calendar.
LEMMA WindowInCalendar ==
    ASSUME NEW f \in Family, NEW day \in MigratedWeek .. LastDay
    PROVE  \E k \in Index(f) :
              /\ InPeriod(f, k, day)
              /\ \A i \in 0 .. Ahead(f) : k + i \in Index(f)
<1>1. MonthStart[0] \in Nat /\ MonthStart[0] <= day /\ day \in Nat /\ day <= LastDay
  BY Days
<1> DEFINE end == LastMonth - LookAheadMonths - 1
<1>2. end \in 0 .. LastMonth /\ LastMonth \in 0 .. LastMonth
  BY CalendarAssumption, LookAheadAssumption
<1>3. MonthStart[end] \in Nat /\ MonthStart[LastMonth] \in Nat
  BY <1>2, CalendarAssumption
<1>4. MonthStart[end] <= MonthStart[LastMonth]
  BY <1>2, <1>3, CalendarAssumption
<1>5. MonthStart[0] <= day /\ day < MonthStart[end]
  <2>1. LastDay < MonthStart[end]
    BY CalendarAssumption
  <2> QED
    BY <1>1, <1>3, <2>1, Days
<1>6. PICK k \in Index(f) : InPeriod(f, k, day)
  BY <1>1, <1>3, <1>4, <1>5, DayHasPeriod
<1>7. \A i \in 0 .. Ahead(f) : k + i \in Index(f)
  <2>1. CASE f = "weekly"
    BY <2>1, LookAheadAssumption DEF Index, Ahead
  <2>2. CASE f = "monthly"
    <3>1. k \in 0 .. LastMonth /\ MonthStart[k] <= day
      BY <2>2, <1>6, CalendarAssumption DEF Index, InPeriod, Boundary
    <3>2. MonthStart[k] \in Nat
      BY <3>1, CalendarAssumption
    <3>3. ~(end < k)
      BY <1>2, <1>3, <1>5, <3>1, <3>2, <1>1, CalendarAssumption
    <3>4. k # end
      BY <1>3, <1>5, <3>1, <3>2, <1>1
    <3> HIDE DEF end
    <3>5. k < end
      BY <1>2, <3>1, <3>3, <3>4, CalendarAssumption
    <3> QED
      BY <2>2, <3>1, <3>5, CalendarAssumption, LookAheadAssumption DEF Index, Ahead, end
  <2> QED
    BY <2>1, <2>2
<1> QED
  BY <1>6, <1>7

\* The loop of a check runs over the current period and those ahead.
LEMMA PeriodsAhead ==
    ASSUME NEW f \in Family PROVE Periods(f) = 0 .. Ahead(f) /\ Ahead(f) \in Nat
BY LookAheadAssumption DEF Periods, Ahead

\* The partition computed from a boundary is the period that starts there.
LEMMA PartitionIsPeriod ==
    ASSUME NEW f \in Family, NEW k \in Index(f), NEW table
    PROVE  PartitionOf(f, table, Boundary(f, k)) = Period(f, table, k)
BY LaterIsBoundary, NameIsBoundary DEF PartitionOf, Period

\* A check looks for the partitions of the current period and those ahead,
\* one for each table.
LEMMA WindowIsPeriods ==
    ASSUME NEW f \in Family, NEW day \in Nat, NEW k \in Index(f), InPeriod(f, k, day),
           \A i \in 0 .. Ahead(f) : k + i \in Index(f)
    PROVE  /\ Window(f, day) = {Period(f, table, k + i) :
                                   table \in Tables(f), i \in 0 .. Ahead(f)}
           /\ WindowEnd(f, day) = Boundary(f, k + Ahead(f) + 1)
<1>1. PeriodStart(f, day) = Boundary(f, k)
  BY AnchorIsBoundary
<1>2. \A i \in 0 .. Ahead(f) : Later(f, PeriodStart(f, day), i) = Boundary(f, k + i)
  BY <1>1, LaterIsBoundary
<1>3. \A table : \A i \in 0 .. Ahead(f) :
         PartitionOf(f, table, Later(f, PeriodStart(f, day), i)) = Period(f, table, k + i)
  BY <1>2, PartitionIsPeriod
<1>4. Window(f, day) = {Period(f, table, k + i) :
                           table \in Tables(f), i \in 0 .. Ahead(f)}
  BY <1>3, PeriodsAhead DEF Window
<1>5. WindowEnd(f, day) = Boundary(f, k + Ahead(f) + 1)
  <2>1. Ahead(f) \in 0 .. Ahead(f)
    BY PeriodsAhead
  <2>2. Later(f, PeriodStart(f, day), Ahead(f)) = Boundary(f, k + Ahead(f))
    BY <1>2, <2>1
  <2>3. k + Ahead(f) \in Index(f)
    BY <2>1
  <2>4. Later(f, Boundary(f, k + Ahead(f)), 1) = Boundary(f, k + Ahead(f) + 1)
    BY <2>3, LaterIsBoundary
  <2> QED
    BY <2>2, <2>4 DEF WindowEnd, Ahead
<1> QED
  BY <1>4, <1>5

----------------------------------------------------------------------------
(* The inductive invariant: every partition is a period. *)

Aligned ==
    \A p \in parts : \E f \in Family : \E k \in Index(f) :
       p.table \in Tables(f) /\ p = Period(f, p.table, k)

Inv == TypeOK /\ Aligned /\ WindowIsCovered

\* A period is a partition with bounds in order.
LEMMA PeriodType ==
    ASSUME NEW f \in Family, NEW k \in Index(f), NEW table \in Tables(f)
    PROVE  Period(f, table, k) \in Partition
           /\ Period(f, table, k).from < Period(f, table, k).to
BY BoundaryType DEF Period, Partition

\* The tables of the two families are different ones.
LEMMA OneFamily ==
    ASSUME NEW f \in Family, NEW g \in Family, Tables(f) \cap Tables(g) # {}
    PROVE  f = g
BY DEF Tables

\* Periods of one table that overlap, or have the same name, are the same.
LEMMA PeriodsDisjoint ==
    ASSUME NEW f \in Family, NEW table, NEW j \in Index(f), NEW k \in Index(f),
           Overlap(Period(f, table, j), Period(f, table, k))
             \/ Period(f, table, j).name = Period(f, table, k).name
    PROVE  j = k
<1>1. j \in Int /\ k \in Int
  BY BoundaryType
<1>2. ~(j < k) /\ ~(k < j)
  BY BoundaryOrder, BoundaryType DEF Overlap, Period
<1> QED
  BY <1>1, <1>2

\* What a check finds missing are whole periods of its own tables.
LEMMA MissingIsAligned ==
    ASSUME TypeOK, NEW f \in Family, NEW p \in Missing(f)
    PROVE  p.table \in Tables(f) /\ \E k \in Index(f) : p = Period(f, p.table, k)
<1>1. now \in MigratedWeek .. LastDay /\ now \in Nat
  BY Days DEF TypeOK
<1>2. PICK k \in Index(f) : InPeriod(f, k, now)
                            /\ \A i \in 0 .. Ahead(f) : k + i \in Index(f)
  BY <1>1, WindowInCalendar
<1>3. p \in {Period(f, table, k + i) : table \in Tables(f), i \in 0 .. Ahead(f)}
  BY <1>1, <1>2, WindowIsPeriods DEF Missing
<1>4. PICK table \in Tables(f), i \in 0 .. Ahead(f) : p = Period(f, table, k + i)
  BY <1>3
<1> QED
  BY <1>2, <1>4 DEF Period

\* Whatever is missing by name is missing as a range.
LEMMA NeverRefused ==
    ASSUME TypeOK, Aligned, NEW f \in Family PROVE ~Refused(f)
<1> SUFFICES ASSUME NEW p \in Missing(f), NEW q \in parts \cup Missing(f),
                    p # q, Overlap(p, q)
             PROVE  FALSE
  BY DEF Refused
<1>1. PICK j \in Index(f) : p.table \in Tables(f) /\ p = Period(f, p.table, j)
  BY MissingIsAligned
<1>2. PICK g \in Family : \E k \in Index(g) : q.table \in Tables(g) /\ q = Period(g, q.table, k)
  BY MissingIsAligned DEF Aligned
<1> PICK k \in Index(g) : q.table \in Tables(g) /\ q = Period(g, q.table, k)
  BY <1>2
<1>3. p.table = q.table
  BY DEF Overlap
<1>4. f = g
  BY <1>1, <1>3, OneFamily
<1>5. Overlap(Period(f, p.table, j), Period(f, p.table, k))
  BY <1>1, <1>3, <1>4
<1>6. j = k
  BY <1>4, <1>5, PeriodsDisjoint
<1> QED
  BY <1>1, <1>3, <1>4, <1>6

----------------------------------------------------------------------------
(* The first states. *)

\* The partitions of the migrations are periods, too: weeks that begin on a
\* Monday and whole months, under the names the loops look for.
LEMMA MigratedIsAligned ==
    ASSUME NEW p \in Migrated
    PROVE  \E f \in Family : \E k \in Index(f) :
              p.table \in Tables(f) /\ p = Period(f, p.table, k)
<1>1. ASSUME NEW table \in Tables("weekly"), NEW i \in 0 .. MigratedWeeks - 1,
             p = [table |-> table, name |-> MigratedWeek + 7 * i,
                  from |-> MigratedWeek + 7 * i, to |-> MigratedWeek + 7 * i + 7]
      PROVE  \E k \in Index("weekly") :
                p.table \in Tables("weekly") /\ p = Period("weekly", p.table, k)
  <2> DEFINE k == (MigratedWeek \div 7) + i
  <2>1. MigratedWeek \in Nat /\ i \in Nat /\ MigratedWeek % 7 = 0
    BY Days
  <2>2. k \in Nat /\ 7 * k = MigratedWeek + 7 * i /\ 7 * (k + 1) = MigratedWeek + 7 * i + 7
    BY <2>1
  <2> HIDE DEF k
  <2> QED
    BY <1>1, <2>2 DEF Index, Period, Boundary
<1>2. ASSUME NEW table \in Tables("monthly"), NEW m \in 0 .. MigratedMonths - 1,
             p = [table |-> table, name |-> MonthStart[m], from |-> MonthStart[m],
                  to |-> MonthStart[m + 1]]
      PROVE  \E k \in Index("monthly") :
                p.table \in Tables("monthly") /\ p = Period("monthly", p.table, k)
  <2>1. m \in Index("monthly")
    BY MigrationAssumption, CalendarAssumption DEF Index
  <2> QED
    BY <1>2, <2>1 DEF Period, Boundary
<1> QED
  BY <1>1, <1>2 DEF Migrated

\* The initial state is typed.
LEMMA InitType == Init => TypeOK
<1> SUFFICES ASSUME Init PROVE TypeOK
  OBVIOUS
<1>1. now \in MigratedWeek .. LastDay
  BY Days DEF Init
<1>2. parts \subseteq Partition /\ \A p \in parts : p.from < p.to
  BY MigratedIsAligned, PeriodType DEF Init
<1>3. promised \in [Family -> Nat]
  <2>1. MigratedWeek + 7 * MigratedWeeks \in Nat
    BY Days, MigrationAssumption
  <2>2. MonthStart[MigratedMonths] \in Nat
    BY MigrationAssumption, CalendarAssumption
  <2> QED
    BY <2>1, <2>2 DEF Init
<1> QED
  BY <1>1, <1>2, <1>3 DEF TypeOK, Init

\* The first check, before the loops start, covers the window.
LEMMA InitCovered == Init => WindowIsCovered
<1> SUFFICES ASSUME Init, NEW f \in Family, NEW table \in Tables(f),
                    NEW day \in now .. promised[f] - 1
             PROVE  \E p \in parts : Covers(p, table, day)
  BY DEF WindowIsCovered
<1>1. MigratedWeek \in Nat /\ now = MigratedWeek /\ parts = Migrated
  BY Days DEF Init
<1>2. CASE f = "weekly"
  <2>1. MigratedWeeks \in Nat /\ day \in Nat /\ MigratedWeek <= day
        /\ day < MigratedWeek + 7 * MigratedWeeks
    BY <1>1, <1>2, MigrationAssumption DEF Init
  <2> DEFINE i == (day - MigratedWeek) \div 7
  <2>2. i \in 0 .. MigratedWeeks - 1
        /\ MigratedWeek + 7 * i <= day /\ day < MigratedWeek + 7 * i + 7
    BY <1>1, <2>1
  <2> HIDE DEF i
  <2> DEFINE p == [table |-> table, name |-> MigratedWeek + 7 * i,
                   from |-> MigratedWeek + 7 * i, to |-> MigratedWeek + 7 * i + 7]
  <2>3. p \in Migrated
    BY <1>2, <2>2 DEF Migrated
  <2>4. Covers(p, table, day)
    BY <2>2 DEF Covers
  <2> QED
    BY <1>1, <2>3, <2>4
<1>3. CASE f = "monthly"
  <2>1. MigratedMonths \in 0 .. LastMonth - 1 /\ LastMonth \in Nat
        /\ MonthStart[0] \in Nat /\ MonthStart[0] <= MigratedWeek
    BY MigrationAssumption, CalendarAssumption
  <2>2. MonthStart[MigratedMonths] \in Nat /\ MonthStart[LastMonth] \in Nat
        /\ MonthStart[MigratedMonths] < MonthStart[LastMonth]
    BY <2>1, CalendarAssumption
  <2>3. promised[f] = MonthStart[MigratedMonths]
    BY <1>3 DEF Init
  <2>4. day \in Nat /\ MonthStart[0] <= day /\ day < MonthStart[MigratedMonths]
    BY <1>1, <2>1, <2>2, <2>3
  <2>5. PICK k \in Index("monthly") : InPeriod("monthly", k, day)
    BY <2>2, <2>4, DayHasPeriod
  <2>6. k \in 0 .. LastMonth - 1 /\ MonthStart[k] <= day /\ day < MonthStart[k + 1]
        /\ MonthStart[k] \in Nat
    BY <2>5, CalendarAssumption DEF Index, InPeriod, Boundary
  <2>7. ~(MigratedMonths < k) /\ k # MigratedMonths
    BY <2>1, <2>2, <2>4, <2>6, CalendarAssumption
  <2>8. k \in 0 .. MigratedMonths - 1
    BY <2>1, <2>6, <2>7
  <2> DEFINE p == [table |-> table, name |-> MonthStart[k], from |-> MonthStart[k],
                   to |-> MonthStart[k + 1]]
  <2>9. p \in Migrated
    BY <1>3, <2>8 DEF Migrated
  <2> QED
    BY <1>1, <2>6, <2>9 DEF Covers
<1> QED
  BY <1>2, <1>3

\* The initial state satisfies the invariant.
LEMMA InitInv == Init => Inv
BY InitType, InitCovered, MigratedIsAligned DEF Inv, Aligned, Init

----------------------------------------------------------------------------
(* The steps. *)

\* After a good check every day from today to the end of its window is
\* covered: by a partition it created, or by the one it found of that name.
LEMMA CheckCovers ==
    ASSUME Inv, NEW f \in Family, CheckSucceeds(f), NEW table \in Tables(f),
           NEW day \in now .. WindowEnd(f, now) - 1
    PROVE  \E p \in parts' : Covers(p, table, day)
<1>1. now \in MigratedWeek .. LastDay /\ now \in Nat
  BY Days DEF Inv, TypeOK
<1>2. PICK k \in Index(f) : InPeriod(f, k, now)
                            /\ \A i \in 0 .. Ahead(f) : k + i \in Index(f)
  BY <1>1, WindowInCalendar
<1>3. Ahead(f) \in Nat /\ k \in Nat /\ k + Ahead(f) \in Index(f)
  BY <1>2, PeriodsAhead, BoundaryType
<1>4. now <= day /\ day < Boundary(f, k + Ahead(f) + 1) /\ day \in Nat
  <2>1. WindowEnd(f, now) = Boundary(f, k + Ahead(f) + 1)
    BY <1>1, <1>2, WindowIsPeriods
  <2>2. Boundary(f, k + Ahead(f) + 1) \in Nat
    BY <1>3, BoundaryType
  <2> QED
    BY <1>1, <2>1, <2>2
<1>5. f = "monthly" => MonthStart[0] <= day /\ day < MonthStart[LastMonth]
  <2> SUFFICES ASSUME f = "monthly"
               PROVE  MonthStart[0] <= day /\ day < MonthStart[LastMonth]
    OBVIOUS
  <2>1. MonthStart[0] \in Nat /\ MonthStart[0] <= now
    BY <1>1, Days
  <2>2. k + Ahead(f) + 1 \in 0 .. LastMonth /\ LastMonth \in 0 .. LastMonth
    BY <1>3, CalendarAssumption DEF Index
  <2>3. MonthStart[k + Ahead(f) + 1] \in Nat /\ MonthStart[LastMonth] \in Nat
        /\ MonthStart[k + Ahead(f) + 1] <= MonthStart[LastMonth]
    BY <2>2, CalendarAssumption
  <2> QED
    BY <1>1, <1>4, <2>1, <2>3 DEF Boundary
<1>6. PICK j \in Index(f) : InPeriod(f, j, day)
  BY <1>4, <1>5, DayHasPeriod
<1>7. j \in Nat /\ ~(j < k) /\ ~(k + Ahead(f) < j)
  <2>1. j < k => Boundary(f, j + 1) <= Boundary(f, k)
    BY BoundaryOrder
  <2>2. k + Ahead(f) < j => Boundary(f, k + Ahead(f) + 1) <= Boundary(f, j)
    BY <1>3, BoundaryOrder
  <2>3. /\ Boundary(f, j + 1) \in Nat /\ Boundary(f, j) \in Nat /\ Boundary(f, k) \in Nat
        /\ Boundary(f, k + Ahead(f) + 1) \in Nat /\ j \in Nat
    BY <1>3, BoundaryType
  <2> QED
    BY <1>1, <1>2, <1>4, <1>6, <2>1, <2>2, <2>3 DEF InPeriod
<1> DEFINE p == Period(f, table, j)
<1>8. p \in Window(f, now)
  <2>1. j - k \in 0 .. Ahead(f) /\ k + (j - k) = j
    BY <1>3, <1>7
  <2>2. p \in {Period(f, t, k + i) : t \in Tables(f), i \in 0 .. Ahead(f)}
    BY <2>1
  <2> QED
    BY <1>1, <1>2, <2>2, WindowIsPeriods
<1>9. Covers(p, table, day)
  BY <1>6 DEF Covers, Period, InPeriod
<1>10. CASE p \in Missing(f)
  BY <1>9, <1>10 DEF CheckSucceeds
<1>11. CASE p \notin Missing(f)
  <2>1. PICK q \in parts : q.table = p.table /\ q.name = p.name
    BY <1>8, <1>11 DEF Missing
  <2>2. PICK g \in Family : \E i \in Index(g) :
                               q.table \in Tables(g) /\ q = Period(g, q.table, i)
    BY DEF Inv, Aligned
  <2> PICK i \in Index(g) : q.table \in Tables(g) /\ q = Period(g, q.table, i)
    BY <2>2
  <2>3. p.table = table /\ q.table = table
    BY <2>1 DEF Period
  <2>4. f = g
    BY <2>3, OneFamily
  <2>5. i = j
    BY <2>1, <2>3, <2>4, PeriodsDisjoint
  <2>6. q = p
    BY <2>3, <2>4, <2>5
  <2> QED
    BY <1>9, <2>6 DEF CheckSucceeds
<1> QED
  BY <1>10, <1>11

\* A successful check keeps the invariant.
LEMMA CheckKeepsInv ==
    ASSUME Inv, NEW f \in Family, CheckSucceeds(f) PROVE Inv'
<1>1. now \in MigratedWeek .. LastDay /\ now \in Nat /\ now' = now
  BY Days DEF Inv, TypeOK, CheckSucceeds, Tick
<1>2. parts' = parts \cup Missing(f)
  BY DEF CheckSucceeds
<1>3. Aligned'
  BY <1>2, MissingIsAligned DEF Aligned, Inv
<1>4. TypeOK'
  <2>1. \A p \in Missing(f) : p \in Partition /\ p.from < p.to
    BY MissingIsAligned, PeriodType DEF Inv
  <2>2. WindowEnd(f, now) \in Nat
    <3>1. PICK k \in Index(f) : InPeriod(f, k, now)
                                /\ \A i \in 0 .. Ahead(f) : k + i \in Index(f)
      BY <1>1, WindowInCalendar
    <3>2. k + Ahead(f) \in Index(f)
      BY <3>1, PeriodsAhead
    <3> QED
      BY <1>1, <3>1, <3>2, WindowIsPeriods, BoundaryType
  <2>3. promised' \in [Family -> Nat]
    BY <2>2 DEF CheckSucceeds, Inv, TypeOK
  <2>4. checked' \subseteq Family /\ up' \in BOOLEAN
    BY DEF CheckSucceeds, Tick, Inv, TypeOK
  <2> QED
    BY <1>1, <1>2, <2>1, <2>3, <2>4 DEF Inv, TypeOK
<1>5. WindowIsCovered'
  <2> SUFFICES ASSUME NEW g \in Family, NEW table \in Tables(g),
                      NEW day \in now .. promised'[g] - 1
               PROVE  \E p \in parts' : Covers(p, table, day)
    BY <1>1 DEF WindowIsCovered, Tables, Covers
  <2>1. CASE g = f
    <3>1. promised'[f] = WindowEnd(f, now)
      BY DEF CheckSucceeds, Inv, TypeOK
    <3> QED
      BY <2>1, <3>1, CheckCovers
  <2>2. CASE g # f
    <3>1. promised'[g] = promised[g]
      BY <2>2 DEF CheckSucceeds, Inv, TypeOK
    <3> QED
      BY <1>2, <3>1 DEF Inv, WindowIsCovered
  <2> QED
    BY <2>1, <2>2
<1> QED
  BY <1>3, <1>4, <1>5 DEF Inv

\* The other steps create nothing, and the clock only goes on.
LEMMA OthersKeepInv ==
    ASSUME Inv, UNCHANGED <<parts, promised>>, now' \in MigratedWeek .. LastDay,
           now <= now', up' \in BOOLEAN, checked' \subseteq Family
    PROVE  Inv'
<1>1. now \in Int /\ now' \in Int /\ promised \in [Family -> Nat]
  BY Days DEF Inv, TypeOK
<1>2. \A f \in Family : now' .. promised'[f] - 1 \subseteq now .. promised[f] - 1
  BY <1>1
<1>3. WindowIsCovered'
  BY <1>2 DEF Inv, WindowIsCovered, Tables, Covers
<1> QED
  BY <1>3 DEF Inv, TypeOK, Aligned

\* Every action keeps the invariant.
LEMMA NextInv == Inv /\ [Next]_vars => Inv'
<1> SUFFICES ASSUME Inv, [Next]_vars PROVE Inv'
  OBVIOUS
<1>1. ASSUME NEW f \in Family, CheckSucceeds(f) PROVE Inv'
  BY <1>1, CheckKeepsInv
<1>2. now \in Int /\ now \in MigratedWeek .. LastDay /\ MigratedWeek \in Int
      /\ LastDay \in Int /\ up \in BOOLEAN /\ checked \subseteq Family
  BY Days DEF Inv, TypeOK
<1>3. ASSUME NEW f \in Family, CheckFails(f) PROVE Inv'
  BY <1>2, <1>3, OthersKeepInv DEF CheckFails, Tick
<1>4. CASE DayPasses
  BY <1>2, <1>4, OthersKeepInv DEF DayPasses
<1>5. CASE Start
  BY <1>2, <1>5, OthersKeepInv DEF Start
<1>6. CASE Stop
  <2>1. now' = now /\ up' \in BOOLEAN /\ checked' = checked /\ UNCHANGED <<parts, promised>>
    BY <1>6 DEF Stop
  <2> QED
    BY <1>2, <2>1, OthersKeepInv
<1>7. CASE UNCHANGED vars
  <2>1. now' = now /\ up' = up /\ checked' = checked /\ UNCHANGED <<parts, promised>>
    BY <1>7 DEF vars
  <2> QED
    BY <1>2, <2>1, OthersKeepInv
<1> QED
  BY <1>1, <1>3, <1>4, <1>5, <1>6, <1>7 DEF Next

----------------------------------------------------------------------------
(* The theorems. *)

\* The invariant holds always.
LEMMA PartitionsInv == Spec => []Inv
BY InitInv, NextInv, PTL DEF Spec

\* The partitions are well formed for every calendar and look-ahead.
THEOREM PartitionsTypeOK == Spec => []TypeOK
<1>1. Inv => TypeOK
  BY DEF Inv
<1> QED
  BY <1>1, PartitionsInv, PTL

\* On no day and after no history of failed and missed checks does PostgreSQL
\* refuse what a check wants to create (ensurePartition, mondayOf,
\* monthPartitionName).
THEOREM ChecksAreNeverRefused == Spec => []CreateIsNeverRefused
<1>1. Inv => CreateIsNeverRefused
  BY NeverRefused DEF Inv, CreateIsNeverRefused
<1> QED
  BY <1>1, PartitionsInv, PTL

\* A row can be inserted on every day from today to the end of the window of
\* the last good check (ensureAllWeekly, ensureAllMonthly).
THEOREM EveryDayIsCovered == Spec => []WindowIsCovered
<1>1. Inv => WindowIsCovered
  BY DEF Inv
<1> QED
  BY <1>1, PartitionsInv, PTL
=============================================================================
