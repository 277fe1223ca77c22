SPECIFICATION Spec
CONSTANTS
  LookAheadWeeks = 4
  LookAheadMonths = 3
  LastMonth = 8
  MonthStart <- Calendar
  MigratedWeek = 7
  MigratedWeeks = 4
  MigratedMonths = 3
  LastDay = 100
INVARIANTS TypeOK CreateIsNeverRefused WindowIsCovered
CHECK_DEADLOCK FALSE
