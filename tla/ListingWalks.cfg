SPECIFICATION Spec
CONSTANTS
  u1 = "u1"
  u2 = "u2"
  Writer = {w1, w2}
  Reader = {r1}
  User = {"u1", "u2"}
  Request <- Requests
  DefaultPageSize = 1
  MaxPageSize = 2
  IntRange = 64
  LastId = 3
  NewStatus = {"PENDING", "SUPPRESSED"}
SYMMETRY WriterSymmetry
INVARIANTS TypeOK WalkIsComplete OnlyOpenRowsAreMissed
PROPERTIES PagesAreAsAsked ClientViewIsFinal
CHECK_DEADLOCK FALSE
