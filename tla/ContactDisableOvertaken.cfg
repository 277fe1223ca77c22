SPECIFICATION Spec
CONSTANTS
  User = {u1}
  Profile = {p, q}
  NoProfile = none
  MaxVersion = 3
INVARIANT ConsumedDisableSticks
CHECK_DEADLOCK FALSE
