SPECIFICATION Spec
CONSTANTS
  Sub = u1
  Task = {t1}
  Adapter = {dingtalk}
  EarlyPhase = {}
  MaxRetries = 1
  MaxCopies = 1
  Phone = {"p"}
  Email = {"e"}
  Profile <- TwoProfiles
  MaxVersion = 2
  Client = {c1, c2}
  Request <- TwoRequests
  Null = null
SYMMETRY Symmetry
INVARIANTS DispatchGoesWhereDirectorySaid ChannelWasChosen SuppressedWasDisabled
PROPERTY ImplementsDelivery
CHECK_DEADLOCK FALSE
