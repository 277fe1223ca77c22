SPECIFICATION Spec
CONSTANTS
  Task = {t1, t2}
  User = {u1}
  Assignee <- OneAssignee
  Adapter = {}
  Phone = {"p"}
  Email = {"e"}
  EarlyPhase = {"ACCEPTED", "UNKNOWN"}
  MaxRetries = 1
  MaxCopies = 2
  Preference <- AllDocuments
INVARIANTS NoSilentTask SuppressedMeansDisabled DispatchHasRecipient
PROPERTY DisabledStopsLaterTasks
