SPECIFICATION Spec
CONSTANTS
  Task = {t1}
  User = {u1}
  Assignee <- OneAssignee
  Adapter = {dingtalk}
  Phone = {"p"}
  Email = {}
  EarlyPhase = {"ACCEPTED", "UNKNOWN"}
  MaxRetries = 3
  MaxCopies = 1
  Preference <- NoDocuments
INVARIANTS TypeOK ExhaustedAfterEveryRetry AnnouncedOutcomeIsStored AcceptedIsCurrentAttempt
PROPERTY KeepsPromise
