SPECIFICATION Spec
CONSTANTS
  Task = {t1}
  User = {u1}
  Assignee <- OneAssignee
  Adapter = {dingtalk, wecom}
  Phone = {"p"}
  Email = {}
  EarlyPhase = {"ACCEPTED", "UNKNOWN"}
  MaxRetries = 1
  MaxCopies = 1
  Preference <- NoDocuments
INVARIANT AnnouncedSentIsSent
