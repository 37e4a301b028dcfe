SPECIFICATION FairSpec
CONSTANTS
  Conversations = {c1, c2}
  Opened = c1
  Tags = {"vip"}
  Fields = {"status", "assignee", "tags", "message", "notes"}
  None = None
  MaxSurprises = 2
  MaxFailures = 1
  MaxCalls = 3
INVARIANTS
  TypeOK
  ShownBelongs
  QuietIsCurrent
PROPERTIES
  RefreshesEnd
CHECK_DEADLOCK FALSE
