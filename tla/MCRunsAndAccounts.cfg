SPECIFICATION PartSpec
CONSTANTS
  t1 = t1  t2 = t2  t3 = t3  s1 = s1  login = login  proxy = proxy  None = None
  Tasks = {t1}
  Servers = {s1}
  MaxRuns = 2
  MaxConc <- Two
  Group <- Same
  GroupMax <- Four
  Exclusive <- Never
  Locks <- NoLocks
  Targets <- AnyNode
  Retryable <- Never
  MaxAttempts <- Two
  Scheduled = {t1}
  Overlap <- Skipping
  Slots <- TwoSlots
  Priority <- EqualPriority
  Results = {"SUCCEEDED", "FAILED"}
  NodeModes = {"READY", "REFUSING", "CLOSED"}
  TaskStatuses = {"ENABLED"}
  Clients = {c1, c2}
  MaxLeases = 2
INVARIANTS LeaseTypeOK SingleLease InUseIsLeased
PROPERTIES TakenRunEnds RequestsEnd
