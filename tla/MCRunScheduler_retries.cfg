SPECIFICATION Spec
CONSTANTS
  t1 = t1  t2 = t2  t3 = t3  s1 = s1  login = login  proxy = proxy  None = None
  Tasks = {t1}
  Servers = {s1}
  MaxRuns = 3
  MaxConc <- Two
  Group <- Same
  GroupMax <- Four
  Exclusive <- Never
  Locks <- NoLocks
  Targets <- AnyNode
  Retryable <- Always
  MaxAttempts <- Two
  Scheduled = {t1}
  Overlap <- Skipping
  Slots <- TwoSlots
  Priority <- EqualPriority
  Results = {"SUCCEEDED", "FAILED"}
  NodeModes = {"READY"}
  TaskStatuses = {"ENABLED"}
INVARIANT RetriesWithinBudget
