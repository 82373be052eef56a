SPECIFICATION Spec
CONSTANTS
  t1 = t1  t2 = t2  t3 = t3  s1 = s1  login = login  proxy = proxy  None = None
  Tasks = {t1, t2}
  Servers = {s1}
  MaxRuns = 2
  MaxConc <- Unlimited
  Group <- Same
  GroupMax <- Four
  Exclusive <- FirstExclusive
  Locks <- NoLocks
  Targets <- AnyNode
  Retryable <- Never
  MaxAttempts <- Two
  Scheduled = {}
  Overlap <- CancellingOld
  Slots <- TwoSlots
  Priority <- EqualPriority
  Results = {"SUCCEEDED", "FAILED"}
  NodeModes = {"READY"}
  TaskStatuses = {"ENABLED"}
INVARIANT ExclusiveRunsAlone
