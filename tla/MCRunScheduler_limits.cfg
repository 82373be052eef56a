SPECIFICATION Spec
CONSTANTS
  t1 = t1  t2 = t2  t3 = t3  s1 = s1  login = login  proxy = proxy  None = None
  Tasks = {t1, t2, t3}
  Servers = {s1}
  MaxRuns = 3
  MaxConc <- LastOne
  Group <- Same
  GroupMax <- Two
  Exclusive <- Never
  Locks <- SharedAccount
  Targets <- AnyNode
  Retryable <- Always
  MaxAttempts <- Two
  Scheduled = {t1}
  Overlap <- Queueing
  Slots <- TwoSlots
  Priority <- EqualPriority
  Results = {"FAILED"}
  NodeModes = {"READY"}
  TaskStatuses = {"ENABLED"}
INVARIANTS ConcurrencyLimit LockExclusion QueuedRounds
