SPECIFICATION OrchestrationSpec
CONSTANTS
  Servers = {1, 2}
  Releases = {1, 2}
  None = None
  ChannelOf <- AllStable
  Keys = {"a", "b"}
  Contract <- OwnContracts
  NoContract = NoContract
  TaskStatuses = {"DRAFT", "ENABLED"}
  ScheduleStatuses = {"PAUSED", "ENABLED"}
  PinChoices = {None, 1}
  Manifest <- TwoManifests
  MaxDeployments = 2
  MaxParallel = 1
  QueueLimit = 1
  TargetChoices = {{1}, {1, 2}}
  PoolChoices = {"ENABLED", "PAUSED"}
  OnlineChoices = {"ONLINE", "OFFLINE"}
  MinChoices = {1, 2}
  NodeModes = {"UP", "HELD"}
  HealthChoices = {"ILL", "WELL"}
  MaxUpsets = 2
  Minutes = 4
  Hours = 3
  Week = 3
  Calendar <- ShortMonths
  Configs <- FewConfigs
  MinIntervalNormal = 2
  MinIntervalAdmin = 1
  LastMinute = 24
  MaxShards = 2
  MaxAttempts = 2
  MaxRows = 4
  Results = {"SUCCEEDED", "FAILED"}
  Accounts = {"x", "y"}
  Told <- SomeTold
  Unbound = Unbound
  Reporters = {p, q}
INVARIANTS OrchestrationTypeOK RunningReleaseIsTested SinglePull DefinitionsInStep EnabledCanRun
PROPERTIES AtomicActivation StartedOnTested ClaimIsJustified PlanFiresAsConfigured ParentFollowsShards SubjectStaysBound
CHECK_DEADLOCK FALSE
