SPECIFICATION Spec
CONSTANTS
  Servers = {1, 2, 3, 4}
  Releases = {1, 2}
  None = None
  ChannelOf <- AllStable
  Keys = {}
  Manifest <- NoTasks
  MaxDeployments = 3
  MaxParallel = 2
  QueueLimit = 3
  TargetChoices = {{1}, {2}, {1, 2, 3, 4}}
  PoolChoices = {}
  OnlineChoices = {}
  MinChoices = {1}
  NodeModes = {"UP"}
  HealthChoices = {"WELL"}
  MaxUpsets = 0
CONSTRAINT NothingFails
INVARIANT ParallelPulls
