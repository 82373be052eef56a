CONSTANTS
  Runs = {r1}
  MaxTokens = 2
  MaxCreds = 2
  Slots = 1
  AgentKinds = {"CURRENT", "LEGACY"}
  MaxUpsets = 4
SPECIFICATION Spec
INVARIANTS NodeTypeOK ConfirmedRemoval UnusedTokenNeverCompletes
PROPERTIES ConfirmedHostIsIdle LeavingEnds JoiningEnds
CHECK_DEADLOCK FALSE
