SPECIFICATION Spec
CONSTANTS
  None = None
  Plugins = {"first", "second", "third"}
  Paths = {"/x", "/y"}
  Acts = {"add", "remove"}
  Priorities <- SomePriorities
  MaxPlugins = 3
  MaxPatches = 1
INVARIANT TypeOK HighestPriorityWins NothingLost
CHECK_DEADLOCK FALSE
