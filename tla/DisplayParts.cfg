CONSTANTS
  KMax = 3
  DimPercent = 34
  MaxSignals = 3
  Scenarios = {{}, {"adjust", "toggle", "fault"}, {"adjust", "toggle", "lag"}}
  External = {monitor}
  MaxAsks = 2
  Scenes <- MCScenes
  MaxTimers = 2
  MaxEvents = 2
  Settings <- MCSettings
  Connector = {panel, hdmi}
  Profile = {p}
  NoProfile = NoProfile
  MaxChanges = 2
  Flaps = FALSE
SPECIFICATION AllSpec
INVARIANTS PartsTypeOK UserLevelRestored CacheAgrees SomethingToSee
INVARIANTS OnlyConfirmedStays FollowsAccelerometer ShowsDefaults
\* The manager of the orientation may have stopped, and the changes of the
\* outputs be used up.
CHECK_DEADLOCK FALSE
