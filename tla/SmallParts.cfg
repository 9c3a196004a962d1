CONSTANTS
  Min = 2
  Max = 6
  DimPercent = 30
  IsVM = FALSE
  Scenarios = {{}, {"adjust"}, {"fault"}, {"adjust", "fault"}}
  Volume = {stick, disc}
  MaxMessages = 4
  MaxProxies = 3
  Modes = {"logind", "consolekit"}
  CallsFail = TRUE
  MaxSignals = 8
  MaxNotices = 5
  Daemon = {d1, d2}
  Foreign = Foreign
  Delays = {3}
  MaxDelay = 2
  MaxKeys = 1
  MaxQuestions = 1
  berlin = berlin
  oslo = oslo
  gmt1 = gmt1
  timezone = timezone
  clock = clock
  Zone = {berlin, oslo, gmt1}
  Odd = {gmt1}
  Twin <- MCTwin
  Files <- MCFiles
  Outside = Outside
  Missing = Missing
  Kill = 1
  MaxCalls = 2
  ToolsFail = FALSE
  Pad = {pad1, pad2}
  Custom = {pad2}
  Lingers = FALSE
  MaxEvents = 4
  MaxHelpers = 3
  Translated = {theme}
  Extra = {extra}
  Value = {v1, v2}
  Unknown = {odd}
  Unset = Unset
  MaxWrites = 2
SPECIFICATION AllSpec
INVARIANTS PartsTypeOK UserLevelKept NormalIsVisible VolumesWaitForUnlock
INVARIANTS DaemonSettled NoticeAccounted SettingsReachServer PromisesKept
\* The daemons may all have ended.
CHECK_DEADLOCK FALSE
