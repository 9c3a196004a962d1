CONSTANTS
  \* two alarms that may be given the same or different timeouts
  Alarm = {dim, blank}
  Timeouts = {2, 3}
  MaxIdle = 4
  MaxQueue = 4
  Prompt = TRUE
  Client = {player, viewer}
  Cookie = {1, 2, 3}
  Nobody = Nobody
  MaxCalls = 2
SPECIFICATION AllSpec
INVARIANTS IdleHasReset NextInputResets
PROPERTIES InputEndsIdle InhibitorsKept
\* The clients of the proxy may all have left.
CHECK_DEADLOCK FALSE
