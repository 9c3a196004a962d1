CONSTANTS
  MaxInbox = 3
  \* both parts calm, or one of them with all that may happen to it
  Scenarios = {{}, {"again", "fault"}}
  LidScenarios = {{}, {"fault", "setting", "slow"}, {"closed"}}
SPECIFICATION LogindSpec
INVARIANTS LockAccounted LocksKept
PROPERTIES SleepIsLocked BackpackSuspends
