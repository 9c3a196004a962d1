CONSTANTS
  Settings <- MCSettings
  Fade = 1
  GiveUp = 6
  MaxIdle = 4
  MaxQueue = 2
  Prompt = TRUE
  Delay = 1
SPECIFICATION FairSpec
INVARIANTS NotStuck AlarmsAccounted
PROPERTIES IdleTimeSpec UserIsBack
