CONSTANTS
  MaxInbox = 3
  Scenarios = {{}}
SPECIFICATION Spec
PROPERTY AsleepIsLocked
