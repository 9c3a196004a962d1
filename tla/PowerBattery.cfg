CONSTANTS
  Device = {"b1", "b2", "ups", "mouse"}
  Kind <- MCKind
  Full = 4
  Percentage <- MCPercentage
  Time <- MCTime
  UseTime = TRUE
  MaxTimers = 2
  Machines <- MCMachines
SPECIFICATION Spec
INVARIANTS BaselineFresh ActionFollows LoopStopsOnAC
