CONSTANTS
  Device = {"b1"}
  Kind <- MCKind
  Full = 4
  Percentage <- MCPercentage
  Time <- MCTime
  UseTime = TRUE
  MaxTimers = 2
  Machines <- MCLaptop
SPECIFICATION Spec
PROPERTY NoActionOnAC
