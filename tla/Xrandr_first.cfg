CONSTANTS
  External = {monitor}
  MaxAsks = 2
  Scenarios <- FirstStored
SPECIFICATION Spec
INVARIANT ResetToPrevious
