SPECIFICATION Spec
CONSTANTS
  MaxCommand = 1
  MaxMonth = 0
  MaxFault = 0
INVARIANT ManualPauseHolds
