SPECIFICATION FairSpec
CONSTANTS
  MaxCommand = 3
  MaxMonth = 2
  MaxFault = 1
INVARIANT FlagsAgree
INVARIANT PauseIsHonoured
PROPERTY BudgetIsEnforced
PROPERTY ExceededStopsTitan
