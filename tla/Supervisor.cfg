SPECIFICATION FairSpec
CONSTANTS
  Vassal = {titan, hermes}
  None = None
  Request = {r1, r2}
  Cleanup = Cleanup
  MaxRestarts = 1
  MaxFault = 2
INVARIANTS NoOrphans RestartsAreBounded NoVassalForgotten ShutdownStopsAll
CHECK_DEADLOCK FALSE
PROPERTIES CrashedRunsAgain ImplementsPool
