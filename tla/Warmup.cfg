SPECIFICATION Spec
CONSTANTS
  Sender = {s1}
  Monitor = {m1, m2}
  Ramp <- MCRamp
  DefaultTarget = 4
  MinTarget = 3
  MaxTarget = 4
  AdvancePercent = 80
  RaisePercent = 150
  ReducePercent = 70
  BatchSize = 2
  MaxSent = 3
  MaxDate = 1
INVARIANTS CeilingHolds RampIsRespected RampStandsStill
PROPERTIES CeilingOnlyFalls
SYMMETRY MonitorSymmetry
