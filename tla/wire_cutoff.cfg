SPECIFICATION Spec
CONSTANTS
  Kinds <- JustLimits
  Currents = {}
  CellCounts = {}
  Volts = {}
  CutoffVolts <- TopCutoffs
  Lengths <- Acks
  MaxCalls = 1
  MaxSettings = 1
INVARIANT CutoffAsTold
CHECK_DEADLOCK FALSE
