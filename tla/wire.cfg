SPECIFICATION Spec
CONSTANTS
  Kinds <- EveryKind
  Currents <- LowHigh
  CellCounts <- SomeCells
  Volts <- NoneOr4321
  CutoffVolts <- Cutoffs
  Lengths <- ReplyLengths
  MaxCalls = 2
  MaxSettings = 1
INVARIANTS TypeOK ParsesExactly AnswersTheQuestion TaskIsSafe
PROPERTY ReadBack
CHECK_DEADLOCK FALSE
