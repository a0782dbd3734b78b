SPECIFICATION Spec
CONSTANTS
  Windows = {w}
  Shells = {s}
  Chargers <- TwoChargers
  MaxTokens = 2
  MaxStarts = 3
  MaxBinds = 2
  MaxOutside = 2
  MaxAnswers = 1
  Faulty = FALSE
INVARIANT SavedIsKept
CHECK_DEADLOCK FALSE
