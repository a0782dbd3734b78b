SPECIFICATION Spec
CONSTANTS
  Windows = {w}
  Shells = {s}
  Chargers <- TwoChargers
  MaxTokens = 2
  MaxStarts = 2
  MaxBinds = 2
  MaxOutside = 3
  MaxAnswers = 2
  Faulty = TRUE
INVARIANTS TypeOK StoredUnlessStale KnownUnlessMishap
CHECK_DEADLOCK FALSE
