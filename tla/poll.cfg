SPECIFICATION FairSpec
CONSTANTS
  Ignored <- Temperature
  Fields <- Electrical
  RETRIES = 1
  MaxOnAir = 2
  MaxCommands = 1
INVARIANTS TypeOK NothingFromBefore
PROPERTIES EveryQueryComesRound RestUsable
CHECK_DEADLOCK FALSE
