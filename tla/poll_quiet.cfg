SPECIFICATION FairSpec
CONSTANTS
  Ignored <- SecondChannel
  Fields <- Electrical
  RETRIES = 1
  MaxOnAir = 2
  MaxCommands = 1
PROPERTY RestUsable
CHECK_DEADLOCK FALSE
