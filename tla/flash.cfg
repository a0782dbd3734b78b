SPECIFICATION FairSpec
CONSTANTS
  Images <- SomeImages
  Starts <- SomeStarts
  FlashSize = 2
  Addresses = 4
  Blank = 9
  Garbled = 0
  MaxAttempts = 4
INVARIANTS TypeOK TellsTheTruth VerifiedMeansSummed
PROPERTY AttemptEnds
CHECK_DEADLOCK FALSE
