SPECIFICATION FairSpec
CONSTANTS
  Kinds <- SetFlashAndRaw
  Unsolicited <- WorkStateFrames
  Bodies = {"good"}
  RETRIES = 1
  MaxCalls = 2
  MaxFrames = 3
INVARIANTS TypeOK ResendBound TimeoutMeansAllTried DeadlineStands FeedInOrder StaleOnlyAfterTrouble
PROPERTIES CallEnds ImplementsExchange
CHECK_DEADLOCK FALSE
