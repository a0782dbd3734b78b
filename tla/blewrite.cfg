SPECIFICATION FairSpec
CONSTANTS
  poll = poll
  command = command
  Senders <- Sharing
  FrameSizes <- QueryAndTask
  Mtu = 20
  MIN_WRITE_GAP = 2
  WRITE_TIMEOUT = 2
  MaxSends = 3
INVARIANTS FramesNotInterleaved WholeOrPrefix
PROPERTIES GapKept SendEnds
CHECK_DEADLOCK FALSE
