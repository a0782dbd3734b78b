SPECIFICATION Spec
CONSTANTS
  Replies <- TwoReplies
  Noise <- Bytes
  MtuSmall = 20
  MaxReplies = 4
  MaxFaults = 4
INVARIANTS Reassembled Resynchronises
CHECK_DEADLOCK FALSE
