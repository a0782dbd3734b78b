SPECIFICATION DecoderSpec
CONSTANTS
  Alphabet <- Telling
  MaxBytes = 8
  DataLengths <- OneOrTwo
INVARIANTS DecoderInv DecodesExactly
