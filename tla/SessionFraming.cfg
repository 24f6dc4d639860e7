CONSTANTS
  Start = start
  End = end
  x = x
  quote = quote
  Bytes <- MCBytes
  Texts <- MCTexts
  Json <- MCJson
  BufferSize = 3
  MaxBytes = 9
SPECIFICATION FairSpec
INVARIANTS TypeOK Framing
PROPERTY HangUpIsReached
