CONSTANTS
  Start = start
  End = end
  x = x
  quote = quote
  Bytes <- MCBytes
  Texts <- JsonTexts
  Json <- MCJson
  BufferSize = 3
  MaxBytes = 5
SPECIFICATION Spec
INVARIANT JsonIsUnderstood
