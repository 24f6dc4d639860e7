CONSTANTS
  Logs <- MCLogs
  Scale <- MCScale
  Micros <- MCMicros
  Nanos <- MCNanos
  Units <- MCUnits
  Mantissa <- MCMantissa
  IntMax <- MCIntMax
  Int64Max <- MCInt64Max
  Now = 100
SPECIFICATION Spec
INVARIANTS TypeOK OnlyWrongTypesAreReported TimeIsKept ValuesAreKept
