CONSTANTS
  Arguments <- MCArguments
  MaxArguments = 4
  Platform = "linux"
  PortMax <- MCPortMax
  SizeMax <- MCSizeMax
  IntMax <- MCIntMax
  HardwareThreads = 2
SPECIFICATION Spec
INVARIANTS TypeOK AsWritten ThrowsAtFirstBadValue HelpGoesFirst SinksAsAsked
