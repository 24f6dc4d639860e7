CONSTANTS
  Arguments <- MCArguments
  MaxArguments = 2
  Platform = "linux"
  PortMax <- MCPortMax
  SizeMax <- MCSizeMax
  IntMax <- MCIntMax
  HardwareThreads = 2
SPECIFICATION Spec
INVARIANT NothingIsParsedAfterDashDash
