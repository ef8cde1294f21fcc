SPECIFICATION ConfigSpec
CONSTANTS
  None = None
  Inputs <- MCInputs
  Environment <- MCEnvironment
  ReservedNames <- MCReserved
INVARIANTS
  HandedToItsReader
  RefusedForAReason
  BuildableWhenAccepted
CHECK_DEADLOCK FALSE
