CONSTANTS
  MaxTries <- MCMaxTries
  MaxDetections <- MCMaxDetections
SPECIFICATION Spec
INVARIANTS
  RunsVerifiedFirmware
CHECK_DEADLOCK FALSE
