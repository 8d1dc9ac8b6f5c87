CONSTANTS
  MaxTries <- MCMaxTries
  MaxDetections <- MCMaxDetections
SPECIFICATION Spec
INVARIANTS
  TypeOK
  IrqFindsSema
  WakeNotForgotten
  OneWakePerDetection
  RearmsWhatItServed
PROPERTIES
  DetectionServed
  BootEnds
CHECK_DEADLOCK FALSE
