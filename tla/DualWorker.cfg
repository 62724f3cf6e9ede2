SPECIFICATION Spec
CONSTANTS
  Repeats = 2
  MaxFaults = 2
INVARIANTS
  TypeOK
  CommandsAreSerial
  VerdictsAreTrue
  LeftWorkerIsInconclusive
PROPERTY
  PairEnds
CHECK_DEADLOCK FALSE
