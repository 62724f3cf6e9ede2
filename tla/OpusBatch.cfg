SPECIFICATION Spec
CONSTANTS
  NPublic = 2
  NHidden = 1
  MaxEdits = 2
  MaxFaults = 2
INVARIANTS
  TypeOK
  CasesRunAlone
PROPERTIES
  KeepsPromise
  BatchEnds
CHECK_DEADLOCK FALSE
