SPECIFICATION Spec
CONSTANT MaxFaults = 2
INVARIANTS
  TypeOK
  NothingRunsOnReturn
  StatusIsPayloads
  CalmCallReturns
PROPERTIES
  ForeignIsSafe
  CallEnds
