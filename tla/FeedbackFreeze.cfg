SPECIFICATION Spec
CONSTANTS
  h1 = h1
  h2 = h2
  a = a
  b = b
  Helper = {h1}
  Content = {a, b}
  Starter = a
  MaxRequests = 1
  MaxEdits = 1
  MaxByHand = 0
  MaxFaults = 0
  Missing = Missing
  None = None
  Absent = Absent
  Partial = Partial
INVARIANTS
  CallFreezesSource
