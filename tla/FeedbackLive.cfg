SPECIFICATION Spec
CONSTANTS
  h1 = h1
  h2 = h2
  a = a
  b = b
  Helper = {h1}
  Content = {a, b}
  Starter = a
  MaxRequests = 2
  MaxEdits = 1
  MaxByHand = 1
  MaxFaults = 1
  Missing = Missing
  None = None
  Absent = Absent
  Partial = Partial
PROPERTIES
  RequestIsAnswered
  SessionCloses
