SPECIFICATION Spec
CONSTANTS
  a = a
  b = b
  big = big
  File = {1, 2}
  Kernel = 2
  Content = {a, big}
  Oversized = {big}
  Starter <- MCStarter
  Brokered = TRUE
  MaxMoves = 2
  MaxRequests = 1
  MaxFaults = 1
  Absent = Absent
  None = None
  NoThread = NoThread
  NoResult = NoResult
  Garbled = Garbled
PROPERTIES
  RunEnds
