SPECIFICATION Spec
CONSTANTS
  a = a
  b = b
  big = big
  File = {1, 2}
  Kernel = 2
  Content = {a, b, big}
  Oversized = {big}
  Starter <- MCStarter
  Brokered = TRUE
  MaxMoves = 3
  MaxRequests = 1
  MaxFaults = 1
  Absent = Absent
  None = None
  NoThread = NoThread
  NoResult = NoResult
  Garbled = Garbled
INVARIANTS
  TypeOK
  JournalChain
  CleanResultIsFinalSource
  QuietRunReplays
  FailureShowsInExit
  LaunchIsRecorded
PROPERTIES
  RecordsSourceLog
