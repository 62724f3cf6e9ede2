SPECIFICATION Spec
CONSTANTS
  NPublic = 1
  NHidden = 1
  Benchmark <- MCBenchmark
  Timings <- MCTimings
  Replays <- MCTimings
  None = None
  Torn = Torn
  NMhc = 2
  NSlots = 2
  NSnapshots = 2
  MaxFaults = 1
  Hosts <- MCHosts
INVARIANTS
  TypeOK
  VerdictIsTrue
  AcceptedIsFinal
  OneIsBelieved
CHECK_DEADLOCK FALSE
