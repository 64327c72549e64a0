CONSTANTS
  Timers = {t1, t2, t3, t4}
  VCs = {v1, v2, v3}
  NoVC = NoVC
  Callers = {c1, c2}
  MaxCalls = 2
  Misses = 2
  MaxStarts = 2
  MaxSignals = 2
SPECIFICATION MCSpec
INVARIANTS NextIDFresh WaitersQueued ObserverKept EventsMatched
PROPERTIES OthersUntouched WaitsEnd StopEnds StallReported
CHECK_DEADLOCK FALSE
