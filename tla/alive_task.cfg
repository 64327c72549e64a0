CONSTANTS
  Callers = {c1, c2}
  MaxCalls = 2
SPECIFICATION FairSpec
PROPERTIES CallsServed
CHECK_DEADLOCK FALSE
