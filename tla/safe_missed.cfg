CONSTANTS
  Threads = {t1, t2, t3, t4}
  None = None
  Programs = {{"__removeObject"}}
  Permits = 2
  MaxRecursion = 3
  Spurious = FALSE
SPECIFICATION Spec
INVARIANTS RemoveFindsElement
CHECK_DEADLOCK FALSE
