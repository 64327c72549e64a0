CONSTANTS
  Demos <- DemoNames
  Blocks <- BlockNames
  Code <- DemoCode
  Threads = {t1, t2, t3, t4}
  None = None
  Programs = {{"__removeObject", "dispatch_semaphoreTestMethod"}, {"__condationRemove"},
    {"__condationLockRemove"}, {"pthread_mutex_recurecursive"},
    {"osspinlock", "pthread_mutex"}, {"nslockMethod", "os_unfair_lock"}, {"synchronizedMethod"}}
  Permits = 2
  MaxRecursion = 3
  Spurious = TRUE
SPECIFICATION MCSpec
INVARIANTS Exclusive RecursionBounded CondationLockOrder Helped
PROPERTIES FileRules OutputAsExpected AllFinish
CHECK_DEADLOCK FALSE
