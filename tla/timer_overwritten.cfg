CONSTANTS
  Threads = {main, worker}
  MainThread = main
  Timers = {t1, t2, t3}
  NoTimer = NoTimer
SPECIFICATION Spec
PROPERTIES NotDestroyedOnItsOwn
