CONSTANTS
  Threads = {main, worker}
  MainThread = main
  Timers = {t1, t2}
  NoTimer = NoTimer
SPECIFICATION FairSpec
PROPERTIES CallsReturn
