CONSTANTS
  Demos <- WrongComments
  Blocks <- BlockNames
  Code <- DemoCode
SPECIFICATION FairDispatch
INVARIANTS OutputAsCommented
CHECK_DEADLOCK FALSE
