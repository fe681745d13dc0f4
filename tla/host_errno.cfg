SPECIFICATION Spec
CONSTANTS
  Task <- Tasks
  Root = 1
  Errno <- TwoErrno
INVARIANTS SignalsSurvived
CHECK_DEADLOCK FALSE
