SPECIFICATION ExampleSpec
CONSTANTS
  Task <- ThreeTasks
  Root = 1
  KVM_MAX_VCPUS = 2
  MaxFd = 6
  MaxFiles = 0
  MaxPages = 2
  Kinds <- LiveKinds
  HeapLocks = TRUE
  Exhaustion = FALSE
  num = 2
PROPERTIES ForkChildRuns CloneReturns ProcessesEnd
CHECK_DEADLOCK FALSE
