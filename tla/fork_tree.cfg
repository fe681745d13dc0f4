SPECIFICATION Spec
CONSTANTS
  Task <- ThreeTasks
  Root = 1
  KVM_MAX_VCPUS = 3
  MaxFd = 6
  MaxFiles = 1
  MaxPages = 3
  Kinds <- TreeKinds
  HeapLocks = TRUE
  Exhaustion = TRUE
INVARIANTS TypeOK OwnVcpu OwnStack StackMapped OneDescriptor
CHECK_DEADLOCK FALSE
