SPECIFICATION ExampleSpec
CONSTANTS
  Thread <- ThreeTasks
  MainThread = 1
  KVM_MAX_VCPUS = 2
  Calls <- ThreadCalls
  Flags <- Clones
  Errno <- NoErrno
  CloneErrno <- SomeErrno
  Signals = TRUE
  PromptExit = TRUE
  Faults = TRUE
  Exhaustion = TRUE
  thread_cnt = 1
INVARIANTS JoinedWhenDone
PROPERTIES CallsPerformed LockReleased ExamplesEnd
