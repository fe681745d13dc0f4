SPECIFICATION Spec
CONSTANTS
  Thread <- ThreeTasks
  MainThread = 1
  KVM_MAX_VCPUS = 2
  Calls <- PromptCalls
  Flags <- Clones
  Errno <- SomeErrno
  CloneErrno <- NoErrno
  Signals = TRUE
  PromptExit = TRUE
  Faults = TRUE
  Exhaustion = FALSE
INVARIANTS OneThreadPerVcpu AssertValid OwnCall
PROPERTIES NativeSpec NoLeak
