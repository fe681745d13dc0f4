SPECIFICATION Spec
CONSTANTS
  Thread <- ThreeTasks
  MainThread = 1
  KVM_MAX_VCPUS = 2
  Calls <- ThreadCalls
  Flags <- Clones
  Errno <- NoErrno
  CloneErrno <- NoErrno
  Signals = TRUE
  PromptExit = FALSE
  Faults = FALSE
  Exhaustion = FALSE
INVARIANT AssertValid
