SPECIFICATION Spec
CONSTANTS
  Thread <- ThreeTasks
  MainThread = 1
  KVM_MAX_VCPUS = 2
  Calls <- RaceCalls
  Flags <- ThreadFlags
  Errno <- NoErrno
  CloneErrno <- NoErrno
  Signals = FALSE
  PromptExit = FALSE
  Faults = FALSE
  Exhaustion = TRUE
INVARIANTS TypeOK PoolMutex CreateOnce PoolPublished LockOwned
VIEW ControlView
