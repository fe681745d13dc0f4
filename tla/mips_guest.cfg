SPECIFICATION Spec
CONSTANTS
  PageSize = 4096
  Addr <- SomeAddr
  Value <- SomeValue
  SYS_PIPE = 21
  SYS_SET_THREAD_AREA = 42
  LastPc = 5
  DelaySlots = FALSE
INVARIANTS IdentityMap ProgramUndisturbed ArgsDelivered
CHECK_DEADLOCK FALSE
