SPECIFICATION Spec
CONSTANTS
  Ports <- BothPorts
  Reg <- SomeRegisters
  FReg <- SomeFRegs
  Value <- SomeValues
  Frame = 7
  Entered <- SomeEntered
  Exc <- Exceptions
  VS = 2
  Slot = 4
  PAGESIZE = 128
INVARIANTS FramesKept ResumesNative FpuPictured TrapsServed
CHECK_DEADLOCK FALSE
