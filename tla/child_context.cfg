SPECIFICATION Spec
CONSTANTS
  Cpu <- TwoCpus
  Main = 1
  Value <- OneValue
INVARIANTS TypeOK ContextNative OwnBlock
CHECK_DEADLOCK FALSE
