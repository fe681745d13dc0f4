SPECIFICATION Spec
CONSTANTS
  Space = 64
  PageSize = 4
  Top = 40
  Floor = 16
  Frames = 2
  Limits <- SomeLimits
INVARIANTS StackServed StackKept EnterSucceeds
CHECK_DEADLOCK FALSE
