SPECIFICATION FairSpec
CONSTANTS
  TLB_PS = 29
  PageSize = 128
  Ebase = 300
  Addr <- SomeAddr
  Value <- SomeValue
INVARIANTS IdentityMap ProgramUndisturbed ArgsDelivered
PROPERTY ProgramGoesOn
