\* What the handler is told about a trap.
SPECIFICATION Spec
CONSTANTS
  KernelThreads = {boot}
  UserThreads   = {u1}
  Boot = boot
  Spaces = {as1}
  Kas = kas
  Null = Null
  Undef = Undef
  NoStack = NoStack
  NoCpu = NoCpu
  UserSp = {0}
  Vals = {0}
  Entry = 0
  Causes = {0, 2, 3, 4}
  YieldCause = 4
  IrqTimer = 3
  NrSyscall = 2
  MaxSlot = 2
PROPERTY EventCarriesCause
CHECK_DEADLOCK FALSE
SYMMETRY ThreadSymmetry
