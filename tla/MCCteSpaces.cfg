\* Two user threads in two address spaces, switched by main's handler.
SPECIFICATION Spec
CONSTANTS
  KernelThreads = {boot}
  UserThreads   = {u1, u2}
  Boot = boot
  Spaces = {as1, as2}
  Kas = kas
  Null = Null
  Undef = Undef
  NoStack = NoStack
  NoCpu = NoCpu
  UserSp = {0}
  Vals = {0, 1}
  Entry = 0
  Causes = {4}
  YieldCause = 4
  IrqTimer = 3
  NrSyscall = 2
  MaxSlot = 2
INVARIANTS AddressSpaceInv
PROPERTY VirtualCpuSpec
CHECK_DEADLOCK FALSE
SYMMETRY ThreadSymmetry
