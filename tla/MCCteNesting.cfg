\* Handlers nested on the stacks of main, a kernel thread and a user thread.
SPECIFICATION Spec
CONSTANTS
  KernelThreads = {boot, k}
  UserThreads   = {u1}
  Boot = boot
  Spaces = {as1}
  Kas = kas
  Null = Null
  Undef = Undef
  NoStack = NoStack
  NoCpu = NoCpu
  UserSp = {0, 1}
  Vals = {0}
  Entry = 0
  Causes = {3, 4}
  YieldCause = 4
  IrqTimer = 3
  NrSyscall = 2
  MaxSlot = 3
INVARIANTS IInv TypeOK ScratchInv StackInv
PROPERTY VirtualCpuSpec
CHECK_DEADLOCK FALSE
SYMMETRY ThreadSymmetry
