--------------------------------- MODULE Cte ---------------------------------
(***************************************************************************)
(* Context switching: am/src/trap.S, am/src/cte.c and the two hooks of     *)
(* am/src/vme.c that __am_irq_handle calls.                                *)
(*                                                                         *)
(* A trap saves the running activation in a Context on a kernel stack,     *)
(* __am_irq_handle calls the event handler, the handler answers with the   *)
(* Context to go on with, and trap.S restores it.  Whether the trap came   *)
(* from kernel or from user code is told by mscratch alone: it is zero in  *)
(* kernel code and the top of the thread's kernel stack in user code.      *)
(*                                                                         *)
(* Memory is counted in slots of one Context each: slot n of a stack is    *)
(* the n-th below its end, and a stack pointer <<t, n>> has n slots of     *)
(* stack t in use.  The trap path itself runs with interrupts off on the   *)
(* only hart, so it is cut where the code makes a call: save, handler,     *)
(* __am_switch, restore.                                                   *)
(***************************************************************************)
EXTENDS Integers

CONSTANTS
  KernelThreads,   \* threads made by kcontext, and the one that runs main
  UserThreads,     \* threads made by ucontext
  Boot,            \* the thread that runs main on the boot stack
  Spaces,          \* page directories made by protect
  Kas,             \* the kernel's own page directory
  Null,            \* NULL
  Undef,           \* memory or a register nothing has written
  NoStack,         \* first component of an address outside the kernel stacks
  UserSp,          \* values user code may keep in sp
  Vals,            \* values of the general registers and of the program counter
  Entry,           \* the value both have where a C function begins
  Causes,          \* values of mcause that occur
  YieldCause,      \* -1
  IrqTimer,        \* IRQ_TIMER
  NrSyscall,       \* NR_SYSCALL
  MaxSlot,         \* BOUND: slots of a kernel stack
  NoCpu            \* the virtual processor of an activation that does not exist

Threads == KernelThreads \cup UserThreads
Slots   == 1..MaxSlot
Depths  == 0..MaxSlot

ASSUME ThreadsAssumption ==
  /\ Boot \in KernelThreads
  /\ KernelThreads \cap UserThreads = {}
  /\ NoStack \notin KernelThreads \cup UserThreads

ASSUME ValuesAssumption ==
  /\ MaxSlot \in Nat
  /\ Entry \in Vals
  /\ UserSp \subseteq Nat
  /\ Null \notin Spaces \cup {Kas, Undef}
  /\ Undef \notin Spaces \cup {Kas}

VARIABLES
  cpu,          \* regs, pc, sp and the mstatus bits mie and mprv of the hart
  mscratch,     \* csr: kernel stack top while user code runs, else zero
  satp,         \* csr: the page directory in force (Null: translation off)
  mcause,       \* csr
  phase,        \* where the hart is: "run", "irq", "switch", "restore", "halted"
  a0,           \* the Context pointer the trap path carries
  mem,          \* mem[t][k]: what slot k of kernel stack t holds
  mtvec,        \* whether the trap vector is set
  user_handler, \* whether user_handler is non-NULL
  vme_enable,   \* vme.c: vme_enable
  ev,           \* the Event last given to the handler
  cur, lab,     \* auxiliary: the activation that owns the hart
  link,         \* auxiliary: link[t][b] = slot of activation b's Context, or 0
  asOf          \* auxiliary: asOf[t] = directory given to ucontext, or Null

csrs == <<mscratch, satp, mcause>>
conf == <<mtvec, user_handler, vme_enable>>
aux  == <<cur, lab, link, asOf>>
vars == <<cpu, csrs, phase, a0, mem, conf, ev, aux>>

Zero == <<NoStack, 0>>
Code == {"run", "irq", "switch", "restore", "halted"}

\* An activation is named by the slots in use when it began: 0 is a thread's own
\* body, k > 0 the handler that was called with the Context in slot k.
InUser   == cur \in UserThreads /\ lab = 0
InKernel == ~InUser

Context(c, sp, np) ==
  [regs |-> c.regs, sp |-> sp, epc |-> c.pc, mie |-> c.mie, mprv |-> c.mprv,
   np |-> np, pdir |-> Undef]

\* A stack frame of activation b, and a slot below every stack pointer.
Frame(b) == [owner |-> b]
Junk     == Frame(-1)

Init ==
  /\ cpu \in [regs : {Entry}, pc : {Entry}, sp : {<<Boot, 0>>},
              mie : {FALSE}, mprv : {FALSE}]
  /\ mscratch = Zero /\ satp = Null /\ mcause = 0
  /\ phase = "run" /\ a0 = Zero
  /\ mem = [t \in Threads |-> [k \in Slots |-> Junk]]
  /\ mtvec = FALSE /\ user_handler = FALSE /\ vme_enable = FALSE
  /\ ev = Null
  /\ cur = Boot /\ lab = 0
  /\ link = [t \in Threads |-> [b \in Depths |-> 0]]
  /\ asOf = [t \in Threads |-> Null]

-----------------------------------------------------------------------------
(* Code above the AM: applications and the kernel built on it.               *)

\* Straight-line code.  User code may also put anything into sp.
Compute ==
  /\ phase = "run"
  /\ \E v \in Vals, s \in IF InUser THEN {NoStack} \X UserSp ELSE {cpu.sp} :
       cpu' = [cpu EXCEPT !.regs = v, !.pc = v, !.sp = s]
  /\ UNCHANGED <<csrs, phase, a0, mem, conf, ev, aux>>

\* Kernel code calls a C function: a frame goes below the stack pointer.
Call ==
  /\ phase = "run" /\ InKernel
  /\ cpu.sp[2] < MaxSlot
  /\ mem' = [mem EXCEPT ![cur][cpu.sp[2] + 1] = Frame(lab)]
  /\ cpu' = [cpu EXCEPT !.sp = <<cur, cpu.sp[2] + 1>>]
  /\ UNCHANGED <<csrs, phase, a0, conf, ev, aux>>

\* ... and returns, to the caller whose frame is still there.
Return ==
  /\ phase = "run" /\ InKernel
  /\ cpu.sp[2] > lab
  /\ mem' = [mem EXCEPT ![cur][cpu.sp[2]] = Junk]
  /\ cpu' = [cpu EXCEPT !.sp = <<cur, cpu.sp[2] - 1>>]
  /\ UNCHANGED <<csrs, phase, a0, conf, ev, aux>>

\* The handler stores a system call's result: c->GPRx = v.
SetResult ==
  /\ phase = "run" /\ lab # 0
  /\ \E v \in Vals : mem' = [mem EXCEPT ![cur][lab].regs = v]
  /\ UNCHANGED <<cpu, csrs, phase, a0, conf, ev, aux>>

-----------------------------------------------------------------------------
(* The AM.                                                                   *)

\* cte_init: set mtvec, register the handler (h: it is not NULL).
CteInit ==
  /\ phase = "run" /\ cur = Boot /\ lab = 0
  /\ \E h \in BOOLEAN : user_handler' = h
  /\ mtvec' = TRUE
  /\ UNCHANGED <<cpu, csrs, phase, a0, mem, vme_enable, ev, aux>>

\* vme_init as the CTE sees it: translation goes on with the kernel directory.
VmeInit ==
  /\ phase = "run" /\ cur = Boot /\ lab = 0
  /\ satp' = Kas /\ vme_enable' = TRUE
  /\ UNCHANGED <<cpu, mscratch, mcause, phase, a0, mem, mtvec, user_handler, ev, aux>>

\* kcontext and ucontext put a first Context at the end of a kernel stack that
\* nobody runs on; what the stack held before is given up.
NewThread(t, c) ==
  /\ phase = "run" /\ InKernel /\ t # cur
  /\ 1 \in Slots
  /\ mem' = [mem EXCEPT ![t] = [k \in Slots |-> IF k = 1 THEN c ELSE Junk]]
  /\ link' = [link EXCEPT ![t] = [b \in Depths |-> IF b = 0 THEN 1 ELSE 0]]
  /\ UNCHANGED <<cpu, csrs, phase, a0, conf, ev, cur, lab>>

\* mstatus = 0x1880: MPIE set, MPRV clear.  a0 holds arg, the other registers
\* whatever the memory held.
Kcontext(t) ==
  /\ t # Boot
  /\ \E v \in Vals :
       NewThread(t, [regs |-> v, sp |-> Undef, epc |-> Entry, mie |-> TRUE,
                     mprv |-> FALSE, np |-> "KERNEL", pdir |-> Null])
  /\ UNCHANGED asOf

\* as->ptr comes from protect, which copies the kernel directory of vme_init.
\* The user's sp is what the kernel, or nobody, wrote to gpr[2].
Ucontext(t, as) ==
  /\ vme_enable
  /\ \E v \in Vals, s \in UserSp :
       NewThread(t, [regs |-> v, sp |-> <<NoStack, s>>, epc |-> Entry, mie |-> TRUE,
                     mprv |-> FALSE, np |-> "USER", pdir |-> as])
  /\ asOf' = [asOf EXCEPT ![t] = as]

\* mscratch on the trap path.  Mutant: it is not cleared.
KernelScratchKept == mscratch
KernelScratch == Zero

\* Where the Context goes: below the thread's kernel stack's end when it is user code
\* that is trapped, below sp when it is kernel code.  Mutant: over the innermost frame.
TrapTopOverFrame ==
  IF mscratch # Zero THEN mscratch ELSE <<cpu.sp[1], IF cpu.sp[2] = 0 THEN 0 ELSE cpu.sp[2] - 1>>
TrapTop == IF mscratch # Zero THEN mscratch ELSE cpu.sp

\* A trap: the hart turns interrupts off, saves pc and mie, and __am_asm_trap builds
\* the Context, with the user's sp if it was user code.  mscratch becomes zero, MPRV
\* is set.
AsmTrap(cause) ==
  /\ phase = "run" /\ mtvec
  /\ cause = IrqTimer => cpu.mie
  /\ LET top == TrapTop
         c   == <<top[1], top[2] + 1>>
     IN /\ top[2] < MaxSlot
        /\ mem' = [mem EXCEPT ![c[1]][c[2]] =
                     IF mscratch # Zero THEN Context(cpu, cpu.sp, "USER")
                                        ELSE Context(cpu, Undef, "KERNEL")]
        /\ link' = [link EXCEPT ![cur][lab] = c[2]]
        /\ cpu' = [cpu EXCEPT !.sp = c, !.mie = FALSE, !.mprv = TRUE]
        /\ a0' = c
  /\ mscratch' = KernelScratch /\ mcause' = cause
  /\ phase' = "irq"
  /\ UNCHANGED <<satp, conf, ev, cur, lab, asOf>>

EventOf(cause) ==
  CASE cause = YieldCause -> "YIELD"
    [] cause = IrqTimer   -> "IRQ_TIMER"
    [] cause # YieldCause /\ cause # IrqTimer ->
         IF cause < NrSyscall THEN "SYSCALL" ELSE "ERROR"

\* Mutant: the address space saved is the kernel's.
CurAsKas == IF vme_enable THEN Kas ELSE Null

\* __am_get_cur_as(c)
CurAs == IF vme_enable THEN satp ELSE Null

\* __am_irq_handle up to the call of user_handler, which starts a new activation;
\* without a handler the Context itself is gone on with.
IrqHandle ==
  /\ phase = "irq"
  /\ mem' = [mem EXCEPT ![a0[1]][a0[2]].pdir = CurAs]
  /\ \/ /\ user_handler
        /\ ev' = [event |-> EventOf(mcause), cause |-> 0]
        /\ cpu' = [cpu EXCEPT !.regs = Entry, !.pc = Entry]
        /\ lab' = a0[2]
        /\ phase' = "run"
     \/ /\ ~user_handler
        /\ phase' = "switch"
        /\ UNCHANGED <<ev, cpu, lab>>
  /\ UNCHANGED <<csrs, a0, conf, cur, link, asOf>>

\* The Context in which activation b of thread t is suspended is the one most
\* recently saved on t's stack: the only one a kernel keeps a pointer to.
Newest(t, b) == link[t][b] # 0 /\ \A d \in Depths : link[t][d] <= link[t][b]

\* user_handler returns the Context of activation b of thread t.
HandlerReturn(t, b) ==
  /\ phase = "run" /\ lab # 0
  /\ cpu.sp = <<cur, lab>>
  /\ Newest(t, b)
  /\ a0' = <<t, link[t][b]>>
  /\ cur' = t /\ lab' = b
  /\ phase' = "switch"
  /\ UNCHANGED <<cpu, csrs, mem, conf, ev, link, asOf>>

\* Mutant: no assertion.
HandlerReturnNullUnchecked ==
  /\ phase = "run" /\ lab # 0
  /\ cpu.sp = <<cur, lab>>
  /\ a0' = Null /\ phase' = "switch"
  /\ UNCHANGED <<cpu, csrs, mem, conf, ev, aux>>

\* user_handler returns NULL: the assertion halts the machine.
HandlerReturnNull ==
  /\ phase = "run" /\ lab # 0
  /\ cpu.sp = <<cur, lab>>
  /\ phase' = "halted"
  /\ UNCHANGED <<cpu, csrs, a0, mem, conf, ev, aux>>

\* __am_switch(c).  Mutant: the wrong way round.
SwitchedNull(pdir) == IF vme_enable /\ pdir = Null THEN Kas ELSE satp
Switched(pdir) == IF vme_enable /\ pdir # Null THEN pdir ELSE satp

AmSwitch ==
  /\ phase = "switch"
  /\ satp' = Switched(mem[a0[1]][a0[2]].pdir)
  /\ phase' = "restore"
  /\ UNCHANGED <<cpu, mscratch, mcause, a0, mem, conf, ev, aux>>

\* The hart after Context c is popped from below address over: np tells how to
\* rebuild sp.  Mutants: mstatus is not reloaded; the user's sp is not.
RestoredOldStatus(c, over) ==
  [regs |-> c.regs, pc |-> c.epc, mie |-> cpu.mie, mprv |-> cpu.mprv,
   sp |-> IF c.np = "KERNEL" THEN over ELSE c.sp]
RestoredOldSp(c, over) ==
  [regs |-> c.regs, pc |-> c.epc, mie |-> c.mie, mprv |-> c.mprv, sp |-> over]
Restored(c, over) ==
  [regs |-> c.regs, pc |-> c.epc, mie |-> c.mie, mprv |-> c.mprv,
   sp |-> IF c.np = "KERNEL" THEN over ELSE c.sp]

\* trap.S after the call.  The popped Context is dead memory from here on.
Restore ==
  /\ phase = "restore"
  /\ LET c    == mem[a0[1]][a0[2]]
         over == <<a0[1], a0[2] - 1>>
     IN /\ cpu' = Restored(c, over)
        /\ mscratch' = IF c.np = "KERNEL" THEN mscratch ELSE over
  /\ mem' = [mem EXCEPT ![a0[1]][a0[2]] = Junk]
  /\ link' = [link EXCEPT ![cur][lab] = 0]
  /\ phase' = "run"
  /\ UNCHANGED <<satp, mcause, a0, conf, ev, cur, lab, asOf>>

Next ==
  \/ Compute \/ Call \/ Return \/ SetResult
  \/ CteInit \/ VmeInit
  \/ \E t \in KernelThreads : Kcontext(t)
  \/ \E t \in UserThreads, as \in Spaces : Ucontext(t, as)
  \/ \E cause \in Causes : AsmTrap(cause)
  \/ IrqHandle
  \/ \E t \in Threads, b \in Depths : HandlerReturn(t, b)
  \/ HandlerReturnNull \/ AmSwitch \/ Restore

Spec == Init /\ [][Next]_vars

-----------------------------------------------------------------------------
(* Properties.                                                               *)

UserAddr   == {NoStack} \X UserSp
KernelAddr == Threads \X Depths

Cpus == [regs : Vals, pc : Vals, sp : KernelAddr \cup UserAddr,
         mie : BOOLEAN, mprv : BOOLEAN]

\* Saved from kernel code, with an sp that is not stored; and from user code.
KernelContexts == [regs : Vals, sp : {Undef}, epc : Vals, mie : BOOLEAN, mprv : BOOLEAN,
                   np : {"KERNEL"}, pdir : Spaces \cup {Kas, Null, Undef}]
UserContexts   == [regs : Vals, sp : UserAddr, epc : Vals, mie : BOOLEAN, mprv : BOOLEAN,
                   np : {"USER"}, pdir : Spaces \cup {Kas, Null, Undef}]
Contexts == KernelContexts \cup UserContexts

Frames == [owner : Depths \cup {-1}]

\* Every variable has its type.
TypeOK ==
  /\ cpu \in Cpus
  /\ mscratch \in {Zero} \cup (Threads \X {0})
  /\ satp \in Spaces \cup {Kas, Null}
  /\ mcause \in Causes \cup {0}
  /\ phase \in Code
  /\ a0 \in {Zero} \cup (Threads \X Slots)
  /\ mem \in [Threads -> [Slots -> Contexts \cup Frames]]
  /\ mtvec \in BOOLEAN /\ user_handler \in BOOLEAN /\ vme_enable \in BOOLEAN
  /\ cur \in Threads /\ lab \in Depths
  /\ link \in [Threads -> [Depths -> Depths]]
  /\ asOf \in [Threads -> Spaces \cup {Null}]

\* The convention __am_asm_trap relies on (trap.S:38-47): while a thread's user
\* code runs mscratch is the end of that very thread's kernel stack, and it is
\* zero whenever kernel code or the trap path runs, so that a trap inside the
\* handler does not start again at the stack's end.
ScratchInv ==
  mscratch = IF phase = "run" /\ InUser THEN <<cur, 0>> ELSE Zero

\* No activation's stack is written by another: below a running or suspended
\* kernel activation lie exactly the frames it pushed, and in the slot where it
\* was suspended a Context restored the way it was saved.
StackInv ==
  /\ \A t \in Threads, b \in Depths :
       LET k == link[t][b] IN
       k # 0 => /\ mem[t][k] \in Contexts
                /\ mem[t][k].np = IF t \in UserThreads /\ b = 0 THEN "USER" ELSE "KERNEL"
                /\ \A j \in Slots : b < j /\ j < k => mem[t][j] = Frame(b)
  /\ phase = "run" /\ InKernel =>
       /\ cpu.sp[1] = cur /\ cpu.sp[2] >= lab
       /\ \A j \in Slots : lab < j /\ j <= cpu.sp[2] => mem[cur][j] = Frame(lab)

\* Whatever runs on behalf of a user thread, its own code or a handler called for
\* it, runs with translation on and in the address space ucontext was given for
\* it, however many switches lie between (vme.c:65-73).
AddressSpaceInv ==
  phase = "run" /\ cur \in UserThreads => vme_enable /\ satp = asOf[cur]

\* am.h:26 says an Event is "of type @event, caused by @cause of pointer @ref": the
\* handler is told the cause of the trap it is called for.
EventCarriesCause ==
  [][phase = "irq" /\ user_handler => ev'.cause = mcause]_vars

-----------------------------------------------------------------------------
(* What the properties rest on: the inductive invariant of CteProofs.        *)

\* The activations of a stack lie above one another: an activation begins below
\* the Context it is suspended in, and two never overlap.
Nested ==
  \A t \in Threads, b \in Depths : link[t][b] # 0 =>
    /\ b < link[t][b]
    /\ \A d \in Depths :
         d # b /\ link[t][d] # 0 => link[t][b] <= d \/ link[t][d] <= b

\* A handler lives as long as the Context it was called with.
Called ==
  \A t \in Threads, d \in Slots :
    link[t][d] # 0 \/ (phase = "run" /\ <<t, d>> = <<cur, lab>>)
      => \E b \in Depths : link[t][b] = d

\* The running activation is above all others of its stack; on the trap path a0
\* points to the newest Context of the stack it is about.
TrapPath ==
  /\ phase = "run" => \A b \in Depths : link[cur][b] <= lab
  /\ phase \in {"irq", "switch", "restore"} =>
       Newest(cur, lab) /\ a0 = <<cur, link[cur][lab]>>
  /\ phase = "irq" => cpu.sp = a0

\* User code keeps its hands off kernel stacks and its Context at their end.
UserBody ==
  /\ phase = "run" /\ InUser => cpu.sp \in UserAddr
  /\ \A t \in UserThreads : link[t][0] \in {0, 1}

\* The address space of a user thread is in satp or in its Contexts; every Context
\* gone on with has one.
PdirOk(t, b) ==
  LET pdir == mem[t][link[t][b]].pdir
  IN IF t \in UserThreads THEN pdir = asOf[t] ELSE pdir # Undef

Translated ==
  /\ \A t \in UserThreads :
       t = cur \/ (\E b \in Depths : link[t][b] # 0) => vme_enable /\ asOf[t] \in Spaces
  /\ \A t \in Threads, b \in Depths :
       link[t][b] # 0 /\ ~(phase = "irq" /\ t = cur /\ b = lab) => PdirOk(t, b)
  /\ phase \in {"run", "irq", "restore"} /\ cur \in UserThreads => satp = asOf[cur]

\* The inductive invariant: the properties above are true because of it.
IInv == /\ TypeOK /\ ScratchInv /\ StackInv /\ Nested /\ Called
        /\ TrapPath /\ UserBody /\ Translated

-----------------------------------------------------------------------------
(* Refinement of VirtualCpus.                                                *)

SpaceOf(t, s) == IF t \in UserThreads THEN s ELSE Null

\* The virtual processor a Context in slot k of stack t stands for.  A Context
\* saved from kernel code has no sp of its own: it is rebuilt from its address.
Saved(t, k) ==
  LET c == mem[t][k] IN
  [regs |-> c.regs, pc |-> c.epc, mie |-> c.mie, mprv |-> c.mprv,
   sp |-> IF c.np = "USER" THEN c.sp ELSE <<t, k - 1>>,
   space |-> SpaceOf(t, IF phase = "irq" /\ a0 = <<t, k>> THEN satp ELSE c.pdir)]

Loaded == [regs |-> cpu.regs, pc |-> cpu.pc, mie |-> cpu.mie, mprv |-> cpu.mprv,
           sp |-> cpu.sp, space |-> SpaceOf(cur, satp)]

vcpuBar ==
  [t \in Threads |-> [b \in Depths |->
    IF link[t][b] # 0 THEN Saved(t, link[t][b])
    ELSE IF t = cur /\ b = lab /\ phase \in {"run", "halted"} THEN Loaded
    ELSE NoCpu]]

V == INSTANCE VirtualCpus WITH
       Acts <- Depths, Body <- 0, StackPtrs <- KernelAddr \cup UserAddr,
       Spaces <- Spaces \cup {Null}, vcpu <- vcpuBar, running <- <<cur, lab>>

ASSUME NoCpuAssumption == NoCpu \notin V!Cpu

\* Saving, switching and restoring are invisible: every step of the hart is a step
\* of some activation's own virtual processor, or no step at all.
VirtualCpuSpec == V!Spec
=============================================================================
