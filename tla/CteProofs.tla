------------------------------ MODULE CteProofs ------------------------------
(***************************************************************************)
(* The invariants of Cte hold for any number of threads, address spaces,   *)
(* stack slots and register values.  IInv is inductive: one lemma per      *)
(* action, one step per conjunct the action can disturb.                   *)
(***************************************************************************)
EXTENDS Cte, TLAPS

MemType  == [Threads -> [Slots -> Contexts \cup Frames]]
LinkType == [Threads -> [Depths -> Depths]]
PdirType == Spaces \cup {Kas, Null, Undef}

\* Writing one entry of a two-dimensional array.
LEMMA Update ==
  ASSUME NEW A, NEW B, NEW C, NEW f \in [A -> [B -> C]],
         NEW a \in A, NEW b \in B, NEW c \in C
  PROVE  /\ [f EXCEPT ![a][b] = c] \in [A -> [B -> C]]
         /\ \A x \in A, y \in B :
              [f EXCEPT ![a][b] = c][x][y] = IF x = a /\ y = b THEN c ELSE f[x][y]
  OBVIOUS

\* Suspending or popping one activation leaves the others where they are.
LEMMA LinkUpdate ==
  ASSUME link \in LinkType, cur \in Threads, lab \in Depths, NEW k \in Depths,
         link' = [link EXCEPT ![cur][lab] = k]
  PROVE  /\ link' \in LinkType
         /\ \A t \in Threads, b \in Depths :
              link'[t][b] = IF t = cur /\ b = lab THEN k ELSE link[t][b]
  BY DEF LinkType

\* The fields of a Context have the types of the registers they are loaded into.
LEMMA ContextFields ==
  ASSUME NEW c \in Contexts
  PROVE  /\ c.regs \in Vals /\ c.epc \in Vals /\ c.mie \in BOOLEAN /\ c.mprv \in BOOLEAN
         /\ c.np \in {"KERNEL", "USER"} /\ c.pdir \in PdirType
         /\ c.np = "USER" => c.sp \in UserAddr
  BY DEF Contexts, KernelContexts, UserContexts, PdirType

\* A handler's result and the saved address space leave the rest of a Context alone.
LEMMA ContextUpdate ==
  ASSUME NEW c \in Contexts, NEW v \in Vals, NEW p \in PdirType
  PROVE  /\ [c EXCEPT !.regs = v] \in Contexts
         /\ [c EXCEPT !.regs = v].np = c.np
         /\ [c EXCEPT !.regs = v].pdir = c.pdir
         /\ [c EXCEPT !.pdir = p] \in Contexts
         /\ [c EXCEPT !.pdir = p].np = c.np
         /\ [c EXCEPT !.pdir = p].pdir = p
  BY DEF Contexts, KernelContexts, UserContexts, PdirType

\* A trap saves a Context of the kind it is restored as.
LEMMA ContextSaved ==
  ASSUME NEW c \in Cpus
  PROVE  /\ Context(c, Undef, "KERNEL") \in Contexts
         /\ Context(c, Undef, "KERNEL").np = "KERNEL"
         /\ c.sp \in UserAddr => Context(c, c.sp, "USER") \in Contexts
         /\ Context(c, c.sp, "USER").np = "USER"
  BY DEF Context, Contexts, KernelContexts, UserContexts, Cpus

\* The machine starts in the invariant: main alone, on an empty stack.
LEMMA InitInv == Init => IInv
<1> SUFFICES ASSUME Init PROVE IInv
  OBVIOUS
<1> USE ThreadsAssumption, ValuesAssumption DEF Init, Threads, Slots, Depths, Zero
<1>1. TypeOK
  <2>1. cpu \in Cpus
    <3>1. cpu.regs = Entry /\ cpu.pc = Entry /\ cpu.sp = <<Boot, 0>>
          /\ cpu.mie = FALSE /\ cpu.mprv = FALSE
      OBVIOUS
    <3>2. <<Boot, 0>> \in KernelAddr
      BY DEF KernelAddr
    <3>3. cpu = [regs |-> cpu.regs, pc |-> cpu.pc, sp |-> cpu.sp,
                 mie |-> cpu.mie, mprv |-> cpu.mprv]
      OBVIOUS
    <3> QED BY <3>1, <3>2, <3>3 DEF Cpus
  <2>2. mem \in [Threads -> [Slots -> Contexts \cup Frames]]
    BY DEF Frames, Junk, Frame
  <2>3. link \in [Threads -> [Depths -> Depths]] /\ asOf \in [Threads -> Spaces \cup {Null}]
    OBVIOUS
  <2>4. /\ mscratch \in {Zero} \cup (Threads \X {0}) /\ satp \in Spaces \cup {Kas, Null}
        /\ mcause \in Causes \cup {0} /\ a0 \in {Zero} \cup (Threads \X Slots)
    OBVIOUS
  <2>5. phase \in Code /\ mtvec \in BOOLEAN /\ user_handler \in BOOLEAN /\ vme_enable \in BOOLEAN
    BY DEF Code
  <2>6. cur \in Threads /\ lab \in Depths
    OBVIOUS
  <2> QED BY <2>1, <2>2, <2>3, <2>4, <2>5, <2>6 DEF TypeOK
<1>2. ScratchInv /\ StackInv /\ Nested /\ Called /\ TrapPath /\ UserBody /\ Translated
  BY DEF ScratchInv, StackInv, Nested, Called, TrapPath, UserBody, Translated, PdirOk, InUser, InKernel
<1> QED BY <1>1, <1>2 DEF IInv

\* A stuttering step keeps it.
LEMMA UnchangedInv == IInv /\ UNCHANGED vars => IInv'
  BY DEF IInv, vars, csrs, conf, aux, TypeOK, ScratchInv, StackInv, Nested, Called,
         TrapPath, UserBody, Translated, PdirOk, InUser, InKernel, Newest

\* Straight-line code stays on its stack.
LEMMA ComputeInv == IInv /\ Compute => IInv'
<1> SUFFICES ASSUME IInv, Compute PROVE IInv'
  OBVIOUS
<1> USE DEF IInv, Compute, csrs, conf, aux
<1>1. PICK v \in Vals, s \in IF InUser THEN {NoStack} \X UserSp ELSE {cpu.sp} :
        cpu' = [cpu EXCEPT !.regs = v, !.pc = v, !.sp = s]
  OBVIOUS
<1>2. s \in IF InUser THEN UserAddr ELSE {cpu.sp}
  BY DEF UserAddr
<1>3. cpu' \in Cpus /\ cpu'.sp = s
  BY <1>1, <1>2 DEF TypeOK, Cpus
<1>4. TypeOK'
  BY <1>3 DEF TypeOK
<1>5. ScratchInv' /\ Nested' /\ Called' /\ TrapPath' /\ Translated'
  BY DEF ScratchInv, Nested, Called, TrapPath, Translated, PdirOk, InUser, Newest
<1>6. StackInv'
  BY <1>2, <1>3 DEF StackInv, InUser, InKernel
<1>7. UserBody'
  BY <1>2, <1>3 DEF UserBody, InUser
<1> QED BY <1>4, <1>5, <1>6, <1>7

\* The stack pointer of kernel code is within its own stack, above the Context its
\* activation was called with.
LEMMA KernelSp ==
  ASSUME IInv, phase = "run", InKernel
  PROVE  /\ cpu.sp[2] \in Depths /\ cpu.sp = <<cur, cpu.sp[2]>> /\ lab <= cpu.sp[2]
         /\ \A b \in Depths : link[cur][b] <= cpu.sp[2]
<1> USE DEF IInv
<1>1. cpu.sp[1] = cur /\ cpu.sp[2] >= lab
  BY DEF StackInv
<1>2. cpu.sp \in KernelAddr \cup UserAddr /\ cur \in Threads /\ lab \in Depths
  BY DEF TypeOK, Cpus
<1>3. cpu.sp \in KernelAddr
  BY <1>1, <1>2, ThreadsAssumption DEF UserAddr, Threads
<1>4. cpu.sp[2] \in Depths /\ cpu.sp = <<cur, cpu.sp[2]>>
  BY <1>1, <1>3 DEF KernelAddr
<1>5. \A b \in Depths : link[cur][b] <= lab /\ link[cur][b] \in Depths
  BY <1>2 DEF TrapPath, TypeOK
<1> QED BY <1>1, <1>2, <1>4, <1>5, ValuesAssumption DEF Depths

\* A write above every suspended activation of a stack touches nobody's frames.
LEMMA WriteAbove ==
  ASSUME TypeOK, NEW k \in Slots, \A b \in Depths : link[cur][b] < k,
         NEW c \in Contexts \cup Frames, mem' = [mem EXCEPT ![cur][k] = c]
  PROVE  /\ mem' \in MemType
         /\ mem'[cur][k] = c
         /\ \A j \in Slots : j # k => mem'[cur][j] = mem[cur][j]
         /\ \A t \in Threads, b \in Depths : link[t][b] # 0 =>
              /\ link[t][b] \in Slots
              /\ mem'[t][link[t][b]] = mem[t][link[t][b]]
              /\ \A j \in Slots : j <= link[t][b] => mem'[t][j] = mem[t][j]
<1>1. cur \in Threads /\ \A t \in Threads, b \in Depths : link[t][b] \in Depths
  BY DEF TypeOK
<1>2. /\ mem' \in MemType
      /\ \A t \in Threads, j \in Slots :
           mem'[t][j] = IF t = cur /\ j = k THEN c ELSE mem[t][j]
  <2>1. mem \in [Threads -> [Slots -> Contexts \cup Frames]]
    BY DEF TypeOK
  <2> HIDE DEF TypeOK, Threads, Slots
  <2> QED BY <1>1, <2>1, Update DEF MemType
<1>3. \A t \in Threads, b \in Depths : link[t][b] # 0 => link[t][b] \in Slots
  BY <1>1, ValuesAssumption DEF Depths, Slots
<1>4. \A t \in Threads, b \in Depths, j \in Slots : j <= link[t][b] => t # cur \/ j # k
  BY <1>1, ValuesAssumption DEF Depths, Slots
<1>5. \A t \in Threads, b \in Depths : link[t][b] # 0 => link[t][b] <= link[t][b]
  BY <1>1, ValuesAssumption DEF Depths
<1> QED BY <1>1, <1>2, <1>3, <1>4, <1>5

\* Suspended activations keep their frames, Contexts and address spaces if memory
\* up to their Contexts does not change.
LEMMA SuspendedSame ==
  ASSUME IInv, link' = link,
         \A t \in Threads, b \in Depths : link[t][b] # 0 =>
              /\ link[t][b] \in Slots
              /\ mem'[t][link[t][b]] = mem[t][link[t][b]]
              /\ \A j \in Slots : j <= link[t][b] => mem'[t][j] = mem[t][j]
  PROVE  \A t \in Threads, b \in Depths : link'[t][b] # 0 =>
           /\ mem'[t][link'[t][b]] \in Contexts
           /\ mem'[t][link'[t][b]].np = IF t \in UserThreads /\ b = 0 THEN "USER" ELSE "KERNEL"
           /\ mem'[t][link'[t][b]].pdir = mem[t][link[t][b]].pdir
           /\ \A j \in Slots : b < j /\ j < link'[t][b] => mem'[t][j] = Frame(b)
  BY DEF IInv, StackInv, Slots

\* A call pushes a frame.
LEMMA CallInv == IInv /\ Call => IInv'
<1> SUFFICES ASSUME IInv, Call PROVE IInv'
  OBVIOUS
<1> USE DEF IInv, Call, csrs, conf, aux
<1> DEFINE k == cpu.sp[2] + 1
<1>1. /\ cpu.sp[2] \in Depths /\ cpu.sp = <<cur, cpu.sp[2]>> /\ lab <= cpu.sp[2]
      /\ \A b \in Depths : link[cur][b] <= cpu.sp[2]
  BY KernelSp
<1>2. cur \in Threads /\ lab \in Depths /\ Frame(lab) \in Contexts \cup Frames
      /\ \A b \in Depths : link[cur][b] \in Depths
  BY DEF TypeOK, Frame, Frames
<1>3. k \in Slots /\ k \in Depths /\ \A b \in Depths : link[cur][b] < k
  BY <1>1, <1>2, ValuesAssumption DEF Slots, Depths
<1>4. /\ mem' \in MemType /\ mem'[cur][k] = Frame(lab)
      /\ \A j \in Slots : j # k => mem'[cur][j] = mem[cur][j]
      /\ \A t \in Threads, b \in Depths : link[t][b] # 0 =>
              /\ link[t][b] \in Slots
              /\ mem'[t][link[t][b]] = mem[t][link[t][b]]
              /\ \A j \in Slots : j <= link[t][b] => mem'[t][j] = mem[t][j]
  <2> mem' = [mem EXCEPT ![cur][k] = Frame(lab)]
    OBVIOUS
  <2> HIDE DEF Call, k
  <2> QED BY <1>2, <1>3, WriteAbove
<1>5. cpu' \in Cpus /\ cpu'.sp = <<cur, k>>
  BY <1>2, <1>3 DEF TypeOK, Cpus, KernelAddr
<1>6. TypeOK'
  BY <1>4, <1>5 DEF TypeOK, MemType
<1>7. ScratchInv' /\ Nested' /\ Called' /\ TrapPath' /\ UserBody'
  BY DEF ScratchInv, Nested, Called, TrapPath, UserBody, InUser, InKernel, Newest
<1>8. link' = link /\ cur' = cur /\ lab' = lab
  OBVIOUS
<1>9. StackInv'
  <2>1. \A j \in Slots : lab < j /\ j <= k => mem'[cur][j] = Frame(lab)
    BY <1>1, <1>2, <1>4 DEF StackInv, Slots, Depths
  <2>2. cpu'.sp[1] = cur /\ cpu'.sp[2] = k /\ k >= lab
    BY <1>1, <1>2, <1>5 DEF Depths
  <2> HIDE DEF Call, k
  <2> QED BY <1>4, <1>8, <2>1, <2>2, SuspendedSame DEF StackInv
<1>10. Translated'
  BY <1>4, <1>8, SuspendedSame DEF Translated, PdirOk, Threads
<1> QED BY <1>6, <1>7, <1>9, <1>10

\* A return pops one.
LEMMA ReturnInv == IInv /\ Return => IInv'
<1> SUFFICES ASSUME IInv, Return PROVE IInv'
  OBVIOUS
<1> USE DEF IInv, Return, csrs, conf, aux
<1> DEFINE k == cpu.sp[2]
<1>1. /\ k \in Depths /\ lab < k /\ \A b \in Depths : link[cur][b] <= lab
  BY KernelSp DEF TrapPath
<1>2. cur \in Threads /\ lab \in Depths /\ Junk \in Contexts \cup Frames
      /\ \A b \in Depths : link[cur][b] \in Depths
  BY DEF TypeOK, Junk, Frame, Frames
<1>3. k \in Slots /\ k - 1 \in Depths /\ k - 1 >= lab /\ \A b \in Depths : link[cur][b] < k
  BY <1>1, <1>2, ValuesAssumption DEF Slots, Depths
<1>4. /\ mem' \in MemType
      /\ \A j \in Slots : j # k => mem'[cur][j] = mem[cur][j]
      /\ \A t \in Threads, b \in Depths : link[t][b] # 0 =>
              /\ link[t][b] \in Slots
              /\ mem'[t][link[t][b]] = mem[t][link[t][b]]
              /\ \A j \in Slots : j <= link[t][b] => mem'[t][j] = mem[t][j]
  <2> mem' = [mem EXCEPT ![cur][k] = Junk]
    OBVIOUS
  <2> HIDE DEF Return, k
  <2> QED BY <1>2, <1>3, WriteAbove
<1>5. cpu' \in Cpus /\ cpu'.sp = <<cur, k - 1>>
  BY <1>2, <1>3 DEF TypeOK, Cpus, KernelAddr
<1>6. TypeOK'
  BY <1>4, <1>5 DEF TypeOK, MemType
<1>7. ScratchInv' /\ Nested' /\ Called' /\ TrapPath' /\ UserBody'
  BY DEF ScratchInv, Nested, Called, TrapPath, UserBody, InUser, InKernel, Newest
<1>8. link' = link /\ cur' = cur /\ lab' = lab
  OBVIOUS
<1>9. StackInv'
  <2>1. \A j \in Slots : lab < j /\ j <= k - 1 => mem'[cur][j] = Frame(lab)
    BY <1>1, <1>2, <1>4 DEF StackInv, Slots, Depths
  <2>2. cpu'.sp[1] = cur /\ cpu'.sp[2] = k - 1 /\ k - 1 >= lab
    BY <1>3, <1>5
  <2> HIDE DEF Return, k
  <2> QED BY <1>4, <1>8, <2>1, <2>2, SuspendedSame DEF StackInv
<1>10. Translated'
  BY <1>4, <1>8, SuspendedSame DEF Translated, PdirOk, Threads
<1> QED BY <1>6, <1>7, <1>9, <1>10

\* The AM's registration calls change no stack.
LEMMA CteInitInv == IInv /\ CteInit => IInv'
  BY ThreadsAssumption DEF IInv, CteInit, csrs, conf, aux, TypeOK, ScratchInv, StackInv, Nested,
     Called, TrapPath, UserBody, Translated, PdirOk, InUser, InKernel, Newest

\* Turning translation on concerns no Context (vme.c:47-50).
LEMMA VmeInitInv == IInv /\ VmeInit => IInv'
  BY ThreadsAssumption DEF IInv, VmeInit, csrs, conf, aux, TypeOK, ScratchInv, StackInv, Nested,
     Called, TrapPath, UserBody, Translated, PdirOk, InUser, InKernel, Newest, Threads

\* The Contexts of different activations of a stack lie in different slots.
LEMMA LinksDiffer ==
  ASSUME IInv, NEW t \in Threads, NEW b \in Depths, NEW d \in Depths,
         b # d, link[t][b] # 0
  PROVE  link[t][b] # link[t][d]
<1>1. link[t][b] \in Depths /\ link[t][d] \in Depths
  BY DEF IInv, TypeOK
<1>2. link[t][b] \in Nat /\ link[t][d] \in Nat /\ b \in Nat /\ d \in Nat
  BY <1>1, ValuesAssumption DEF Depths
<1> QED BY <1>2 DEF IInv, Nested

\* Storing into the Context the newest activation of a stack is suspended in, without
\* changing its kind, disturbs nobody.
LEMMA WriteContext ==
  ASSUME IInv, NEW b \in Depths, link[cur][b] # 0,
         \A d \in Depths : link[cur][d] <= link[cur][b],
         NEW c \in Contexts, c.np = mem[cur][link[cur][b]].np,
         mem' = [mem EXCEPT ![cur][link[cur][b]] = c]
  PROVE  /\ mem' \in MemType
         /\ mem'[cur][link[cur][b]] = c
         /\ \A j \in Slots : j # link[cur][b] => mem'[cur][j] = mem[cur][j]
         /\ \A t \in Threads, d \in Depths : link[t][d] # 0 =>
              /\ t # cur \/ d # b => mem'[t][link[t][d]] = mem[t][link[t][d]]
              /\ mem'[t][link[t][d]] \in Contexts
              /\ mem'[t][link[t][d]].np = IF t \in UserThreads /\ d = 0 THEN "USER" ELSE "KERNEL"
              /\ \A j \in Slots : d < j /\ j < link[t][d] => mem'[t][j] = Frame(d)
<1>1. cur \in Threads /\ \A t \in Threads, d \in Depths : link[t][d] \in Depths
  BY DEF IInv, TypeOK
<1>2. \A t \in Threads, d \in Depths : link[t][d] # 0 => link[t][d] \in Slots
  BY <1>1, ValuesAssumption DEF Depths, Slots
<1> DEFINE k == link[cur][b]
<1>3. /\ mem' \in MemType
      /\ \A t \in Threads, j \in Slots :
           mem'[t][j] = IF t = cur /\ j = k THEN c ELSE mem[t][j]
  <2>1. mem \in [Threads -> [Slots -> Contexts \cup Frames]] /\ k \in Slots
    BY <1>2, <1>1 DEF IInv, TypeOK
  <2>2. mem' = [mem EXCEPT ![cur][k] = c] /\ c \in Contexts \cup Frames
    OBVIOUS
  <2> HIDE DEF Threads, Slots, k
  <2>3. /\ [mem EXCEPT ![cur][k] = c] \in [Threads -> [Slots -> Contexts \cup Frames]]
        /\ \A t \in Threads, j \in Slots :
             [mem EXCEPT ![cur][k] = c][t][j] = IF t = cur /\ j = k THEN c ELSE mem[t][j]
    BY ONLY <1>1, <2>1, <2>2, Update
  <2> QED BY ONLY <2>2, <2>3 DEF MemType
<1>4. ASSUME NEW t \in Threads, NEW d \in Depths, link[t][d] # 0
      PROVE  /\ t # cur \/ d # b => mem'[t][link[t][d]] = mem[t][link[t][d]]
             /\ mem'[t][link[t][d]] \in Contexts
             /\ mem'[t][link[t][d]].np = IF t \in UserThreads /\ d = 0 THEN "USER" ELSE "KERNEL"
  <2>1. t = cur /\ d # b => link[t][d] # k
    BY <1>4, LinksDiffer
  <2> HIDE DEF k
  <2>2. t # cur \/ d # b => mem'[t][link[t][d]] = mem[t][link[t][d]]
    BY <1>2, <1>3, <1>4, <2>1
  <2>3. mem'[cur][k] = c
    BY <1>1, <1>2, <1>3 DEF k
  <2> QED BY <1>4, <2>2, <2>3 DEF IInv, StackInv, k
<1>5. ASSUME NEW t \in Threads, NEW d \in Depths, link[t][d] # 0,
             NEW j \in Slots, d < j, j < link[t][d]
      PROVE  mem'[t][j] = Frame(d)
  <2>1. mem[t][j] = Frame(d)
    BY <1>5 DEF IInv, StackInv
  <2>2. t = cur => j # k
    BY <1>1, <1>5, ValuesAssumption DEF Depths, Slots
  <2> QED BY <1>3, <1>5, <2>1, <2>2
<1> QED BY <1>1, <1>2, <1>3, <1>4, <1>5

\* The handler writes into the Context it was called with.
LEMMA SetResultInv == IInv /\ SetResult => IInv'
<1> SUFFICES ASSUME IInv, SetResult PROVE IInv'
  OBVIOUS
<1> USE DEF IInv, csrs, conf, aux
<1>1. /\ phase = "run" /\ lab # 0
      /\ UNCHANGED <<cpu, csrs, phase, a0, conf, ev, aux>>
  BY DEF SetResult
<1>2. PICK v \in Vals : mem' = [mem EXCEPT ![cur][lab].regs = v]
  BY DEF SetResult
<1>3. cur \in Threads /\ lab \in Slots
  BY <1>1, ValuesAssumption DEF TypeOK, Slots, Depths
<1>4. PICK b \in Depths : link[cur][b] = lab
  BY <1>1, <1>3 DEF Called
<1>5. mem[cur][lab] \in Contexts
  BY <1>1, <1>3, <1>4 DEF StackInv
<1> DEFINE c == [mem[cur][lab] EXCEPT !.regs = v]
<1>6. c \in Contexts /\ c.np = mem[cur][lab].np /\ c.pdir = mem[cur][lab].pdir
  <2>1. Null \in PdirType
    BY DEF PdirType
  <2> QED BY <1>5, <2>1, ContextUpdate
<1>7. mem' = [mem EXCEPT ![cur][link[cur][b]] = c]
  BY <1>2, <1>4
<1>8. \A d \in Depths : link[cur][d] <= link[cur][b]
  BY <1>1, <1>4 DEF TrapPath
<1> HIDE DEF c
<1>9. /\ mem' \in MemType
      /\ mem'[cur][link[cur][b]] = c
      /\ \A j \in Slots : j # link[cur][b] => mem'[cur][j] = mem[cur][j]
      /\ \A t \in Threads, d \in Depths : link[t][d] # 0 =>
              /\ t # cur \/ d # b => mem'[t][link[t][d]] = mem[t][link[t][d]]
              /\ mem'[t][link[t][d]] \in Contexts
              /\ mem'[t][link[t][d]].np = IF t \in UserThreads /\ d = 0 THEN "USER" ELSE "KERNEL"
              /\ \A j \in Slots : d < j /\ j < link[t][d] => mem'[t][j] = Frame(d)
  <2> HIDE DEF IInv
  <2> QED BY <1>1, <1>4, <1>6, <1>7, <1>8, WriteContext
<1>10. TypeOK'
  BY <1>1, <1>9 DEF TypeOK, MemType
<1>11. ScratchInv' /\ Nested' /\ Called' /\ TrapPath' /\ UserBody'
  BY <1>1 DEF ScratchInv, Nested, Called, TrapPath, UserBody, InUser, Newest
<1>12. StackInv'
  <2>1. InKernel
    BY <1>1 DEF InUser, InKernel
  <2>2. \A j \in Slots : lab < j /\ j <= cpu.sp[2] => mem'[cur][j] = Frame(lab)
    BY <1>1, <1>3, <1>4, <1>9, <2>1, ValuesAssumption DEF StackInv, Slots
  <2>3. cpu.sp[1] = cur /\ cpu.sp[2] >= lab
    BY <1>1, <2>1 DEF StackInv
  <2>4. link' = link /\ cur' = cur /\ lab' = lab /\ cpu' = cpu
    BY <1>1
  <2> HIDE DEF IInv
  <2> QED BY <1>9, <2>2, <2>3, <2>4 DEF StackInv
<1>13. Translated'
  <2>1. \A t \in Threads, d \in Depths :
          link[t][d] # 0 => mem'[t][link[t][d]].pdir = mem[t][link[t][d]].pdir
    BY <1>4, <1>6, <1>9
  <2> QED BY <1>1, <2>1 DEF Translated, PdirOk, Threads
<1> QED BY <1>10, <1>11, <1>12, <1>13

\* A new thread has one activation, suspended in slot 1 of a stack nobody runs on.
LEMMA NewThreadInv ==
  ASSUME IInv, NEW t \in Threads, NEW c \in Contexts, NewThread(t, c),
         c.np = IF t \in UserThreads THEN "USER" ELSE "KERNEL", c.pdir # Undef,
         t \in UserThreads => vme_enable /\ asOf'[t] \in Spaces /\ c.pdir = asOf'[t],
         asOf' \in [Threads -> Spaces \cup {Null}],
         \A u \in Threads : u # t => asOf'[u] = asOf[u]
  PROVE  IInv'
<1>1. /\ phase = "run" /\ InKernel /\ t # cur /\ 1 \in Slots
      /\ UNCHANGED <<cpu, csrs, phase, a0, conf, ev, cur, lab>>
  BY DEF NewThread
<1> DEFINE stack == [k \in Slots |-> IF k = 1 THEN c ELSE Junk]
           first == [b \in Depths |-> IF b = 0 THEN 1 ELSE 0]
<1>2. mem' = [mem EXCEPT ![t] = stack] /\ link' = [link EXCEPT ![t] = first]
  BY DEF NewThread
<1>3. /\ mem \in MemType /\ link \in LinkType /\ cur \in Threads /\ lab \in Depths
      /\ cpu \in Cpus
  BY DEF IInv, TypeOK, MemType, LinkType
<1>4. 0 \in Depths /\ 1 \in Depths
  BY <1>1, ValuesAssumption DEF Slots, Depths
<1>5. stack \in [Slots -> Contexts \cup Frames] /\ first \in [Depths -> Depths]
  BY <1>4, ValuesAssumption DEF Junk, Frame, Frames
<1>6. mem' \in MemType /\ link' \in LinkType
  BY <1>2, <1>3, <1>5 DEF MemType, LinkType
<1>7. /\ \A u \in Threads : u # t => mem'[u] = mem[u] /\ link'[u] = link[u]
      /\ mem'[t] = stack /\ link'[t] = first
  BY <1>2, <1>3 DEF MemType, LinkType
<1>8. /\ mem'[t][1] = c /\ link'[t][0] = 1
      /\ \A b \in Depths : b # 0 => link'[t][b] = 0
  BY <1>1, <1>4, <1>7
<1> HIDE DEF stack, first
<1>9. TypeOK'
  BY <1>1, <1>6 DEF IInv, TypeOK, MemType, LinkType, csrs, conf
<1>10. ScratchInv'
  BY <1>1 DEF IInv, ScratchInv, InUser, csrs
<1>11. StackInv'
  <2>1. ASSUME NEW u \in Threads, NEW b \in Depths, link'[u][b] # 0
        PROVE  /\ mem'[u][link'[u][b]] \in Contexts
               /\ mem'[u][link'[u][b]].np = IF u \in UserThreads /\ b = 0 THEN "USER" ELSE "KERNEL"
               /\ \A j \in Slots : b < j /\ j < link'[u][b] => mem'[u][j] = Frame(b)
    <3>1. CASE u = t
      <4>1. b = 0 /\ link'[u][b] = 1
        BY <1>8, <2>1, <3>1
      <4> QED BY <1>8, <3>1, <4>1, ValuesAssumption DEF Slots
    <3>2. CASE u # t
      BY <1>7, <2>1, <3>2 DEF IInv, StackInv
    <3> QED BY <3>1, <3>2
  <2>2. /\ cpu.sp[1] = cur /\ cpu.sp[2] >= lab
        /\ \A j \in Slots : lab < j /\ j <= cpu.sp[2] => mem'[cur][j] = Frame(lab)
    BY <1>1, <1>3, <1>7 DEF IInv, StackInv
  <2> QED BY <1>1, <2>1, <2>2 DEF StackInv
<1>12. Nested'
  <2>1. ASSUME NEW u \in Threads, NEW b \in Depths, link'[u][b] # 0
        PROVE  /\ b < link'[u][b]
               /\ \A d \in Depths :
                    d # b /\ link'[u][d] # 0 => link'[u][b] <= d \/ link'[u][d] <= b
    <3>1. CASE u = t
      BY <1>8, <2>1, <3>1
    <3>2. CASE u # t
      BY <1>7, <2>1, <3>2 DEF IInv, Nested
    <3> QED BY <3>1, <3>2
  <2> QED BY <2>1 DEF Nested
<1>13. Called'
  <2>1. ASSUME NEW u \in Threads, NEW d \in Slots,
               link'[u][d] # 0 \/ (phase = "run" /\ <<u, d>> = <<cur, lab>>)
        PROVE  \E b \in Depths : link'[u][b] = d
    <3>1. u # t
      BY <1>1, <1>8, <2>1, ValuesAssumption DEF Slots, Depths
    <3> QED BY <1>7, <2>1, <3>1 DEF IInv, Called
  <2> QED BY <1>1, <2>1 DEF Called
<1>14. TrapPath'
  BY <1>1, <1>3, <1>7 DEF IInv, TrapPath
<1>15. UserBody'
  <2>1. \A u \in UserThreads : link'[u][0] \in {0, 1}
    BY <1>4, <1>7, <1>8 DEF IInv, UserBody, Threads
  <2> QED BY <1>1, <2>1 DEF UserBody, InUser, InKernel
<1>16. Translated'
  <2>1. \A u \in UserThreads : u = cur \/ (\E b \in Depths : link'[u][b] # 0)
          => vme_enable /\ asOf'[u] \in Spaces
    BY <1>1, <1>7 DEF IInv, Translated, Threads
  <2>2. ASSUME NEW u \in Threads, NEW b \in Depths, link'[u][b] # 0
        PROVE  PdirOk(u, b)'
    <3>1. CASE u = t
      BY <1>8, <2>2, <3>1 DEF PdirOk
    <3>2. CASE u # t
      BY <1>1, <1>7, <2>2, <3>2 DEF IInv, Translated, PdirOk
    <3> QED BY <3>1, <3>2
  <2>3. cur \in UserThreads => satp = asOf'[cur]
    BY <1>1, <1>3 DEF IInv, Translated
  <2> QED BY <1>1, <2>1, <2>2, <2>3 DEF Translated, csrs, conf
<1> QED BY <1>9, <1>10, <1>11, <1>12, <1>13, <1>14, <1>15, <1>16 DEF IInv

\* A kernel thread begins with a Context at the end of its stack (cte.c:43-51).
LEMMA KcontextInv ==
  ASSUME IInv, NEW t \in KernelThreads, Kcontext(t)
  PROVE  IInv'
<1>1. PICK v \in Vals :
        NewThread(t, [regs |-> v, sp |-> Undef, epc |-> Entry, mie |-> TRUE,
                      mprv |-> FALSE, np |-> "KERNEL", pdir |-> Null])
  BY DEF Kcontext
<1> DEFINE c == [regs |-> v, sp |-> Undef, epc |-> Entry, mie |-> TRUE,
                 mprv |-> FALSE, np |-> "KERNEL", pdir |-> Null]
<1>2. c \in Contexts /\ c.np = "KERNEL" /\ c.pdir # Undef
  BY ValuesAssumption DEF Contexts, KernelContexts
<1>3. t \in Threads /\ t \notin UserThreads
  BY ThreadsAssumption DEF Threads
<1>4. asOf' = asOf /\ asOf \in [Threads -> Spaces \cup {Null}]
  BY DEF Kcontext, IInv, TypeOK
<1> HIDE DEF c
<1> QED BY <1>1, <1>2, <1>3, <1>4, NewThreadInv DEF c

\* A user thread does too, with the directory of its space (vme.c:112-119).
LEMMA UcontextInv ==
  ASSUME IInv, NEW t \in UserThreads, NEW as \in Spaces, Ucontext(t, as)
  PROVE  IInv'
<1>1. PICK v \in Vals, s \in UserSp :
        NewThread(t, [regs |-> v, sp |-> <<NoStack, s>>, epc |-> Entry, mie |-> TRUE,
                      mprv |-> FALSE, np |-> "USER", pdir |-> as])
  BY DEF Ucontext
<1> DEFINE c == [regs |-> v, sp |-> <<NoStack, s>>, epc |-> Entry, mie |-> TRUE,
                 mprv |-> FALSE, np |-> "USER", pdir |-> as]
<1>2. c \in Contexts /\ c.np = "USER" /\ c.pdir = as /\ c.pdir # Undef
  BY ValuesAssumption DEF Contexts, UserContexts, UserAddr
<1>3. t \in Threads
  BY DEF Threads
<1>4. asOf' = [asOf EXCEPT ![t] = as] /\ asOf \in [Threads -> Spaces \cup {Null}] /\ vme_enable
  BY DEF Ucontext, IInv, TypeOK
<1>5. /\ asOf' \in [Threads -> Spaces \cup {Null}] /\ asOf'[t] = as
      /\ \A u \in Threads : u # t => asOf'[u] = asOf[u]
  BY <1>3, <1>4
<1> HIDE DEF c
<1> QED BY <1>1, <1>2, <1>3, <1>4, <1>5, NewThreadInv DEF c

\* A trap saves its Context on the stack of the thread it traps, above everything
\* that lives there.
LEMMA TrapTopOk ==
  ASSUME IInv, phase = "run"
  PROVE  /\ TrapTop[1] = cur /\ TrapTop[2] \in Depths /\ lab <= TrapTop[2]
         /\ \A b \in Depths : link[cur][b] <= TrapTop[2]
         /\ \A j \in Slots : lab < j /\ j <= TrapTop[2] => mem[cur][j] = Frame(lab)
         /\ mscratch # Zero <=> InUser
<1>0. cur \in Threads /\ lab \in Depths /\ cur # NoStack
  BY ThreadsAssumption DEF IInv, TypeOK, Threads
<1>1. CASE InUser
  <2>1. mscratch = <<cur, 0>> /\ mscratch # Zero
    BY <1>0, <1>1 DEF IInv, ScratchInv, Zero
  <2>2. TrapTop[1] = cur /\ TrapTop[2] = 0
    BY <2>1 DEF TrapTop
  <2>3. lab = 0 /\ 0 \in Depths
    BY <1>1, ValuesAssumption DEF InUser, Depths
  <2> QED BY <1>1, <2>1, <2>2, <2>3 DEF IInv, TrapPath, Slots
<1>2. CASE InKernel
  <2>1. mscratch = Zero
    BY <1>2 DEF IInv, ScratchInv, InKernel
  <2>2. TrapTop = cpu.sp
    BY <2>1 DEF TrapTop
  <2>3. /\ cpu.sp[2] \in Depths /\ cpu.sp = <<cur, cpu.sp[2]>> /\ lab <= cpu.sp[2]
        /\ \A b \in Depths : link[cur][b] <= cpu.sp[2]
    BY <1>2, KernelSp
  <2>4. \A j \in Slots : lab < j /\ j <= cpu.sp[2] => mem[cur][j] = Frame(lab)
    BY <1>2 DEF IInv, StackInv
  <2>5. cpu.sp[1] = cur
    BY <1>2 DEF IInv, StackInv
  <2> QED BY <1>2, <2>1, <2>2, <2>3, <2>4, <2>5 DEF InKernel
<1> QED BY <1>1, <1>2 DEF InKernel

\* Saving keeps the invariant: user code's Context lands at the end of its thread's
\* stack, kernel code's below its own frames (trap.S:36-102).
LEMMA AsmTrapInv ==
  ASSUME IInv, NEW cause \in Causes, AsmTrap(cause)
  PROVE  IInv'
<1> DEFINE k == TrapTop[2] + 1
           c == IF mscratch # Zero THEN Context(cpu, cpu.sp, "USER")
                                   ELSE Context(cpu, Undef, "KERNEL")
<1>1. /\ phase = "run" /\ k <= MaxSlot
      /\ mscratch' = Zero /\ mcause' = cause /\ phase' = "irq"
      /\ UNCHANGED <<satp, conf, ev, cur, lab, asOf>>
      /\ cpu' = [cpu EXCEPT !.sp = <<TrapTop[1], k>>, !.mie = FALSE, !.mprv = TRUE]
      /\ a0' = <<TrapTop[1], k>>
      /\ mem' = [mem EXCEPT ![TrapTop[1]][k] = c]
      /\ link' = [link EXCEPT ![cur][lab] = k]
  <2>1. TrapTop[2] < MaxSlot => k <= MaxSlot
    BY TrapTopOk, ValuesAssumption DEF AsmTrap, Depths
  <2> QED BY <2>1 DEF AsmTrap, KernelScratch
<1>2. /\ TrapTop[1] = cur /\ TrapTop[2] \in Depths /\ lab <= TrapTop[2]
      /\ \A b \in Depths : link[cur][b] <= TrapTop[2]
      /\ \A j \in Slots : lab < j /\ j <= TrapTop[2] => mem[cur][j] = Frame(lab)
      /\ mscratch # Zero <=> InUser
  BY <1>1, TrapTopOk
<1>3. /\ cur \in Threads /\ lab \in Depths /\ cpu \in Cpus /\ link \in LinkType
      /\ \A t \in Threads, b \in Depths : link[t][b] \in Depths
  BY DEF IInv, TypeOK, LinkType
<1>4. /\ k \in Slots /\ k \in Depths /\ lab < k /\ k # 0
      /\ \A b \in Depths : link[cur][b] < k
      /\ \A j \in Slots : j < k => j <= TrapTop[2]
  BY <1>1, <1>2, <1>3, ValuesAssumption DEF Slots, Depths
<1>5. c \in Contexts /\ c.np = IF InUser THEN "USER" ELSE "KERNEL"
  <2>1. InUser => cpu.sp \in UserAddr
    BY <1>1 DEF IInv, UserBody
  <2> QED BY <1>2, <1>3, <2>1, ContextSaved
<1> HIDE DEF k, c
<1>6. /\ mem' \in MemType
      /\ mem'[cur][k] = c
      /\ \A j \in Slots : j # k => mem'[cur][j] = mem[cur][j]
      /\ \A t \in Threads, b \in Depths : link[t][b] # 0 =>
              /\ link[t][b] \in Slots
              /\ mem'[t][link[t][b]] = mem[t][link[t][b]]
              /\ \A j \in Slots : j <= link[t][b] => mem'[t][j] = mem[t][j]
  BY <1>1, <1>2, <1>4, <1>5, WriteAbove DEF IInv
<1>7. /\ link' \in LinkType
      /\ \A t \in Threads, b \in Depths :
           link'[t][b] = IF t = cur /\ b = lab THEN k ELSE link[t][b]
  BY <1>1, <1>3, <1>4, LinkUpdate
<1>8. cpu' \in Cpus /\ a0' = <<cur, k>> /\ cpu'.sp = a0'
  BY <1>1, <1>2, <1>3, <1>4 DEF Cpus, KernelAddr
<1>9. TypeOK'
  BY <1>1, <1>3, <1>4, <1>6, <1>7, <1>8 DEF IInv, TypeOK, MemType, LinkType, Code, conf
<1>10. ScratchInv'
  BY <1>1 DEF ScratchInv
<1>11. StackInv'
  <2>1. ASSUME NEW t \in Threads, NEW b \in Depths, link'[t][b] # 0
        PROVE  /\ mem'[t][link'[t][b]] \in Contexts
               /\ mem'[t][link'[t][b]].np = IF t \in UserThreads /\ b = 0 THEN "USER" ELSE "KERNEL"
               /\ \A j \in Slots : b < j /\ j < link'[t][b] => mem'[t][j] = Frame(b)
    <3>1. CASE t = cur /\ b = lab
      BY <1>2, <1>4, <1>5, <1>6, <1>7, <3>1, ValuesAssumption DEF InUser, Slots
    <3>2. CASE ~(t = cur /\ b = lab)
      <4>1. link'[t][b] = link[t][b]
        BY <1>7, <3>2
      <4>2. \A j \in Slots : j < link[t][b] => j <= link[t][b]
        BY <1>3, ValuesAssumption DEF Slots, Depths
      <4> QED BY <1>6, <2>1, <4>1, <4>2 DEF IInv, StackInv
    <3> QED BY <3>1, <3>2
  <2> QED BY <1>1, <2>1 DEF StackInv
<1>12. Nested'
  <2>1. ASSUME NEW t \in Threads, NEW b \in Depths, link'[t][b] # 0
        PROVE  /\ b < link'[t][b]
               /\ \A d \in Depths :
                    d # b /\ link'[t][d] # 0 => link'[t][b] <= d \/ link'[t][d] <= b
    <3>1. CASE t = cur
      <4>1. \A d \in Depths : link[cur][d] <= lab
        BY <1>1 DEF IInv, TrapPath
      <4> QED BY <1>3, <1>4, <1>7, <2>1, <3>1, <4>1 DEF IInv, Nested
    <3>2. CASE t # cur
      BY <1>7, <2>1, <3>2 DEF IInv, Nested
    <3> QED BY <3>1, <3>2
  <2> QED BY <2>1 DEF Nested
<1>13. Called'
  <2>1. ASSUME NEW t \in Threads, NEW d \in Slots, link'[t][d] # 0
        PROVE  \E b \in Depths : link'[t][b] = d
    <3>1. d \in Depths
      BY ValuesAssumption DEF Slots, Depths
    <3>2. link[t][d] # 0 \/ <<t, d>> = <<cur, lab>>
      BY <1>7, <2>1, <3>1
    <3>3. PICK b \in Depths : link[t][b] = d
      BY <1>1, <3>2 DEF IInv, Called
    <3>4. ~(t = cur /\ b = lab)
      <4>1. SUFFICES ASSUME t = cur, b = lab PROVE FALSE
        OBVIOUS
      <4>2. lab < link[cur][lab] /\ link[cur][lab] <= lab
        BY <1>1, <1>3, <3>3, <4>1, ValuesAssumption DEF IInv, Nested, TrapPath, Slots
      <4> QED BY <1>3, <4>2, ValuesAssumption DEF Depths
    <3> QED BY <1>7, <3>3, <3>4
  <2> QED BY <1>1, <2>1 DEF Called
<1>14. TrapPath'
  <2>1. link'[cur][lab] = k
    BY <1>3, <1>7
  <2>2. \A d \in Depths : link'[cur][d] <= k
    BY <1>3, <1>4, <1>7, ValuesAssumption DEF Depths
  <2> QED BY <1>1, <1>4, <1>8, <2>1, <2>2 DEF TrapPath, Newest
<1>15. UserBody'
  <2>1. ASSUME NEW t \in UserThreads PROVE link'[t][0] \in {0, 1}
    <3>1. t \in Threads /\ 0 \in Depths
      BY ValuesAssumption DEF Threads, Depths
    <3>2. CASE t = cur /\ lab = 0
      <4>1. InUser
        BY <3>2 DEF InUser
      <4>2. k = 1
        BY <1>2, <4>1, <1>1 DEF TrapTop, k, IInv, ScratchInv
      <4> QED BY <1>7, <3>1, <3>2, <4>2
    <3>3. CASE ~(t = cur /\ lab = 0)
      BY <1>7, <3>1, <3>3 DEF IInv, UserBody
    <3> QED BY <3>2, <3>3
  <2> QED BY <1>1, <2>1 DEF UserBody
<1>16. Translated'
  <2>1. \A t \in UserThreads :
          t = cur \/ (\E b \in Depths : link'[t][b] # 0) => vme_enable /\ asOf[t] \in Spaces
    BY <1>7 DEF IInv, Translated, Threads
  <2>2. \A t \in Threads, b \in Depths :
          link'[t][b] # 0 /\ ~(t = cur /\ b = lab) => PdirOk(t, b)'
    BY <1>1, <1>6, <1>7 DEF IInv, Translated, PdirOk
  <2>3. cur \in UserThreads => satp = asOf[cur]
    BY <1>1 DEF IInv, Translated
  <2> QED BY <1>1, <2>1, <2>2, <2>3 DEF Translated, conf
<1> QED BY <1>9, <1>10, <1>11, <1>12, <1>13, <1>14, <1>15, <1>16 DEF IInv

\* Calling the handler makes its activation the running one.
LEMMA IrqHandleInv == IInv /\ IrqHandle => IInv'
<1> SUFFICES ASSUME IInv, IrqHandle PROVE IInv'
  OBVIOUS
<1> DEFINE k == link[cur][lab]
           c == [mem[cur][k] EXCEPT !.pdir = CurAs]
<1>1. /\ phase = "irq" /\ UNCHANGED <<csrs, a0, conf, cur, link, asOf>>
      /\ mem' = [mem EXCEPT ![a0[1]][a0[2]].pdir = CurAs]
  BY DEF IrqHandle
<1>2. /\ cur \in Threads /\ lab \in Depths /\ cpu \in Cpus /\ link \in LinkType
      /\ \A t \in Threads, b \in Depths : link[t][b] \in Depths
  BY DEF IInv, TypeOK, LinkType
<1>3. k # 0 /\ a0 = <<cur, k>> /\ cpu.sp = a0 /\ \A d \in Depths : link[cur][d] <= k
  BY <1>1 DEF IInv, TrapPath, Newest
<1>4. k \in Slots /\ k \in Depths
  BY <1>2, <1>3, ValuesAssumption DEF Slots, Depths
<1>5. CurAs \in PdirType
  BY DEF IInv, TypeOK, CurAs, PdirType
<1>6. c \in Contexts /\ c.np = mem[cur][k].np /\ c.pdir = CurAs
  <2>1. mem[cur][k] \in Contexts
    BY <1>2, <1>3 DEF IInv, StackInv
  <2> QED BY <1>5, <2>1, ContextUpdate, ValuesAssumption
<1>7. mem' = [mem EXCEPT ![cur][k] = c]
  BY <1>1, <1>3
<1> HIDE DEF c
<1>8. /\ mem' \in MemType
      /\ mem'[cur][k] = c
      /\ \A t \in Threads, d \in Depths : link[t][d] # 0 =>
              /\ t # cur \/ d # lab => mem'[t][link[t][d]] = mem[t][link[t][d]]
              /\ mem'[t][link[t][d]] \in Contexts
              /\ mem'[t][link[t][d]].np = IF t \in UserThreads /\ d = 0 THEN "USER" ELSE "KERNEL"
              /\ \A j \in Slots : d < j /\ j < link[t][d] => mem'[t][j] = Frame(d)
  BY <1>2, <1>3, <1>6, <1>7, WriteContext
<1> HIDE DEF k
<1>9. \/ /\ cpu' = [cpu EXCEPT !.regs = Entry, !.pc = Entry]
         /\ lab' = k /\ phase' = "run"
      \/ phase' = "switch" /\ UNCHANGED <<cpu, lab>>
  BY <1>3 DEF IrqHandle
<1>10. cpu' \in Cpus /\ cpu'.sp = cpu.sp
  BY <1>2, <1>9, ValuesAssumption DEF Cpus
<1>11. TypeOK'
  BY <1>1, <1>4, <1>8, <1>9, <1>10 DEF IInv, TypeOK, MemType, Code, csrs, conf
<1>12. ScratchInv'
  BY <1>1, <1>3, <1>9 DEF IInv, ScratchInv, InUser, csrs
<1>13. StackInv'
  <2>1. phase' = "run" => cpu'.sp[1] = cur /\ cpu'.sp[2] = k /\ lab' = k
    BY <1>3, <1>9, <1>10
  <2>2. \A j \in Slots : ~(k < j /\ j <= k)
    BY <1>4, ValuesAssumption DEF Slots
  <2>3. k >= k
    BY <1>4, ValuesAssumption DEF Slots
  <2> HIDE DEF IrqHandle
  <2>4. link' = link /\ cur' = cur
    BY <1>1
  <2> QED BY ONLY <1>8, <2>1, <2>2, <2>3, <2>4 DEF StackInv
<1>14. Nested'
  BY <1>1 DEF IInv, Nested
<1>15. Called'
  BY <1>1, <1>2, <1>9 DEF IInv, Called, k
<1>16. TrapPath'
  BY <1>1, <1>3, <1>9 DEF IInv, TrapPath, Newest, k
<1>17. UserBody'
  BY <1>1, <1>3, <1>9 DEF IInv, UserBody, InUser
<1>18. Translated'
  <2>1. /\ cur \in UserThreads => CurAs = asOf[cur] /\ satp = asOf[cur]
        /\ CurAs # Undef
    BY <1>1, ValuesAssumption DEF IInv, TypeOK, Translated, CurAs
  <2>2. ASSUME NEW t \in Threads, NEW b \in Depths, link[t][b] # 0
        PROVE  PdirOk(t, b)'
    <3>1. CASE t = cur /\ b = lab
      <4>1. link'[t][b] = k /\ asOf' = asOf
        BY <1>1, <3>1 DEF k
      <4>2. mem'[t][k].pdir = CurAs
        BY <1>6, <1>8, <3>1
      <4>3. t \in UserThreads => CurAs = asOf[t]
        BY <2>1, <3>1
      <4> QED BY ONLY <2>1, <4>1, <4>2, <4>3 DEF PdirOk
    <3>2. CASE ~(t = cur /\ b = lab)
      <4>1. link' = link /\ asOf' = asOf
        BY <1>1
      <4>2. mem'[t][link[t][b]] = mem[t][link[t][b]]
        BY <1>8, <2>2, <3>2
      <4>3. PdirOk(t, b)
        BY <1>1, <2>2, <3>2 DEF IInv, Translated
      <4> QED BY ONLY <4>1, <4>2, <4>3 DEF PdirOk
    <3> QED BY <3>1, <3>2
  <2> QED BY <1>1, <1>9, <2>1, <2>2 DEF IInv, Translated, csrs, conf
<1> QED BY <1>11, <1>12, <1>13, <1>14, <1>15, <1>16, <1>17, <1>18 DEF IInv

\* The handler's choice of the newest Context of a stack ends its own activation.
LEMMA HandlerReturnInv ==
  ASSUME IInv, NEW t \in Threads, NEW b \in Depths, HandlerReturn(t, b)
  PROVE  IInv'
<1>1. /\ phase = "run" /\ lab # 0 /\ Newest(t, b)
      /\ a0' = <<t, link[t][b]>> /\ cur' = t /\ lab' = b /\ phase' = "switch"
      /\ UNCHANGED <<cpu, csrs, mem, conf, ev, link, asOf>>
  BY DEF HandlerReturn
<1>2. link[t][b] # 0 /\ link[t][b] \in Depths
  BY <1>1 DEF IInv, TypeOK, Newest
<1>3. link[t][b] \in Slots
  BY <1>2, ValuesAssumption DEF Slots, Depths
<1>4. TypeOK'
  BY <1>1, <1>3 DEF IInv, TypeOK, Code, csrs, conf
<1>5. ScratchInv' /\ StackInv' /\ Nested' /\ UserBody'
  BY <1>1 DEF IInv, ScratchInv, StackInv, Nested, UserBody, InUser, csrs
<1>6. Called' /\ TrapPath'
  BY <1>1 DEF IInv, Called, TrapPath, Newest
<1>7. Translated'
  BY <1>1, <1>2 DEF IInv, Translated, PdirOk, csrs, conf, Threads
<1> QED BY <1>4, <1>5, <1>6, <1>7 DEF IInv

\* A halted machine stays as it is (cte.c:26).
LEMMA HandlerReturnNullInv == IInv /\ HandlerReturnNull => IInv'
  BY DEF IInv, HandlerReturnNull, csrs, conf, aux, TypeOK, ScratchInv, StackInv, Nested,
     Called, TrapPath, UserBody, Translated, PdirOk, InUser, InKernel, Newest, Code

\* The address space of the thread gone on with comes into force.
LEMMA AmSwitchInv == IInv /\ AmSwitch => IInv'
<1> SUFFICES ASSUME IInv, AmSwitch PROVE IInv'
  OBVIOUS
<1> DEFINE k == link[cur][lab]
<1>1. /\ phase = "switch" /\ phase' = "restore"
      /\ satp' = Switched(mem[a0[1]][a0[2]].pdir)
      /\ UNCHANGED <<cpu, mscratch, mcause, a0, mem, conf, ev, aux>>
  BY DEF AmSwitch
<1>2. cur \in Threads /\ lab \in Depths
  BY DEF IInv, TypeOK
<1>3. k # 0 /\ a0 = <<cur, k>>
  BY <1>1 DEF IInv, TrapPath, Newest
<1>4. mem[cur][k] \in Contexts
  BY <1>2, <1>3 DEF IInv, StackInv
<1>5. cur \in UserThreads => satp' = asOf[cur]
  <2>1. cur \in UserThreads => mem[cur][k].pdir = asOf[cur] /\ asOf[cur] \in Spaces /\ vme_enable
    BY <1>1, <1>2, <1>3 DEF IInv, Translated, PdirOk
  <2> QED BY <1>1, <1>3, <2>1, ValuesAssumption DEF Switched
<1>6. satp' \in Spaces \cup {Kas, Null}
  <2>1. mem[cur][k].pdir # Undef
    BY <1>1, <1>2, <1>3, ValuesAssumption DEF IInv, Translated, PdirOk, TypeOK
  <2>2. mem[cur][k].pdir \in Spaces \cup {Kas, Null}
    BY <1>4, <2>1, ContextFields DEF PdirType
  <2> QED BY <1>1, <1>3, <2>2 DEF Switched, IInv, TypeOK
<1>7. TypeOK'
  BY <1>1, <1>6 DEF IInv, TypeOK, Code, conf, aux
<1>8. ScratchInv' /\ StackInv' /\ Nested' /\ Called' /\ TrapPath' /\ UserBody'
  BY <1>1 DEF IInv, ScratchInv, StackInv, Nested, Called, TrapPath, UserBody, Newest, aux
<1>9. Translated'
  BY <1>1, <1>5 DEF IInv, Translated, PdirOk, conf, aux
<1> QED BY <1>7, <1>8, <1>9 DEF IInv

\* Restoring pops the newest Context: the activation it belongs to runs again, above
\* all others of its stack.
LEMMA RestoreInv == IInv /\ Restore => IInv'
<1> SUFFICES ASSUME IInv, Restore PROVE IInv'
  OBVIOUS
<1> DEFINE k == link[cur][lab]
           c == mem[cur][k]
           over == <<cur, k - 1>>
<1>1. /\ phase = "restore" /\ phase' = "run"
      /\ UNCHANGED <<satp, mcause, a0, conf, ev, cur, lab, asOf>>
      /\ link' = [link EXCEPT ![cur][lab] = 0]
  BY DEF Restore
<1>2. /\ cur \in Threads /\ lab \in Depths /\ link \in LinkType
      /\ mem \in [Threads -> [Slots -> Contexts \cup Frames]]
      /\ \A t \in Threads, b \in Depths : link[t][b] \in Depths
  BY DEF IInv, TypeOK, LinkType
<1>3. k # 0 /\ a0 = <<cur, k>> /\ \A d \in Depths : link[cur][d] <= k
  BY <1>1 DEF IInv, TrapPath, Newest
<1>4. lab < k
  BY <1>2, <1>3 DEF IInv, Nested
<1>5. k \in Slots /\ k - 1 \in Depths /\ lab <= k - 1 /\ 0 \in Depths
  BY <1>2, <1>3, <1>4, ValuesAssumption DEF Slots, Depths
<1>6. /\ c \in Contexts /\ c.np = IF InUser THEN "USER" ELSE "KERNEL"
      /\ \A j \in Slots : lab < j /\ j < k => mem[cur][j] = Frame(lab)
  BY <1>2, <1>3 DEF IInv, StackInv, InUser
<1>7. /\ cpu' = Restored(c, over)
      /\ mscratch' = IF c.np = "KERNEL" THEN mscratch ELSE over
      /\ mem' = [mem EXCEPT ![cur][k] = Junk]
  BY <1>3 DEF Restore
<1>8. \A d \in Depths : d # lab => link[cur][d] <= lab
  <2>1. ASSUME NEW d \in Depths, d # lab, link[cur][d] # 0
        PROVE  link[cur][d] <= lab
    <3>1. d < link[cur][d] /\ link[cur][d] <= k
      BY <1>2, <1>3, <2>1 DEF IInv, Nested
    <3>2. k <= d \/ link[cur][d] <= lab
      BY <1>2, <1>3, <2>1 DEF IInv, Nested
    <3> QED BY <1>2, <3>1, <3>2, ValuesAssumption DEF Depths
  <2> QED BY <1>2, <2>1, ValuesAssumption DEF Depths
<1>9. /\ link' \in LinkType
      /\ \A t \in Threads, b \in Depths :
           link'[t][b] = IF t = cur /\ b = lab THEN 0 ELSE link[t][b]
  BY <1>1, <1>2, <1>5, LinkUpdate
<1> HIDE DEF k, c, over
<1>10. /\ mem' \in MemType
       /\ \A t \in Threads, j \in Slots :
            mem'[t][j] = IF t = cur /\ j = k THEN Junk ELSE mem[t][j]
  <2>1. Junk \in Contexts \cup Frames
    BY DEF Junk, Frame, Frames
  <2>2. /\ [mem EXCEPT ![cur][k] = Junk] \in [Threads -> [Slots -> Contexts \cup Frames]]
        /\ \A t \in Threads, j \in Slots :
             [mem EXCEPT ![cur][k] = Junk][t][j] = IF t = cur /\ j = k THEN Junk ELSE mem[t][j]
    BY ONLY <1>2, <1>5, <2>1, Update
  <2> QED BY ONLY <1>7, <2>2 DEF MemType
<1>11. \A t \in Threads, b \in Depths : link'[t][b] # 0 =>
         /\ link[t][b] = link'[t][b] /\ link[t][b] \in Slots
         /\ \A j \in Slots : j <= link[t][b] => mem'[t][j] = mem[t][j]
  <2>1. \A t \in Threads, b \in Depths : link[t][b] # 0 => link[t][b] \in Slots
    BY <1>2, ValuesAssumption DEF Depths, Slots
  <2>2. \A b \in Depths, j \in Slots : b # lab /\ j <= link[cur][b] => j # k
    BY <1>2, <1>4, <1>5, <1>8, ValuesAssumption DEF Depths, Slots
  <2> QED BY <1>9, <1>10, <2>1, <2>2
<1>12. /\ cpu' \in Cpus
       /\ InUser => cpu'.sp \in UserAddr
       /\ InKernel => cpu'.sp = over
  <2>1. /\ c.regs \in Vals /\ c.epc \in Vals /\ c.mie \in BOOLEAN /\ c.mprv \in BOOLEAN
        /\ c.np = "USER" => c.sp \in UserAddr
    BY <1>6, ContextFields
  <2>2. over \in KernelAddr
    BY <1>2, <1>5 DEF over, KernelAddr
  <2> QED BY <1>6, <1>7, <2>1, <2>2 DEF Restored, Cpus, InKernel
<1>13. mscratch' = IF InUser THEN <<cur, 0>> ELSE Zero
  <2>1. InUser => over = <<cur, 0>>
    <3>1. InUser => k = 1
      BY <1>3 DEF InUser, k, IInv, UserBody
    <3> QED BY <3>1 DEF over
  <2>2. mscratch = Zero
    BY <1>1 DEF IInv, ScratchInv
  <2> QED BY <1>6, <1>7, <2>1, <2>2
<1>14. TypeOK'
  BY <1>1, <1>2, <1>9, <1>10, <1>12, <1>13
     DEF IInv, TypeOK, MemType, LinkType, Code, conf
<1>15. ScratchInv'
  BY <1>1, <1>13 DEF ScratchInv, InUser
<1>16. StackInv'
  <2>1. ASSUME NEW t \in Threads, NEW b \in Depths, link'[t][b] # 0
        PROVE  /\ mem'[t][link'[t][b]] \in Contexts
               /\ mem'[t][link'[t][b]].np = IF t \in UserThreads /\ b = 0 THEN "USER" ELSE "KERNEL"
               /\ \A j \in Slots : b < j /\ j < link'[t][b] => mem'[t][j] = Frame(b)
    <3>1. link[t][b] = link'[t][b] /\ link[t][b] \in Slots
      BY <1>11, <2>1
    <3>2. \A j \in Slots : j < link[t][b] \/ j = link[t][b] => mem'[t][j] = mem[t][j]
      BY <1>11, <2>1, <3>1, ValuesAssumption DEF Slots
    <3> QED BY <2>1, <3>1, <3>2 DEF IInv, StackInv
  <2>2. ASSUME InKernel
        PROVE  /\ cpu'.sp[1] = cur /\ cpu'.sp[2] >= lab
               /\ \A j \in Slots : lab < j /\ j <= cpu'.sp[2] => mem'[cur][j] = Frame(lab)
    <3>1. cpu'.sp[1] = cur /\ cpu'.sp[2] = k - 1
      BY <1>12, <2>2 DEF over
    <3>2. \A j \in Slots : j <= k - 1 => j < k /\ j # k
      BY <1>5, ValuesAssumption DEF Slots
    <3>3. k - 1 >= lab
      BY <1>2, <1>5, ValuesAssumption DEF Depths
    <3> QED BY <1>2, <1>6, <1>10, <3>1, <3>2, <3>3
  <2> QED BY <1>1, <2>1, <2>2 DEF StackInv, InKernel, InUser
<1>17. Nested'
  BY <1>9, <1>11 DEF IInv, Nested
<1>18. Called'
  <2>1. ASSUME NEW t \in Threads, NEW d \in Slots,
               link'[t][d] # 0 \/ <<t, d>> = <<cur, lab>>
        PROVE  \E b \in Depths : link'[t][b] = d
    <3>1. d \in Depths
      BY ValuesAssumption DEF Slots, Depths
    <3>2. link[t][d] # 0
      BY <1>3, <1>9, <2>1, <3>1 DEF k
    <3>3. PICK b \in Depths : link[t][b] = d
      BY <3>2 DEF IInv, Called
    <3>4. ~(t = cur /\ b = lab)
      <4>1. SUFFICES ASSUME t = cur, b = lab PROVE FALSE
        OBVIOUS
      <4>2. d = k
        BY <3>3, <4>1 DEF k
      <4>3. k < link[cur][k] /\ link[cur][k] <= k
        BY <1>2, <1>3, <3>1, <3>2, <4>1, <4>2 DEF IInv, Nested
      <4> QED BY <1>2, <1>5, <3>1, <4>2, <4>3, ValuesAssumption DEF Depths, Slots
    <3> QED BY <1>9, <3>3, <3>4
  <2> QED BY <1>1, <2>1 DEF Called
<1>19. TrapPath'
  <2>1. \A d \in Depths : link'[cur][d] <= lab
    BY <1>2, <1>8, <1>9, ValuesAssumption DEF Depths
  <2> QED BY <1>1, <2>1 DEF TrapPath
<1>20. UserBody'
  <2>1. \A t \in UserThreads : link'[t][0] \in {0, 1}
    BY <1>5, <1>9 DEF IInv, UserBody, Threads
  <2> QED BY <1>1, <1>12, <2>1 DEF UserBody, InUser
<1>21. Translated'
  <2>1. ASSUME NEW t \in Threads, NEW b \in Depths, link'[t][b] # 0
        PROVE  PdirOk(t, b)'
    <3>1. link'[t][b] = link[t][b] /\ asOf' = asOf /\ link[t][b] \in Slots
      BY <1>1, <1>11, <2>1
    <3>2. mem'[t][link[t][b]] = mem[t][link[t][b]]
      BY <1>11, <2>1, <3>1, ValuesAssumption DEF Slots
    <3>3. PdirOk(t, b)
      BY <1>1, <2>1, <3>1 DEF IInv, Translated
    <3> QED BY ONLY <3>1, <3>2, <3>3 DEF PdirOk
  <2>2. \A t \in UserThreads :
          t = cur \/ (\E b \in Depths : link'[t][b] # 0) => vme_enable /\ asOf[t] \in Spaces
    BY <1>11 DEF IInv, Translated, Threads
  <2>3. cur \in UserThreads => satp = asOf[cur]
    BY <1>1 DEF IInv, Translated
  <2> QED BY <1>1, <2>1, <2>2, <2>3 DEF Translated, conf
<1> QED BY <1>14, <1>15, <1>16, <1>17, <1>18, <1>19, <1>20, <1>21 DEF IInv

\* IInv is an invariant of the CTE.
THEOREM Inductive == Spec => []IInv
<1>1. IInv /\ [Next]_vars => IInv'
  <2> SUFFICES ASSUME IInv, [Next]_vars PROVE IInv'
    OBVIOUS
  <2>1. CASE Compute
    BY <2>1, ComputeInv
  <2>2. CASE Call
    BY <2>2, CallInv
  <2>3. CASE Return
    BY <2>3, ReturnInv
  <2>4. CASE SetResult
    BY <2>4, SetResultInv
  <2>5. CASE CteInit
    BY <2>5, CteInitInv
  <2>6. CASE VmeInit
    BY <2>6, VmeInitInv
  <2>7. CASE \E t \in KernelThreads : Kcontext(t)
    BY <2>7, KcontextInv
  <2>8. CASE \E t \in UserThreads, as \in Spaces : Ucontext(t, as)
    BY <2>8, UcontextInv
  <2>9. CASE \E cause \in Causes : AsmTrap(cause)
    BY <2>9, AsmTrapInv
  <2>10. CASE IrqHandle
    BY <2>10, IrqHandleInv
  <2>11. CASE \E t \in Threads, b \in Depths : HandlerReturn(t, b)
    BY <2>11, HandlerReturnInv
  <2>12. CASE HandlerReturnNull
    BY <2>12, HandlerReturnNullInv
  <2>13. CASE AmSwitch
    BY <2>13, AmSwitchInv
  <2>14. CASE Restore
    BY <2>14, RestoreInv
  <2>15. CASE UNCHANGED vars
    BY <2>15, UnchangedInv
  <2> QED BY <2>1, <2>2, <2>3, <2>4, <2>5, <2>6, <2>7, <2>8, <2>9, <2>10, <2>11, <2>12,
             <2>13, <2>14, <2>15 DEF Next
<1> QED BY <1>1, InitInv, PTL DEF Spec

\* Every variable of the CTE keeps its type.
THEOREM TypeCorrect == Spec => []TypeOK
<1>1. IInv => TypeOK
  BY DEF IInv
<1> QED BY <1>1, Inductive, PTL

\* mscratch always tells user code from kernel code.
THEOREM ScratchCorrect == Spec => []ScratchInv
<1>1. IInv => ScratchInv
  BY DEF IInv
<1> QED BY <1>1, Inductive, PTL

\* No trap, switch or restore writes over another activation's frames or Context.
THEOREM StacksSafe == Spec => []StackInv
<1>1. IInv => StackInv
  BY DEF IInv
<1> QED BY <1>1, Inductive, PTL

\* User threads run in their own address space.
THEOREM SpacesRight == Spec => []AddressSpaceInv
<1>1. IInv => AddressSpaceInv
  BY DEF IInv, Translated, AddressSpaceInv
<1> QED BY <1>1, Inductive, PTL
=============================================================================
