--------------------------- MODULE CteRefinement ----------------------------
(***************************************************************************)
(* Cte implements VirtualCpus: to every activation it looks as if it had   *)
(* a processor of its own, for any number of threads, address spaces,      *)
(* stack slots and register values.  One lemma per action says which step  *)
(* of VirtualCpus it is, if any; all of them rest on the invariant of      *)
(* CteProofs.                                                              *)
(***************************************************************************)
EXTENDS CteProofs

\* A handler is called with interrupts off and MPRV set.
Masked == phase = "irq" => ~cpu.mie /\ cpu.mprv

-----------------------------------------------------------------------------
(* The processors of the activations.                                        *)

\* Of one that is suspended, of the one that runs, and of any other.
LEMMA Bar ==
  ASSUME NEW t \in Threads, NEW b \in Depths
  PROVE  /\ link[t][b] # 0 => vcpuBar[t][b] = Saved(t, link[t][b])
         /\ link[t][b] = 0 /\ t = cur /\ b = lab /\ phase \in {"run", "halted"}
              => vcpuBar[t][b] = Loaded
         /\ link[t][b] = 0 /\ ~(t = cur /\ b = lab /\ phase \in {"run", "halted"})
              => vcpuBar[t][b] = NoCpu
BY DEF vcpuBar

LEMMA BarNext ==
  ASSUME NEW t \in Threads, NEW b \in Depths
  PROVE  /\ link'[t][b] # 0 => vcpuBar'[t][b] = Saved(t, link[t][b])'
         /\ link'[t][b] = 0 /\ t = cur' /\ b = lab' /\ phase' \in {"run", "halted"}
              => vcpuBar'[t][b] = Loaded'
         /\ link'[t][b] = 0 /\ ~(t = cur' /\ b = lab' /\ phase' \in {"run", "halted"})
              => vcpuBar'[t][b] = NoCpu
BY DEF vcpuBar

\* A suspended activation whose Context is not touched.
LEMMA Kept ==
  ASSUME NEW t \in Threads, NEW b \in Depths, link[t][b] # 0, link'[t][b] = link[t][b],
         mem'[t][link[t][b]] = mem[t][link[t][b]],
         ~(phase = "irq" /\ a0 = <<t, link[t][b]>>),
         ~(phase' = "irq" /\ a0' = <<t, link[t][b]>>)
  PROVE  vcpuBar'[t][b] = vcpuBar[t][b]
<1> DEFINE k == link[t][b]
<1>1. Saved(t, link[t][b])' = Saved(t, k)
  BY DEF Saved
<1> QED
  BY <1>1, Bar, BarNext

\* An activation that does not exist.
LEMMA Absent ==
  ASSUME NEW t \in Threads, NEW b \in Depths, link[t][b] = 0, link'[t][b] = 0,
         ~(t = cur /\ b = lab /\ phase \in {"run", "halted"}),
         ~(t = cur' /\ b = lab' /\ phase' \in {"run", "halted"})
  PROVE  vcpuBar'[t][b] = vcpuBar[t][b]
BY Bar, BarNext

\* No processor changes.
LEMMA SameCpus ==
  ASSUME \A t \in Threads, b \in Depths : vcpuBar'[t][b] = vcpuBar[t][b]
  PROVE  vcpuBar' = vcpuBar
BY DEF vcpuBar

\* The activation that runs is not suspended, the one on the trap path is.
LEMMA OneLives ==
  ASSUME IInv
  PROVE  /\ cur \in Threads /\ lab \in Depths
         /\ phase = "run" => link[cur][lab] = 0
         /\ phase \in {"irq", "switch", "restore"} =>
              /\ link[cur][lab] \in Slots /\ link[cur][lab] # 0
              /\ a0 = <<cur, link[cur][lab]>>
<1>1. cur \in Threads /\ lab \in Depths /\ link[cur][lab] \in Depths
  BY DEF IInv, TypeOK
<1>2. phase = "run" => link[cur][lab] <= lab
  BY <1>1 DEF IInv, TrapPath
<1>3. link[cur][lab] # 0 => lab < link[cur][lab]
  BY <1>1 DEF IInv, Nested
<1>4. phase = "run" => link[cur][lab] = 0
  BY <1>1, <1>2, <1>3, ValuesAssumption DEF Depths
<1>5. phase \in {"irq", "switch", "restore"} =>
        link[cur][lab] # 0 /\ a0 = <<cur, link[cur][lab]>>
  BY DEF IInv, TrapPath, Newest
<1> QED
  BY <1>1, <1>4, <1>5, ValuesAssumption DEF Depths, Slots

\* a0 is the Context of no other activation.
LEMMA NotTheirs ==
  ASSUME IInv, phase \in {"irq", "switch", "restore"},
         NEW t \in Threads, NEW b \in Depths, link[t][b] # 0, <<t, b>> # <<cur, lab>>
  PROVE  a0 # <<t, link[t][b]>>
<1>1. a0 = <<cur, link[cur][lab]>> /\ lab \in Depths
  BY OneLives
<1>2. t = cur => link[t][b] # link[cur][lab]
  BY <1>1, LinksDiffer
<1> QED
  BY <1>1, <1>2

-----------------------------------------------------------------------------
(* Their types.                                                              *)

\* What a Context holds of the thread's own.
LEMMA SavedFields ==
  ASSUME IInv, NEW t \in Threads, NEW b \in Depths, link[t][b] # 0
  PROVE  Saved(t, link[t][b]) \in V!Cpu
<1> DEFINE k == link[t][b]
           c == mem[t][k]
           s == SpaceOf(t, IF phase = "irq" /\ a0 = <<t, k>> THEN satp ELSE c.pdir)
           p == IF c.np = "USER" THEN c.sp ELSE <<t, k - 1>>
<1>1. c \in Contexts /\ k \in Depths
  BY DEF IInv, StackInv, TypeOK
<1>2. /\ c.regs \in Vals /\ c.epc \in Vals /\ c.mie \in BOOLEAN /\ c.mprv \in BOOLEAN
      /\ c.np = "USER" => c.sp \in UserAddr
  BY <1>1, ContextFields
<1>3. k - 1 \in Depths
  BY <1>1, ValuesAssumption DEF Depths
<1>4. p \in KernelAddr \cup UserAddr
  BY <1>2, <1>3 DEF KernelAddr
<1>5. s \in Spaces \cup {Null}
  <2>1. CASE t \notin UserThreads
    BY <2>1 DEF SpaceOf
  <2>2. CASE t \in UserThreads
    <3>1. asOf[t] \in Spaces
      BY <2>2 DEF IInv, Translated
    <3>2. CASE phase = "irq" /\ t = cur /\ b = lab
      <4>1. satp = asOf[t] /\ a0 = <<t, k>>
        BY <2>2, <3>2, OneLives DEF IInv, Translated
      <4> QED
        BY <3>1, <3>2, <4>1 DEF SpaceOf
    <3>3. CASE ~(phase = "irq" /\ t = cur /\ b = lab)
      <4>1. ~(phase = "irq" /\ a0 = <<t, k>>)
        BY <3>3, NotTheirs
      <4>2. PdirOk(t, b)
        BY <3>3 DEF IInv, Translated
      <4>3. c.pdir = asOf[t]
        BY <2>2, <4>2 DEF PdirOk
      <4> QED
        BY <2>2, <3>1, <4>1, <4>3 DEF SpaceOf
    <3> QED
      BY <3>2, <3>3
  <2> QED
    BY <2>1, <2>2
<1>6. Saved(t, k) = [regs |-> c.regs, pc |-> c.epc, mie |-> c.mie, mprv |-> c.mprv,
                     sp |-> p, space |-> s]
  BY DEF Saved
<1> HIDE DEF k, c, s, p
<1>7. Saved(t, k) \in V!Cpu
  BY <1>2, <1>4, <1>5, <1>6 DEF V!Cpu
<1> QED
  BY <1>7 DEF k

LEMMA SavedIsCpu ==
  ASSUME IInv, NEW t \in Threads, NEW b \in Depths, link[t][b] # 0
  PROVE  vcpuBar[t][b] \in V!Cpu /\ vcpuBar[t][b] # NoCpu
BY SavedFields, Bar, NoCpuAssumption

SavedAreCpus ==
  \A t \in Threads, b \in Depths : link[t][b] # 0 => vcpuBar[t][b] \in V!Cpu

LEMMA SavedAreCpusNext == IInv' => SavedAreCpus'
<1>1. IInv => SavedAreCpus
  BY SavedIsCpu DEF SavedAreCpus
<1> QED
  BY <1>1, PTL

\* What the hart holds while the activation runs.
LEMMA LoadedIsCpu == IInv /\ phase = "run" => Loaded \in V!Cpu
<1> SUFFICES ASSUME IInv, phase = "run" PROVE Loaded \in V!Cpu
  OBVIOUS
<1>1. cpu \in Cpus /\ cur \in Threads
  BY DEF IInv, TypeOK
<1>2. /\ cpu.regs \in Vals /\ cpu.pc \in Vals /\ cpu.sp \in KernelAddr \cup UserAddr
      /\ cpu.mie \in BOOLEAN /\ cpu.mprv \in BOOLEAN
  BY <1>1 DEF Cpus
<1>3. SpaceOf(cur, satp) \in Spaces \cup {Null}
  BY DEF IInv, Translated, SpaceOf
<1> QED
  BY <1>2, <1>3 DEF Loaded, V!Cpu

-----------------------------------------------------------------------------
(* The code above the AM.                                                    *)

\* Whatever the running activation does outside the Contexts of the others is a step of
\* its own processor.
LEMMA RunStep ==
  ASSUME IInv, IInv', phase = "run", UNCHANGED <<phase, cur, lab, link, satp>>,
         cpu'.mie = cpu.mie, cpu'.mprv = cpu.mprv,
         \A t \in Threads, b \in Depths : link[t][b] # 0 =>
           mem'[t][link[t][b]] = mem[t][link[t][b]]
  PROVE  V!Step
<1>1. cur \in Threads /\ lab \in Depths /\ link[cur][lab] = 0
  BY OneLives
<1>2. vcpuBar[cur][lab] = Loaded /\ vcpuBar'[cur][lab] = Loaded'
  BY <1>1, Bar, BarNext
<1>3. Loaded' \in V!Cpu
  <2>1. (IInv /\ phase = "run" => Loaded \in V!Cpu)'
    BY LoadedIsCpu, PTL
  <2> QED
    BY <2>1
<1>4. /\ Loaded'.mie = Loaded.mie /\ Loaded'.mprv = Loaded.mprv
      /\ Loaded'.space = Loaded.space
  BY DEF Loaded, SpaceOf
<1>5. ASSUME NEW t \in Threads, NEW b \in Depths, <<t, b>> # <<cur, lab>>
      PROVE  vcpuBar'[t][b] = vcpuBar[t][b]
  <2>1. CASE link[t][b] # 0
    BY <2>1, Kept
  <2>2. CASE link[t][b] = 0
    BY <1>5, <2>2, Absent
  <2> QED
    BY <2>1, <2>2
<1> QED
  BY <1>1, <1>2, <1>3, <1>4, <1>5 DEF V!Step, V!OnlyIn

LEMMA ComputeStep == IInv /\ IInv' /\ Compute => V!Step
<1> SUFFICES ASSUME IInv, IInv', Compute PROVE V!Step
  OBVIOUS
<1>1. cpu \in Cpus
  BY DEF IInv, TypeOK
<1>2. cpu'.mie = cpu.mie /\ cpu'.mprv = cpu.mprv
  BY <1>1 DEF Compute, Cpus
<1> QED
  BY <1>2, RunStep DEF Compute, csrs, aux

LEMMA CallStep == IInv /\ IInv' /\ Call => V!Step
<1> SUFFICES ASSUME IInv, IInv', Call PROVE V!Step
  OBVIOUS
<1> DEFINE k == cpu.sp[2] + 1
<1>1. /\ cpu \in Cpus /\ lab \in Depths /\ \A b \in Depths : link[cur][b] \in Depths
  BY DEF IInv, TypeOK
<1>2. cpu'.mie = cpu.mie /\ cpu'.mprv = cpu.mprv
  BY <1>1 DEF Call, Cpus
<1>3. k \in Slots /\ \A b \in Depths : link[cur][b] < k
  BY <1>1, KernelSp, ValuesAssumption DEF Call, Slots, Depths
<1>4. mem' = [mem EXCEPT ![cur][k] = Frame(lab)] /\ Frame(lab) \in Contexts \cup Frames
  BY <1>1 DEF Call, Frame, Frames
<1> HIDE DEF k
<1>5. \A t \in Threads, b \in Depths : link[t][b] # 0 =>
        mem'[t][link[t][b]] = mem[t][link[t][b]]
  BY <1>3, <1>4, WriteAbove, ZenonT(30) DEF IInv
<1> QED
  BY <1>2, <1>5, RunStep DEF Call, csrs, aux

LEMMA ReturnStep == IInv /\ IInv' /\ Return => V!Step
<1> SUFFICES ASSUME IInv, IInv', Return PROVE V!Step
  OBVIOUS
<1> DEFINE k == cpu.sp[2]
<1>1. /\ cpu \in Cpus /\ lab \in Depths /\ \A b \in Depths : link[cur][b] \in Depths
      /\ \A b \in Depths : link[cur][b] <= lab
  BY DEF IInv, TypeOK, TrapPath, Return
<1>2. cpu'.mie = cpu.mie /\ cpu'.mprv = cpu.mprv
  BY <1>1 DEF Return, Cpus
<1>3. k \in Slots /\ \A b \in Depths : link[cur][b] < k
  BY <1>1, KernelSp, ValuesAssumption DEF Return, Slots, Depths
<1>4. mem' = [mem EXCEPT ![cur][k] = Junk] /\ Junk \in Contexts \cup Frames
  BY DEF Return, Junk, Frame, Frames
<1> HIDE DEF k
<1>5. \A t \in Threads, b \in Depths : link[t][b] # 0 =>
        mem'[t][link[t][b]] = mem[t][link[t][b]]
  <2>1. TypeOK
    BY DEF IInv
  <2> QED
    BY <1>3, <1>4, <2>1, WriteAbove, ZenonT(30)
<1> QED
  BY <1>2, <1>5, RunStep DEF Return, csrs, aux

\* Storing a result changes one register of a Context.
LEMMA ContextResult ==
  ASSUME NEW c \in Contexts, NEW v \in Vals
  PROVE  LET e == [c EXCEPT !.regs = v]
         IN /\ e.regs = v /\ e.epc = c.epc /\ e.mie = c.mie /\ e.mprv = c.mprv
            /\ e.sp = c.sp /\ e.np = c.np /\ e.pdir = c.pdir
BY DEF Contexts, KernelContexts, UserContexts

LEMMA SetResultStep == IInv /\ IInv' /\ SetResult => V!SetResult
<1> SUFFICES ASSUME IInv, IInv', SetResult PROVE V!SetResult
  OBVIOUS
<1>1. /\ phase = "run" /\ lab # 0
      /\ UNCHANGED <<cpu, satp, phase, a0, cur, lab, link>>
  BY DEF SetResult, csrs, aux
<1>2. PICK v \in Vals : mem' = [mem EXCEPT ![cur][lab].regs = v]
  BY DEF SetResult
<1>3. cur \in Threads /\ lab \in Depths /\ lab \in Slots /\ link[cur][lab] = 0
  BY <1>1, OneLives, ValuesAssumption DEF Slots, Depths
<1>4. PICK b \in Depths : link[cur][b] = lab
  BY <1>1, <1>3 DEF IInv, Called
<1>5. b # lab
  BY <1>1, <1>3, <1>4
<1> DEFINE c == mem[cur][lab]
           e == [mem[cur][lab] EXCEPT !.regs = v]
<1>6. c \in Contexts
  BY <1>1, <1>3, <1>4 DEF IInv, StackInv
<1>7. /\ e.regs = v /\ e.epc = c.epc /\ e.mie = c.mie /\ e.mprv = c.mprv
      /\ e.sp = c.sp /\ e.np = c.np /\ e.pdir = c.pdir
  BY <1>6, ContextResult
<1>8. mem \in [Threads -> [Slots -> Contexts \cup Frames]]
  BY DEF IInv, TypeOK
<1>9. mem' = [mem EXCEPT ![cur][lab] = e]
  BY <1>2
<1> HIDE DEF e
<1>10. /\ mem'[cur][lab] = e
       /\ \A t \in Threads, k \in Slots : t # cur \/ k # lab => mem'[t][k] = mem[t][k]
  BY <1>3, <1>8, <1>9
<1>11. ASSUME NEW t \in Threads, NEW d \in Depths, <<t, d>> # <<cur, b>>
       PROVE  vcpuBar'[t][d] = vcpuBar[t][d]
  <2>1. CASE link[t][d] # 0
    <3>1. t = cur => link[t][d] # lab
      BY <1>4, <1>11, <2>1, LinksDiffer
    <3>2. link[t][d] \in Slots
      <4>1. link[t][d] \in Depths
        BY DEF IInv, TypeOK
      <4> QED
        BY <2>1, <4>1, ValuesAssumption DEF Slots, Depths
    <3>3. mem'[t][link[t][d]] = mem[t][link[t][d]]
      BY <1>10, <3>1, <3>2
    <3> QED
      BY <1>1, <2>1, <3>3, Kept
  <2>2. CASE link[t][d] = 0 /\ <<t, d>> = <<cur, lab>>
    <3>1. vcpuBar[t][d] = Loaded /\ vcpuBar'[t][d] = Loaded'
      BY <1>1, <1>3, <2>2, Bar, BarNext
    <3>2. Loaded' = Loaded
      BY <1>1 DEF Loaded
    <3> QED
      BY <3>1, <3>2
  <2>3. CASE link[t][d] = 0 /\ <<t, d>> # <<cur, lab>>
    BY <1>1, <2>3, Absent
  <2> QED
    BY <2>1, <2>2, <2>3
<1>12. vcpuBar[cur][b] = Saved(cur, lab) /\ vcpuBar'[cur][b] = Saved(cur, lab)'
  BY <1>1, <1>3, <1>4, Bar, BarNext
<1>13. LET p == Saved(cur, lab)
           q == Saved(cur, lab)'
       IN q.pc = p.pc /\ q.sp = p.sp /\ q.mie = p.mie /\ q.mprv = p.mprv /\ q.space = p.space
  BY <1>1, <1>7, <1>10 DEF Saved
<1>14. vcpuBar[cur][b] # NoCpu
  BY <1>1, <1>3, <1>4, SavedIsCpu
<1>15. vcpuBar'[cur][b] \in V!Cpu
  BY <1>1, <1>3, <1>4, SavedAreCpusNext DEF SavedAreCpus
<1>16. \A f \in {"pc", "sp", "mie", "mprv", "space"} : vcpuBar'[cur][b][f] = vcpuBar[cur][b][f]
  BY <1>12, <1>13
<1>17. V!OnlyIn({<<cur, b>>})
  BY <1>11 DEF V!OnlyIn
<1> QED
  BY <1>1, <1>5, <1>14, <1>15, <1>16, <1>17 DEF V!SetResult

\* Steps that touch neither registers nor Contexts are not seen.
LEMMA QuietStep ==
  ASSUME IInv, phase = "run", phase' \in {"run", "halted"},
         UNCHANGED <<cpu, a0, mem, cur, lab, link>>,
         cur \in UserThreads => satp' = satp
  PROVE  UNCHANGED <<vcpuBar, cur, lab>>
<1>1. cur \in Threads /\ lab \in Depths /\ link[cur][lab] = 0
  BY OneLives
<1>2. Loaded' = Loaded
  BY DEF Loaded, SpaceOf
<1>3. ASSUME NEW t \in Threads, NEW b \in Depths
      PROVE  vcpuBar'[t][b] = vcpuBar[t][b]
  <2>1. CASE link[t][b] # 0
    BY <2>1, Kept
  <2>2. CASE <<t, b>> = <<cur, lab>>
    BY <1>1, <1>2, <2>2, Bar, BarNext
  <2>3. CASE link[t][b] = 0 /\ <<t, b>> # <<cur, lab>>
    BY <2>3, Absent
  <2> QED
    BY <2>1, <2>2, <2>3
<1> QED
  BY <1>3, SameCpus

LEMMA CteInitStep == IInv /\ CteInit => UNCHANGED <<vcpuBar, cur, lab>>
BY QuietStep DEF CteInit, csrs, aux

\* Turning translation on is invisible to main, which runs in the identity mapping.
LEMMA VmeInitStep == IInv /\ VmeInit => UNCHANGED <<vcpuBar, cur, lab>>
<1>1. Boot \notin UserThreads
  BY ThreadsAssumption
<1> QED
  BY <1>1, QuietStep DEF VmeInit, aux

LEMMA HandlerReturnNullStep ==
  IInv /\ HandlerReturnNull => UNCHANGED <<vcpuBar, cur, lab>>
BY QuietStep DEF HandlerReturnNull, csrs, aux

LEMMA StutterStep == UNCHANGED vars => UNCHANGED <<vcpuBar, cur, lab>>
BY DEF vars, csrs, conf, aux, vcpuBar, Saved, Loaded, SpaceOf

\* A new thread has one processor, made from the Context at the end of its stack.
LEMMA NewThreadStep ==
  ASSUME IInv, IInv', NEW t \in Threads, NEW c, NewThread(t, c),
         c.mie = TRUE, c.mprv = FALSE
  PROVE  V!Create
<1>1. /\ phase = "run" /\ t # cur /\ 1 \in Slots
      /\ UNCHANGED <<cpu, satp, phase, a0, cur, lab>>
  BY DEF NewThread, csrs
<1> DEFINE stack == [k \in Slots |-> IF k = 1 THEN c ELSE Junk]
           first == [b \in Depths |-> IF b = 0 THEN 1 ELSE 0]
<1>2. mem' = [mem EXCEPT ![t] = stack] /\ link' = [link EXCEPT ![t] = first]
  BY DEF NewThread
<1>3. mem \in MemType /\ link \in LinkType
  BY DEF IInv, TypeOK, MemType, LinkType
<1>4. 0 \in Depths
  BY <1>1, ValuesAssumption DEF Slots, Depths
<1>5. /\ \A u \in Threads : u # t => mem'[u] = mem[u] /\ link'[u] = link[u]
      /\ mem'[t] = stack /\ link'[t] = first
  BY <1>2, <1>3 DEF MemType, LinkType
<1>6. /\ mem'[t][1] = c /\ link'[t][0] = 1
      /\ \A b \in Depths : b # 0 => link'[t][b] = 0
  BY <1>1, <1>4, <1>5
<1> HIDE DEF stack, first
<1>7. cur \in Threads /\ lab \in Depths /\ link[cur][lab] = 0
  BY <1>1, OneLives
<1>8. ASSUME NEW u \in Threads, NEW b \in Depths, <<u, b>> \notin {t} \X Depths
      PROVE  vcpuBar'[u][b] = vcpuBar[u][b]
  <2>1. u # t
    BY <1>8
  <2>2. CASE link[u][b] # 0
    BY <1>1, <1>5, <2>1, <2>2, Kept
  <2>3. CASE <<u, b>> = <<cur, lab>>
    <3>1. Loaded' = Loaded
      BY <1>1 DEF Loaded, SpaceOf
    <3> QED
      BY <1>1, <1>5, <1>7, <2>3, <3>1, Bar, BarNext
  <2>4. CASE link[u][b] = 0 /\ <<u, b>> # <<cur, lab>>
    BY <1>1, <1>5, <2>1, <2>4, Absent
  <2> QED
    BY <2>2, <2>3, <2>4
<1>9. vcpuBar'[t][0] = Saved(t, 1)'
  <2>1. vcpuBar'[t][0] = Saved(t, link[t][0])'
    BY <1>4, <1>6, BarNext
  <2>2. Saved(t, link[t][0])' = Saved(t, 1)'
    BY <1>6 DEF Saved
  <2> QED
    BY <2>1, <2>2
<1>10. vcpuBar'[t][0].mie = TRUE /\ vcpuBar'[t][0].mprv = FALSE
  <2>1. Saved(t, 1)'.mie = mem'[t][1].mie /\ Saved(t, 1)'.mprv = mem'[t][1].mprv
    BY DEF Saved
  <2> QED
    BY <1>6, <1>9, <2>1
<1>11. vcpuBar'[t][0] \in V!Cpu
  BY <1>4, <1>6, SavedAreCpusNext DEF SavedAreCpus
<1>12. \A b \in Depths \ {0} : vcpuBar'[t][b] = NoCpu
  BY <1>1, <1>6, BarNext
<1>13. V!OnlyIn({t} \X Depths)
  BY <1>8 DEF V!OnlyIn
<1>14. t \in Threads \ {<<cur, lab>>[1]}
  BY <1>1
<1> QED
  BY <1>1, <1>10, <1>11, <1>12, <1>13, <1>14 DEF V!Create

LEMMA KcontextStep ==
  ASSUME IInv, IInv', NEW t \in KernelThreads, Kcontext(t)
  PROVE  V!Create
<1>1. PICK v \in Vals :
        NewThread(t, [regs |-> v, sp |-> Undef, epc |-> Entry, mie |-> TRUE,
                      mprv |-> FALSE, np |-> "KERNEL", pdir |-> Null])
  BY DEF Kcontext
<1> DEFINE c == [regs |-> v, sp |-> Undef, epc |-> Entry, mie |-> TRUE,
                 mprv |-> FALSE, np |-> "KERNEL", pdir |-> Null]
<1>2. t \in Threads /\ c.mie = TRUE /\ c.mprv = FALSE
  BY DEF Threads
<1> HIDE DEF c
<1> QED
  BY <1>1, <1>2, NewThreadStep DEF c

LEMMA UcontextStep ==
  ASSUME IInv, IInv', NEW t \in UserThreads, NEW as \in Spaces, Ucontext(t, as)
  PROVE  V!Create
<1>1. PICK v \in Vals, s \in UserSp :
        NewThread(t, [regs |-> v, sp |-> <<NoStack, s>>, epc |-> Entry, mie |-> TRUE,
                      mprv |-> FALSE, np |-> "USER", pdir |-> as])
  BY DEF Ucontext
<1> DEFINE c == [regs |-> v, sp |-> <<NoStack, s>>, epc |-> Entry, mie |-> TRUE,
                 mprv |-> FALSE, np |-> "USER", pdir |-> as]
<1>2. t \in Threads /\ c.mie = TRUE /\ c.mprv = FALSE
  BY DEF Threads
<1> HIDE DEF c
<1> QED
  BY <1>1, <1>2, NewThreadStep DEF c

-----------------------------------------------------------------------------
(* The trap path.                                                            *)

\* Saving is not seen: the Context holds what the hart held (trap.S:36-102).
LEMMA AsmTrapStep ==
  ASSUME IInv, NEW cause \in Causes, AsmTrap(cause)
  PROVE  UNCHANGED <<vcpuBar, cur, lab>>
<1>1. phase = "run" /\ phase' = "irq" /\ UNCHANGED <<satp, cur, lab>>
  BY DEF AsmTrap
<1>2. /\ cur \in Threads /\ lab \in Depths /\ cpu \in Cpus /\ link \in LinkType
      /\ \A t \in Threads, b \in Depths : link[t][b] \in Depths
      /\ link[cur][lab] = 0 /\ TypeOK
  BY <1>1, OneLives DEF IInv, TypeOK, LinkType
<1>3. PICK k \in Slots, c \in Contexts :
        /\ k \in Depths /\ k # 0 /\ \A b \in Depths : link[cur][b] < k
        /\ a0' = <<cur, k>>
        /\ mem' = [mem EXCEPT ![cur][k] = c]
        /\ link' = [link EXCEPT ![cur][lab] = k]
        /\ c.regs = cpu.regs /\ c.epc = cpu.pc /\ c.mie = cpu.mie /\ c.mprv = cpu.mprv
        /\ cpu.sp = IF c.np = "USER" THEN c.sp ELSE <<cur, k - 1>>
  <2> DEFINE k == TrapTop[2] + 1
             c == IF mscratch # Zero THEN Context(cpu, cpu.sp, "USER")
                                     ELSE Context(cpu, Undef, "KERNEL")
  <2>1. /\ TrapTop[1] = cur /\ TrapTop[2] \in Depths
        /\ \A b \in Depths : link[cur][b] <= TrapTop[2]
        /\ mscratch # Zero <=> InUser
    BY <1>1, TrapTopOk
  <2>2. TrapTop[2] < MaxSlot
    BY DEF AsmTrap
  <2>3. /\ k \in Slots /\ k \in Depths /\ k # 0 /\ k - 1 = TrapTop[2]
        /\ \A b \in Depths : link[cur][b] < k
    BY <1>2, <2>1, <2>2, ValuesAssumption DEF Slots, Depths
  <2>4. /\ a0' = <<cur, k>>
        /\ mem' = [mem EXCEPT ![cur][k] = c]
        /\ link' = [link EXCEPT ![cur][lab] = k]
    BY <2>1 DEF AsmTrap
  <2>5. c \in Contexts
    <3>1. InUser => cpu.sp \in UserAddr
      BY <1>1 DEF IInv, UserBody
    <3> QED
      BY <1>2, <2>1, <3>1, ContextSaved
  <2>6. /\ c.regs = cpu.regs /\ c.epc = cpu.pc /\ c.mie = cpu.mie /\ c.mprv = cpu.mprv
        /\ cpu.sp = IF c.np = "USER" THEN c.sp ELSE <<cur, k - 1>>
    <3>1. InKernel => cpu.sp = <<cur, TrapTop[2]>>
      BY <1>1, <2>1, KernelSp DEF TrapTop, InKernel
    <3> QED
      BY <2>1, <2>3, <3>1 DEF Context, InKernel
  <2> HIDE DEF k, c
  <2> QED
    BY <2>3, <2>4, <2>5, <2>6
<1>4. /\ mem' \in MemType
      /\ mem'[cur][k] = c
      /\ \A t \in Threads, b \in Depths : link[t][b] # 0 =>
           /\ link[t][b] \in Slots
           /\ mem'[t][link[t][b]] = mem[t][link[t][b]]
  BY <1>2, <1>3, WriteAbove
<1>5. \A t \in Threads, b \in Depths :
        link'[t][b] = IF t = cur /\ b = lab THEN k ELSE link[t][b]
  BY <1>2, <1>3, LinkUpdate
<1>6. ASSUME NEW t \in Threads, NEW b \in Depths, t = cur, b = lab
      PROVE  vcpuBar'[t][b] = Saved(t, k)'
  <2>1. link'[t][b] = k
    BY <1>5, <1>6
  <2>2. Saved(t, link[t][b])' = Saved(t, k)'
    BY <2>1 DEF Saved
  <2> QED
    BY <1>3, <2>1, <2>2, BarNext
<1>7. ASSUME NEW t \in Threads, NEW b \in Depths, t = cur, b = lab
      PROVE  vcpuBar[t][b] = Loaded /\ Saved(t, k)' = Loaded
  <2>1. vcpuBar[t][b] = Loaded
    BY <1>1, <1>2, <1>7, Bar
  <2>2. Saved(t, k)' = Loaded
    BY <1>1, <1>3, <1>4, <1>7 DEF Saved, Loaded, SpaceOf
  <2> QED
    BY <2>1, <2>2
<1>8. ASSUME NEW t \in Threads, NEW b \in Depths
      PROVE  vcpuBar'[t][b] = vcpuBar[t][b]
  <2>1. CASE <<t, b>> = <<cur, lab>>
    BY <1>6, <1>7, <2>1
  <2>2. CASE <<t, b>> # <<cur, lab>> /\ link[t][b] # 0
    <3>1. link'[t][b] = link[t][b]
      BY <1>5, <2>2
    <3>2. t = cur => link[t][b] # k
      BY <1>2, <1>3, ValuesAssumption DEF Depths
    <3>3. a0' # <<t, link[t][b]>>
      BY <1>3, <3>2
    <3> QED
      BY <1>1, <1>4, <2>2, <3>1, <3>3, Kept
  <2>3. CASE <<t, b>> # <<cur, lab>> /\ link[t][b] = 0
    BY <1>1, <1>5, <2>3, Absent
  <2> QED
    BY <2>1, <2>2, <2>3
<1> QED
  BY <1>1, <1>8, SameCpus

\* The handler's choice ends its activation and takes up another (cte.c:25-27).
LEMMA HandlerReturnStep ==
  ASSUME IInv, NEW t \in Threads, NEW b \in Depths, HandlerReturn(t, b)
  PROVE  V!Resume
<1>1. /\ phase = "run" /\ lab # 0 /\ link[t][b] # 0
      /\ cur' = t /\ lab' = b /\ phase' = "switch" /\ UNCHANGED <<mem, link>>
  BY DEF HandlerReturn, Newest
<1>2. cur \in Threads /\ lab \in Depths /\ link[cur][lab] = 0
  BY <1>1, OneLives
<1>3. <<t, b>> # <<cur, lab>>
  BY <1>1, <1>2
<1>4. ASSUME NEW u \in Threads, NEW d \in Depths, <<u, d>> # <<cur, lab>>
      PROVE  vcpuBar'[u][d] = vcpuBar[u][d]
  <2>1. CASE link[u][d] # 0
    BY <1>1, <2>1, Kept
  <2>2. CASE link[u][d] = 0
    BY <1>1, <1>4, <2>2, Absent
  <2> QED
    BY <2>1, <2>2
<1>5. vcpuBar'[cur][lab] = NoCpu
  BY <1>1, <1>2, BarNext
<1>6. vcpuBar[t][b] # NoCpu
  BY <1>1, SavedIsCpu
<1> QED
  BY <1>1, <1>3, <1>4, <1>5, <1>6 DEF V!Resume, V!OnlyIn

\* Switching directories is not seen: no Context says which one is in force.
LEMMA AmSwitchStep == IInv /\ AmSwitch => UNCHANGED <<vcpuBar, cur, lab>>
<1> SUFFICES ASSUME IInv, AmSwitch PROVE UNCHANGED <<vcpuBar, cur, lab>>
  OBVIOUS
<1>1. /\ phase = "switch" /\ phase' = "restore" /\ UNCHANGED <<a0, mem, cur, lab, link>>
  BY DEF AmSwitch, aux
<1>2. ASSUME NEW t \in Threads, NEW b \in Depths
      PROVE  vcpuBar'[t][b] = vcpuBar[t][b]
  <2>1. CASE link[t][b] # 0
    BY <1>1, <2>1, Kept
  <2>2. CASE link[t][b] = 0
    BY <1>1, <2>2, Absent
  <2> QED
    BY <2>1, <2>2
<1> QED
  BY <1>1, <1>2, SameCpus

\* Storing the address space changes one field of a Context.
LEMMA ContextSpace ==
  ASSUME NEW c \in Contexts, NEW p \in PdirType
  PROVE  LET e == [c EXCEPT !.pdir = p]
         IN /\ e.regs = c.regs /\ e.epc = c.epc /\ e.mie = c.mie /\ e.mprv = c.mprv
            /\ e.sp = c.sp /\ e.np = c.np /\ e.pdir = p
BY DEF Contexts, KernelContexts, UserContexts, PdirType

\* No suspended activation notices that __am_get_cur_as writes into the Context of one:
\* it writes the directory that was in force while that one ran (vme.c:61-63).
LEMMA IrqKeeps ==
  ASSUME IInv, IrqHandle, NEW t \in Threads, NEW b \in Depths, link[t][b] # 0
  PROVE  vcpuBar'[t][b] = vcpuBar[t][b]
<1>1. /\ phase = "irq" /\ phase' # "irq" /\ UNCHANGED <<satp, a0, cur, link>>
      /\ mem' = [mem EXCEPT ![a0[1]][a0[2]].pdir = CurAs]
  BY DEF IrqHandle, csrs
<1>2. /\ cur \in Threads /\ lab \in Depths
      /\ link[cur][lab] \in Slots /\ a0 = <<cur, link[cur][lab]>>
  BY <1>1, OneLives
<1>3. PICK k \in Slots : k = link[cur][lab]
  BY <1>2
<1>4. mem \in [Threads -> [Slots -> Contexts \cup Frames]]
  BY DEF IInv, TypeOK
<1>5. PICK c \in Contexts : c = mem[cur][k]
  BY <1>2, <1>3, ValuesAssumption DEF IInv, StackInv, Slots
<1>6. CurAs \in PdirType /\ (cur \in UserThreads => CurAs = satp)
  BY <1>1 DEF IInv, TypeOK, Translated, CurAs, PdirType
<1>7. PICK e :
        /\ mem' = [mem EXCEPT ![cur][k] = e]
        /\ e.regs = c.regs /\ e.epc = c.epc /\ e.mie = c.mie /\ e.mprv = c.mprv
        /\ e.sp = c.sp /\ e.np = c.np /\ e.pdir = CurAs
  <2> DEFINE e == [c EXCEPT !.pdir = CurAs]
  <2>1. mem' = [mem EXCEPT ![cur][k] = e]
    BY <1>1, <1>2, <1>3, <1>5
  <2>2. /\ e.regs = c.regs /\ e.epc = c.epc /\ e.mie = c.mie /\ e.mprv = c.mprv
        /\ e.sp = c.sp /\ e.np = c.np /\ e.pdir = CurAs
    BY <1>6, ContextSpace
  <2> HIDE DEF e
  <2> QED
    BY <2>1, <2>2
<1>8. /\ mem'[cur][k] = e
      /\ \A u \in Threads, j \in Slots : u # cur \/ j # k => mem'[u][j] = mem[u][j]
  BY <1>2, <1>4, <1>7
<1>9. CASE <<t, b>> = <<cur, lab>>
  <2>1. vcpuBar[t][b] = Saved(t, k)
    BY <1>3, <1>9, Bar
  <2>2. vcpuBar'[t][b] = Saved(t, k)'
    <3>1. link'[t][b] = k
      BY <1>1, <1>3, <1>9
    <3>2. Saved(t, link[t][b])' = Saved(t, k)'
      BY <3>1 DEF Saved
    <3> QED
      BY <3>1, <3>2, ValuesAssumption, BarNext DEF Slots
  <2>3. mem'[t][k] = e /\ mem[t][k] = c
    BY <1>5, <1>8, <1>9
  <2>4. Saved(t, k)' = Saved(t, k)
    BY <1>1, <1>2, <1>3, <1>6, <1>7, <1>9, <2>3 DEF Saved, SpaceOf
  <2> QED
    BY <2>1, <2>2, <2>4
<1>10. CASE <<t, b>> # <<cur, lab>>
  <2>1. t = cur => link[t][b] # k
    BY <1>2, <1>3, <1>10, LinksDiffer
  <2>2. link[t][b] \in Slots
    <3>1. link[t][b] \in Depths
      BY DEF IInv, TypeOK
    <3> QED
      BY <3>1, ValuesAssumption DEF Slots, Depths
  <2>3. mem'[t][link[t][b]] = mem[t][link[t][b]]
    BY <1>8, <2>1, <2>2
  <2>4. a0 # <<t, link[t][b]>>
    BY <1>1, <1>10, NotTheirs
  <2> QED
    BY <1>1, <2>3, <2>4, Kept
<1> QED
  BY <1>9, <1>10

\* Calling the handler starts its processor: interrupts off, in the address space of
\* the activation that was trapped; without a handler nothing is seen (cte.c:8-33).
LEMMA IrqHandleStep ==
  ASSUME IInv, IInv', Masked, IrqHandle
  PROVE  V!Dispatch \/ UNCHANGED <<vcpuBar, cur, lab>>
<1>1. phase = "irq" /\ UNCHANGED <<satp, cur, link>>
  BY DEF IrqHandle, csrs
<1>2. /\ cur \in Threads /\ lab \in Depths
      /\ link[cur][lab] \in Slots /\ a0 = <<cur, link[cur][lab]>>
  BY <1>1, OneLives
<1>3. PICK k \in Slots : k = link[cur][lab]
  BY <1>2
<1>4. k \in Depths /\ link[cur][k] = 0
  <2>1. k \in Depths /\ link[cur][k] \in Depths
    BY <1>2, ValuesAssumption DEF Slots, Depths, IInv, TypeOK
  <2>2. link[cur][k] <= k
    BY <1>1, <1>3, <2>1 DEF IInv, TrapPath, Newest
  <2>3. link[cur][k] # 0 => k < link[cur][k]
    BY <1>2, <2>1 DEF IInv, Nested
  <2> QED
    BY <2>1, <2>2, <2>3, ValuesAssumption DEF Depths
<1>5. CASE phase' = "run"
  <2>1. lab' = k /\ cpu' = [cpu EXCEPT !.regs = Entry, !.pc = Entry]
    BY <1>2, <1>3, <1>5 DEF IrqHandle
  <2>2. cpu'.mie = FALSE /\ cpu'.mprv = TRUE
    <3>1. cpu \in Cpus /\ cpu.mie \in BOOLEAN /\ cpu.mprv \in BOOLEAN
      BY DEF IInv, TypeOK, Cpus
    <3>2. cpu'.mie = cpu.mie /\ cpu'.mprv = cpu.mprv
      BY <2>1, <3>1 DEF Cpus
    <3> QED
      BY <1>1, <3>1, <3>2 DEF Masked
  <2>3. ASSUME NEW t \in Threads, NEW b \in Depths, <<t, b>> # <<cur, k>>
        PROVE  vcpuBar'[t][b] = vcpuBar[t][b]
    <3>1. CASE link[t][b] # 0
      BY <3>1, IrqKeeps
    <3>2. CASE link[t][b] = 0
      BY <1>1, <1>5, <2>1, <2>3, <3>2, Absent
    <3> QED
      BY <3>1, <3>2
  <2>4. vcpuBar[cur][k] = NoCpu
    BY <1>1, <1>2, <1>4, Bar
  <2>5. vcpuBar'[cur][k] = Loaded'
    BY <1>1, <1>2, <1>4, <1>5, <2>1, BarNext
  <2>6. Loaded' \in V!Cpu
    <3>1. (IInv /\ phase = "run" => Loaded \in V!Cpu)'
      BY LoadedIsCpu, PTL
    <3> QED
      BY <1>5, <3>1
  <2>7. /\ Loaded'.mie = FALSE /\ Loaded'.mprv = TRUE
        /\ Loaded'.space = SpaceOf(cur, satp)
    BY <1>1, <2>2 DEF Loaded, SpaceOf
  <2>8. vcpuBar[cur][lab].space = SpaceOf(cur, satp)
    <3>1. vcpuBar[cur][lab] = Saved(cur, k)
      BY <1>2, <1>3, ValuesAssumption, Bar DEF Slots
    <3> QED
      BY <1>1, <1>2, <1>3, <3>1 DEF Saved
  <2>9. V!OnlyIn({<<cur, k>>})
    BY <2>3 DEF V!OnlyIn
  <2> QED
    BY <1>1, <1>4, <2>1, <2>4, <2>5, <2>6, <2>7, <2>8, <2>9 DEF V!Dispatch
<1>6. CASE phase' = "switch"
  <2>1. lab' = lab
    BY <1>6 DEF IrqHandle
  <2>2. ASSUME NEW t \in Threads, NEW b \in Depths
        PROVE  vcpuBar'[t][b] = vcpuBar[t][b]
    <3>1. CASE link[t][b] # 0
      BY <3>1, IrqKeeps
    <3>2. CASE link[t][b] = 0
      BY <1>1, <1>6, <3>2, Absent
    <3> QED
      BY <3>1, <3>2
  <2> QED
    BY <1>1, <2>1, <2>2, SameCpus
<1> QED
  BY <1>5, <1>6 DEF IrqHandle

\* Restoring is not seen: the hart holds again what the Context held, in the address
\* space __am_switch brought back (trap.S:106-137).
LEMMA RestoreStep == IInv /\ Restore => UNCHANGED <<vcpuBar, cur, lab>>
<1> SUFFICES ASSUME IInv, Restore PROVE UNCHANGED <<vcpuBar, cur, lab>>
  OBVIOUS
<1>1. /\ phase = "restore" /\ phase' = "run" /\ UNCHANGED <<satp, a0, cur, lab>>
      /\ link' = [link EXCEPT ![cur][lab] = 0]
  BY DEF Restore
<1>2. /\ cur \in Threads /\ lab \in Depths
      /\ link[cur][lab] \in Slots /\ link[cur][lab] # 0 /\ a0 = <<cur, link[cur][lab]>>
  BY <1>1, OneLives
<1>3. PICK k \in Slots : k = link[cur][lab]
  BY <1>2
<1>4. /\ mem \in [Threads -> [Slots -> Contexts \cup Frames]] /\ link \in LinkType
      /\ 0 \in Depths
  <2>1. 0 \in Depths
    BY ValuesAssumption DEF Depths
  <2> QED
    BY <2>1 DEF IInv, TypeOK, LinkType
<1>5. PICK c \in Contexts : c = mem[cur][k]
  BY <1>2, <1>3 DEF IInv, StackInv
<1>6. cpu' = Restored(c, <<cur, k - 1>>) /\ mem' = [mem EXCEPT ![cur][k] = Junk]
  BY <1>2, <1>3, <1>5 DEF Restore
<1>7. \A t \in Threads, b \in Depths :
        link'[t][b] = IF t = cur /\ b = lab THEN 0 ELSE link[t][b]
  BY <1>1, <1>2, <1>4, LinkUpdate
<1>8. \A t \in Threads, j \in Slots : t # cur \/ j # k => mem'[t][j] = mem[t][j]
  BY <1>2, <1>4, <1>6
<1>9. vcpuBar[cur][lab] = Saved(cur, k) /\ vcpuBar'[cur][lab] = Loaded'
  BY <1>1, <1>2, <1>3, <1>7, Bar, BarNext
<1>10. Loaded' = Saved(cur, k)
  <2>1. cur \in UserThreads => satp = asOf[cur] /\ c.pdir = asOf[cur]
    <3>1. PdirOk(cur, lab)
      BY <1>1, <1>2 DEF IInv, Translated
    <3> QED
      BY <1>1, <1>3, <1>5, <3>1 DEF IInv, Translated, PdirOk
  <2>2. c.np \in {"KERNEL", "USER"}
    BY ContextFields
  <2>3. /\ cpu'.regs = c.regs /\ cpu'.pc = c.epc /\ cpu'.mie = c.mie /\ cpu'.mprv = c.mprv
        /\ cpu'.sp = IF c.np = "USER" THEN c.sp ELSE <<cur, k - 1>>
    BY <1>6, <2>2 DEF Restored
  <2> QED
    BY <1>1, <1>5, <2>1, <2>3 DEF Loaded, Saved, SpaceOf
<1>11. ASSUME NEW t \in Threads, NEW b \in Depths
       PROVE  vcpuBar'[t][b] = vcpuBar[t][b]
  <2>1. CASE <<t, b>> = <<cur, lab>>
    BY <1>9, <1>10, <2>1
  <2>2. CASE <<t, b>> # <<cur, lab>> /\ link[t][b] # 0
    <3>1. t = cur => link[t][b] # k
      BY <1>2, <1>3, <2>2, LinksDiffer
    <3>2. link[t][b] \in Slots
      <4>1. link[t][b] \in Depths
        BY DEF IInv, TypeOK
      <4> QED
        BY <2>2, <4>1, ValuesAssumption DEF Slots, Depths
    <3>3. mem'[t][link[t][b]] = mem[t][link[t][b]] /\ link'[t][b] = link[t][b]
      BY <1>7, <1>8, <2>2, <3>1, <3>2
    <3> QED
      BY <1>1, <2>2, <3>3, Kept
  <2>3. CASE <<t, b>> # <<cur, lab>> /\ link[t][b] = 0
    BY <1>1, <1>7, <2>3, Absent
  <2> QED
    BY <2>1, <2>2, <2>3
<1> QED
  BY <1>1, <1>11, SameCpus

-----------------------------------------------------------------------------
(* The refinement.                                                           *)

\* Traps turn interrupts off and set MPRV, and nothing runs before the handler.
LEMMA MaskedStep == IInv /\ Masked /\ [Next]_vars => Masked'
<1> SUFFICES ASSUME IInv, Masked, [Next]_vars PROVE Masked'
  OBVIOUS
<1>1. CASE \E cause \in Causes : AsmTrap(cause)
  <2>1. cpu \in Cpus
    BY DEF IInv, TypeOK
  <2>2. PICK c : cpu' = [cpu EXCEPT !.sp = c, !.mie = FALSE, !.mprv = TRUE]
    BY <1>1 DEF AsmTrap
  <2> QED
    BY <2>1, <2>2 DEF Masked, Cpus
<1>2. CASE phase' # "irq"
  BY <1>2 DEF Masked
<1>3. CASE UNCHANGED vars
  BY <1>3 DEF Masked, vars
<1>4. CASE Compute \/ Call \/ Return \/ SetResult \/ CteInit \/ VmeInit
  BY <1>2, <1>4 DEF Compute, Call, Return, SetResult, CteInit, VmeInit
<1>5. CASE \E t \in KernelThreads : Kcontext(t)
  BY <1>2, <1>5 DEF Kcontext, NewThread
<1>6. CASE \E t \in UserThreads, as \in Spaces : Ucontext(t, as)
  BY <1>2, <1>6 DEF Ucontext, NewThread
<1>7. CASE IrqHandle
  BY <1>2, <1>7 DEF IrqHandle
<1>8. CASE \E t \in Threads, b \in Depths : HandlerReturn(t, b)
  BY <1>2, <1>8 DEF HandlerReturn
<1>9. CASE HandlerReturnNull \/ AmSwitch \/ Restore
  BY <1>2, <1>9 DEF HandlerReturnNull, AmSwitch, Restore
<1> QED
  BY <1>1, <1>3, <1>4, <1>5, <1>6, <1>7, <1>8, <1>9 DEF Next

\* The machine starts with one processor, that of main.
LEMMA InitStep == Init => V!Init
<1> SUFFICES ASSUME Init PROVE V!Init
  OBVIOUS
<1>1. /\ IInv /\ phase = "run" /\ cur = Boot /\ lab = 0 /\ cpu.mie = FALSE /\ cpu.mprv = FALSE
      /\ \A t \in Threads, b \in Depths : link[t][b] = 0
  BY InitInv DEF Init
<1>2. Loaded \in V!Cpu
  BY <1>1, LoadedIsCpu
<1>3. cur \in Threads /\ lab \in Depths
  BY <1>1, OneLives
<1>4. \A t \in Threads, b \in Depths :
        vcpuBar[t][b] = IF t = cur /\ b = lab THEN Loaded ELSE NoCpu
  BY <1>1, Bar
<1>5. vcpuBar \in [Threads -> [Depths -> V!Cpu \cup {NoCpu}]]
  <2>1. ASSUME NEW t \in Threads
        PROVE  vcpuBar[t] \in [Depths -> V!Cpu \cup {NoCpu}]
    <3>1. vcpuBar[t] = [b \in Depths |-> vcpuBar[t][b]]
      BY DEF vcpuBar
    <3> QED
      BY <1>2, <1>4, <3>1
  <2>2. vcpuBar = [t \in Threads |-> vcpuBar[t]]
    BY DEF vcpuBar
  <2> QED
    BY <2>1, <2>2
<1>6. Loaded # NoCpu /\ Loaded.mie = FALSE /\ Loaded.mprv = FALSE
  BY <1>1, <1>2, NoCpuAssumption DEF Loaded
<1>7. \A t \in Threads, b \in Depths :
        vcpuBar[t][b] # NoCpu <=> <<t, b>> = <<cur, lab>>
  BY <1>4, <1>6
<1>8. vcpuBar[Boot][0] = Loaded
  BY <1>1, <1>3, <1>4
<1>9. V!TypeOK
  BY <1>3, <1>5 DEF V!TypeOK
<1> QED
  BY <1>1, <1>6, <1>7, <1>8, <1>9 DEF V!Init

\* Whatever the hart does is a step of one virtual processor, or none.
LEMMA NextStep ==
  IInv /\ IInv' /\ Masked /\ [Next]_vars => V!Next \/ UNCHANGED <<vcpuBar, cur, lab>>
<1> SUFFICES ASSUME IInv, IInv', Masked, [Next]_vars
             PROVE  V!Next \/ UNCHANGED <<vcpuBar, cur, lab>>
  OBVIOUS
<1> USE DEF V!Next
<1>1. CASE Compute
  BY <1>1, ComputeStep
<1>2. CASE Call
  BY <1>2, CallStep
<1>3. CASE Return
  BY <1>3, ReturnStep
<1>4. CASE SetResult
  BY <1>4, SetResultStep
<1>5. CASE CteInit
  BY <1>5, CteInitStep
<1>6. CASE VmeInit
  BY <1>6, VmeInitStep
<1>7. CASE \E t \in KernelThreads : Kcontext(t)
  BY <1>7, KcontextStep
<1>8. CASE \E t \in UserThreads, as \in Spaces : Ucontext(t, as)
  BY <1>8, UcontextStep
<1>9. CASE \E cause \in Causes : AsmTrap(cause)
  BY <1>9, AsmTrapStep
<1>10. CASE IrqHandle
  BY <1>10, IrqHandleStep
<1>11. CASE \E t \in Threads, b \in Depths : HandlerReturn(t, b)
  BY <1>11, HandlerReturnStep
<1>12. CASE HandlerReturnNull
  BY <1>12, HandlerReturnNullStep
<1>13. CASE AmSwitch
  BY <1>13, AmSwitchStep
<1>14. CASE Restore
  BY <1>14, RestoreStep
<1>15. CASE UNCHANGED vars
  BY <1>15, StutterStep
<1> QED
  BY <1>1, <1>2, <1>3, <1>4, <1>5, <1>6, <1>7, <1>8, <1>9, <1>10, <1>11, <1>12, <1>13,
     <1>14, <1>15 DEF Next

\* Saving, switching and restoring are invisible: the hart behaves like the processors
\* of VirtualCpus, one to each activation.
THEOREM Refinement == Spec => VirtualCpuSpec
<1>1. Init => Masked
  BY DEF Init, Masked
<1>2. IInv /\ IInv' /\ Masked /\ [Next]_vars => [V!Next]_(V!absVars)
  BY NextStep DEF V!absVars
<1> QED
  BY <1>1, <1>2, Inductive, InitStep, MaskedStep, PTL DEF Spec, VirtualCpuSpec, V!Spec
=============================================================================
