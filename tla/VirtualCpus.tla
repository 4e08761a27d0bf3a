---------------------------- MODULE VirtualCpus ----------------------------
(***************************************************************************)
(* What the CTE promises to the code above it.                             *)
(*                                                                         *)
(* Every thread owns a stack of activations: its own body, and above it    *)
(* one activation of the event handler for each trap that has not yet been *)
(* answered.  Each activation has a virtual processor of its own.  One     *)
(* activation runs; the registers, program counter, stack pointer, status  *)
(* bits and address space of every other one stay exactly as it left them, *)
(* until the handler hands the processor back to it.                       *)
(***************************************************************************)
CONSTANTS
  Threads,     \* the threads of control
  Boot,        \* the one that runs main
  Acts,        \* names of activations
  Body,        \* the activation that is a thread's own body
  Vals,        \* values of the general registers and of the program counter
  StackPtrs,   \* values of the stack pointer
  Spaces,      \* address spaces, with the "does not care" of kernel threads
  NoCpu        \* an activation that does not exist

VARIABLES
  vcpu,        \* vcpu[t][b]: the virtual processor of activation b of thread t
  running      \* <<t, b>>: the activation that has the processor

absVars == <<vcpu, running>>

Cpu == [regs : Vals, pc : Vals, sp : StackPtrs,
        mie : BOOLEAN, mprv : BOOLEAN, space : Spaces]

TypeOK ==
  /\ vcpu \in [Threads -> [Acts -> Cpu \cup {NoCpu}]]
  /\ running \in Threads \X Acts

Init ==
  /\ running = <<Boot, Body>>
  /\ TypeOK
  /\ \A t \in Threads, b \in Acts :
       vcpu[t][b] # NoCpu <=> <<t, b>> = running
  /\ ~vcpu[Boot][Body].mie /\ ~vcpu[Boot][Body].mprv

\* No virtual processor outside S changes.
OnlyIn(S) ==
  \A t \in Threads, b \in Acts :
    <<t, b>> \notin S => vcpu'[t][b] = vcpu[t][b]

\* The running activation computes.  Status bits and address space are not its
\* to change.
Step ==
  LET t == running[1]
      b == running[2]
  IN /\ running' = running
     /\ OnlyIn({running})
     /\ vcpu'[t][b] \in Cpu
     /\ \A f \in {"mie", "mprv", "space"} : vcpu'[t][b][f] = vcpu[t][b][f]

\* A trap starts a handler above the running activation: interrupts off, same
\* address space.
Dispatch ==
  LET t == running[1]
      b == running'[2]
  IN /\ running' \in {t} \X Acts
     /\ vcpu[t][b] = NoCpu
     /\ OnlyIn({running'})
     /\ vcpu'[t][b] \in Cpu
     /\ ~vcpu'[t][b].mie /\ vcpu'[t][b].mprv
     /\ vcpu'[t][b].space = vcpu[t][running[2]].space

\* The handler stores a result in the registers of an activation its thread
\* suspended.
SetResult ==
  LET t == running[1]
  IN /\ running' = running /\ running[2] # Body
     /\ \E b \in Acts \ {running[2]} :
          /\ vcpu[t][b] # NoCpu
          /\ OnlyIn({<<t, b>>})
          /\ vcpu'[t][b] \in Cpu
          /\ \A f \in {"pc", "sp", "mie", "mprv", "space"} :
               vcpu'[t][b][f] = vcpu[t][b][f]

\* A handler ends and some suspended activation, of any thread, goes on.
Resume ==
  /\ running[2] # Body /\ running' # running
  /\ running' \in Threads \X Acts
  /\ vcpu[running'[1]][running'[2]] # NoCpu
  /\ OnlyIn({running})
  /\ vcpu'[running[1]][running[2]] = NoCpu

\* A thread is (re)created; whatever an earlier thread of that name left is gone.
Create ==
  /\ running' = running
  /\ \E t \in Threads \ {running[1]} :
       /\ OnlyIn({t} \X Acts)
       /\ vcpu'[t][Body] \in Cpu
       /\ vcpu'[t][Body].mie /\ ~vcpu'[t][Body].mprv
       /\ \A b \in Acts \ {Body} : vcpu'[t][b] = NoCpu

Next == Step \/ Dispatch \/ SetResult \/ Resume \/ Create

Spec == Init /\ [][Next]_absVars
=============================================================================
