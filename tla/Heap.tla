-------------------------------- MODULE Heap --------------------------------
(***************************************************************************)
(* Memory for callers: malloc and free of klib/src/stdlib.c.  Threads      *)
(* preempt each other between the load and the store of the static         *)
(* variable addr; there is no lock.  Pointers are below Modulus; 0 is NULL. *)
(***************************************************************************)
EXTENDS Integers, FiniteSets

CONSTANTS
  Modulus,     \* where addresses wrap
  HeapStart, HeapEnd,
  Threads,
  Sizes,       \* what callers ask for
  MaxCalls     \* BOUND

Parameters ==
  /\ {HeapStart, HeapEnd, Modulus, MaxCalls} \subseteq Nat
  /\ 0 < HeapStart /\ HeapStart <= HeapEnd /\ HeapEnd < Modulus
  /\ Sizes \subseteq 0..(Modulus - 1)

Wrap(x) == x % Modulus

\* ROUNDUP(a, 8).  Mutant: down.
RoundDown(a) == (a \div 8) * 8
RoundUp(a)   == (Wrap(a + 7) \div 8) * 8

VARIABLES
  addr,
  call,    \* for each thread in malloc: the size asked for and the address loaded
  blocks,  \* what has been returned: for each call start and size
  taken,   \* history: the bytes asked for, each block filled up to a multiple of 8
  lost,    \* history: a store has undone another call's
  calls

vars == <<addr, call, blocks, taken, lost, calls>>

Idle == [size |-> 0, res |-> 0]

Init ==
  /\ addr = 0 /\ blocks = {} /\ taken = 0 /\ lost = FALSE /\ calls = 0
  /\ call = [t \in Threads |-> Idle]

\* addr where it is set, otherwise the start of the heap.
First == IF addr = 0 THEN RoundUp(HeapStart) ELSE addr

\* Up to the load; the compiler keeps addr in a register until it stores it.
Malloc(t, size) ==
  /\ call[t] = Idle /\ calls < MaxCalls
  /\ call' = [call EXCEPT ![t] = [size |-> size, res |-> First]]
  /\ calls' = calls + 1
  /\ UNCHANGED <<addr, blocks, taken, lost>>

Store(t) ==
  /\ call[t] # Idle
  /\ addr' = Wrap(call[t].res + RoundUp(call[t].size))
  /\ blocks' = blocks \cup
       {[id |-> Cardinality(blocks), start |-> call[t].res, size |-> call[t].size]}
  /\ taken' = taken + ((call[t].size + 7) \div 8) * 8
  /\ lost' = (lost \/ First # call[t].res)
  /\ call' = [call EXCEPT ![t] = Idle]
  /\ UNCHANGED calls

\* free gives nothing back.
Next == \E t \in Threads : Store(t) \/ \E size \in Sizes : Malloc(t, size)

Spec == Init /\ [][Next]_vars

-----------------------------------------------------------------------------
(* Properties.                                                               *)

Bytes(b)  == b.start..(b.start + b.size - 1)

\* What has been asked for fits into the heap: malloc does not look, it is the
\* callers' duty.
WithinHeap == HeapStart + 7 + taken <= HeapEnd

\* Blocks do not share a byte, begin at a multiple of 8 and lie in the heap, as long as
\* no store of one thread's call undid another's and the heap holds them
\* (stdlib.c:32-42).
BlocksApart ==
  ~lost /\ WithinHeap =>
    /\ \A b, c \in blocks : b # c => Bytes(b) \cap Bytes(c) = {}
    /\ \A b \in blocks : b.start % 8 = 0 /\ Bytes(b) \subseteq HeapStart..(HeapEnd - 1)
=============================================================================
