---------------------------- MODULE MemoryProofs ----------------------------
(***************************************************************************)
(* Proofs about klib's memory and text: memcpy copies whatever overlaps,   *)
(* blocks of the heap lie apart, the string functions write and return     *)
(* what they should, and vsprintf prints each item as its directive asks,  *)
(* so that atoi reads a number back; for memory of any size, bytes of any  *)
(* kind, words of any length and every legal call.                         *)
(***************************************************************************)
EXTENDS MCMemory, SequenceTheorems, WellFoundedInduction, TLAPS

\* What holds in every state: the loops' invariant, and the result.
IInv == CopyInv /\ CopiesRight

-----------------------------------------------------------------------------
(* One byte more.                                                            *)

\* Copying the byte at offset k adds it to the bytes copied, on either side, as long as
\* that byte of the source has not been written.
LEMMA OneMore ==
  ASSUME TypeOK, NEW k \in 0..M, NEW from \in 0..M, NEW i \in Nat, NEW next \in 0..M,
         out + k \in Addr, in + k \in Addr,
         mem = Moved(from, i),
         in + k \notin (out + from)..(out + from + i - 1),
         \/ next = from /\ k = from + i
         \/ from = k + 1 /\ next = k
  PROVE  [mem EXCEPT ![out + k] = mem[in + k]] = Moved(next, i + 1)
<1>1. mem[in + k] = old[in + k]
  BY MemoryAssumption DEF Moved, TypeOK, Addr
<1>2. ASSUME NEW x \in Addr
      PROVE  [mem EXCEPT ![out + k] = mem[in + k]][x] = Moved(next, i + 1)[x]
  <2>1. CASE x = out + k
    BY <1>1, <2>1, MemoryAssumption DEF Moved, TypeOK, Addr
  <2>2. CASE x # out + k
    <3>1. (x \in (out + next)..(out + next + (i + 1) - 1))
            <=> (x \in (out + from)..(out + from + i - 1))
      BY <2>2, MemoryAssumption DEF TypeOK, Addr
    <3>2. QED
      BY <2>2, <3>1, MemoryAssumption DEF Moved, TypeOK, Addr
  <2>3. QED
    BY <2>1, <2>2
<1>3. QED
  BY <1>2, MemoryAssumption DEF Moved, TypeOK, Addr
-----------------------------------------------------------------------------
(* The invariant is inductive.                                               *)

\* A call begins in it.
LEMMA InitInv == Init => IInv
<1>1. SUFFICES ASSUME Init PROVE IInv
  OBVIOUS
<1>2. TypeOK
  BY <1>1, MemoryAssumption DEF Init, TypeOK, Addr
<1>3. CopyInv
  BY <1>1, <1>2 DEF Init, CopyInv
<1>4. QED
  BY <1>1, <1>3 DEF Init, IInv, CopiesRight

\* A NULL ends the call before anything has been written.
LEMMA NullArgumentInv == IInv /\ NullArgument => IInv'
<1>1. SUFFICES ASSUME IInv, NullArgument PROVE IInv'
  OBVIOUS
<1>2. TypeOK'
  BY <1>1, MemoryAssumption DEF IInv, CopyInv, TypeOK, NullArgument, args
<1>3. CopyInv'
  BY <1>1, <1>2 DEF IInv, CopyInv, NullArgument, args
<1>4. CopiesRight'
  BY <1>1 DEF IInv, CopyInv, CopiesRight, NullArgument, args
<1>5. QED
  BY <1>3, <1>4 DEF IInv

\* Copying nothing leaves memory as it was.
LEMMA NothingMoved ==
  ASSUME TypeOK, NEW k \in Nat
  PROVE  Moved(k, 0) = old
BY MemoryAssumption DEF TypeOK, Moved, Addr

\* The loop from the front begins with nothing copied.
LEMMA ForwardsInv == IInv /\ Forwards => IInv'
<1>1. SUFFICES ASSUME IInv, Forwards PROVE IInv'
  OBVIOUS
<1>2. TypeOK'
  BY <1>1, MemoryAssumption DEF IInv, CopyInv, TypeOK, Forwards, args
<1>3. Moved(0, len - n)' = old
  BY <1>1, <1>2, MemoryAssumption, NothingMoved DEF IInv, CopyInv, TypeOK, Forwards, Moved, args
<1>4. CopyInv'
  BY <1>1, <1>2, <1>3, MemoryAssumption DEF IInv, CopyInv, TypeOK, Forwards, Overlaps, args
<1>5. QED
  BY <1>1, <1>4 DEF IInv, CopiesRight, Forwards

\* So does the one from the end.
LEMMA BackwardsInv == IInv /\ Backwards => IInv'
<1>1. SUFFICES ASSUME IInv, Backwards PROVE IInv'
  OBVIOUS
<1>2. TypeOK'
  BY <1>1, MemoryAssumption DEF IInv, CopyInv, TypeOK, Backwards, Overlaps, args
<1>3. Moved(n, len - n)' = old
  BY <1>1, <1>2, MemoryAssumption, NothingMoved DEF IInv, CopyInv, TypeOK, Backwards, Moved, args
<1>4. CopyInv'
  BY <1>1, <1>2, <1>3, MemoryAssumption DEF IInv, CopyInv, TypeOK, Backwards, Overlaps, args
<1>5. QED
  BY <1>1, <1>4 DEF IInv, CopiesRight, Backwards

\* A turn of a loop copies one byte of the source that has not been written.
LEMMA CopyByteInv == IInv /\ CopyByte => IInv'
<1>1. SUFFICES ASSUME IInv, CopyByte PROVE IInv'
  OBVIOUS
<1>2. TypeOK /\ n \in 1..len /\ n' = n - 1 /\ out \in 1..M /\ in \in 1..M
      /\ out + len - 1 <= M /\ in + len - 1 <= M
      /\ mem' = [mem EXCEPT ![dst] = mem[src]]
  BY <1>1, MemoryAssumption DEF IInv, CopyInv, TypeOK, CopyByte
<1>3. CASE pc = "forwards"
  <2>1. dst = out + (len - n) /\ src = in + (len - n) /\ dst \in Addr /\ src \in Addr
        /\ mem = Moved(0, len - n) /\ (out < in \/ out > in + len - 1)
    BY <1>1, <1>2, <1>3, MemoryAssumption DEF IInv, CopyInv, TypeOK, Addr
  <2>2. in + (len - n) \notin (out + 0)..(out + 0 + (len - n) - 1)
    BY <1>2, <2>1, MemoryAssumption DEF TypeOK
  <2>3. mem' = Moved(0, (len - n) + 1)
    BY <1>2, <2>1, <2>2, MemoryAssumption, OneMore DEF TypeOK
  <2>4. mem' = Moved(0, len - n)'
    <3>1. UNCHANGED args /\ n' = n - 1
      BY <1>1 DEF CopyByte
    <3>2. (len - n) + 1 = len - (n - 1)
      BY <1>2 DEF TypeOK
    <3>3. QED
      BY <2>3, <3>1, <3>2 DEF Moved, args, Addr
  <2>5. TypeOK'
    BY <1>1, <1>2, <1>3, <2>1, MemoryAssumption DEF CopyByte, TypeOK, args, Addr
  <2>6. CopyInv'
    BY <1>1, <1>2, <1>3, <2>1, <2>4, <2>5, MemoryAssumption DEF CopyByte, CopyInv, TypeOK, args
  <2>7. QED
    BY <1>1, <1>3, <2>6 DEF IInv, CopiesRight, CopyByte
<1>4. CASE pc = "backwards"
  <2>1. dst = out + (n - 1) /\ src = in + (n - 1) /\ dst \in Addr /\ src \in Addr
        /\ mem = Moved(n, len - n) /\ out >= in
    BY <1>1, <1>2, <1>4, MemoryAssumption DEF IInv, CopyInv, TypeOK, Addr
  <2>2. in + (n - 1) \notin (out + n)..(out + n + (len - n) - 1)
    BY <1>2, <2>1, MemoryAssumption DEF TypeOK
  <2>3. mem' = Moved(n - 1, (len - n) + 1)
    BY <1>2, <2>1, <2>2, MemoryAssumption, OneMore DEF TypeOK
  <2>4. mem' = Moved(n, len - n)'
    <3>1. UNCHANGED args /\ n' = n - 1
      BY <1>1 DEF CopyByte
    <3>2. (len - n) + 1 = len - (n - 1)
      BY <1>2 DEF TypeOK
    <3>3. QED
      BY <2>3, <3>1, <3>2 DEF Moved, args, Addr
  <2>5. TypeOK'
    BY <1>1, <1>2, <1>4, <2>1, MemoryAssumption DEF CopyByte, TypeOK, args, Addr
  <2>6. CopyInv'
    BY <1>1, <1>2, <1>4, <2>1, <2>4, <2>5, MemoryAssumption DEF CopyByte, CopyInv, TypeOK, args
  <2>7. QED
    BY <1>1, <1>4, <2>6 DEF IInv, CopiesRight, CopyByte
<1>5. QED
  BY <1>1, <1>3, <1>4 DEF CopyByte

\* A loop that has ended has copied everything.
LEMMA ReturnInv == IInv /\ Return => IInv'
<1>1. SUFFICES ASSUME IInv, Return PROVE IInv'
  OBVIOUS
<1>2. TypeOK'
  BY <1>1, MemoryAssumption DEF IInv, CopyInv, TypeOK, Return, args
<1>3. CopyInv'
  BY <1>1, <1>2 DEF IInv, CopyInv, Return, args
<1>4. mem = Moved(0, len)
  BY <1>1, MemoryAssumption DEF IInv, CopyInv, TypeOK, Return
<1>5. CopiesRight'
  BY <1>1, <1>4 DEF IInv, CopyInv, CopiesRight, Return, Moved, args
<1>6. QED
  BY <1>3, <1>5 DEF IInv

\* Doing nothing keeps it.
LEMMA StutterInv == IInv /\ UNCHANGED vars => IInv'
BY MemoryAssumption DEF IInv, CopyInv, CopiesRight, TypeOK, Moved, vars, args

\* Every step keeps it.
LEMMA StepInv == IInv /\ [Next]_vars => IInv'
BY NullArgumentInv, ForwardsInv, BackwardsInv, CopyByteInv, ReturnInv, StutterInv DEF Next

\* It says that memcpy reads and writes only bytes of the two areas.
LEMMA CopyInside == IInv => Inside
BY MemoryAssumption DEF IInv, CopyInv, TypeOK, Inside

\* The invariant of memcpy's loops holds in every reachable state: neither loop writes a
\* byte of the source that is still to be read, and memcpy returns with all of them
\* copied, for every size of memory, every overlap and every kind of bytes.
THEOREM Inductive == Spec => []IInv
BY InitInv, StepInv, PTL DEF Spec

\* No loop of memcpy writes a byte that is still to be read.
THEOREM LoopsSafe == Spec => []CopyInv
<1>1. IInv => CopyInv
  BY DEF IInv
<1>2. QED
  BY Inductive, <1>1, PTL

\* memcpy, and so memmove, copies what the source held, however the areas overlap.
THEOREM CopiesCorrect == Spec => []CopiesRight
<1>1. IInv => CopiesRight
  BY DEF IInv
<1>2. QED
  BY Inductive, <1>1, PTL

\* memcpy reads and writes only bytes of the two areas.
THEOREM StaysInside == Spec => []Inside
BY Inductive, CopyInside, PTL
-----------------------------------------------------------------------------
(* The heap.                                                                 *)

\* A size or an address, filled up to a multiple of 8.
Up8(s) == ((s + 7) \div 8) * 8

\* Where the next block begins.
HeapTop == Up8(HeapStart) + taken

\* The blocks lie below it, one behind another.
Placed ==
  /\ Heap!First = HeapTop /\ HeapTop % 8 = 0
  /\ \A b \in blocks : b.start % 8 = 0 /\ HeapStart <= b.start /\ b.start + b.size <= HeapTop
  /\ \A b, c \in blocks : b # c => b.start + b.size <= c.start \/ c.start + c.size <= b.start

Pointers == 0..(HeapModulus - 1)

\* The inductive invariant of malloc.
HeapTypes ==
  /\ addr \in Pointers /\ taken \in Nat /\ lost \in BOOLEAN
  /\ call \in [Threads -> [size : Pointers, res : Pointers]]
  /\ \A b \in blocks : b.start \in Nat /\ b.size \in Nat

HeapInv == HeapTypes /\ (~lost /\ Heap!WithinHeap => Placed)

\* What the constants are.
LEMMA HeapNumbers ==
  /\ HeapStart \in Nat /\ HeapEnd \in Nat /\ HeapModulus \in Nat
  /\ 0 < HeapStart /\ HeapStart <= HeapEnd /\ HeapEnd < HeapModulus /\ 0 \in Pointers
  /\ Sizes \subseteq Pointers
BY MemoryParameters DEF Heap!Parameters, Pointers

\* Filling up to a multiple of 8 adds at most 7.
LEMMA Filled ==
  ASSUME NEW s \in Nat
  PROVE  Up8(s) \in Nat /\ Up8(s) % 8 = 0 /\ s <= Up8(s) /\ Up8(s) <= s + 7
BY DEF Up8

\* Without a wrap ROUNDUP rounds up; with one its result is a pointer still.
LEMMA Rounds ==
  ASSUME NEW s \in Nat
  PROVE  /\ Heap!RoundUp(s) \in Pointers
         /\ s + 7 < HeapModulus => Heap!RoundUp(s) = Up8(s)
<1>1. PICK m \in Nat : m = HeapModulus /\ m > 0
  BY HeapNumbers
<1>2. PICK w \in 0..(m - 1) : w = Heap!Wrap(s + 7) /\ (s + 7 < m => w = s + 7)
  <2>1. (s + 7) % m \in 0..(m - 1)
    BY <1>1, Z3
  <2>2. s + 7 < m => (s + 7) % m = s + 7
    BY <1>1, Z3
  <2> QED
    BY <1>1, <2>1, <2>2 DEF Heap!Wrap
<1>3. (w \div 8) * 8 \in 0..(m - 1)
  BY <1>1, <1>2
<1> QED
  BY <1>1, <1>2, <1>3 DEF Heap!RoundUp, Up8, Pointers

\* The heap begins at a pointer.
LEMMA FirstIsPointer == HeapTypes => Heap!First \in Pointers
BY HeapNumbers, Rounds DEF HeapTypes, Heap!First

\* The heap begins empty.
LEMMA HeapInitInv == Heap!Init => HeapInv
<1> SUFFICES ASSUME Heap!Init PROVE HeapInv
  OBVIOUS
<1>1. HeapTypes
  BY HeapNumbers DEF Heap!Init, Heap!Idle, HeapTypes
<1>2. ASSUME Heap!WithinHeap PROVE Placed
  <2>1. HeapStart + 7 < HeapModulus /\ taken = 0
    BY <1>2, HeapNumbers DEF Heap!Init, Heap!WithinHeap
  <2>2. Heap!First = Up8(HeapStart) /\ Up8(HeapStart) \in Nat /\ Up8(HeapStart) % 8 = 0
    BY <2>1, HeapNumbers, Rounds, Filled DEF Heap!Init, Heap!First
  <2> QED
    BY <2>1, <2>2 DEF Placed, HeapTop, Heap!Init
<1> QED
  BY <1>1, <1>2 DEF HeapInv

\* Loading addr takes nothing.
LEMMA MallocInv ==
  ASSUME HeapInv, NEW t \in Threads, NEW size \in Sizes, Heap!Malloc(t, size)
  PROVE  HeapInv'
<1>1. HeapTypes'
  BY HeapNumbers, FirstIsPointer DEF HeapInv, HeapTypes, Heap!Malloc
<1>2. Placed' <=> Placed
  BY DEF Placed, HeapTop, Heap!First, Heap!Malloc
<1>3. Heap!WithinHeap' <=> Heap!WithinHeap
  BY DEF Heap!WithinHeap, Heap!Malloc
<1> QED
  BY <1>1, <1>2, <1>3 DEF HeapInv, Heap!Malloc

\* A block that nobody's store has undone is put behind all others.
LEMMA StoreInv ==
  ASSUME HeapInv, NEW t \in Threads, Heap!Store(t)
  PROVE  HeapInv'
<1>1. PICK size \in Nat, res \in Nat :
        /\ size = call[t].size /\ res = call[t].res
        /\ size \in Pointers /\ res \in Pointers
  BY HeapNumbers DEF HeapInv, HeapTypes, Pointers
<1>2. PICK b : /\ blocks' = blocks \cup {b}
               /\ b.start = res /\ b.size = size
  <2>1. PICK i : blocks' = blocks \cup {[id |-> i, start |-> call[t].res, size |-> call[t].size]}
    BY Zenon DEF Heap!Store
  <2> DEFINE b == [id |-> i, start |-> call[t].res, size |-> call[t].size]
  <2>2. b.start = res /\ b.size = size
    BY <1>1
  <2> HIDE DEF b
  <2>3. blocks' = blocks \cup {b}
    BY <2>1 DEF b
  <2> QED
    BY <2>2, <2>3
<1>3. taken' = taken + Up8(size) /\ addr' = Heap!Wrap(res + Heap!RoundUp(size))
  BY <1>1 DEF Heap!Store, Up8
<1>4. HeapTypes'
  <2>1. addr' \in Pointers
    <3>1. PICK w \in Nat : w = res + Heap!RoundUp(size)
      BY <1>1, Rounds, HeapNumbers DEF Pointers
    <3>2. PICK m \in Nat : m = HeapModulus /\ m > 0
      BY HeapNumbers
    <3>3. w % m \in 0..(m - 1)
      BY <3>2, Z3
    <3> QED
      BY <1>3, <3>1, <3>2, <3>3 DEF Heap!Wrap, Pointers
  <2>2. call' \in [Threads -> [size : Pointers, res : Pointers]]
    BY HeapNumbers DEF HeapInv, HeapTypes, Heap!Store, Heap!Idle
  <2>3. lost' \in BOOLEAN
    BY DEF HeapInv, HeapTypes, Heap!Store
  <2>4. taken' \in Nat
    BY <1>1, <1>3, Filled, SMTT(30) DEF HeapInv, HeapTypes
  <2>5. \A c \in blocks' : c.start \in Nat /\ c.size \in Nat
    BY <1>1, <1>2 DEF HeapInv, HeapTypes
  <2> QED
    BY <2>1, <2>2, <2>3, <2>4, <2>5 DEF HeapTypes
<1>5. ASSUME ~lost', Heap!WithinHeap' PROVE Placed'
  <2>1. PICK top \in Nat, up \in Nat, base \in Nat :
          /\ top = HeapTop /\ up = Up8(size) /\ base = Up8(HeapStart) /\ top = base + taken
          /\ up % 8 = 0 /\ size <= up /\ up <= size + 7
          /\ HeapStart <= base /\ base <= HeapStart + 7
    <3>1. /\ Up8(size) \in Nat /\ Up8(size) % 8 = 0
          /\ size <= Up8(size) /\ Up8(size) <= size + 7
      BY <1>1, Filled
    <3>2. /\ Up8(HeapStart) \in Nat /\ HeapStart <= Up8(HeapStart)
          /\ Up8(HeapStart) <= HeapStart + 7 /\ taken \in Nat
      BY HeapNumbers, Filled DEF HeapInv, HeapTypes
    <3>3. HeapTop \in Nat /\ HeapTop = Up8(HeapStart) + taken
      BY <3>2 DEF HeapTop
    <3> QED
      BY <3>1, <3>2, <3>3
  <2>2. top + up <= HeapEnd /\ size + 7 < HeapModulus /\ taken \in Nat /\ HeapTop' = top + up
    BY <1>3, <1>5, <2>1, HeapNumbers DEF Heap!WithinHeap, HeapInv, HeapTypes, HeapTop
  <2>3. Placed /\ res = top
    <3>1. ~lost /\ Heap!First = res
      BY <1>1, <1>5 DEF Heap!Store
    <3>2. Heap!WithinHeap
      BY <1>3, <1>5, <2>1, <2>2, HeapNumbers DEF Heap!WithinHeap
    <3> QED
      BY <2>1, <3>1, <3>2 DEF HeapInv, Placed
  <2>4. addr' = top + up
    <3>1. Heap!RoundUp(size) = up
      BY <1>1, <2>1, <2>2, Rounds
    <3>2. PICK m \in Nat, w \in Nat : m = HeapModulus /\ w = top + up /\ w < m
      BY <2>1, <2>2, HeapNumbers
    <3>3. w % m = w
      BY <3>2, Z3
    <3> QED
      BY <1>3, <2>3, <3>1, <3>2, <3>3 DEF Heap!Wrap
  <2>5. Heap!First' = HeapTop' /\ HeapTop' % 8 = 0 /\ top % 8 = 0
    <3>1. top % 8 = 0
      BY <2>1, <2>3 DEF Placed
    <3>2. (top + up) % 8 = 0
      BY <2>1, <3>1
    <3>3. addr' # 0
      BY <2>1, <2>2, <2>4, HeapNumbers
    <3> QED
      BY <2>2, <2>4, <3>1, <3>2, <3>3 DEF Heap!First
  <2>6. ASSUME NEW c \in blocks'
        PROVE  c.start % 8 = 0 /\ HeapStart <= c.start /\ c.start + c.size <= HeapTop'
    <3>1. CASE c = b
      BY <1>2, <2>1, <2>2, <2>3, <2>5, <3>1, HeapNumbers
    <3>2. CASE c \in blocks
      BY <2>1, <2>2, <2>3, <3>2 DEF Placed, HeapInv, HeapTypes
    <3> QED
      BY <1>2, <3>1, <3>2
  <2>7. ASSUME NEW c \in blocks', NEW d \in blocks', c # d
        PROVE  c.start + c.size <= d.start \/ d.start + d.size <= c.start
    <3>1. \A e \in blocks : e.start + e.size <= b.start
      BY <1>2, <2>1, <2>3 DEF Placed
    <3> QED
      BY <1>2, <2>3, <2>7, <3>1 DEF Placed
  <2> QED
    BY <2>5, <2>6, <2>7 DEF Placed
<1> QED
  BY <1>4, <1>5 DEF HeapInv

\* However calls preempt one another, as long as no store undoes another's and the heap
\* is not exhausted, malloc's blocks lie one behind another.
THEOREM HeapInvariant == Heap!Spec => []HeapInv
<1>1. HeapInv /\ [Heap!Next]_heapVars => HeapInv'
  <2> SUFFICES ASSUME HeapInv, [Heap!Next]_heapVars PROVE HeapInv'
    OBVIOUS
  <2>1. CASE UNCHANGED heapVars
    BY <2>1 DEF heapVars, HeapInv, HeapTypes, Placed, HeapTop, Heap!First, Heap!WithinHeap
  <2> QED
    BY <2>1, MallocInv, StoreInv DEF Heap!Next
<1> QED
  BY <1>1, HeapInitInv, PTL DEF Heap!Spec, Heap!vars, heapVars

\* Blocks that malloc returned share no byte, begin at multiples of 8 and lie in the heap,
\* for a heap and sizes of any kind (stdlib.c:32-42).
THEOREM BlocksLieApart == Heap!Spec => []BlocksApart
<1>1. HeapInv => BlocksApart
  <2> SUFFICES ASSUME HeapInv, ~lost, Heap!WithinHeap
               PROVE  /\ \A b, c \in blocks : b # c => Heap!Bytes(b) \cap Heap!Bytes(c) = {}
                      /\ \A b \in blocks : /\ b.start % 8 = 0
                                           /\ Heap!Bytes(b) \subseteq HeapStart..(HeapEnd - 1)
    BY DEF BlocksApart, Heap!BlocksApart
  <2>1. /\ Placed /\ \A b \in blocks : b.start \in Nat /\ b.size \in Nat
        /\ HeapTop \in Nat /\ HeapTop <= HeapEnd
    BY HeapNumbers, Filled, SMTT(30) DEF HeapInv, HeapTypes, HeapTop, Heap!WithinHeap
  <2>2. \A b, c \in blocks : b # c => Heap!Bytes(b) \cap Heap!Bytes(c) = {}
    BY <2>1 DEF Placed, Heap!Bytes
  <2>3. \A b \in blocks : b.start % 8 = 0 /\ Heap!Bytes(b) \subseteq HeapStart..(HeapEnd - 1)
    BY <2>1, HeapNumbers DEF Placed, Heap!Bytes
  <2> QED
    BY <2>2, <2>3
<1> QED
  BY <1>1, HeapInvariant, PTL
-----------------------------------------------------------------------------
(* Strings.                                                                  *)

\* Every set of natural numbers has a smallest one.
LEMMA Smallest ==
  ASSUME NEW S \in SUBSET Nat, S # {}
  PROVE  \E e \in S : \A y \in S : e <= y
<1>1. PICK e \in S : \A y \in S : ~(<<y, e>> \in OpToRel(<, Nat))
  BY NatLessThanWellFounded, WFMin
<1>2. \A y \in S : ~(y < e) /\ y \in Nat /\ e \in Nat
  BY <1>1 DEF OpToRel
<1>3. \A y \in S : e <= y
  BY <1>2
<1> QED
  BY <1>3

\* So a string has a first NUL.
LEMMA NulIsFirst ==
  ASSUME NEW a \in Addr, Str!IsString(a)
  PROVE  /\ Str!Nul(a) \in Addr /\ Str!Nul(a) >= a /\ str_old[Str!Nul(a)] = 0
         /\ \A x \in a..(Str!Nul(a) - 1) : str_old[x] # 0
<1> DEFINE S == {e \in a..M : str_old[e] = 0}
<1>1. S \in SUBSET Nat /\ S # {}
  BY MemoryAssumption DEF Str!IsString, Addr
<1>2. PICK e \in S : \A y \in S : e <= y
  BY <1>1, Smallest
<1>3. e \in a..M /\ str_old[e] = 0 /\ \A x \in a..(e - 1) : str_old[x] # 0
  BY <1>2, MemoryAssumption DEF Addr
<1>4. /\ Str!Nul(a) \in a..M /\ str_old[Str!Nul(a)] = 0
      /\ \A x \in a..(Str!Nul(a) - 1) : str_old[x] # 0
  BY <1>3, Zenon DEF Str!Nul
<1> QED
  BY <1>4, MemoryAssumption DEF Addr

\* The last byte to look at is in front of no NUL that n bytes have.
LEMMA FinalNul ==
  ASSUME NEW a \in Addr, str_n \in 0..M, Str!Final(a) <= M, NEW i \in 0..(str_n - 1),
         \A x \in a..(a + i - 1) : str_old[x] # 0
  PROVE  a + i <= Str!Final(a) /\ a + i \in Addr
<1>1. CASE \E e \in a..(a + str_n - 1) : e <= M /\ str_old[e] = 0
  <2>1. Str!IsString(a)
    BY <1>1, MemoryAssumption DEF Str!IsString, Addr
  <2>2. Str!Final(a) = Str!Nul(a)
    BY <1>1 DEF Str!Final
  <2>3. a + i <= Str!Nul(a)
    BY <2>1, NulIsFirst, MemoryAssumption DEF Addr
  <2> QED
    BY <2>2, <2>3, <2>1, NulIsFirst, MemoryAssumption DEF Addr
<1>2. CASE ~\E e \in a..(a + str_n - 1) : e <= M /\ str_old[e] = 0
  <2>1. Str!Final(a) = a + str_n - 1
    BY <1>2 DEF Str!Final
  <2> QED
    BY <2>1, MemoryAssumption DEF Addr
<1> QED
  BY <1>1, <1>2

\* What Legal says of each function.
LEMMA LegalSays ==
  ASSUME Str!Legal
  PROVE  /\ fn = "strlen" => s1 # 0 /\ Str!IsString(s1)
         /\ fn = "memset" => s2 \in Byte /\ s1 + str_n - 1 <= M
         /\ fn = "memcmp" => s1 # 0 /\ s2 # 0 /\ s1 + str_n - 1 <= M /\ s2 + str_n - 1 <= M
         /\ fn = "strncmp" => s1 # 0 /\ s2 # 0 /\ Str!Final(s1) <= M /\ Str!Final(s2) <= M
         /\ fn = "strcmp" /\ s1 # 0 /\ s2 # 0 => Str!IsString(s1) /\ Str!IsString(s2)
         /\ fn = "strcpy" /\ s1 # 0 /\ s2 # 0 =>
              /\ Str!IsString(s2) /\ s1 + Str!Length(s2) <= M
              /\ Str!Apart(s1, s1 + Str!Length(s2), s2, Str!Nul(s2))
         /\ fn = "strncpy" /\ s1 # 0 /\ s2 # 0 =>
              /\ Str!Final(s2) <= M /\ s1 + str_n - 1 <= M
              /\ Str!Apart(s1, s1 + str_n - 1, s2, Str!Final(s2))
         /\ fn = "strcat" /\ s1 # 0 /\ s2 # 0 =>
              /\ Str!IsString(s1) /\ Str!IsString(s2) /\ Str!Nul(s1) + Str!Length(s2) <= M
              /\ Str!Apart(s1, Str!Nul(s1) + Str!Length(s2), s2, Str!Nul(s2))
BY DEF Str!Legal, Str!Null

\* A call's arguments do not change, nor does what depends on them alone.
LEMMA SameArgs ==
  ASSUME UNCHANGED Str!args
  PROVE  /\ fn' = fn /\ s1' = s1 /\ s2' = s2 /\ str_n' = str_n /\ str_old' = str_old
         /\ Str!IsString(s1)' <=> Str!IsString(s1)
         /\ Str!IsString(s2)' <=> Str!IsString(s2)
         /\ Str!Nul(s1)' = Str!Nul(s1)
         /\ Str!Nul(s2)' = Str!Nul(s2)
         /\ Str!Length(s1)' = Str!Length(s1)
         /\ Str!Length(s2)' = Str!Length(s2)
         /\ Str!Final(s1)' = Str!Final(s1)
         /\ Str!Final(s2)' = Str!Final(s2)
         /\ Str!NullArgument' <=> Str!NullArgument
         /\ Str!Legal' <=> Str!Legal
<1>1. fn' = fn /\ s1' = s1 /\ s2' = s2 /\ str_n' = str_n /\ str_old' = str_old
  BY DEF Str!args
<1>2. /\ Str!IsString(s1)' <=> Str!IsString(s1)
      /\ Str!IsString(s2)' <=> Str!IsString(s2)
      /\ Str!NullArgument' <=> Str!NullArgument
  BY <1>1 DEF Str!IsString, Str!NullArgument
<1>3. /\ Str!Nul(s1)' = Str!Nul(s1)
      /\ Str!Nul(s2)' = Str!Nul(s2)
  BY <1>1 DEF Str!Nul
<1>4. /\ Str!Final(s1)' = Str!Final(s1)
      /\ Str!Final(s2)' = Str!Final(s2)
      /\ Str!Length(s1)' = Str!Length(s1)
      /\ Str!Length(s2)' = Str!Length(s2)
  BY <1>1, <1>3 DEF Str!Final, Str!Length
<1>5. Str!Legal' <=> Str!Legal
  BY <1>1, <1>2, <1>3, <1>4 DEF Str!Legal, Str!Null, Str!Apart
<1> QED
  BY <1>1, <1>2, <1>3, <1>4, <1>5

-----------------------------------------------------------------------------
(* The loops over strings.                                                   *)

\* strcat appends at the end of its target.
Target == IF fn = "strcat" THEN Str!Nul(s1) ELSE s1

\* What strncpy writes: the source, and NULs from its end on.
Padded(j) == IF \E m \in 0..j : str_old[s2 + m] = 0 THEN 0 ELSE str_old[s2 + j]

\* What memory holds when the first cnt bytes from a on have been written.
CopyOf(a, cnt) ==
  \A x \in Addr :
    str_mem[x] = IF x \in a..(a + cnt - 1) THEN str_old[s2 + (x - a)] ELSE str_old[x]
PaddedCopy(cnt) ==
  \A x \in Addr : str_mem[x] = IF x \in s1..(s1 + cnt - 1) THEN Padded(x - s1) ELSE str_old[x]
SetTo(cnt) ==
  \A x \in Addr : str_mem[x] = IF x \in s1..(s1 + cnt - 1) THEN s2 ELSE str_old[x]

StrTypes ==
  /\ fn \in Str!Functions /\ Str!Legal
  /\ str_old \in [Addr -> Byte] /\ str_mem \in [Addr -> Byte]
  /\ {s1, s2, str_n} \subseteq 0..M
  /\ str_pc \in {"call", "find", "copy", "ncopy", "set", "compare", "done"}

\* One loop after the other: which function is in it, and how far.
Entered ==
  /\ str_pc = "call" =>
       /\ str_mem = str_old /\ str_p = s1 /\ str_q = s2 /\ str_k = str_n
  /\ str_pc \notin {"call", "done"} => ~Str!NullArgument

Finding ==
  str_pc = "find" =>
    /\ fn \in {"strlen", "strcat"} /\ str_mem = str_old /\ str_q = s2
    /\ str_p \in s1..Str!Nul(s1)

Copying ==
  str_pc = "copy" =>
    /\ fn \in {"strcpy", "strcat"} /\ str_q \in s2..Str!Nul(s2)
    /\ str_p = Target + (str_q - s2) /\ CopyOf(Target, str_q - s2)

Ncopying ==
  str_pc = "ncopy" =>
    /\ fn = "strncpy" /\ str_k \in 0..str_n /\ str_p = s1 + (str_n - str_k)
    /\ str_q \in s2..(s2 + (str_n - str_k))
    /\ str_q < s2 + (str_n - str_k) => str_old[str_q] = 0
    /\ \A x \in s2..(str_q - 1) : str_old[x] # 0
    /\ PaddedCopy(str_n - str_k)

Setting ==
  str_pc = "set" =>
    /\ fn = "memset" /\ str_k \in 0..str_n
    /\ str_p = s1 + (str_n - str_k) /\ SetTo(str_n - str_k)

Comparing ==
  str_pc = "compare" =>
    /\ fn \in {"strcmp", "strncmp", "memcmp"} /\ str_mem = str_old
    /\ str_p - s1 \in Nat /\ str_p \in Nat /\ str_q = s2 + (str_p - s1)
    /\ fn # "strcmp" => str_k \in 0..str_n /\ str_k = str_n - (str_p - s1)
    /\ \A i \in 0..(str_p - s1 - 1) : str_old[s1 + i] = str_old[s2 + i] /\ str_old[s1 + i] # 0

\* The inductive invariant of the string functions.
StrInv ==
  /\ StrTypes /\ Entered /\ Finding /\ Copying /\ Ncopying /\ Setting /\ Comparing
  /\ Str!WritesRight /\ Str!ReadsRight

\* Where no NULL has ended the call, the arguments that are pointers point.
LEMMA Pointed ==
  ASSUME StrTypes, ~Str!NullArgument
  PROVE  /\ s1 \in Addr
         /\ fn \notin {"strlen", "memset"} => s2 \in Addr
         /\ fn \in {"strlen", "strcat"} => Str!IsString(s1)
         /\ fn \in {"strcpy", "strcat"} => Str!IsString(s2)
<1>1. s1 \in Addr /\ (fn \notin {"strlen", "memset"} => s2 \in Addr)
  BY LegalSays, MemoryAssumption DEF StrTypes, Str!NullArgument, Str!Functions, Addr
<1>2. /\ fn \in {"strlen", "strcat"} => Str!IsString(s1)
      /\ fn \in {"strcpy", "strcat"} => Str!IsString(s2)
  BY LegalSays, <1>1, MemoryAssumption DEF StrTypes, Addr
<1> QED
  BY <1>1, <1>2 DEF StrTypes, Str!Functions

\* A call begins in the invariant.
LEMMA StrInitInv == Str!Init => StrInv
<1> SUFFICES ASSUME Str!Init PROVE StrInv
  OBVIOUS
<1>1. StrTypes
  BY DEF StrTypes, Str!Init, Str!Addr, Addr
<1>2. str_pc = "call" /\ Entered
  BY DEF Str!Init, Entered
<1> QED
  BY <1>1, <1>2 DEF StrInv, Finding, Copying, Ncopying, Setting, Comparing,
                    Str!WritesRight, Str!ReadsRight

\* The types, when only variables of the loops change.
LEMMA StrTypesKept ==
  ASSUME StrTypes, UNCHANGED Str!args, str_mem' \in [Addr -> Byte],
         str_pc' \in {"call", "find", "copy", "ncopy", "set", "compare", "done"}
  PROVE  StrTypes'
BY SameArgs DEF StrTypes

\* A function that does not write has written nothing when it is done.
LEMMA Unwritten ==
  ASSUME StrTypes, UNCHANGED Str!args, str_mem' = str_old,
         Str!NullArgument \/ fn \in {"strlen", "strcmp", "strncmp", "memcmp"}
  PROVE  Str!WritesRight'
BY SameArgs DEF Str!WritesRight

\* Nor has one that does not read anything to return.
LEMMA Unread ==
  ASSUME StrTypes, UNCHANGED Str!args, fn \notin {"strlen", "strcmp", "strncmp"}
  PROVE  Str!ReadsRight'
BY SameArgs DEF Str!ReadsRight

\* A call that ends, and one that goes on.
LEMMA EndedInv ==
  ASSUME StrTypes', str_pc' = "done", Str!WritesRight', Str!ReadsRight'
  PROVE  StrInv'
BY DEF StrInv, Entered, Finding, Copying, Ncopying, Setting, Comparing

\* A step that neither ends a call nor begins one keeps StrInv if it keeps the loops.
LEMMA WentOnInv ==
  ASSUME StrTypes', str_pc' \notin {"call", "done"}, UNCHANGED Str!args, ~Str!NullArgument,
         Finding', Copying', Ncopying', Setting', Comparing'
  PROVE  StrInv'
BY SameArgs DEF StrInv, Entered, Str!WritesRight, Str!ReadsRight

\* The first step enters a loop, or ends at a NULL.
LEMMA CallInv ==
  ASSUME StrInv, Str!Call
  PROVE  StrInv'
<1>1. /\ StrTypes /\ str_pc = "call" /\ str_mem = str_old
      /\ str_p = s1 /\ str_q = s2 /\ str_k = str_n
  BY DEF StrInv, Entered, Str!Call
<1>2. UNCHANGED Str!args /\ str_mem' = str_mem /\ str_p' = s1 /\ str_q' = s2 /\ str_k' = str_n
  BY <1>1 DEF Str!Call, Str!Return
<1>3. CASE Str!NullArgument
  <2>1. str_pc' = "done"
    BY <1>3 DEF Str!Call, Str!Return
  <2>2. StrTypes'
    BY <1>1, <1>2, <2>1, StrTypesKept DEF StrTypes
  <2>3. Str!WritesRight'
    BY <1>1, <1>2, <1>3, Unwritten
  <2>4. Str!ReadsRight'
    BY <1>2, <1>3, SameArgs DEF Str!ReadsRight, Str!NullArgument
  <2> QED
    BY <2>1, <2>2, <2>3, <2>4, EndedInv
<1>4. CASE ~Str!NullArgument
  <2>1. /\ fn \in {"strlen", "strcat"} => str_pc' = "find"
        /\ fn = "strcpy" => str_pc' = "copy"
        /\ fn = "strncpy" => str_pc' = "ncopy"
        /\ fn = "memset" => str_pc' = "set"
        /\ fn \in {"strcmp", "strncmp", "memcmp"} => str_pc' = "compare"
    BY <1>4 DEF Str!Call
  <2>2. fn \in Str!Functions /\ fn' = fn
    BY <1>1, <1>2, SameArgs DEF StrTypes
  <2>3. str_pc' \in {"find", "copy", "ncopy", "set", "compare"}
    BY <2>1, <2>2 DEF Str!Functions
  <2>4. StrTypes'
    BY <1>1, <1>2, <2>3, StrTypesKept DEF StrTypes
  <2>5. /\ s1 \in Addr /\ str_n \in 0..M /\ M \in Nat
        /\ fn \notin {"strlen", "memset"} => s2 \in Addr
        /\ fn \in {"strlen", "strcat"} => Str!Nul(s1) \in Addr /\ Str!Nul(s1) >= s1
        /\ fn \in {"strcpy", "strcat"} => Str!Nul(s2) \in Addr /\ Str!Nul(s2) >= s2
    BY <1>1, <1>4, <2>2, Pointed, NulIsFirst, MemoryAssumption DEF StrTypes, Str!Functions
  <2>6. Finding'
    BY <1>1, <1>2, <2>1, <2>2, <2>5, SameArgs DEF Finding, Addr, Str!Functions
  <2>7. Copying'
    <3> SUFFICES ASSUME str_pc' = "copy" PROVE Copying'
      BY DEF Copying
    <3>1. fn = "strcpy"
      BY <2>1, <2>2 DEF Str!Functions
    <3>2. Target' = s1 /\ str_q' - s2' = 0 /\ str_q' \in s2'..Str!Nul(s2)'
      BY <1>2, <2>2, <2>5, <3>1, SameArgs DEF Target, Addr
    <3>3. CopyOf(s1, 0)'
      BY <1>1, <1>2, <2>5, SameArgs DEF CopyOf, Addr
    <3> QED
      BY <1>2, <2>2, <2>5, <3>1, <3>2, <3>3, SameArgs DEF Copying, CopyOf, Addr
  <2>8. Ncopying'
    <3> SUFFICES ASSUME str_pc' = "ncopy" PROVE Ncopying'
      BY DEF Ncopying
    <3>1. fn = "strncpy"
      BY <2>1, <2>2 DEF Str!Functions
    <3>2. str_n - str_n = 0
      BY <2>5
    <3>3. PaddedCopy(str_n - str_k)'
      BY <1>1, <1>2, <2>5, SameArgs DEF PaddedCopy, Addr
    <3> QED
      BY <1>2, <2>2, <2>5, <3>1, <3>2, <3>3, SameArgs DEF Ncopying, Addr
  <2>9. Setting'
    <3> SUFFICES ASSUME str_pc' = "set" PROVE Setting'
      BY DEF Setting
    <3>1. fn = "memset"
      BY <2>1, <2>2 DEF Str!Functions
    <3>2. SetTo(str_n - str_k)'
      BY <1>1, <1>2, <2>5, SameArgs DEF SetTo, Addr
    <3> QED
      BY <1>2, <2>2, <2>5, <3>1, <3>2, SameArgs DEF Setting, Addr
  <2>10. Comparing'
    BY <1>1, <1>2, <2>1, <2>2, <2>5, SameArgs DEF Comparing, Addr, Str!Functions
  <2> QED
    BY <1>2, <1>4, <2>3, <2>4, <2>6, <2>7, <2>8, <2>9, <2>10, WentOnInv
<1> QED
  BY <1>3, <1>4

\* In a loop over a string the pointer stays in front of its NUL, and ends on it.
LEMMA OnString ==
  ASSUME StrTypes, NEW a \in Addr, Str!IsString(a), NEW x \in a..Str!Nul(a)
  PROVE  /\ x \in Addr /\ x \in Nat
         /\ str_old[x] = 0 => x = Str!Nul(a)
         /\ str_old[x] # 0 => x + 1 \in a..Str!Nul(a)
<1>1. Str!Nul(a) \in Addr /\ str_old[Str!Nul(a)] = 0
      /\ \A y \in a..(Str!Nul(a) - 1) : str_old[y] # 0
  BY NulIsFirst
<1> QED
  BY <1>1, MemoryAssumption DEF Addr

\* strlen and strcat look for a NUL.
LEMMA FindInv ==
  ASSUME StrInv, Str!Find
  PROVE  StrInv'
<1>1. /\ StrTypes /\ str_pc = "find" /\ str_mem = str_old /\ ~Str!NullArgument /\ str_q = s2
      /\ fn \in {"strlen", "strcat"} /\ str_p \in s1..Str!Nul(s1)
  BY DEF StrInv, Entered, Finding, Str!Find
<1>2. UNCHANGED Str!args /\ str_mem' = str_old /\ str_q' = s2
  BY <1>1 DEF Str!Find, Str!Return
<1>3. s1 \in Addr /\ Str!IsString(s1)
  BY <1>1, Pointed
<1>4. /\ str_p \in Addr /\ str_p \in Nat
      /\ str_old[str_p] = 0 => str_p = Str!Nul(s1)
      /\ str_old[str_p] # 0 => str_p + 1 \in s1..Str!Nul(s1)
  BY <1>1, <1>3, OnString
<1>5. str_old \in [Addr -> Byte]
  BY <1>1 DEF StrTypes
<1>6. CASE str_mem[str_p] # 0
  <2>1. str_p' = str_p + 1 /\ str_pc' = "find"
    BY <1>1, <1>6 DEF Str!Find
  <2>2. StrTypes'
    BY <1>1, <1>2, <1>5, <2>1, StrTypesKept
  <2>3. Finding'
    BY <1>1, <1>2, <1>4, <1>6, <2>1, SameArgs DEF Finding
  <2> QED
    BY <1>1, <1>2, <2>1, <2>2, <2>3, WentOnInv DEF Copying, Ncopying, Setting, Comparing
<1>7. CASE str_mem[str_p] = 0 /\ fn = "strlen"
  <2>1. str_pc' = "done" /\ str_ret' = str_p - s1
    BY <1>7 DEF Str!Find, Str!Return
  <2>2. StrTypes'
    BY <1>1, <1>2, <1>5, <2>1, StrTypesKept
  <2>3. Str!WritesRight'
    BY <1>1, <1>2, <1>7, Unwritten
  <2>4. str_ret' = Str!Length(s1)'
    BY <1>1, <1>2, <1>4, <1>7, <2>1, SameArgs DEF Str!Length
  <2>5. Str!ReadsRight'
    BY <1>2, <1>7, <2>4, SameArgs DEF Str!ReadsRight
  <2> QED
    BY <2>1, <2>2, <2>3, <2>5, EndedInv
<1>8. CASE str_mem[str_p] = 0 /\ fn = "strcat"
  <2>1. str_pc' = "copy" /\ str_p' = str_p
    BY <1>8 DEF Str!Find, Str!Return
  <2>2. StrTypes'
    BY <1>1, <1>2, <1>5, <2>1, StrTypesKept
  <2>3. s2 \in Addr /\ Str!IsString(s2) /\ Str!Nul(s2) \in Addr /\ Str!Nul(s2) >= s2
    BY <1>1, <1>8, Pointed, NulIsFirst
  <2>4. Target' = str_p /\ str_p \in Nat
    BY <1>1, <1>2, <1>4, <1>8, SameArgs DEF Target
  <2>5. CopyOf(Target, str_q - s2)'
    BY <1>2, <2>3, <2>4, SameArgs, MemoryAssumption DEF CopyOf, Addr
  <2>6. Copying'
    BY <1>2, <1>8, <2>1, <2>3, <2>4, <2>5, SameArgs, MemoryAssumption DEF Copying, Addr
  <2> QED
    BY <1>1, <1>2, <2>1, <2>2, <2>6, WentOnInv DEF Finding, Ncopying, Setting, Comparing
<1> QED
  BY <1>1, <1>6, <1>7, <1>8

\* What strcpy and strcat write to has room for the source, and is no part of it.
LEMMA Room ==
  ASSUME StrTypes, ~Str!NullArgument, fn \in {"strcpy", "strcat"}
  PROVE  /\ s2 \in Addr /\ Str!IsString(s2) /\ Str!Length(s2) \in Nat
         /\ Str!Nul(s2) = s2 + Str!Length(s2) /\ Str!Nul(s2) \in Addr
         /\ Target \in Addr /\ Target + Str!Length(s2) <= M
         /\ Target + Str!Length(s2) < s2 \/ Str!Nul(s2) < Target
<1>1. /\ s1 \in Addr /\ s2 \in Addr /\ Str!IsString(s2) /\ s1 # 0 /\ s2 # 0
      /\ fn = "strcat" => Str!IsString(s1)
  BY Pointed DEF Str!NullArgument
<1>2. Str!Nul(s2) \in Addr /\ Str!Nul(s2) >= s2
  BY <1>1, NulIsFirst
<1>3. Str!Length(s2) \in Nat /\ Str!Nul(s2) = s2 + Str!Length(s2)
  BY <1>1, <1>2, MemoryAssumption DEF Str!Length, Addr
<1>4. CASE fn = "strcpy"
  <2>1. s1 + Str!Length(s2) <= M /\ Str!Apart(s1, s1 + Str!Length(s2), s2, Str!Nul(s2))
    BY <1>1, <1>4, LegalSays DEF StrTypes
  <2> QED
    BY <1>1, <1>2, <1>3, <1>4, <2>1 DEF Str!Apart, Target
<1>5. CASE fn = "strcat"
  <2>1. /\ Str!Nul(s1) + Str!Length(s2) <= M
        /\ Str!Apart(s1, Str!Nul(s1) + Str!Length(s2), s2, Str!Nul(s2))
    BY <1>1, <1>5, LegalSays DEF StrTypes
  <2>2. Str!Nul(s1) \in Addr /\ Str!Nul(s1) >= s1
    BY <1>1, <1>5, NulIsFirst
  <2>3. Str!Nul(s2) < s1 => Str!Nul(s2) < Str!Nul(s1)
    BY <1>1, <1>2, <2>2, MemoryAssumption DEF Addr
  <2> QED
    BY <1>1, <1>2, <1>3, <1>5, <2>1, <2>2, <2>3 DEF Str!Apart, Target
<1> QED
  BY <1>4, <1>5

\* Where strcat appends does not change either.
LEMMA SameTarget ==
  ASSUME UNCHANGED Str!args
  PROVE  Target' = Target
BY SameArgs DEF Target

\* strcpy reads what it has not written.
LEMMA CopyStepInv ==
  ASSUME StrInv, Str!Copy
  PROVE  StrInv'
<1>1. /\ StrTypes /\ ~Str!NullArgument /\ fn \in {"strcpy", "strcat"}
      /\ str_q \in s2..Str!Nul(s2) /\ str_p = Target + (str_q - s2)
      /\ CopyOf(Target, str_q - s2) /\ str_pc = "copy"
  BY DEF StrInv, Entered, Copying, Str!Copy
<1>2. UNCHANGED Str!args /\ str_mem' = [str_mem EXCEPT ![str_p] = str_mem[str_q]]
  BY DEF Str!Copy, Str!Copied
<1>3. /\ s2 \in Addr /\ Str!IsString(s2) /\ Str!Length(s2) \in Nat
      /\ Str!Nul(s2) = s2 + Str!Length(s2) /\ Str!Nul(s2) \in Addr
      /\ Target \in Addr /\ Target + Str!Length(s2) <= M
      /\ Target + Str!Length(s2) < s2 \/ Str!Nul(s2) < Target
  BY <1>1, Room
<1>4. /\ str_q \in Addr /\ str_q \in Nat
      /\ str_old[str_q] = 0 => str_q = Str!Nul(s2)
      /\ str_old[str_q] # 0 => str_q + 1 \in s2..Str!Nul(s2)
  BY <1>1, <1>3, OnString
<1>5. /\ str_old \in [Addr -> Byte] /\ str_mem \in [Addr -> Byte] /\ M \in Nat
      /\ s2 \in Nat /\ Target \in Nat /\ Str!Nul(s2) \in Nat /\ Str!Nul(s2) <= M
  BY <1>1, <1>3, MemoryAssumption DEF StrTypes, Addr
<1>6. str_q \notin Target..(Target + (str_q - s2) - 1) /\ str_p \in Addr
  BY <1>1, <1>3, <1>4, <1>5 DEF Addr
<1>7. str_mem[str_q] = str_old[str_q]
  BY <1>1, <1>4, <1>6 DEF CopyOf
<1>8. str_mem' \in [Addr -> Byte]
  BY <1>2, <1>4, <1>5, <1>6
<1>9. ASSUME NEW x \in Addr
      PROVE  str_mem'[x] = IF x \in Target..(Target + (str_q + 1 - s2) - 1)
                           THEN str_old[s2 + (x - Target)] ELSE str_old[x]
  <2>1. CASE x = str_p
    BY <1>1, <1>2, <1>4, <1>5, <1>6, <1>7, <2>1
  <2>2. CASE x # str_p
    <3>1. x \in Target..(Target + (str_q + 1 - s2) - 1)
            <=> x \in Target..(Target + (str_q - s2) - 1)
      BY <1>1, <1>4, <1>5, <2>2 DEF Addr
    <3> QED
      BY <1>1, <1>2, <1>5, <2>2, <3>1 DEF CopyOf
  <2> QED
    BY <2>1, <2>2
<1>10. CASE str_mem[str_q] # 0
  <2>1. str_p' = str_p + 1 /\ str_q' = str_q + 1 /\ str_pc' = "copy"
    BY <1>1, <1>10 DEF Str!Copy
  <2>2. StrTypes'
    BY <1>1, <1>2, <1>8, <2>1, StrTypesKept
  <2>3. CopyOf(Target, str_q - s2)'
    <3>1. Target' = Target /\ str_q' = str_q + 1 /\ s2' = s2 /\ str_old' = str_old
      BY <1>2, <2>1, SameArgs, SameTarget
    <3>2. ASSUME NEW x \in Addr
          PROVE  str_mem'[x] = IF x \in Target'..(Target' + (str_q' - s2') - 1)
                               THEN str_old'[s2' + (x - Target')] ELSE str_old'[x]
      BY <1>4, <1>5, <1>9, <3>1 DEF Addr
    <3> QED
      BY <3>2, Zenon DEF CopyOf
  <2>4. str_q' \in s2..Str!Nul(s2) /\ str_p' = Target + (str_q' - s2)
    BY <1>1, <1>4, <1>5, <1>7, <1>10, <2>1
  <2>5. Copying'
    BY <1>1, <1>2, <2>3, <2>4, SameArgs, SameTarget DEF Copying
  <2> QED
    BY <1>1, <1>2, <2>1, <2>2, <2>5, WentOnInv DEF Finding, Ncopying, Setting, Comparing
<1>11. CASE str_mem[str_q] = 0
  <2>1. str_pc' = "done" /\ str_ret' = s1
    BY <1>11 DEF Str!Copy
  <2>2. StrTypes'
    BY <1>1, <1>2, <1>8, <2>1, StrTypesKept
  <2>3. str_q + 1 - s2 = Str!Length(s2) + 1
    BY <1>3, <1>4, <1>5, <1>7, <1>11
  <2>4. str_mem' = [x \in Addr |-> IF x \in Target..(Target + (Str!Length(s2) + 1) - 1)
                                   THEN str_old[s2 + (x - Target)] ELSE str_old[x]]
    BY <1>8, <1>9, <2>3
  <2>5. str_mem' = Str!With(Target, Str!Length(s2) + 1, Str!Source)'
    BY <1>2, <2>4, SameArgs, SameTarget DEF Str!With, Str!Source, Str!Addr, Addr
  <2>6. Str!WritesRight'
    BY <1>1, <1>2, <2>1, <2>5, SameArgs, SameTarget DEF Str!WritesRight, Target
  <2>7. Str!ReadsRight'
    BY <1>1, <1>2, Unread
  <2> QED
    BY <2>1, <2>2, <2>6, <2>7, EndedInv
<1> QED
  BY <1>10, <1>11

\* memset sets one byte more.
LEMMA MemsetInv ==
  ASSUME StrInv, Str!Memset
  PROVE  StrInv'
<1>1. /\ StrTypes /\ ~Str!NullArgument /\ fn = "memset" /\ str_k \in 0..str_n
      /\ str_p = s1 + (str_n - str_k) /\ SetTo(str_n - str_k) /\ str_pc = "set"
  BY DEF StrInv, Entered, Setting, Str!Memset
<1>2. UNCHANGED Str!args
  BY DEF Str!Memset, Str!Return
<1>3. s1 \in Addr /\ s2 \in Byte /\ s1 + str_n - 1 <= M
  BY <1>1, Pointed, LegalSays DEF StrTypes
<1>4. /\ str_old \in [Addr -> Byte] /\ str_mem \in [Addr -> Byte] /\ M \in Nat
      /\ s1 \in Nat /\ str_n \in Nat /\ str_k \in Nat
  BY <1>1, <1>3, MemoryAssumption DEF StrTypes, Addr
<1>5. CASE str_k = 0
  <2>1. str_pc' = "done" /\ str_ret' = s1 /\ str_mem' = str_mem
    BY <1>5 DEF Str!Memset, Str!Return
  <2>2. StrTypes'
    BY <1>1, <1>2, <1>4, <2>1, StrTypesKept
  <2>3. str_mem' = [x \in Addr |-> IF x \in s1..(s1 + str_n - 1) THEN s2 ELSE str_old[x]]
    BY <1>1, <1>4, <1>5, <2>1 DEF SetTo
  <2>4. str_mem' = Str!With(s1, str_n, LAMBDA i : s2)'
    BY <1>2, <2>3, SameArgs DEF Str!With, Str!Addr, Addr
  <2>5. Str!WritesRight'
    BY <1>1, <1>2, <2>1, <2>4, SameArgs DEF Str!WritesRight
  <2>6. Str!ReadsRight'
    BY <1>1, <1>2, Unread
  <2> QED
    BY <2>1, <2>2, <2>5, <2>6, EndedInv
<1>6. CASE str_k > 0
  <2>1. /\ str_mem' = [str_mem EXCEPT ![str_p] = s2] /\ str_p' = str_p + 1
        /\ str_k' = str_k - 1 /\ str_pc' = "set"
    BY <1>1, <1>4, <1>6 DEF Str!Memset
  <2>2. str_p \in Addr /\ str_mem' \in [Addr -> Byte]
    BY <1>1, <1>3, <1>4, <1>6, <2>1 DEF Addr
  <2>3. StrTypes'
    BY <1>1, <1>2, <2>1, <2>2, StrTypesKept
  <2>4. ASSUME NEW x \in Addr
        PROVE  str_mem'[x] = IF x \in s1..(s1 + (str_n - str_k') - 1) THEN s2 ELSE str_old[x]
    <3>1. x \in s1..(s1 + (str_n - str_k') - 1)
            <=> x = str_p \/ x \in s1..(s1 + (str_n - str_k) - 1)
      BY <1>1, <1>4, <2>1 DEF Addr
    <3> QED
      BY <1>1, <1>4, <2>1, <2>2, <3>1 DEF SetTo
  <2>5. Setting'
    BY <1>1, <1>2, <1>4, <1>6, <2>1, <2>4, SameArgs DEF Setting, SetTo
  <2> QED
    BY <1>1, <1>2, <2>1, <2>3, <2>5, WentOnInv DEF Finding, Ncopying, Copying, Comparing
<1> QED
  BY <1>4, <1>5, <1>6 DEF Str!Memset

\* What strncpy writes to has n bytes, none of which it still has to read.
LEMMA NcopyRoom ==
  ASSUME StrTypes, ~Str!NullArgument, fn = "strncpy", NEW i \in 0..(str_n - 1),
         NEW x \in s2..(s2 + i), \A y \in s2..(x - 1) : str_old[y] # 0
  PROVE  x \in Addr /\ x \notin s1..(s1 + str_n - 1) /\ s1 + i \in Addr
<1>1. s1 \in Addr /\ s2 \in Addr /\ s1 # 0 /\ s2 # 0
  BY Pointed DEF Str!NullArgument
<1>2. /\ Str!Final(s2) <= M /\ s1 + str_n - 1 <= M
      /\ Str!Apart(s1, s1 + str_n - 1, s2, Str!Final(s2))
  BY <1>1, LegalSays DEF StrTypes
<1>3. str_n \in 0..M /\ M \in Nat /\ s1 \in Nat /\ s2 \in Nat
  BY <1>1, MemoryAssumption DEF StrTypes, Addr
<1>4. x - s2 \in 0..(str_n - 1) /\ s2 + (x - s2) = x
  BY <1>3
<1>5. \A y \in s2..(s2 + (x - s2) - 1) : str_old[y] # 0
  BY <1>3, <1>4
<1>6. x <= Str!Final(s2) /\ x \in Addr
  BY <1>1, <1>2, <1>3, <1>4, <1>5, FinalNul
<1>7. Str!Final(s2) \in Int
  <2>1. CASE \E e \in s2..(s2 + str_n - 1) : e <= M /\ str_old[e] = 0
    <3>1. Str!IsString(s2)
      BY <1>3, <2>1 DEF Str!IsString
    <3> QED
      BY <1>1, <2>1, <3>1, NulIsFirst DEF Str!Final, Addr
  <2>2. CASE ~\E e \in s2..(s2 + str_n - 1) : e <= M /\ str_old[e] = 0
    BY <1>3, <2>2 DEF Str!Final
  <2> QED
    BY <2>1, <2>2
<1> QED
  BY <1>1, <1>2, <1>3, <1>6, <1>7 DEF Str!Apart, Addr

\* strncpy copies one byte, or one more NUL once its source has ended.
LEMMA NcopyInv ==
  ASSUME StrInv, Str!Ncopy
  PROVE  StrInv'
<1> DEFINE i == str_n - str_k
<1>1. /\ StrTypes /\ ~Str!NullArgument /\ fn = "strncpy" /\ str_k \in 0..str_n
      /\ str_p = s1 + i /\ str_q \in s2..(s2 + i)
      /\ str_q < s2 + i => str_old[str_q] = 0
      /\ \A x \in s2..(str_q - 1) : str_old[x] # 0
      /\ PaddedCopy(i) /\ str_pc = "ncopy"
  BY DEF StrInv, Entered, Ncopying, Str!Ncopy
<1>2. UNCHANGED Str!args
  BY DEF Str!Ncopy, Str!Return
<1>3. s1 \in Addr /\ s2 \in Addr
  BY <1>1, Pointed
<1>4. /\ str_old \in [Addr -> Byte] /\ str_mem \in [Addr -> Byte] /\ M \in Nat
      /\ s1 \in Nat /\ s2 \in Nat /\ str_n \in Nat /\ str_k \in Nat /\ i \in Nat
  BY <1>1, <1>3, MemoryAssumption DEF StrTypes, Addr
<1>5. CASE str_k = 0
  <2>1. str_pc' = "done" /\ str_ret' = s1 /\ str_mem' = str_mem
    BY <1>5 DEF Str!Ncopy, Str!Return
  <2>2. StrTypes'
    BY <1>1, <1>2, <1>4, <2>1, StrTypesKept
  <2>3. str_mem' = [x \in Addr |->
                      IF x \in s1..(s1 + str_n - 1) THEN Padded(x - s1) ELSE str_old[x]]
    BY <1>1, <1>4, <1>5, <2>1 DEF PaddedCopy
  <2>4. Str!WritesRight'
    BY <1>1, <1>2, <2>1, <2>3, SameArgs
    DEF Str!WritesRight, Str!With, Str!Source, Str!Addr, Addr, Padded
  <2>5. Str!ReadsRight'
    BY <1>1, <1>2, Unread
  <2> QED
    BY <2>1, <2>2, <2>4, <2>5, EndedInv
<1>6. CASE str_k > 0
  <2>1. /\ str_mem' = [str_mem EXCEPT ![str_p] = str_mem[str_q]] /\ str_p' = str_p + 1
        /\ str_q' = (IF str_mem'[str_q] # 0 THEN str_q + 1 ELSE str_q)
        /\ str_k' = str_k - 1 /\ str_pc' = "ncopy"
    BY <1>1, <1>4, <1>6 DEF Str!Ncopy, Str!Onward
  <2>2. i \in 0..(str_n - 1) /\ str_n - str_k' = i + 1
    BY <1>1, <1>4, <1>6, <2>1
  <2>3. str_q \in Addr /\ str_q \notin s1..(s1 + str_n - 1) /\ str_p \in Addr
    BY <1>1, <2>2, NcopyRoom
  <2>4. str_mem[str_q] = str_old[str_q]
    BY <1>1, <1>4, <2>2, <2>3 DEF PaddedCopy, Addr
  <2>5. str_mem'[str_q] = str_old[str_q] /\ str_mem' \in [Addr -> Byte]
    BY <1>1, <1>4, <2>1, <2>2, <2>3, <2>4 DEF Addr
  <2>6. StrTypes'
    BY <1>1, <1>2, <2>1, <2>5, StrTypesKept
  <2>7. str_old[str_q] = Padded(i)
    <3>1. CASE str_old[str_q] = 0
      <4>1. str_q - s2 \in 0..i /\ s2 + (str_q - s2) = str_q
        BY <1>1, <1>4
      <4> QED
        BY <3>1, <4>1 DEF Padded
    <3>2. CASE str_old[str_q] # 0
      <4>1. str_q = s2 + i
        BY <1>1, <1>4, <3>2
      <4>2. ASSUME NEW m \in 0..i PROVE str_old[s2 + m] # 0
        BY <1>1, <1>4, <3>2, <4>1
      <4> QED
        BY <4>1, <4>2 DEF Padded
    <3> QED
      BY <3>1, <3>2
  <2>8. ASSUME NEW x \in Addr
        PROVE  str_mem'[x] = IF x \in s1..(s1 + (i + 1) - 1) THEN Padded(x - s1)
                             ELSE str_old[x]
    <3>1. CASE x = str_p
      BY <1>1, <1>4, <2>1, <2>3, <2>4, <2>7, <3>1
    <3>2. CASE x # str_p
      <4>1. x \in s1..(s1 + (i + 1) - 1) <=> x \in s1..(s1 + i - 1)
        BY <1>1, <1>4, <3>2 DEF Addr
      <4> QED
        BY <1>1, <1>4, <2>1, <3>2, <4>1 DEF PaddedCopy
    <3> QED
      BY <3>1, <3>2
  <2>9. ASSUME NEW j PROVE Padded(j)' = Padded(j)
    BY <1>2, SameArgs DEF Padded
  <2>10. PaddedCopy(str_n - str_k)'
    <3>1. str_n' - str_k' = i + 1 /\ s1' = s1 /\ str_old' = str_old
      BY <1>2, <2>2, SameArgs
    <3> QED
      BY <2>8, <2>9, <3>1 DEF PaddedCopy
  <2>11. /\ str_q' \in s2..(s2 + (i + 1))
         /\ str_q' < s2 + (i + 1) => str_old[str_q'] = 0
         /\ \A x \in s2..(str_q' - 1) : str_old[x] # 0
    BY <1>1, <1>4, <2>1, <2>5
  <2>12. Ncopying'
    <3>1. /\ fn' = fn /\ str_n' = str_n /\ s1' = s1 /\ s2' = s2 /\ str_old' = str_old
      BY <1>2, SameArgs
    <3>2. str_k' \in 0..str_n /\ str_p' = s1 + (str_n - str_k')
      BY <1>1, <1>4, <1>6, <2>1, <2>2
    <3> QED
      BY <1>1, <2>2, <2>10, <2>11, <3>1, <3>2 DEF Ncopying
  <2> QED
    BY <1>1, <1>2, <2>1, <2>6, <2>12, WentOnInv DEF Finding, Copying, Setting, Comparing
<1> QED
  BY <1>4, <1>5, <1>6

-----------------------------------------------------------------------------
(* Comparisons.                                                              *)

\* The last bytes that may be compared, of the strings and of their first n bytes.
Limit(a) == IF fn = "strcmp" THEN Str!Nul(a) ELSE Str!Final(a)

\* While no NUL has been seen, the next byte may be compared; a NUL there is the last one.
LEMMA InLimit ==
  ASSUME StrTypes, ~Str!NullArgument, fn \in {"strcmp", "strncmp"}, NEW a \in {s1, s2},
         NEW i \in Nat, fn = "strncmp" => i < str_n, \A j \in 0..(i - 1) : str_old[a + j] # 0
  PROVE  /\ a + i \in Addr /\ Limit(a) \in Int /\ a + i <= Limit(a)
         /\ str_old[a + i] = 0 => Limit(a) = a + i
<1>1. s1 \in Addr /\ s2 \in Addr /\ s1 # 0 /\ s2 # 0 /\ M \in Nat /\ str_n \in 0..M
  BY Pointed, MemoryAssumption DEF StrTypes, Addr
<1>2. a \in Addr /\ a \in Nat
  BY <1>1 DEF Addr
<1>3. ASSUME NEW x \in a..(a + i - 1) PROVE str_old[x] # 0
  <2>1. x - a \in 0..(i - 1) /\ a + (x - a) = x
    BY <1>2
  <2> QED
    BY <2>1
<1>4. ASSUME Str!IsString(a)
      PROVE  /\ Str!Nul(a) \in Addr /\ a + i <= Str!Nul(a)
             /\ str_old[a + i] = 0 => Str!Nul(a) = a + i
  <2>1. /\ Str!Nul(a) \in Addr /\ Str!Nul(a) >= a /\ str_old[Str!Nul(a)] = 0
        /\ \A x \in a..(Str!Nul(a) - 1) : str_old[x] # 0
    BY <1>2, <1>4, NulIsFirst
  <2> QED
    BY <1>1, <1>2, <1>3, <2>1 DEF Addr
<1>5. CASE fn = "strcmp"
  <2>1. Str!IsString(a)
    BY <1>1, <1>5, LegalSays DEF StrTypes
  <2> QED
    BY <1>1, <1>2, <1>4, <1>5, <2>1 DEF Limit, Addr
<1>6. CASE fn = "strncmp"
  <2>1. Str!Final(a) <= M
    BY <1>1, <1>6, LegalSays DEF StrTypes
  <2>2. i \in 0..(str_n - 1)
    BY <1>1, <1>6
  <2>3. a + i <= Str!Final(a) /\ a + i \in Addr
    BY <1>1, <1>2, <1>3, <2>1, <2>2, FinalNul
  <2>4. CASE \E e \in a..(a + str_n - 1) : e <= M /\ str_old[e] = 0
    <3>1. Str!IsString(a)
      BY <1>1, <1>2, <2>4 DEF Str!IsString
    <3> QED
      BY <1>1, <1>4, <1>6, <2>3, <2>4, <3>1 DEF Limit, Str!Final, Addr
  <2>5. CASE ~\E e \in a..(a + str_n - 1) : e <= M /\ str_old[e] = 0
    <3>1. Str!Final(a) = a + str_n - 1
      BY <2>5 DEF Str!Final
    <3>2. str_old[a + i] # 0
      BY <1>1, <1>2, <2>2, <2>3, <2>5 DEF Addr
    <3> QED
      BY <1>1, <1>2, <1>6, <2>3, <3>1, <3>2 DEF Limit
  <2> QED
    BY <2>4, <2>5
<1> QED
  BY <1>5, <1>6

\* The first difference decides; areas that nowhere differ are equal.
LEMMA Decided ==
  ASSUME NEW cnt \in Int, NEW i \in 0..(cnt - 1), str_old[s1 + i] # str_old[s2 + i],
         \A j \in 0..(i - 1) : str_old[s1 + j] = str_old[s2 + j]
  PROVE  Str!Order(cnt) = IF str_old[s1 + i] < str_old[s2 + i] THEN -1 ELSE 1
<1> DEFINE Differ(m) == str_old[s1 + m] # str_old[s2 + m]
           First(m)  == Differ(m) /\ \A j \in 0..(m - 1) : ~Differ(j)
           c == CHOOSE m \in 0..(cnt - 1) : First(m)
<1>1. First(i)
  OBVIOUS
<1>2. c \in 0..(cnt - 1) /\ First(c)
  BY <1>1
<1>3. c = i
  <2>1. ~(c < i) /\ ~(i < c)
    BY <1>1, <1>2
  <2> QED
    BY <1>2, <2>1
<1>4. ~\A m \in 0..(cnt - 1) : ~Differ(m)
  BY <1>1
<1>5. Str!Order(cnt) = IF str_old[s1 + c] < str_old[s2 + c] THEN -1 ELSE 1
  BY <1>4 DEF Str!Order
<1> QED
  BY <1>3, <1>5

\* Strings that agree so far are not ordered yet.
LEMMA Undecided ==
  ASSUME NEW cnt \in Int, \A j \in 0..(cnt - 1) : str_old[s1 + j] = str_old[s2 + j]
  PROVE  Str!Order(cnt) = 0
BY DEF Str!Order

\* How many bytes are compared at most.
Compared == 1 + Str!Least(Limit(s1) - s1, Limit(s2) - s2)

\* A comparison that returns the order reads right.
LEMMA OrderReturned ==
  ASSUME StrTypes, UNCHANGED Str!args,
         fn \in {"strcmp", "strncmp"} => str_ret' = Str!Order(Compared),
         fn \in {"strcmp", "strncmp", "memcmp"}
  PROVE  Str!ReadsRight'
<1>1. fn \in {"strcmp", "strncmp"} => Str!Order(Compared)' = Str!Order(Compared)
  BY SameArgs DEF Str!Order, Compared, Limit, Str!Least
<1> QED
  BY <1>1, SameArgs DEF Str!ReadsRight, Compared, Limit, Str!Length

\* Comparisons go on while nothing is decided.
LEMMA CompareInv ==
  ASSUME StrInv, Str!Compare
  PROVE  StrInv'
<1> DEFINE i == str_p - s1
<1>1. /\ StrTypes /\ ~Str!NullArgument /\ fn \in {"strcmp", "strncmp", "memcmp"}
      /\ str_mem = str_old /\ i \in Nat /\ str_p \in Nat /\ str_q = s2 + i
      /\ fn # "strcmp" => str_k \in 0..str_n /\ str_k = str_n - i
      /\ \A j \in 0..(i - 1) : str_old[s1 + j] = str_old[s2 + j] /\ str_old[s1 + j] # 0
      /\ str_pc = "compare"
  BY DEF StrInv, Entered, Comparing, Str!Compare
<1>2. UNCHANGED Str!args /\ str_mem' = str_old
  BY <1>1 DEF Str!Compare, Str!Return
<1>3. /\ s1 \in Addr /\ s2 \in Addr /\ M \in Nat /\ Byte \subseteq Nat
      /\ s1 \in Nat /\ s2 \in Nat /\ str_n \in Nat
      /\ str_old \in [Addr -> Byte] /\ str_p = s1 + i
  BY <1>1, Pointed, MemoryAssumption, SMTT(30) DEF StrTypes, Addr
<1>4. ASSUME str_pc' = "done",
             fn \in {"strcmp", "strncmp"} => str_ret' = Str!Order(Compared)
      PROVE  StrInv'
  <2>1. StrTypes' /\ Str!WritesRight'
    BY <1>1, <1>2, <1>3, <1>4, StrTypesKept, Unwritten
  <2>2. Str!ReadsRight'
    BY <1>1, <1>2, <1>4, OrderReturned
  <2> QED
    BY <1>4, <2>1, <2>2, EndedInv
<1>5. CASE fn # "strcmp" /\ str_k = 0
  <2>1. str_pc' = "done" /\ str_ret' = 0
    BY <1>5 DEF Str!Compare, Str!Return
  <2>2. ASSUME fn = "strncmp" PROVE Compared = str_n
    <3>1. i = str_n
      BY <1>1, <1>3, <1>5
    <3>2. ASSUME NEW a \in {s1, s2} PROVE Limit(a) = a + str_n - 1
      <4>1. ASSUME NEW e \in a..(a + str_n - 1) PROVE str_old[e] # 0
        <5>1. e - a \in 0..(i - 1) /\ a + (e - a) = e
          BY <1>3, <3>1
        <5>2. str_old[s1 + (e - a)] # 0 /\ str_old[s2 + (e - a)] # 0
          BY <1>1, <5>1
        <5> QED
          BY <5>1, <5>2
      <4> QED
        BY <2>2, <4>1 DEF Limit, Str!Final
    <3> QED
      BY <1>3, <3>2 DEF Compared, Str!Least
  <2>3. fn = "strncmp" => Str!Order(Compared) = 0
    <3>1. \A j \in 0..(str_n - 1) : str_old[s1 + j] = str_old[s2 + j]
      BY <1>1, <1>3, <1>5
    <3>2. str_n \in Int
      BY <1>3
    <3>3. Str!Order(str_n) = 0
      BY <3>1, <3>2, Undecided, Zenon
    <3> QED
      BY <2>2, <3>3
  <2> QED
    BY <1>4, <1>5, <2>1, <2>3
<1>6. CASE ~(fn # "strcmp" /\ str_k = 0)
  <2>1. fn # "strcmp" => i < str_n
    BY <1>1, <1>3, <1>6
  <2>2. ASSUME fn \in {"strcmp", "strncmp"}, NEW a \in {s1, s2}
        PROVE  /\ a + i \in Addr /\ Limit(a) \in Int /\ a + i <= Limit(a)
               /\ str_old[a + i] = 0 => Limit(a) = a + i
    <3>1. \A j \in 0..(i - 1) : str_old[a + j] # 0
      BY <1>1
    <3> QED
      BY <1>1, <2>1, <2>2, <3>1, InLimit
  <2>3. s1 + i \in Addr /\ s2 + i \in Addr
    <3>1. CASE fn = "memcmp"
      <4>1. s1 + str_n - 1 <= M /\ s2 + str_n - 1 <= M
        BY <1>1, <3>1, LegalSays DEF StrTypes
      <4> QED
        BY <1>1, <1>3, <2>1, <3>1, <4>1 DEF Addr
    <3> QED
      BY <1>1, <2>2, <3>1
  <2>4. str_old[s1 + i] \in Nat /\ str_old[s2 + i] \in Nat
    BY <1>3, <2>3
  <2>5. fn \in {"strcmp", "strncmp"} => Compared \in Int /\ i \in 0..(Compared - 1)
    BY <1>1, <1>3, <2>2 DEF Compared, Str!Least
  <2>6. CASE str_old[s1 + i] # str_old[s2 + i]
    <3>1. str_pc' = "done" /\ str_ret' = IF str_old[s1 + i] < str_old[s2 + i] THEN -1 ELSE 1
      BY <1>1, <1>3, <1>6, <2>4, <2>6 DEF Str!Compare, Str!Return, Str!Less
    <3>2. fn \in {"strcmp", "strncmp"} =>
            Str!Order(Compared) = IF str_old[s1 + i] < str_old[s2 + i] THEN -1 ELSE 1
      BY <1>1, <2>5, <2>6, Decided
    <3> QED
      BY <1>4, <3>1, <3>2
  <2>7. CASE str_old[s1 + i] = str_old[s2 + i] /\ str_old[s1 + i] = 0
    <3>1. str_pc' = "done" /\ str_ret' = 0
      BY <1>1, <1>3, <1>6, <2>4, <2>7 DEF Str!Compare, Str!Return, Str!Less
    <3>2. fn \in {"strcmp", "strncmp"} => Compared = i + 1
      BY <1>1, <1>3, <2>2, <2>7 DEF Compared, Str!Least
    <3>3. ASSUME NEW j \in 0..i PROVE str_old[s1 + j] = str_old[s2 + j]
      <4>1. j = i \/ j \in 0..(i - 1)
        BY <1>1
      <4> QED
        BY <1>1, <2>7, <4>1
    <3>4. fn \in {"strcmp", "strncmp"} => Str!Order(Compared) = 0
      <4>1. i + 1 \in Int /\ \A j \in 0..((i + 1) - 1) : str_old[s1 + j] = str_old[s2 + j]
        BY <1>1, <3>3
      <4>2. Str!Order(i + 1) = 0
        BY <4>1, Undecided, Zenon
      <4> QED
        BY <3>2, <4>2
    <3> QED
      BY <1>4, <3>1, <3>4
  <2>8. CASE str_old[s1 + i] = str_old[s2 + i] /\ str_old[s1 + i] # 0
    <3>1. /\ str_p' = str_p + 1 /\ str_q' = str_q + 1 /\ str_pc' = "compare"
          /\ str_k' = IF fn = "strcmp" THEN str_k ELSE str_k - 1
      BY <1>1, <1>3, <1>6, <2>4, <2>8 DEF Str!Compare, Str!Less
    <3>2. StrTypes'
      BY <1>1, <1>2, <1>3, <3>1, StrTypesKept
    <3>3. /\ fn' = fn /\ str_n' = str_n /\ s1' = s1 /\ s2' = s2 /\ str_old' = str_old
      BY <1>2, SameArgs
    <3>4. /\ str_p' - s1 = i + 1 /\ str_p' \in Nat /\ i + 1 \in Nat /\ str_q' = s2 + (i + 1)
          /\ fn # "strcmp" => str_k' \in 0..str_n /\ str_k' = str_n - (i + 1)
      BY <1>1, <1>3, <2>1, <3>1
    <3>5. \A j \in 0..(i + 1 - 1) : str_old[s1 + j] = str_old[s2 + j] /\ str_old[s1 + j] # 0
      BY <1>1, <2>8
    <3>6. Comparing'
      BY <1>1, <1>2, <3>3, <3>4, <3>5 DEF Comparing
    <3> QED
      BY <1>1, <1>2, <3>1, <3>2, <3>6, WentOnInv DEF Finding, Copying, Ncopying, Setting
  <2> QED
    BY <2>6, <2>7, <2>8
<1> QED
  BY <1>5, <1>6

-----------------------------------------------------------------------------
(* The theorems about strings.                                               *)

\* Every step keeps the invariant.
LEMMA StrStepInv ==
  ASSUME StrInv, [Str!Next]_(Str!vars)
  PROVE  StrInv'
<1>1. CASE UNCHANGED Str!vars
  <2>1. /\ UNCHANGED Str!args /\ str_mem' = str_mem /\ str_p' = str_p /\ str_q' = str_q
        /\ str_k' = str_k /\ str_ret' = str_ret /\ str_pc' = str_pc
    BY <1>1 DEF Str!vars
  <2>2. /\ fn' = fn /\ s1' = s1 /\ s2' = s2 /\ str_n' = str_n /\ str_old' = str_old
    BY <2>1, SameArgs
  <2>3. StrTypes' /\ Entered' /\ Finding' /\ Setting' /\ Comparing'
    BY <2>1, <2>2, SameArgs
    DEF StrInv, StrTypes, Entered, Finding, Setting, Comparing, SetTo
  <2>4. Copying'
    BY <2>1, <2>2, SameArgs, SameTarget DEF StrInv, Copying, CopyOf
  <2>5. Ncopying'
    BY <2>1, <2>2 DEF StrInv, Ncopying, PaddedCopy, Padded
  <2>6. Str!WritesRight'
    BY <2>1, <2>2, SameArgs
    DEF StrInv, Str!WritesRight, Str!With, Str!Source, Str!Addr
  <2>7. Str!ReadsRight'
    BY <2>1, <2>2, SameArgs DEF StrInv, Str!ReadsRight, Str!Order, Str!Least
  <2> QED
    BY <2>3, <2>4, <2>5, <2>6, <2>7 DEF StrInv
<1> QED
  BY <1>1, CallInv, FindInv, CopyStepInv, NcopyInv, MemsetInv, CompareInv DEF Str!Next

\* In every state of every call the loops are where they should be, and a call that is
\* done has written and returned what it should.
THEOREM StrInvariant == Str!Spec => []StrInv
BY StrInitInv, StrStepInv, PTL DEF Str!Spec

\* No loop touches a byte outside memory (string.c:7-68).
LEMMA StrInside == StrInv => Str!Inside
<1> SUFFICES ASSUME StrInv PROVE Str!Inside
  OBVIOUS
<1>1. StrTypes /\ M \in Nat
  BY MemoryAssumption DEF StrInv
<1>2. CASE str_pc = "find"
  BY <1>1, <1>2, Pointed, OnString DEF StrInv, Entered, Finding, Str!Inside, Str!Addr, Addr
<1>3. CASE str_pc = "copy"
  BY <1>1, <1>3, Room, OnString
  DEF StrInv, Entered, Copying, Str!Inside, Str!Addr, Addr
<1>4. CASE str_pc = "set"
  BY <1>1, <1>4, Pointed, LegalSays
  DEF StrInv, StrTypes, Entered, Setting, Str!Inside, Str!Addr, Addr
<1>5. CASE str_pc = "ncopy"
  BY <1>1, <1>5, NcopyRoom
  DEF StrInv, StrTypes, Entered, Ncopying, Str!Inside, Str!Addr, Addr
<1>6. CASE str_pc = "compare"
  <2> DEFINE i == str_p - s1
  <2> SUFFICES ASSUME fn = "strcmp" \/ str_k > 0 PROVE s1 + i \in Addr /\ s2 + i \in Addr
    BY <1>1, <1>6 DEF StrInv, StrTypes, Comparing, Str!Inside, Str!Addr, Addr
  <2>1. /\ ~Str!NullArgument /\ fn \in {"strcmp", "strncmp", "memcmp"} /\ i \in Nat
        /\ fn # "strcmp" => i < str_n
        /\ \A j \in 0..(i - 1) : str_old[s1 + j] # 0 /\ str_old[s2 + j] # 0
    BY <1>1, <1>6 DEF StrInv, StrTypes, Entered, Comparing
  <2>2. CASE fn = "memcmp"
    BY <1>1, <2>1, <2>2, Pointed, LegalSays DEF StrTypes, Addr
  <2>3. CASE fn \in {"strcmp", "strncmp"}
    BY <1>1, <2>1, <2>3, InLimit
  <2> QED
    BY <2>1, <2>2, <2>3
<1> QED
  BY <1>1, <1>2, <1>3, <1>4, <1>5, <1>6 DEF StrTypes, Str!Inside

\* For memory of any size, bytes of any kind and every legal call, the string functions
\* write and return what they should, and stay inside memory.
THEOREM StringsRight == Str!Spec => [](Str!WritesRight /\ Str!ReadsRight /\ Str!Inside)
<1>1. StrInv => Str!WritesRight /\ Str!ReadsRight /\ Str!Inside
  BY StrInside DEF StrInv
<1> QED
  BY <1>1, StrInvariant, PTL

\* So they do in the instance that TLC runs, which is idle in what is not used.
LEMMA StringsOfInstance == MCSpec => []StrInv
<1>1. MCInit => StrInv
  BY StrInitInv DEF MCInit, StringsIdle
<1>2. StrInv /\ [MCNext]_mcVars => StrInv'
  <2>1. ASSUME [MCNext]_mcVars PROVE [Str!Next]_(Str!vars)
    BY <2>1 DEF MCNext, mcVars, stringVars, Str!vars, Str!args
  <2> QED
    BY <2>1, StrStepInv
<1> QED
  BY <1>1, <1>2, PTL DEF MCSpec

\* The string functions write their result and nothing else (string.c:13-39, 63-68).
THEOREM StringsWrite == MCSpec => []WritesRight
<1>1. StrInv => WritesRight
  BY DEF StrInv, WritesRight
<1> QED
  BY <1>1, StringsOfInstance, PTL

\* strlen counts, and comparisons order, as they should (string.c:7-61).
THEOREM StringsRead == MCSpec => []ReadsRight
<1>1. StrInv => ReadsRight
  BY DEF StrInv, ReadsRight
<1> QED
  BY <1>1, StringsOfInstance, PTL

-----------------------------------------------------------------------------
(* Formatted output.                                                         *)

\* A function that is given by its first value and by each next one exists.
Iterates(f, V, x0, last, G) ==
  f \in [0..last -> V] /\ f = [k \in 0..last |-> IF k = 0 THEN x0 ELSE G[k][f[k - 1]]]

\* A function of 0..last that is defined by recursion exists, its graph being the
\* intersection of the relations that the recursion is closed in: no induction over data.
LEMMA Recursion ==
  ASSUME NEW V, NEW x0 \in V, NEW last \in Nat, NEW G \in [1..last -> [V -> V]]
  PROVE  \E f : Iterates(f, V, x0, last, G)
<1> DEFINE Upto(f, m) == f \in [0..m -> V] /\ f[0] = x0 /\ \A k \in 1..m : f[k] = G[k][f[k - 1]]
           S == {m \in 0..last : ~ \E f : Upto(f, m)}
<1>1. S = {}
  <2> SUFFICES ASSUME S # {} PROVE FALSE
    OBVIOUS
  <2>1. PICK e \in S : \A y \in S : e <= y
    <3>1. S \in SUBSET Nat
      OBVIOUS
    <3> QED
      BY <3>1, Smallest, Zenon
  <2>2. e # 0
    <3>1. Upto([k \in 0..0 |-> x0], 0)
      OBVIOUS
    <3> QED
      BY <2>1, <3>1, ZenonT(30)
  <2>3. e - 1 \in 0..last /\ e - 1 \notin S
    <3>1. e \in 0..last /\ e - 1 \in 0..last
      BY <2>1, <2>2
    <3>2. ~(e <= e - 1)
      BY <3>1
    <3> QED
      BY <2>1, <3>1, <3>2, Zenon
  <2>4. PICK g : Upto(g, e - 1)
    BY <2>3
  <2> DEFINE f == [k \in 0..e |-> IF k = e THEN G[e][g[e - 1]] ELSE g[k]]
  <2>5. e \in 1..last /\ g[e - 1] \in V
    BY <2>1, <2>2, <2>4
  <2>6. G[e][g[e - 1]] \in V
    BY <2>5
  <2>7. f \in [0..e -> V]
    BY <2>4, <2>5, <2>6
  <2>8. f[0] = x0
    BY <2>4, <2>5
  <2>9. ASSUME NEW k \in 1..e PROVE f[k] = G[k][f[k - 1]]
    <3>1. k - 1 \in 0..(e - 1) /\ k - 1 # e /\ f[k - 1] = g[k - 1]
      BY <2>5
    <3>2. CASE k = e
      BY <2>5, <3>1, <3>2
    <3>3. CASE k # e
      <4>1. k \in 1..(e - 1) /\ f[k] = g[k]
        BY <2>5, <3>3
      <4> QED
        BY <2>4, <3>1, <4>1
    <3> QED
      BY <3>2, <3>3
  <2> QED
    BY <2>1, <2>7, <2>8, <2>9
<1>2. PICK f : Upto(f, last)
  <2>1. last \in 0..last
    OBVIOUS
  <2> QED
    BY <1>1, <2>1, Zenon
<1>3. \A k \in 0..last : f[k] = IF k = 0 THEN x0 ELSE G[k][f[k - 1]]
  BY <1>2
<1>4. f \in [0..last -> V]
  BY <1>2
<1>5. f = [k \in 0..last |-> IF k = 0 THEN x0 ELSE G[k][f[k - 1]]]
  BY <1>3, <1>4
<1> QED
  BY <1>4, <1>5 DEF Iterates

\* f[k] is the first k of m texts, joined.
Joins(f, V, t, m) ==
  /\ f \in [0..m -> Seq(V)] /\ f[0] = <<>>
  /\ \A k \in 1..m : f[k] = f[k - 1] \o t[k]

\* The recursive function that joins texts exists, and is typed whenever they are.
LEMMA JoinsExist ==
  ASSUME NEW V, NEW m \in Nat, NEW t \in [1..m -> Seq(V)]
  PROVE  \E f : f = [k \in 0..m |-> IF k = 0 THEN <<>> ELSE f[k - 1] \o t[k]]
<1> DEFINE U == Seq(V)
           G == [k \in 1..m |-> [v \in U |-> v \o t[k]]]
<1>1. <<>> \in U
  BY EmptySeq
<1>2. \A k \in 1..m : \A v \in U : v \o t[k] \in U
  BY ConcatProperties
<1>3. G \in [1..m -> [U -> U]]
  <2> HIDE DEF U
  <2> QED
    BY <1>2
<1> HIDE DEF U, G
<1>4. PICK f : Iterates(f, U, <<>>, m, G)
  BY <1>1, <1>3, Recursion, Zenon
<1>5. ASSUME NEW k \in 0..m, k # 0 PROVE G[k][f[k - 1]] = f[k - 1] \o t[k]
  <2>1. k \in 1..m /\ k - 1 \in 0..m
    BY <1>5
  <2>2. f[k - 1] \in U
    BY <1>4, <2>1 DEF Iterates
  <2> QED
    BY <2>1, <2>2 DEF G
<1>6. \A k \in 0..m : (IF k = 0 THEN <<>> ELSE G[k][f[k - 1]]) = IF k = 0 THEN <<>> ELSE f[k - 1] \o t[k]
  BY <1>5, Zenon
<1>7. [k \in 0..m |-> IF k = 0 THEN <<>> ELSE G[k][f[k - 1]]]
      = [k \in 0..m |-> IF k = 0 THEN <<>> ELSE f[k - 1] \o t[k]]
  BY <1>6
<1>8. f = [k \in 0..m |-> IF k = 0 THEN <<>> ELSE G[k][f[k - 1]]]
  BY <1>4, Zenon DEF Iterates
<1> QED
  BY <1>7, <1>8, Zenon

\* A function that joins texts one after the other does so.
LEMMA JoinsTyped ==
  ASSUME NEW V, NEW m \in Nat, NEW t \in [1..m -> Seq(V)], NEW f,
         f = [k \in 0..m |-> IF k = 0 THEN <<>> ELSE f[k - 1] \o t[k]]
  PROVE  Joins(f, V, t, m)
<1> DEFINE U == Seq(V)
<1>1. f[0] = <<>> /\ DOMAIN f = 0..m
  OBVIOUS
<1>2. f = [k \in 0..m |-> f[k]]
  OBVIOUS
<1>3. \A k \in 1..m : f[k] = f[k - 1] \o t[k]
  OBVIOUS
<1>4. <<>> \in U
  BY EmptySeq
<1>5. \A k \in 1..m : f[k - 1] \in U => f[k - 1] \o t[k] \in U
  BY ConcatProperties
<1> HIDE DEF U
<1> DEFINE S == {k \in 0..m : f[k] \notin U}
<1>6. S = {}
  <2> SUFFICES ASSUME S # {} PROVE FALSE
    OBVIOUS
  <2>1. PICK e \in S : \A y \in S : e <= y
    <3>1. S \in SUBSET Nat
      OBVIOUS
    <3> QED
      BY <3>1, Smallest, Zenon
  <2>2. 0 \notin S
    BY <1>1, <1>4, Zenon
  <2>3. e \in 1..m /\ e - 1 \in 0..m /\ ~(e <= e - 1)
    <3>1. e \in 0..m /\ e # 0
      BY <2>1, <2>2
    <3> QED
      BY <3>1
  <2>4. f[e - 1] \in U
    BY <2>1, <2>3, Zenon
  <2>5. f[e] \in U
    BY <1>3, <1>5, <2>3, <2>4, Zenon
  <2> QED
    BY <2>1, <2>5, Zenon
<1>7. \A k \in 0..m : f[k] \in U
  BY <1>6
<1>8. f \in [0..m -> U]
  BY <1>2, <1>7
<1> QED
  BY <1>1, <1>3, <1>8 DEF Joins, U

\* What is joined first stays in front.
InFront(s, w) == Len(s) <= Len(w) /\ \A i \in 1..Len(s) : w[i] = s[i]

\* What is in front of a text is in front of every longer one.
LEMMA FrontGrows ==
  ASSUME NEW V, NEW s \in Seq(V), NEW v \in Seq(V), NEW w \in Seq(V), InFront(s, v)
  PROVE  InFront(s, v \o w)
<1>1. Len(s) \in Nat /\ Len(v) \in Nat /\ Len(w) \in Nat
  BY LenProperties
<1>2. Len(v \o w) = Len(v) + Len(w)
      /\ \A i \in 1..(Len(v) + Len(w)) : (v \o w)[i] = IF i <= Len(v) THEN v[i] ELSE w[i - Len(v)]
  BY ConcatProperties
<1>3. \A i \in 1..Len(s) : i \in 1..(Len(v) + Len(w)) /\ i <= Len(v)
  BY <1>1 DEF InFront
<1>4. \A i \in 1..Len(s) : (v \o w)[i] = s[i]
  BY <1>2, <1>3, Zenon DEF InFront
<1>5. Len(s) <= Len(v \o w)
  BY <1>1, <1>2 DEF InFront
<1> QED
  BY <1>4, <1>5 DEF InFront

\* What the first k texts make is in front of the whole.
LEMMA JoinedFront ==
  ASSUME NEW V, NEW m \in Nat, NEW t \in [1..m -> Seq(V)], NEW f, Joins(f, V, t, m),
         NEW k \in 0..m
  PROVE  f[k] \in Seq(V) /\ InFront(f[k], f[m])
<1> DEFINE S == {j \in k..m : ~InFront(f[k], f[j])}
<1>0. \A j \in 0..m : f[j] \in Seq(V)
  BY DEF Joins
<1>1. S = {}
  <2> SUFFICES ASSUME S # {} PROVE FALSE
    OBVIOUS
  <2>1. PICK e \in S : \A y \in S : e <= y
    <3>1. S \in SUBSET Nat
      OBVIOUS
    <3> QED
      BY <3>1, Smallest, Zenon
  <2>2. k \notin S
    <3>1. Len(f[k]) \in Nat
      BY <1>0, LenProperties
    <3>2. Len(f[k]) <= Len(f[k])
      BY <3>1
    <3> QED
      BY <3>2 DEF InFront
  <2>3. e \in 1..m /\ e \in 0..m /\ e - 1 \in k..m /\ e - 1 \in 0..m /\ ~(e <= e - 1)
    <3>1. e \in k..m /\ e # k
      BY <2>1, <2>2
    <3> QED
      BY <3>1
  <2>4. f[e] = f[e - 1] \o t[e] /\ f[e - 1] \in Seq(V) /\ t[e] \in Seq(V) /\ f[k] \in Seq(V)
    BY <1>0, <2>3 DEF Joins
  <2>5. InFront(f[k], f[e - 1])
    BY <2>1, <2>3, Zenon
  <2>6. InFront(f[k], f[e])
    BY <2>4, <2>5, FrontGrows
  <2> QED
    BY <2>1, <2>6, Zenon
<1>2. m \in k..m /\ k \in 0..m
  OBVIOUS
<1> QED
  BY <1>0, <1>1, <1>2

\* Where a text is found in the whole.
JoinAt(f, t, m, k) ==
  /\ f[k + 1] = f[k] \o t[k + 1]
  /\ Len(f[k]) \in Nat /\ Len(t[k + 1]) \in Nat /\ Len(f[m]) \in Nat
  /\ Len(f[k + 1]) = Len(f[k]) + Len(t[k + 1])
  /\ Len(f[k]) + Len(t[k + 1]) <= Len(f[m])
  /\ \A i \in 1..Len(t[k + 1]) : f[m][Len(f[k]) + i] = t[k + 1][i]

\* Where text k + 1 is in the whole.
LEMMA JoinedAt ==
  ASSUME NEW V, NEW m \in Nat, NEW t \in [1..m -> Seq(V)], NEW f, Joins(f, V, t, m),
         NEW k \in 0..(m - 1)
  PROVE  JoinAt(f, t, m, k)
<1>1. k + 1 \in 1..m /\ k + 1 \in 0..m /\ k \in 0..m /\ m \in 0..m /\ (k + 1) - 1 = k
  OBVIOUS
<1>2. f[k + 1] = f[k] \o t[k + 1]
  <2>1. f[k + 1] = f[(k + 1) - 1] \o t[k + 1]
    BY <1>1, Zenon DEF Joins
  <2> QED
    BY <1>1, <2>1, Zenon
<1>3. f[k] \in Seq(V) /\ t[k + 1] \in Seq(V) /\ f[m] \in Seq(V) /\ f[k + 1] \in Seq(V)
  BY <1>1 DEF Joins
<1>4. InFront(f[k + 1], f[m])
  BY <1>1, JoinedFront
<1>5. Len(f[k]) \in Nat /\ Len(t[k + 1]) \in Nat /\ Len(f[m]) \in Nat
  BY <1>3, LenProperties
<1>6. /\ Len(f[k + 1]) = Len(f[k]) + Len(t[k + 1])
      /\ \A i \in 1..(Len(f[k]) + Len(t[k + 1])) :
           f[k + 1][i] = IF i <= Len(f[k]) THEN f[k][i] ELSE t[k + 1][i - Len(f[k])]
  <2>1. /\ Len(f[k] \o t[k + 1]) = Len(f[k]) + Len(t[k + 1])
        /\ \A i \in 1..(Len(f[k]) + Len(t[k + 1])) :
             (f[k] \o t[k + 1])[i] = IF i <= Len(f[k]) THEN f[k][i] ELSE t[k + 1][i - Len(f[k])]
    BY <1>3, ConcatProperties
  <2> QED
    BY <1>2, <2>1, Zenon
<1>7. PICK l \in Nat, r \in Nat : l = Len(f[k]) /\ r = Len(t[k + 1])
  BY <1>5
<1>8. ASSUME NEW i \in 1..r PROVE f[m][l + i] = t[k + 1][i]
  <2>1. l + i \in 1..(l + r) /\ ~(l + i <= l) /\ (l + i) - l = i
    OBVIOUS
  <2>2. f[k + 1][l + i] = t[k + 1][i]
    BY <1>6, <1>7, <2>1, Zenon
  <2>3. f[m][l + i] = f[k + 1][l + i]
    BY <1>4, <1>6, <1>7, <2>1, Zenon DEF InFront
  <2> QED
    BY <2>2, <2>3
<1> QED
  BY <1>2, <1>4, <1>5, <1>6, <1>7, <1>8, Zenon DEF InFront, JoinAt

-----------------------------------------------------------------------------
(* Numerals.                                                                 *)

\* Powers of the bases are positive, and each is the base times the one before.
LEMMA PowersOf ==
  ASSUME NEW b, b = 2 \/ b = 10 \/ b = 16
  PROVE  /\ Bits \in Nat /\ Bits >= 2 /\ b^0 = 1
         /\ \A k \in 0..Bits : b^k \in Nat /\ b^k > 0
         /\ \A k \in 0..(Bits - 1) : b^(k + 1) = b * b^k
<1>1. Bits \in Nat /\ Bits >= 2
  BY MemoryParameters DEF Printing!FormatParameters, Printing!Parameters
<1>2. b \in {2, 10, 16} /\ b \in Nat /\ b > 0
  OBVIOUS
<1>3. b^0 = 1 /\ \A k \in 0..(Bits - 1) : b^(k + 1) = b * b^k
  BY <1>2, PowerAssumption
<1> DEFINE S == {k \in 0..Bits : ~(b^k \in Nat /\ b^k > 0)}
<1>4. S = {}
  <2> SUFFICES ASSUME S # {} PROVE FALSE
    OBVIOUS
  <2>1. PICK e \in S : \A y \in S : e <= y
    <3>1. S \in SUBSET Nat
      BY <1>1
    <3> QED
      BY <3>1, Smallest, Zenon
  <2>2. 0 \notin S
    BY <1>1, <1>3
  <2>3. e - 1 \in 0..Bits /\ e - 1 \in 0..(Bits - 1) /\ ~(e <= e - 1) /\ (e - 1) + 1 = e
    <3>1. e \in 0..Bits /\ e # 0
      BY <2>1, <2>2
    <3> QED
      BY <1>1, <3>1
  <2>4. b^(e - 1) \in Nat /\ b^(e - 1) > 0
    BY <2>1, <2>3, Zenon
  <2>5. PICK u \in Nat : u = b^(e - 1) /\ u > 0
    BY <2>4
  <2>6. b^e = b * u
    BY <1>3, <2>3, <2>5, Zenon
  <2>7. b * u \in Nat /\ b * u > 0
    <3>1. u \in Nat /\ u > 0
      BY <2>5
    <3>2. b \in Nat /\ b > 0
      BY <1>2
    <3> QED
      BY <3>1, <3>2, Z3
  <2> QED
    BY <2>1, <2>6, <2>7, Zenon
<1> QED
  BY <1>1, <1>3, <1>4

\* They grow, and those of ten and sixteen not less than those of two.
LEMMA PowersGrow ==
  ASSUME NEW b, b = 2 \/ b = 10 \/ b = 16, NEW k \in 0..Bits
  PROVE  2^k <= b^k /\ \A j \in 0..k : b^j <= b^k
<1>0. Bits \in Nat /\ b \in Nat /\ b >= 2
  BY PowersOf
<1> DEFINE S == {y \in 0..k : ~(2^y <= b^y /\ \A j \in 0..y : b^j <= b^y)}
<1>1. S = {}
  <2> SUFFICES ASSUME S # {} PROVE FALSE
    OBVIOUS
  <2>1. PICK e \in S : \A y \in S : e <= y
    <3>1. S \in SUBSET Nat
      BY <1>0
    <3> QED
      BY <3>1, Smallest, Zenon
  <2>2. 0 \notin S
    <3>1. 2^0 = 1 /\ b^0 = 1
      BY PowersOf
    <3>2. \A j \in 0..0 : j = 0
      OBVIOUS
    <3>3. 2^0 <= b^0
      BY <3>1
    <3>4. \A j \in 0..0 : b^j <= b^0
      BY <3>1, <3>2
    <3> QED
      BY <3>3, <3>4
  <2>3. e \in 0..k /\ e - 1 \in 0..k /\ e - 1 \in 0..(Bits - 1) /\ ~(e <= e - 1) /\ (e - 1) + 1 = e
        /\ e \in 0..Bits /\ e - 1 \in 0..Bits
    <3>1. e \in 0..k /\ e # 0
      BY <2>1, <2>2
    <3> QED
      BY <1>0, <3>1
  <2>4. 2^(e - 1) <= b^(e - 1) /\ \A j \in 0..(e - 1) : b^j <= b^(e - 1)
    BY <2>1, <2>3, Zenon
  <2>5. PICK u \in Nat, v \in Nat : u = 2^(e - 1) /\ v = b^(e - 1) /\ u <= v
    BY <2>3, <2>4, PowersOf
  <2>6. 2^e = 2 * u /\ b^e = b * v
    BY <2>3, <2>5, PowersOf, Zenon
  <2>7. 2 * u <= b * v /\ v <= b * v /\ b * v \in Nat
    <3>1. u \in Nat /\ v \in Nat /\ u <= v
      BY <2>5
    <3> QED
      BY <1>0, <3>1, Z3
  <2>8. ASSUME NEW j \in 0..e PROVE b^j <= b^e
    <3>1. CASE j = e
      BY <2>6, <2>7, <3>1
    <3>2. CASE j # e
      <4>0. e \in Nat /\ Bits \in Nat /\ e <= Bits
        BY <1>0, <2>3
      <4>1. j \in 0..(e - 1) /\ j \in 0..Bits
        BY <3>2, <4>0
      <4>2. b^j <= v /\ b^j \in Nat
        BY <2>4, <2>5, <4>1, PowersOf
      <4>3. PICK w \in Nat : w = b^j /\ w <= v
        BY <4>2
      <4>4. w <= b * v
        <5>1. v \in Nat /\ w <= v /\ v <= b * v /\ b * v \in Nat
          BY <2>5, <2>7, <4>3
        <5> QED
          BY <5>1
      <4> QED
        BY <2>6, <4>3, <4>4, Zenon
    <3> QED
      BY <3>1, <3>2
  <2>9. 2^e <= b^e
    BY <2>6, <2>7, Zenon
  <2> QED
    BY <2>1, <2>8, <2>9, Zenon
<1>2. k \in 0..k
  BY <1>0
<1> QED
  BY <1>1, <1>2, Zenon

\* A quotient's quotient is the quotient by the product.
LEMMA TwoQuotients ==
  ASSUME NEW x \in Nat, NEW b \in Nat, b > 0, NEW c \in Nat, c > 0
  PROVE  (x \div b) \div c = x \div (b * c)
<1>1. PICK q \in Nat, r \in Nat : q = x \div b /\ x = b * q + r /\ r < b
  BY Z3
<1>2. PICK u \in Nat, v \in Nat : u = q \div c /\ q = c * u + v /\ v < c
  BY Z3
<1>3. x = (b * c) * u + (b * v + r)
  BY <1>1, <1>2, Z3
<1>4. b * v + r < b * c /\ b * v + r \in Nat /\ b * c \in Nat /\ b * c > 0
  <2>1. b * (v + 1) <= b * c
    BY <1>2, Z3
  <2>2. b * (v + 1) = b * v + b /\ b * v \in Nat /\ b * c \in Nat
    BY Z3
  <2> QED
    BY <1>1, <2>1, <2>2
<1> DEFINE m == b * c
           w == b * v + r
<1>5. m \in Nat /\ m > 0 /\ w \in Nat /\ w < m /\ x = m * u + w
  BY <1>3, <1>4
<1> HIDE DEF m, w
<1>6. x \div m = u
  BY <1>5, Z3
<1> QED
  BY <1>1, <1>2, <1>6 DEF m

\* How many digits x has in base b.
IsLen(x, b, k) == k \in 1..Bits /\ x < b^k /\ (k > 1 => b^(k - 1) <= x)

\* Every number of Bits bits has a numeral, and only one.
LEMMA LenExists ==
  ASSUME NEW b, b = 10 \/ b = 16, NEW x \in 0..(2^Bits - 1)
  PROVE  \E k : IsLen(x, b, k)
<1>1. PICK u \in Nat, v \in Nat : u = 2^Bits /\ v = b^Bits /\ u <= v
  BY PowersOf, PowersGrow
<1>2. x \in Nat /\ x < v
  BY <1>1
<1> DEFINE S == {k \in 1..Bits : x < b^k}
<1>3. Bits \in S
  <2>1. Bits \in 1..Bits
    BY PowersOf
  <2> QED
    BY <1>1, <1>2, <2>1, Zenon
<1>4. PICK e \in S : \A y \in S : e <= y
  <2>1. S \in SUBSET Nat /\ S # {}
    BY <1>3
  <2> QED
    BY <2>1, Smallest, Zenon
<1>5. ASSUME e > 1 PROVE b^(e - 1) <= x
  <2>1. e - 1 \in 1..Bits /\ ~(e <= e - 1) /\ e - 1 \in 0..Bits
    <3>1. e \in 1..Bits /\ e > 1 /\ Bits \in Nat
      BY <1>4, <1>5, PowersOf
    <3> QED
      BY <3>1
  <2>2. ~(x < b^(e - 1))
    BY <1>4, <2>1, Zenon
  <2>3. PICK w \in Nat : w = b^(e - 1) /\ ~(x < w)
    BY <2>1, <2>2, PowersOf
  <2>4. w <= x
    BY <1>2, <2>3
  <2> QED
    BY <2>3, <2>4
<1> QED
  BY <1>4, <1>5 DEF IsLen

\* It is the only one.
LEMMA LenUnique ==
  ASSUME NEW b, b = 10 \/ b = 16, NEW x \in Nat, NEW j, NEW k, IsLen(x, b, j), IsLen(x, b, k)
  PROVE  j = k
<1> DEFINE Longer(p, q) == IsLen(x, b, p) /\ IsLen(x, b, q) => ~(p < q)
<1>1. ASSUME NEW p, NEW q PROVE Longer(p, q)
  <2> SUFFICES ASSUME IsLen(x, b, p), IsLen(x, b, q), p < q PROVE FALSE
    OBVIOUS
  <2>1. p \in 1..Bits /\ q \in 1..Bits /\ Bits \in Nat
    BY PowersOf DEF IsLen
  <2>2. q - 1 \in 0..Bits /\ p \in 0..(q - 1) /\ q > 1 /\ p \in 0..Bits
    BY <2>1
  <2>3. x < b^p /\ b^(q - 1) <= x
    BY <2>2 DEF IsLen
  <2>4. b^p <= b^(q - 1)
    BY <2>2, PowersGrow
  <2>5. PICK u \in Nat, v \in Nat : u = b^p /\ v = b^(q - 1)
    BY <2>2, PowersOf
  <2>6. x < u /\ v <= x /\ u <= v
    BY <2>3, <2>4, <2>5
  <2> QED
    BY <2>5, <2>6
<1>2. ~(j < k) /\ ~(k < j)
  BY <1>1
<1>3. j \in Int /\ k \in Int
  BY PowersOf DEF IsLen
<1> QED
  BY <1>2, <1>3

\* What is left of a number without its last digit is a digit shorter.
LEMMA LenStep ==
  ASSUME NEW b, b = 10 \/ b = 16, NEW x \in Nat, NEW k, IsLen(x, b, k)
  PROVE  /\ k \in Nat /\ k >= 1 /\ x \div b \in Nat
         /\ x >= b => k - 1 >= 1 /\ IsLen(x \div b, b, k - 1)
         /\ x < b => k = 1
<1>1. k \in 1..Bits /\ Bits \in Nat /\ b \in Nat /\ b > 0 /\ b^0 = 1
  BY PowersOf DEF IsLen
<1>2. k - 1 \in 0..Bits /\ k - 1 \in 0..(Bits - 1) /\ (k - 1) + 1 = k /\ k \in 0..Bits
      /\ 0 \in 0..(Bits - 1) /\ 0 + 1 = 1
  BY <1>1
<1>3. PICK u \in Nat : u = b^(k - 1) /\ u > 0
  BY <1>2, PowersOf
<1>4. b^k = b * u
  BY <1>2, <1>3, PowersOf, Zenon
<1>5. u \in Nat /\ u > 0
  BY <1>3
<1>6. x < b * u
  BY <1>4, Zenon DEF IsLen
<1>7. PICK q \in Nat, r \in Nat : q = x \div b /\ x = b * q + r /\ r < b
  BY <1>1, Z3
<1>8. q < u
  BY <1>1, <1>5, <1>6, <1>7, Z3
<1>9. b^1 = b
  <2>1. b^(0 + 1) = b * b^0
    BY <1>2, PowersOf, Zenon
  <2>2. b * 1 = b
    BY <1>1
  <2> QED
    BY <1>1, <1>2, <2>1, <2>2, Zenon
<1>10. ASSUME x < b PROVE k = 1
  <2> SUFFICES ASSUME k # 1 PROVE FALSE
    OBVIOUS
  <2>1. k > 1 /\ 1 \in 0..(k - 1)
    BY <1>1
  <2>2. b^1 <= b^(k - 1)
    BY <1>2, <2>1, PowersGrow
  <2>3. u <= x /\ b <= u
    BY <1>3, <1>9, <2>1, <2>2 DEF IsLen
  <2> QED
    BY <1>1, <1>5, <1>10, <2>3
<1>11. ASSUME x >= b PROVE k - 1 >= 1 /\ IsLen(q, b, k - 1)
  <2>1. k # 1
    <3>1. x < b^k
      BY DEF IsLen
    <3> SUFFICES ASSUME k = 1 PROVE FALSE
      OBVIOUS
    <3>2. x < b
      BY <1>9, <3>1, Zenon
    <3> QED
      BY <1>1, <1>11, <3>2
  <2>2. k - 1 \in 1..Bits /\ k - 1 >= 1
    BY <1>1, <2>1
  <2>3. q < b^(k - 1)
    BY <1>3, <1>8, Zenon
  <2>4. ASSUME k - 1 > 1 PROVE b^((k - 1) - 1) <= q
    <3>1. (k - 1) - 1 \in 0..Bits /\ (k - 1) - 1 \in 0..(Bits - 1) /\ ((k - 1) - 1) + 1 = k - 1
      BY <1>1, <2>4
    <3>2. PICK v \in Nat : v = b^((k - 1) - 1)
      BY <3>1, PowersOf
    <3>3. u = b * v
      BY <1>3, <3>1, <3>2, PowersOf, Zenon
    <3>4. u <= x
      <4>1. k > 1
        BY <1>1, <2>4
      <4>2. b^(k - 1) <= x
        BY <4>1, Zenon DEF IsLen
      <4> QED
        BY <1>3, <4>2, Zenon
    <3>5. v \in Nat /\ b * v <= x
      BY <3>2, <3>3, <3>4, Zenon
    <3>6. v <= q
      BY <1>1, <1>7, <3>5, Z3
    <3> QED
      BY <3>2, <3>6, Zenon
  <2> QED
    BY <2>2, <2>3, <2>4 DEF IsLen
<1>12. k \in Nat /\ k >= 1 /\ x \div b \in Nat
  <2>1. k \in Nat /\ k >= 1
    BY <1>1
  <2> QED
    BY <1>7, <2>1, Zenon
<1> QED
  BY <1>7, <1>10, <1>11, <1>12, Zenon

\* The last k digits of x.
DigitsOf(x, b, k) == [i \in 1..k |-> Printing!Digit((x \div b^(k - i)) % b)]

\* A number's last digit is its remainder; the others are the quotient's.
LEMMA DigitsStep ==
  ASSUME NEW b, b = 10 \/ b = 16, NEW x \in Nat, NEW k \in Nat, k >= 1, k <= Bits,
         NEW i \in 1..k
  PROVE  /\ i = k => (x \div b^(k - i)) % b = x % b
         /\ i # k => /\ i \in 1..(k - 1)
                     /\ (x \div b^(k - i)) % b = ((x \div b) \div b^((k - 1) - i)) % b
<1>1. Bits \in Nat /\ b \in Nat /\ b > 0 /\ b^0 = 1
  BY PowersOf
<1>2. ASSUME i = k PROVE (x \div b^(k - i)) % b = x % b
  <2>1. k - i = 0
    BY <1>2
  <2>2. x \div 1 = x
    OBVIOUS
  <2> QED
    BY <1>1, <2>1, <2>2, Zenon
<1>3. ASSUME i # k PROVE i \in 1..(k - 1) /\ x \div b^(k - i) = (x \div b) \div b^((k - 1) - i)
  <2>1. i \in 1..(k - 1) /\ (k - 1) - i \in 0..Bits /\ (k - 1) - i \in 0..(Bits - 1)
        /\ ((k - 1) - i) + 1 = k - i
    BY <1>1, <1>3
  <2>2. PICK c \in Nat : c = b^((k - 1) - i) /\ c > 0
    BY <2>1, PowersOf
  <2>3. b^(k - i) = b * c
    BY <2>1, <2>2, PowersOf, Zenon
  <2>4. c \in Nat /\ c > 0
    BY <2>2
  <2>5. (x \div b) \div c = x \div (b * c)
    BY <1>1, <2>4, TwoQuotients
  <2> QED
    BY <2>1, <2>2, <2>3, <2>5, Zenon
<1> QED
  BY <1>2, <1>3, Zenon

\* The characters of a text.
Chars == {"0", "1", "2", "3", "4", "5", "6", "7", "8", "9", "a", "b", "c", "d", "e", "f",
          " ", "%", "-", "x", "u", "p", "s", "m"}

\* The table's entries, one by one.
LEMMA DigitTable ==
  /\ Printing!Digits[1] = "0" /\ Printing!Digits[2] = "1"
  /\ Printing!Digits[3] = "2" /\ Printing!Digits[4] = "3"
  /\ Printing!Digits[5] = "4" /\ Printing!Digits[6] = "5"
  /\ Printing!Digits[7] = "6" /\ Printing!Digits[8] = "7"
  /\ Printing!Digits[9] = "8" /\ Printing!Digits[10] = "9"
  /\ Printing!Digits[11] = "a" /\ Printing!Digits[12] = "b"
  /\ Printing!Digits[13] = "c" /\ Printing!Digits[14] = "d"
  /\ Printing!Digits[15] = "e" /\ Printing!Digits[16] = "f"
BY DEF Printing!Digits

\* Digits, and so numerals, are made of characters.
LEMMA DigitTyped ==
  ASSUME NEW d \in 0..15
  PROVE  Printing!Digit(d) \in Chars
<1>1. \A i \in 1..16 : i \in {1, 2, 3, 4, 5, 6, 7, 8, 9, 10, 11, 12, 13, 14, 15, 16}
  OBVIOUS
<1>3. \A i \in 1..16 : Printing!Digits[i] \in Chars
  BY <1>1, DigitTable, ZenonT(30) DEF Chars
<1>2. d + 1 \in 1..16
  OBVIOUS
<1> QED
  BY <1>2, <1>3, Zenon DEF Printing!Digit

\* So are the digits of a number.
LEMMA DigitsTyped ==
  ASSUME NEW b, b = 10 \/ b = 16, NEW x \in Nat, NEW k \in Nat, k <= Bits
  PROVE  DigitsOf(x, b, k) \in Seq(Chars) /\ Len(DigitsOf(x, b, k)) = k
<1>1. ASSUME NEW i \in 1..k PROVE Printing!Digit((x \div b^(k - i)) % b) \in Chars
  <2>1. k - i \in 0..Bits
    BY PowersOf
  <2>2. PICK c \in Nat : c = b^(k - i) /\ c > 0
    BY <2>1, PowersOf
  <2>3. c \in Nat /\ c > 0
    BY <2>2
  <2>4. (x \div c) % b \in 0..15
    <3>1. x \div c \in Int
      BY <2>3, Z3
    <3> QED
      BY <3>1
  <2> QED
    BY <2>2, <2>4, DigitTyped, Zenon
<1>2. \A i \in 1..k : Printing!Digit((x \div b^(k - i)) % b) \in Chars
  BY <1>1
<1> DEFINE D(i) == Printing!Digit((x \div b^(k - i)) % b)
<1>3. \A i \in 1..k : D(i) \in Chars
  BY <1>2
<1>4. DigitsOf(x, b, k) = [i \in 1..k |-> D(i)]
  BY DEF DigitsOf
<1> HIDE DEF D
<1>5. [i \in 1..k |-> D(i)] \in Seq(Chars) /\ Len([i \in 1..k |-> D(i)]) = k
  BY <1>3
<1> QED
  BY <1>4, <1>5, Zenon

\* A number's digits are the quotient's and one more.
LEMMA DigitsGrow ==
  ASSUME NEW b, b = 10 \/ b = 16, NEW x \in Nat, NEW k \in Nat, k >= 1, k <= Bits
  PROVE  DigitsOf(x, b, k) = Append(DigitsOf(x \div b, b, k - 1), Printing!Digit(x % b))
<1>1. x \div b \in Nat /\ k - 1 \in Nat /\ k - 1 <= Bits /\ x % b \in 0..15
  <2>1. Bits \in Nat
    BY PowersOf
  <2>2. k - 1 \in Nat /\ k - 1 <= Bits
    BY <2>1
  <2>3. x \div b \in Nat
    OBVIOUS
  <2>4. x % b \in 0..15
    OBVIOUS
  <2> QED
    BY <2>2, <2>3, <2>4
<1> DEFINE s == DigitsOf(x \div b, b, k - 1)
           w == DigitsOf(x, b, k)
           e == Printing!Digit(x % b)
<1>2. s \in Seq(Chars) /\ Len(s) = k - 1
  BY <1>1, DigitsTyped
<1>3. w \in Seq(Chars) /\ Len(w) = k
  BY DigitsTyped
<1>4. e \in Chars
  BY <1>1, DigitTyped
<1>5. ASSUME NEW i \in 1..k PROVE w[i] = IF i = k THEN e ELSE s[i]
  <2>1. w[i] = Printing!Digit((x \div b^(k - i)) % b)
    BY DEF DigitsOf
  <2>2. CASE i = k
    <3>1. (x \div b^(k - i)) % b = x % b
      BY <2>2, DigitsStep
    <3> QED
      BY <2>1, <2>2, <3>1, Zenon
  <2>3. CASE i # k
    <3>1. i \in 1..(k - 1) /\ (x \div b^(k - i)) % b = ((x \div b) \div b^((k - 1) - i)) % b
      BY <2>3, DigitsStep
    <3>2. s[i] = Printing!Digit(((x \div b) \div b^((k - 1) - i)) % b)
      BY <3>1, Zenon DEF DigitsOf
    <3> QED
      BY <2>1, <2>3, <3>1, <3>2, Zenon
  <2> QED
    BY <2>2, <2>3
<1> HIDE DEF s, w, e
<1>6. Append(s, e) \in Seq(Chars) /\ Len(Append(s, e)) = k
      /\ \A i \in 1..k : Append(s, e)[i] = IF i = k THEN e ELSE s[i]
  <2>1. Append(s, e) \in Seq(Chars) /\ Len(Append(s, e)) = Len(s) + 1
        /\ (\A i \in 1..Len(s) : Append(s, e)[i] = s[i]) /\ Append(s, e)[Len(s) + 1] = e
    BY <1>2, <1>4, AppendProperties
  <2>2. (k - 1) + 1 = k /\ \A i \in 1..k : i # k => i \in 1..(k - 1)
    OBVIOUS
  <2>3. Len(Append(s, e)) = k /\ Append(s, e)[k] = e
    BY <1>2, <2>1, <2>2, Zenon
  <2>4. \A i \in 1..k : i # k => Append(s, e)[i] = s[i]
    BY <1>2, <2>1, <2>2, Zenon
  <2> QED
    BY <2>1, <2>3, <2>4, Zenon
<1>7. \A i \in 1..k : w[i] = Append(s, e)[i]
  BY <1>5, <1>6, Zenon
<1>8. w = Append(s, e)
  BY <1>3, <1>6, <1>7, SeqEqual
<1> QED
  BY <1>8 DEF s, w, e

\* Numeral is the digits, as many as the number has.
LEMMA NumeralIs ==
  ASSUME NEW b, b = 10 \/ b = 16, NEW x \in Nat, NEW k, IsLen(x, b, k)
  PROVE  Printing!Numeral(x, b) = DigitsOf(x, b, k)
<1> DEFINE len_ == CHOOSE j \in 1..Bits : x < b^j /\ (j > 1 => b^(j - 1) <= x)
<1>1. IsLen(x, b, len_)
  BY Zenon DEF IsLen
<1>2. len_ = k
  <2> HIDE DEF len_
  <2> QED
    BY <1>1, LenUnique
<1>3. Printing!Numeral(x, b) = [i \in 1..len_ |-> Printing!Digit((x \div b^(len_ - i)) % b)]
  BY DEF Printing!Numeral
<1> HIDE DEF len_
<1> QED
  BY <1>2, <1>3, Zenon DEF DigitsOf

\* A numeral is the numeral of what is left without the last digit, and that digit.
LEMMA NumeralGrows ==
  ASSUME NEW b, b = 10 \/ b = 16, NEW x \in 0..(2^Bits - 1)
  PROVE  Printing!Numeral(x, b)
         = Append(IF x >= b THEN Printing!Numeral(x \div b, b) ELSE <<>>, Printing!Digit(x % b))
<1>0. x \in Nat
  <2>1. PICK u \in Nat : u = 2^Bits
    BY PowersOf
  <2> QED
    BY <2>1
<1>1. PICK k : IsLen(x, b, k)
  BY LenExists
<1>2. k \in Nat /\ k >= 1 /\ k <= Bits /\ x \div b \in Nat
  <2>1. k <= Bits
    <3>1. k \in 1..Bits /\ Bits \in Nat
      BY <1>1, PowersOf, Zenon DEF IsLen
    <3> QED
      BY <3>1
  <2> QED
    BY <1>0, <1>1, <2>1, LenStep
<1>3. Printing!Numeral(x, b) = Append(DigitsOf(x \div b, b, k - 1), Printing!Digit(x % b))
  <2>1. Printing!Numeral(x, b) = DigitsOf(x, b, k)
    BY <1>0, <1>1, NumeralIs
  <2>2. DigitsOf(x, b, k) = Append(DigitsOf(x \div b, b, k - 1), Printing!Digit(x % b))
    BY <1>0, <1>2, DigitsGrow
  <2> QED
    BY <2>1, <2>2, Zenon
<1>4. CASE x >= b
  <2>1. IsLen(x \div b, b, k - 1)
    BY <1>0, <1>1, <1>4, LenStep
  <2>2. Printing!Numeral(x \div b, b) = DigitsOf(x \div b, b, k - 1)
    BY <1>2, <2>1, NumeralIs
  <2> QED
    BY <1>3, <1>4, <2>2, Zenon
<1>5. CASE ~(x >= b)
  <2>1. k = 1
    <3>1. x < b
      BY <1>0, <1>5
    <3> QED
      BY <1>0, <1>1, <3>1, LenStep
  <2>2. k - 1 = 0
    BY <2>1
  <2>3. DigitsOf(x \div b, b, 0) = <<>>
    <3>1. 0 \in Nat /\ 0 <= Bits
      BY PowersOf
    <3>2. DigitsOf(x \div b, b, 0) \in Seq(Chars) /\ Len(DigitsOf(x \div b, b, 0)) = 0
      BY <1>2, <3>1, DigitsTyped
    <3> QED
      BY <3>2, EmptySeq
  <2> QED
    BY <1>3, <1>5, <2>2, <2>3, Zenon
<1> QED
  BY <1>4, <1>5

\* A function that writes the digits as fpt and fptd do is given by the numerals.
Prints(f, b) ==
  f = [x \in 0..(2^Bits - 1) |-> Append(IF x >= b THEN f[x \div b] ELSE <<>>, Printing!Digit(x % b))]

\* What fpt and fptd call themselves with is smaller.
LEMMA Front ==
  ASSUME NEW b, b = 10 \/ b = 16, NEW x \in 0..(2^Bits - 1)
  PROVE  x \div b \in 0..(2^Bits - 1) /\ (x >= b => x \div b < x)
<1>1. PICK u \in Nat : u = 2^Bits
  BY PowersOf
<1>2. x \in 0..(u - 1) /\ u \in Nat
  BY <1>1, Zenon
<1>3. x \div b \in 0..(u - 1) /\ (x >= b => x \div b < x)
  BY <1>2
<1> QED
  BY <1>1, <1>3, Zenon

\* So the recursion of fpt and fptd defines a function.
LEMMA PrintsExists ==
  ASSUME NEW b, b = 10 \/ b = 16
  PROVE  \E f : Prints(f, b)
<1> DEFINE N == 0..(2^Bits - 1)
           f == [x \in N |-> Printing!Numeral(x, b)]
           g == [x \in N |-> Append(IF x >= b THEN f[x \div b] ELSE <<>>, Printing!Digit(x % b))]
<1>1. ASSUME NEW x \in N
      PROVE  Printing!Numeral(x, b)
             = Append(IF x >= b THEN f[x \div b] ELSE <<>>, Printing!Digit(x % b))
  <2>1. f[x \div b] = Printing!Numeral(x \div b, b)
    BY Front, Zenon
  <2>2. Printing!Numeral(x, b)
        = Append(IF x >= b THEN Printing!Numeral(x \div b, b) ELSE <<>>, Printing!Digit(x % b))
    BY NumeralGrows, Zenon
  <2> QED
    BY <2>1, <2>2, Zenon
<1>2. f = g
  BY <1>1, Zenon
<1> QED
  BY <1>2, Zenon DEF Prints

\* It is the numeral: at the smallest number where it was not, the number in front of its
\* last digit would have the wrong numeral too.
LEMMA PrintsNumerals ==
  ASSUME NEW b, b = 10 \/ b = 16, NEW f, Prints(f, b), NEW x \in 0..(2^Bits - 1)
  PROVE  f[x] = Printing!Numeral(x, b)
<1> DEFINE N == 0..(2^Bits - 1)
<1>0. \A y \in N : y \in Nat
  <2>1. PICK u \in Nat : u = 2^Bits
    BY PowersOf
  <2> QED
    BY <2>1
<1>1. \A y \in N : f[y] = Append(IF y >= b THEN f[y \div b] ELSE <<>>, Printing!Digit(y % b))
  BY Zenon DEF Prints
<1> DEFINE S == {y \in N : f[y] # Printing!Numeral(y, b)}
<1> HIDE DEF N
<1>2. S = {}
  <2> SUFFICES ASSUME S # {} PROVE FALSE
    OBVIOUS
  <2>1. PICK e \in S : \A y \in S : e <= y
    <3>1. S \in SUBSET Nat
      BY <1>0
    <3> QED
      BY <3>1, Smallest, Zenon
  <2>2. e \in N /\ f[e] # Printing!Numeral(e, b)
    BY <2>1, Zenon
  <2>3. e \div b \in N /\ (e >= b => e \div b < e)
    BY <2>2, Front, Zenon DEF N
  <2>4. e \in Nat /\ e \div b \in Nat
    BY <1>0, <2>2, <2>3, Zenon
  <2>5. e >= b => f[e \div b] = Printing!Numeral(e \div b, b)
    <3>1. e >= b => ~(e <= e \div b)
      BY <2>3, <2>4
    <3> QED
      BY <2>1, <2>3, <3>1, Zenon
  <2>6. Printing!Numeral(e, b)
        = Append(IF e >= b THEN Printing!Numeral(e \div b, b) ELSE <<>>, Printing!Digit(e % b))
    BY <2>2, NumeralGrows, Zenon DEF N
  <2> QED
    BY <1>1, <2>2, <2>5, <2>6, Zenon
<1> QED
  BY <1>2, Zenon DEF N

\* fpt prints the decimal numeral (stdio.c:8-15).
LEMMA FptRight ==
  ASSUME NEW x \in 0..(2^Bits - 1)
  PROVE  Printing!fpt[x] = Printing!Numeral(x, 10)
<1> DEFINE P(f) == f = [n_ \in 0..(2^Bits - 1) |->
                          Append(IF n_ >= 10 THEN f[n_ \div 10] ELSE <<>>, Printing!Digit(n_ % 10))]
<1>1. \A f : P(f) <=> Prints(f, 10)
  BY Zenon DEF Prints
<1>2. \E f : P(f)
  BY <1>1, PrintsExists, Zenon
<1>3. P(Printing!fpt)
  BY <1>2, Zenon DEF Printing!fpt
<1>4. Prints(Printing!fpt, 10)
  BY <1>1, <1>3, Zenon
<1> QED
  BY <1>4, PrintsNumerals, Zenon

\* fptd prints the hexadecimal numeral (stdio.c:17-24).
LEMMA FptdRight ==
  ASSUME NEW x \in 0..(2^Bits - 1)
  PROVE  Printing!fptd[x] = Printing!Numeral(x, 16)
<1> DEFINE N == 0..(2^Bits - 1)
           P(f) == f = [n_ \in N |->
                          Append(IF n_ \div 16 # 0 THEN f[n_ \div 16] ELSE <<>>, Printing!Digit(n_ % 16))]
<1>1. \A y \in N : y \div 16 # 0 <=> y >= 16
  <2>1. PICK u \in Nat : u = 2^Bits
    BY PowersOf
  <2>2. \A y \in 0..(u - 1) : y \div 16 # 0 <=> y >= 16
    BY <2>1
  <2> QED
    BY <2>1, <2>2, Zenon
<1>2. \A f : P(f) <=> Prints(f, 16)
  <2> SUFFICES ASSUME NEW f PROVE P(f) <=> Prints(f, 16)
    OBVIOUS
  <2>1. \A y \in N : Append(IF y \div 16 # 0 THEN f[y \div 16] ELSE <<>>, Printing!Digit(y % 16))
                     = Append(IF y >= 16 THEN f[y \div 16] ELSE <<>>, Printing!Digit(y % 16))
    BY <1>1, Zenon
  <2>2. [y \in N |-> Append(IF y \div 16 # 0 THEN f[y \div 16] ELSE <<>>, Printing!Digit(y % 16))]
        = [y \in N |-> Append(IF y >= 16 THEN f[y \div 16] ELSE <<>>, Printing!Digit(y % 16))]
    BY <2>1, Zenon
  <2> QED
    BY <2>2, Zenon DEF Prints
<1>3. \E f : P(f)
  BY <1>2, PrintsExists, Zenon
<1>4. P(Printing!fptd)
  BY <1>3, Zenon DEF Printing!fptd
<1>5. Prints(Printing!fptd, 16)
  BY <1>2, <1>4, Zenon
<1> QED
  BY <1>5, PrintsNumerals, Zenon

\* An int is half of the numbers of its width.
LEMMA Halved ==
  \E h \in Nat : h > 0 /\ 2^(Bits - 1) = h /\ 2^Bits = 2 * h
<1>1. Bits - 1 \in 0..Bits /\ Bits - 1 \in 0..(Bits - 1) /\ (Bits - 1) + 1 = Bits
  BY PowersOf
<1>2. PICK h \in Nat : h = 2^(Bits - 1) /\ h > 0
  BY <1>1, PowersOf
<1>3. 2^Bits = 2 * h
  BY <1>1, <1>2, PowersOf, Zenon
<1> QED
  BY <1>2, <1>3, Zenon

\* An unsigned number is one that fpt takes, and so is a negated one, the most negative too.
LEMMA UintRight ==
  ASSUME NEW x \in Printing!Int_
  PROVE  /\ Printing!Uint(x) \in 0..(2^Bits - 1)
         /\ x < 0 => -x \in 0..(2^Bits - 1) /\ Printing!Uint(Printing!Wrap(-x)) = -x
<1>1. PICK h \in Nat : h > 0 /\ 2^(Bits - 1) = h /\ 2^Bits = 2 * h
  BY Halved
<1>2. h \in Nat /\ h > 0 /\ x \in (-h)..(h - 1)
  BY <1>1, Zenon DEF Printing!Int_
<1>3. x % (2 * h) \in 0..(2 * h - 1)
  BY <1>2
<1>4. x < 0 => -x \in 0..(2 * h - 1) /\ (((-x + h) % (2 * h)) - h) % (2 * h) = -x
  <2> SUFFICES ASSUME x < 0 PROVE -x \in 0..(2 * h - 1) /\ (((-x + h) % (2 * h)) - h) % (2 * h) = -x
    OBVIOUS
  <2>1. -x \in 0..(2 * h - 1)
    BY <1>2
  <2>2. CASE x = -h
    <3>1. -x + h = 2 * h
      BY <1>2, <2>2
    <3>2. (2 * h) % (2 * h) = 0 /\ (0 - h) % (2 * h) = h
      BY <1>2
    <3>3. -x = h
      BY <1>2, <2>2
    <3> QED
      BY <2>1, <3>1, <3>2, <3>3, Zenon
  <2>3. CASE x # -h
    <3>1. -x + h \in 0..(2 * h - 1) /\ (-x + h) - h = -x
      BY <1>2, <2>3
    <3>2. (-x + h) % (2 * h) = -x + h /\ (-x) % (2 * h) = -x
      BY <1>2, <2>1, <3>1
    <3> QED
      BY <2>1, <3>1, <3>2, Zenon
  <2> QED
    BY <2>2, <2>3
<1>5. Printing!Uint(x) = x % (2 * h)
      /\ Printing!Uint(Printing!Wrap(-x)) = (((-x + h) % (2 * h)) - h) % (2 * h)
  BY <1>1, Zenon DEF Printing!Uint, Printing!Wrap
<1> QED
  BY <1>1, <1>3, <1>4, <1>5, Zenon

\* The numeral of a number of Bits bits has at most Bits digits.
LEMMA NumeralTyped ==
  ASSUME NEW b, b = 10 \/ b = 16, NEW x \in 0..(2^Bits - 1)
  PROVE  /\ Printing!Numeral(x, b) \in Seq(Chars)
         /\ \E k \in Nat : IsLen(x, b, k) /\ k <= Bits /\ Printing!Numeral(x, b) = DigitsOf(x, b, k)
<1>1. PICK u \in Nat : u = 2^Bits
  BY PowersOf
<1>2. x \in Nat
  BY <1>1
<1>3. PICK k : IsLen(x, b, k)
  BY LenExists
<1>4. k \in Nat /\ k <= Bits
  <2>1. k \in 1..Bits /\ Bits \in Nat
    BY <1>3, PowersOf, Zenon DEF IsLen
  <2> QED
    BY <2>1
<1>5. Printing!Numeral(x, b) = DigitsOf(x, b, k)
  BY <1>2, <1>3, NumeralIs
<1>6. DigitsOf(x, b, k) \in Seq(Chars)
  BY <1>2, <1>4, DigitsTyped
<1> QED
  BY <1>3, <1>4, <1>5, <1>6, Zenon

\* So is the padding.
LEMMA RepeatTyped ==
  ASSUME NEW c \in Chars, NEW j \in Int
  PROVE  Printing!Repeat(c, j) \in Seq(Chars)
<1>1. CASE j \in Nat
  BY <1>1 DEF Printing!Repeat
<1>2. CASE j \notin Nat
  <2>1. [i \in 1..j |-> c] = <<>>
    BY <1>2
  <2> QED
    BY <2>1, EmptySeq DEF Printing!Repeat
<1> QED
  BY <1>1, <1>2

\* itos writes what a directive that prints a number asks for.
LEMMA ItosRight ==
  ASSUME NEW it, it.num \in Printing!Int_, it.kind \in {"d", "u", "x", "p"}, it.width \in Nat
  PROVE  /\ Printing!itos(it.num, it.kind, it.width, IF it.zero THEN "0" ELSE " ")
            = Printing!Expected(it)
         /\ Printing!Expected(it) \in Seq(Chars)
<1> DEFINE x       == it.num
           k       == it.kind
           b       == IF k \in {"x", "p"} THEN 16 ELSE 10
           y       == IF k = "d" /\ x < 0 THEN -x ELSE Printing!Uint(x)
           numeral == Printing!Numeral(y, b)
           c       == IF it.zero THEN "0" ELSE " "
           abs     == IF k = "d" /\ x < 0 THEN Printing!Wrap(-x) ELSE x
           digits  == IF k \in {"x", "p"} THEN Printing!fptd[Printing!Uint(x)]
                      ELSE Printing!fpt[Printing!Uint(abs)]
           prefix  == IF k = "p" THEN <<"0", "x">>
                      ELSE IF k = "d" /\ x < 0 THEN <<"-">> ELSE <<>>
           pad     == IF k = "p" THEN Printing!Repeat("0", 8 - Len(digits))
                      ELSE Printing!Repeat(c, it.width - Len(digits))
<1>1. /\ Printing!Uint(x) \in 0..(2^Bits - 1)
      /\ x < 0 => -x \in 0..(2^Bits - 1) /\ Printing!Uint(Printing!Wrap(-x)) = -x
  BY UintRight, Zenon
<1>2. y \in 0..(2^Bits - 1) /\ (b = 10 \/ b = 16)
  BY <1>1, Zenon
<1>3. digits = numeral
  <2>1. CASE k \in {"x", "p"}
    <3>1. k # "d"
      BY <2>1
    <3>2. y = Printing!Uint(x) /\ b = 16
      BY <2>1, <3>1, Zenon
    <3>3. Printing!fptd[Printing!Uint(x)] = Printing!Numeral(Printing!Uint(x), 16)
      BY <1>1, FptdRight, Zenon
    <3> QED
      BY <2>1, <3>2, <3>3, Zenon
  <2>2. CASE k \notin {"x", "p"}
    <3>1. Printing!Uint(abs) = y
      BY <1>1, Zenon
    <3>2. b = 10
      BY <2>2, Zenon
    <3>3. Printing!fpt[y] = Printing!Numeral(y, 10)
      BY <1>2, FptRight, Zenon
    <3> QED
      BY <2>2, <3>1, <3>2, <3>3, Zenon
  <2> QED
    BY <2>1, <2>2, Zenon
<1>4. numeral \in Seq(Chars)
  BY <1>2, NumeralTyped, Zenon
<1>5. Printing!itos(x, k, it.width, c) = (prefix \o pad) \o digits
  BY Zenon DEF Printing!itos
<1>6. c \in Chars /\ "0" \in Chars
  BY DEF Chars
<1>7. prefix \in Seq(Chars)
  <2>1. "0" \in Chars /\ "x" \in Chars /\ "-" \in Chars
    BY DEF Chars
  <2>2. <<>> \in Seq(Chars) /\ <<"-">> \in Seq(Chars) /\ <<"0", "x">> \in Seq(Chars)
    BY <2>1
  <2> QED
    BY <2>2, Zenon
<1>8. pad \in Seq(Chars)
  <2>1. Len(numeral) \in Nat
    BY <1>4, LenProperties
  <2>2. 8 - Len(numeral) \in Int /\ it.width - Len(numeral) \in Int
    BY <2>1
  <2>3. 8 - Len(digits) \in Int /\ it.width - Len(digits) \in Int
    BY <1>3, <2>2, Zenon
  <2> QED
    BY <1>6, <2>3, RepeatTyped, Zenon
<1>9. pad \o numeral = Printing!Padded(numeral, IF k = "p" THEN 8 ELSE it.width,
                                       IF k = "p" THEN "0" ELSE c)
  BY <1>3, Zenon DEF Printing!Padded, Printing!Repeat
<1> DEFINE body == pad \o numeral
<1>10. body \in Seq(Chars)
  <2> HIDE DEF pad, numeral
  <2> QED
    BY <1>4, <1>8, ConcatProperties
<1>11. (prefix \o pad) \o numeral = prefix \o body
  <2> HIDE DEF prefix, pad, numeral
  <2> QED
    BY <1>4, <1>7, <1>8, ConcatAssociative, SMTT(30)
<1>12. prefix \o body \in Seq(Chars)
  <2> HIDE DEF prefix, body
  <2> QED
    BY <1>7, <1>10, ConcatProperties
<1>13. <<>> \o body = body
  <2> HIDE DEF body
  <2> QED
    BY <1>10, ConcatEmptySeq
<1>14. Printing!Expected(it) = prefix \o body
  <2> DEFINE padded == Printing!Padded(numeral, it.width, c)
  <2>1. Printing!Expected(it)
        = CASE k \in {"plain", "c", "s"} -> it.txt
            [] k \in {"percent", "open"} -> <<>>
            [] k = "p" -> <<"0", "x">> \o Printing!Padded(numeral, 8, "0")
            [] k = "d" /\ x < 0 -> <<"-">> \o padded
            [] OTHER -> padded
    BY DEF Printing!Expected
  <2> HIDE DEF numeral, padded
  <2>2. CASE k = "p"
    <3>1. Printing!Expected(it) = <<"0", "x">> \o Printing!Padded(numeral, 8, "0")
      BY <2>1, <2>2
    <3>2. body = Printing!Padded(numeral, 8, "0") /\ prefix = <<"0", "x">>
      BY <1>9, <2>2, Zenon
    <3> QED
      BY <3>1, <3>2, Zenon
  <2>3. CASE k = "d" /\ x < 0
    <3>1. Printing!Expected(it) = <<"-">> \o padded
      BY <2>1, <2>3
    <3>2. k # "p"
      BY <2>3
    <3>3. body = padded /\ prefix = <<"-">>
      BY <1>9, <2>3, <3>2, Zenon DEF padded
    <3> QED
      BY <3>1, <3>3, Zenon
  <2>4. CASE k # "p" /\ ~(k = "d" /\ x < 0)
    <3>1. Printing!Expected(it) = padded
      BY <2>1, <2>4
    <3>2. body = padded /\ prefix = <<>>
      BY <1>9, <2>4, Zenon DEF padded
    <3> QED
      BY <1>13, <3>1, <3>2, Zenon
  <2> QED
    BY <2>2, <2>3, <2>4
<1> QED
  BY <1>3, <1>5, <1>11, <1>12, <1>14, Zenon

\* What an item of a format can be.
ItemIs(it) ==
  /\ it.kind \in {"d", "u", "x", "p", "c", "s", "percent", "plain", "open"}
  /\ it.zero \in BOOLEAN /\ it.width \in 0..9
  /\ it.kind \in {"d", "u", "x", "p"} => it.num \in Printing!Int_
  /\ it.kind \in {"plain", "c", "s"} => it.txt \in Seq(Chars)
  /\ it.kind = "plain" => it.txt = <<"d">>
  /\ it.kind = "percent" => it.zero = FALSE /\ it.width = 0
  /\ it \in Printing!Open <=> it.kind = "open"

\* Every item is as ItemIs says.
LEMMA ItemsAre ==
  ASSUME NEW it \in Printing!Numbers \cup Printing!Others \cup Printing!Open
  PROVE  ItemIs(it)
<1>1. Nums \subseteq Printing!Int_ /\ Widths \subseteq 0..9
  BY MemoryParameters, Zenon DEF Printing!FormatParameters
<1>2. /\ <<>> \in Seq(Chars) /\ <<"m">> \in Seq(Chars) /\ <<"d">> \in Seq(Chars)
      /\ <<"%", "d">> \in Seq(Chars)
  <2>1. "m" \in Chars /\ "d" \in Chars /\ "%" \in Chars
    BY DEF Chars
  <2> QED
    BY <2>1
<1>3. \A k, z, w, x, t :
        /\ Printing!Item(k, z, w, x, t).kind = k /\ Printing!Item(k, z, w, x, t).zero = z
        /\ Printing!Item(k, z, w, x, t).width = w /\ Printing!Item(k, z, w, x, t).num = x
        /\ Printing!Item(k, z, w, x, t).txt = t
  BY DEF Printing!Item
<1>4. \A k, x, t :
        /\ Printing!Item(k, FALSE, 0, x, t).kind = k /\ Printing!Item(k, FALSE, 0, x, t).zero = FALSE
        /\ Printing!Item(k, FALSE, 0, x, t).width = 0 /\ Printing!Item(k, FALSE, 0, x, t).num = x
        /\ Printing!Item(k, FALSE, 0, x, t).txt = t
  BY DEF Printing!Item
<1>5. \A a \in Printing!Open : a.kind = "open" /\ a.zero \in BOOLEAN /\ a.width \in 0..9
  BY <1>1, <1>3 DEF Printing!Open
<1>6. CASE it \in Printing!Open
  BY <1>5, <1>6 DEF ItemIs
<1>7. CASE it \in Printing!Numbers
  <2>1. PICK k \in {"d", "u", "x"}, z \in BOOLEAN, w \in Widths, x \in Nums : it = Printing!Item(k, z, w, x, <<>>)
    BY <1>7 DEF Printing!Numbers
  <2>2. it.kind = k /\ it.zero = z /\ it.width = w /\ it.num = x
    BY <1>3, <2>1
  <2>3. it.kind # "open" /\ it.kind \notin {"plain", "c", "s"} /\ it.kind # "percent" /\ it.kind # "plain"
        /\ it.kind \in {"d", "u", "x", "p", "c", "s", "percent", "plain", "open"}
    BY <2>1, <2>2
  <2>4. it.zero \in BOOLEAN /\ it.width \in 0..9 /\ it.num \in Printing!Int_
    BY <1>1, <2>1, <2>2, Zenon
  <2> QED
    BY <1>5, <2>3, <2>4, Zenon DEF ItemIs
<1>8. CASE it \in Printing!Others
  <2>1. FALSE \in BOOLEAN /\ 0 \in 0..9
    OBVIOUS
  <2>2. CASE it \in {Printing!Item("p", FALSE, 0, x, <<>>) : x \in Nums}
    <3>1. PICK x \in Nums : it = Printing!Item("p", FALSE, 0, x, <<>>)
      BY <2>2
    <3>2. it.kind = "p" /\ it.zero = FALSE /\ it.width = 0 /\ it.num = x
      BY <3>1 DEF Printing!Item
    <3>3. it.num \in Printing!Int_
      BY <1>1, <3>1, <3>2, Zenon
    <3>4. it.kind \in {"d", "u", "x", "p", "c", "s", "percent", "plain", "open"} /\ it.kind # "open"
          /\ it.kind \notin {"plain", "c", "s"}
          /\ it.kind # "plain"
          /\ it.kind # "percent"
      BY <3>2
    <3> QED
      BY <1>5, <2>1, <3>2, <3>3, <3>4, Zenon DEF ItemIs
  <2>3. CASE it \in {Printing!Item("s", FALSE, 0, 0, t) : t \in {<<>>, <<"m">>, <<"%", "d">>}}
    <3>1. PICK t \in {<<>>, <<"m">>, <<"%", "d">>} : it = Printing!Item("s", FALSE, 0, 0, t)
      BY <2>3
    <3>2. it.kind = "s" /\ it.zero = FALSE /\ it.width = 0 /\ it.txt = t
      BY <3>1 DEF Printing!Item
    <3>3. it.txt \in Seq(Chars)
      BY <1>2, <3>1, <3>2, Zenon
    <3>4. it.kind \in {"d", "u", "x", "p", "c", "s", "percent", "plain", "open"} /\ it.kind # "open"
          /\ it.kind \notin {"d", "u", "x", "p"}
          /\ it.kind # "plain"
          /\ it.kind # "percent"
      BY <3>2
    <3> QED
      BY <1>5, <2>1, <3>2, <3>3, <3>4, Zenon DEF ItemIs
  <2>4. CASE it = Printing!Item("c", FALSE, 0, 0, <<"m">>)
    <3>1. it.kind = "c" /\ it.zero = FALSE /\ it.width = 0 /\ it.txt = <<"m">>
      BY <2>4 DEF Printing!Item
    <3>2. it.txt \in Seq(Chars)
      BY <1>2, <3>1, Zenon
    <3>4. it.kind \in {"d", "u", "x", "p", "c", "s", "percent", "plain", "open"} /\ it.kind # "open"
          /\ it.kind \notin {"d", "u", "x", "p"}
          /\ it.kind # "plain"
          /\ it.kind # "percent"
      BY <3>1
    <3> QED
      BY <1>5, <2>1, <3>1, <3>2, <3>4, Zenon DEF ItemIs
  <2>5. CASE it = Printing!Item("percent", FALSE, 0, 0, <<>>)
    <3>1. it.kind = "percent" /\ it.zero = FALSE /\ it.width = 0
      BY <2>5 DEF Printing!Item
    <3>4. it.kind \in {"d", "u", "x", "p", "c", "s", "percent", "plain", "open"} /\ it.kind # "open"
          /\ it.kind \notin {"d", "u", "x", "p"}
          /\ it.kind \notin {"plain", "c", "s"}
          /\ it.kind # "plain"
      BY <3>1
    <3> QED
      BY <1>5, <2>1, <3>1, <3>4, Zenon DEF ItemIs
  <2>6. CASE it = Printing!Item("plain", FALSE, 0, 0, <<"d">>)
    <3>1. it.kind = "plain" /\ it.zero = FALSE /\ it.width = 0 /\ it.txt = <<"d">>
      BY <2>6 DEF Printing!Item
    <3>2. it.txt \in Seq(Chars)
      BY <1>2, <3>1, Zenon
    <3>4. it.kind \in {"d", "u", "x", "p", "c", "s", "percent", "plain", "open"} /\ it.kind # "open"
          /\ it.kind \notin {"d", "u", "x", "p"}
          /\ it.kind # "percent"
      BY <3>1
    <3> QED
      BY <1>5, <2>1, <3>1, <3>2, <3>4, Zenon DEF ItemIs
  <2> QED
    BY <1>8, <2>2, <2>3, <2>4, <2>5, <2>6, Zenon DEF Printing!Others
<1> QED
  BY <1>6, <1>7, <1>8, Zenon

\* One or no character each, joined: where they are.
FourTexts(a, b, c, e, s) ==
  /\ s \in Seq(Chars)
  /\ Len(s) = 1 + Len(b) + Len(c) + Len(e)
  /\ s[1] = a[1]
  /\ Len(b) = 1 => s[2] = b[1]
  /\ Len(c) = 1 => s[2 + Len(b)] = c[1]
  /\ Len(e) = 1 => s[2 + Len(b) + Len(c)] = e[1]

\* Where the parts of a text made of four are.
LEMMA FourJoined ==
  ASSUME NEW a \in Seq(Chars), NEW b \in Seq(Chars), NEW c \in Seq(Chars), NEW e \in Seq(Chars), NEW s,
         Len(a) = 1, s = ((a \o b) \o c) \o e
  PROVE  FourTexts(a, b, c, e, s)
<1> DEFINE p == a \o b
           q == p \o c
<1>9. s = q \o e
  OBVIOUS
<1>0. Len(b) \in Nat /\ Len(c) \in Nat /\ Len(e) \in Nat
  BY LenProperties
<1>1. /\ p \in Seq(Chars) /\ Len(p) = 1 + Len(b)
      /\ \A i \in 1..(1 + Len(b)) : p[i] = IF i <= 1 THEN a[i] ELSE b[i - 1]
  <2>1. /\ a \o b \in Seq(Chars) /\ Len(a \o b) = Len(a) + Len(b)
        /\ \A i \in 1..(Len(a) + Len(b)) : (a \o b)[i] = IF i <= Len(a) THEN a[i] ELSE b[i - Len(a)]
    BY ConcatProperties
  <2> QED
    BY <2>1, Zenon
<1> HIDE DEF p
<1>2. /\ q \in Seq(Chars) /\ Len(q) = Len(p) + Len(c)
      /\ \A i \in 1..(Len(p) + Len(c)) : q[i] = IF i <= Len(p) THEN p[i] ELSE c[i - Len(p)]
  BY <1>1, ConcatProperties
<1> HIDE DEF q
<1>3. /\ s \in Seq(Chars) /\ Len(s) = Len(q) + Len(e)
      /\ \A i \in 1..(Len(q) + Len(e)) : s[i] = IF i <= Len(q) THEN q[i] ELSE e[i - Len(q)]
  <2>1. /\ q \o e \in Seq(Chars) /\ Len(q \o e) = Len(q) + Len(e)
        /\ \A i \in 1..(Len(q) + Len(e)) : (q \o e)[i] = IF i <= Len(q) THEN q[i] ELSE e[i - Len(q)]
    BY <1>2, ConcatProperties
  <2> QED
    BY <1>9, <2>1, Zenon
<1>4. Len(s) = 1 + Len(b) + Len(c) + Len(e)
  BY <1>0, <1>1, <1>2, <1>3
<1>5. s[1] = a[1]
  <2>1. s[1] = q[1]
    BY <1>0, <1>1, <1>2, <1>3
  <2>2. q[1] = p[1]
    BY <1>0, <1>1, <1>2
  <2>3. p[1] = a[1]
    BY <1>0, <1>1
  <2> QED
    BY <2>1, <2>2, <2>3
<1>6. ASSUME Len(b) = 1 PROVE s[2] = b[1]
  <2>1. s[2] = q[2]
    BY <1>0, <1>1, <1>2, <1>3, <1>6
  <2>2. q[2] = p[2]
    BY <1>0, <1>1, <1>2, <1>6
  <2>3. p[2] = b[1]
    BY <1>0, <1>1, <1>6
  <2> QED
    BY <2>1, <2>2, <2>3
<1>7. ASSUME Len(c) = 1 PROVE s[2 + Len(b)] = c[1]
  <2>1. s[2 + Len(b)] = q[2 + Len(b)]
    BY <1>0, <1>1, <1>2, <1>3, <1>7
  <2>2. q[2 + Len(b)] = c[1]
    BY <1>0, <1>1, <1>2, <1>7
  <2> QED
    BY <2>1, <2>2
<1>8. ASSUME Len(e) = 1 PROVE s[2 + Len(b) + Len(c)] = e[1]
  BY <1>0, <1>1, <1>2, <1>3, <1>8
<1> QED
  BY <1>3, <1>4, <1>5, <1>6, <1>7, <1>8 DEF FourTexts

\* How a directive is written: %, 0 if it has one, its width if it has one, its letter.
Zero(it)   == IF it.zero THEN 1 ELSE 0
Wide(it)   == IF it.width > 0 THEN 1 ELSE 0
Letter(it) == IF it.kind = "percent" THEN "%" ELSE it.kind
Flagged(it) == 1 + Zero(it) + Wide(it)

\* A directive is its %, its flags and its letter, each in its place.
LEMMA WrittenRight ==
  ASSUME NEW it, ItemIs(it)
  PROVE  LET s == Printing!Written(it)
         IN /\ s \in Seq(Chars)
            /\ it.kind = "plain" => s = <<"d">>
            /\ it.kind # "plain" =>
                 /\ s[1] = "%"
                 /\ Len(s) = Flagged(it) + IF it.kind = "open" THEN 0 ELSE 1
                 /\ it.zero => s[2] = "0"
                 /\ it.width > 0 => s[2 + Zero(it)] = Printing!Digit(it.width)
                 /\ it.kind # "open" => s[1 + Flagged(it)] = Letter(it)
<1>1. CASE it.kind = "plain"
  <2>1. Printing!Written(it) = it.txt
    BY <1>1, Zenon DEF Printing!Written
  <2> QED
    BY <1>1, <2>1, Zenon DEF ItemIs
<1>2. CASE it.kind = "percent"
  <2>1. Printing!Written(it) = <<"%", "%">>
    BY <1>2 DEF Printing!Written
  <2>2. ~it.zero /\ it.width = 0 /\ it.kind # "plain" /\ it.kind # "open"
    BY <1>2 DEF ItemIs
  <2>3. Zero(it) = 0 /\ Wide(it) = 0 /\ Flagged(it) = 1 /\ Letter(it) = "%" /\ ~(it.width > 0)
    BY <1>2, <2>2 DEF Zero, Wide, Flagged, Letter
  <2>4. <<"%", "%">> \in Seq(Chars)
    <3>1. "%" \in Chars
      BY DEF Chars
    <3> QED
      BY <3>1
  <2>5. Len(<<"%", "%">>) = 2 /\ <<"%", "%">>[1] = "%" /\ <<"%", "%">>[2] = "%"
    OBVIOUS
  <2>6. 1 + 1 = 2
    OBVIOUS
  <2> QED
    BY <2>1, <2>2, <2>3, <2>4, <2>5, <2>6, Zenon
<1>3. CASE it.kind # "plain" /\ it.kind # "percent"
  <2> DEFINE a == <<"%">>
             b == IF it.zero THEN <<"0">> ELSE <<>>
             c == IF it.width > 0 THEN <<Printing!Digit(it.width)>> ELSE <<>>
             e == IF it.kind = "open" THEN <<>> ELSE <<it.kind>>
  <2>1. Printing!Written(it) = ((a \o b) \o c) \o e
    BY <1>3 DEF Printing!Written
  <2>2. "%" \in Chars /\ "0" \in Chars /\ Printing!Digit(it.width) \in Chars
    <3>1. it.width \in 0..15
      BY DEF ItemIs
    <3>2. Printing!Digit(it.width) \in Chars
      BY <3>1, DigitTyped
    <3> QED
      BY <3>2 DEF Chars
  <2>3. it.kind # "open" => it.kind \in Chars
    BY <1>3 DEF ItemIs, Chars
  <2>4. a \in Seq(Chars) /\ Len(a) = 1 /\ a[1] = "%"
    BY <2>2
  <2>5. b \in Seq(Chars) /\ Len(b) = Zero(it) /\ (it.zero => b[1] = "0")
    BY <2>2 DEF Zero
  <2>6. c \in Seq(Chars) /\ Len(c) = Wide(it) /\ (it.width > 0 => c[1] = Printing!Digit(it.width))
    BY <2>2 DEF Wide
  <2>7. e \in Seq(Chars) /\ Len(e) = (IF it.kind = "open" THEN 0 ELSE 1)
        /\ (it.kind # "open" => e[1] = it.kind)
    BY <2>3
  <2> HIDE DEF a, b, c, e
  <2> DEFINE s == ((a \o b) \o c) \o e
  <2>8. /\ s \in Seq(Chars)
        /\ Len(s) = 1 + Len(b) + Len(c) + Len(e)
        /\ s[1] = a[1]
        /\ Len(b) = 1 => s[2] = b[1]
        /\ Len(c) = 1 => s[2 + Len(b)] = c[1]
        /\ Len(e) = 1 => s[2 + Len(b) + Len(c)] = e[1]
    <3>1. a \in Seq(Chars) /\ b \in Seq(Chars) /\ c \in Seq(Chars) /\ e \in Seq(Chars) /\ Len(a) = 1
      BY <2>4, <2>5, <2>6, <2>7, Zenon
    <3>2. s = ((a \o b) \o c) \o e
      OBVIOUS
    <3> HIDE DEF s
    <3>3. FourTexts(a, b, c, e, s)
      BY <3>1, <3>2, FourJoined
    <3> QED
      BY <3>3, Zenon DEF FourTexts
  <2> HIDE DEF s
  <2>9. (it.zero => Zero(it) = 1) /\ (it.width > 0 => Wide(it) = 1)
        /\ Zero(it) \in 0..1 /\ Wide(it) \in 0..1
    BY DEF Zero, Wide
  <2>10. it.kind # "open" => 2 + Zero(it) + Wide(it) = 1 + Flagged(it)
    BY <2>9 DEF Flagged
  <2>11. Letter(it) = it.kind
    BY <1>3 DEF Letter
  <2>12. it.kind # "open" => s[1 + Flagged(it)] = Letter(it)
    BY <2>5, <2>6, <2>7, <2>8, <2>10, <2>11, Zenon
  <2>13. Len(s) = Flagged(it) + IF it.kind = "open" THEN 0 ELSE 1
    BY <2>5, <2>6, <2>7, <2>8, Zenon DEF Flagged
  <2>14. it.zero => s[2] = "0"
    BY <2>5, <2>8, <2>9, Zenon
  <2>15. it.width > 0 => s[2 + Zero(it)] = Printing!Digit(it.width)
    BY <2>5, <2>6, <2>8, <2>9, Zenon
  <2> QED
    BY <1>3, <2>1, <2>4, <2>8, <2>12, <2>13, <2>14, <2>15, Zenon DEF s
<1> QED
  BY <1>1, <1>2, <1>3, Zenon

Items == Printing!Numbers \cup Printing!Others \cup Printing!Open

\* Every item of a format is as ItemIs says, and a directive cut off is the last.
LEMMA FormatsAre ==
  ASSUME NEW s \in Printing!Formats
  PROVE  /\ Len(s) \in Nat
         /\ \A i \in 1..Len(s) : s[i] \in Items /\ ItemIs(s[i]) /\ (s[i].kind = "open" => i = Len(s))
<1>1. PICK k \in 0..MaxItems : s \in [1..k -> Items]
  BY DEF Printing!Formats, Items
<1>2. \A i \in DOMAIN s : s[i] \in Printing!Open => i = Len(s)
  BY Zenon DEF Printing!Formats
<1>3. k \in Nat
  BY <1>1, MemoryParameters DEF Printing!FormatParameters
<1>4. DOMAIN s = 1..k /\ Len(s) = k
  <2> HIDE DEF Items
  <2> QED
    BY <1>1, <1>3
<1>5. \A i \in 1..k : s[i] \in Items
  <2> HIDE DEF Items
  <2> QED
    BY <1>1
<1>6. \A i \in 1..k : ItemIs(s[i])
  BY <1>5, ItemsAre, Zenon DEF Items
<1>7. \A i \in 1..k : s[i].kind = "open" => i = Len(s)
  BY <1>2, <1>4, <1>6, Zenon DEF ItemIs
<1> QED
  BY <1>3, <1>4, <1>5, <1>6, <1>7, Zenon

-----------------------------------------------------------------------------
(* What a format consists of.                                                *)

\* What is written, printed and taken for the first items of s.
FmtTo(s)  == CHOOSE f : f = [k \in 0..Len(s) |-> IF k = 0 THEN <<>> ELSE f[k - 1] \o Printing!Written(s[k])]
OutTo(s)  == CHOOSE f : f = [k \in 0..Len(s) |-> IF k = 0 THEN <<>> ELSE f[k - 1] \o Printing!Expected(s[k])]
ArgsTo(s) == CHOOSE f : f = [k \in 0..Len(s) |-> IF k = 0 THEN <<>> ELSE f[k - 1] \o Printing!Taken(s[k])]

WrittenOf(s)  == [k \in 1..Len(s) |-> Printing!Written(s[k])]
ExpectedOf(s) == [k \in 1..Len(s) |-> Printing!Expected(s[k])]
TakenOf(s)    == [k \in 1..Len(s) |-> Printing!Taken(s[k])]

\* They are what the specification joins.
LEMMA Joined ==
  /\ Printing!fmt = FmtTo(items)[Len(items)]
  /\ Printing!args = ArgsTo(items)[Len(items)]
  /\ Printing!Concat(Printing!Expected, items) = OutTo(items)[Len(items)]
BY Zenon DEF Printing!fmt, Printing!args, Printing!Concat, FmtTo, ArgsTo, OutTo

\* Each item's texts are of characters, its argument is an item.
LEMMA TextsTyped ==
  ASSUME NEW it \in Items
  PROVE  /\ Printing!Written(it) \in Seq(Chars) /\ Printing!Expected(it) \in Seq(Chars)
         /\ Printing!Taken(it) \in Seq(Items)
<1>1. ItemIs(it)
  BY ItemsAre, Zenon DEF Items
<1>2. Printing!Written(it) \in Seq(Chars)
  BY <1>1, WrittenRight
<1>3. Printing!Taken(it) \in Seq(Items)
  <2> HIDE DEF Items
  <2>1. <<it>> \in Seq(Items) /\ <<>> \in Seq(Items)
    OBVIOUS
  <2> QED
    BY <2>1, Zenon DEF Printing!Taken
<1>4. Printing!Expected(it) \in Seq(Chars)
  <2>1. CASE it.kind \in {"d", "u", "x", "p"}
    <3>1. it.num \in Printing!Int_ /\ it.width \in Nat
      BY <1>1, <2>1 DEF ItemIs
    <3> QED
      BY <2>1, <3>1, ItosRight
  <2>2. CASE it.kind \in {"plain", "c", "s"}
    <3>1. it.txt \in Seq(Chars)
      BY <1>1, <2>2, Zenon DEF ItemIs
    <3>2. Printing!Expected(it) = it.txt
      BY <2>2, Zenon DEF Printing!Expected
    <3> QED
      BY <3>1, <3>2, Zenon
  <2>3. CASE it.kind \in {"percent", "open"}
    <3>1. it.kind \notin {"plain", "c", "s"}
      BY <2>3
    <3>2. Printing!Expected(it) = <<>>
      BY <2>3, <3>1 DEF Printing!Expected
    <3> QED
      BY <3>2, EmptySeq
  <2>4. it.kind \in {"d", "u", "x", "p", "c", "s", "percent", "plain", "open"}
    BY <1>1, Zenon DEF ItemIs
  <2> QED
    BY <2>1, <2>2, <2>3, <2>4
<1> QED
  BY <1>2, <1>3, <1>4

\* The texts that a format, its output and its arguments are joined from.
LEMMA Texts ==
  ASSUME NEW s \in Printing!Formats
  PROVE  /\ Len(s) \in Nat
         /\ WrittenOf(s) \in [1..Len(s) -> Seq(Chars)]
         /\ ExpectedOf(s) \in [1..Len(s) -> Seq(Chars)]
         /\ TakenOf(s) \in [1..Len(s) -> Seq(Items)]
<1> DEFINE m == Len(s)
<1>1. m \in Nat /\ \A i \in 1..m : s[i] \in Items
  BY FormatsAre, Zenon
<1>2. \A i \in 1..m : /\ Printing!Written(s[i]) \in Seq(Chars)
                      /\ Printing!Expected(s[i]) \in Seq(Chars)
                      /\ Printing!Taken(s[i]) \in Seq(Items)
  BY <1>1, TextsTyped, Zenon
<1>3. WrittenOf(s) = [k \in 1..m |-> Printing!Written(s[k])]
      /\ ExpectedOf(s) = [k \in 1..m |-> Printing!Expected(s[k])]
      /\ TakenOf(s) = [k \in 1..m |-> Printing!Taken(s[k])]
  BY Zenon DEF WrittenOf, ExpectedOf, TakenOf
<1> DEFINE C == Seq(Chars)
           I == Seq(Items)
<1> HIDE DEF m, C, I
<1>4. [k \in 1..m |-> Printing!Written(s[k])] \in [1..m -> C]
      /\ [k \in 1..m |-> Printing!Expected(s[k])] \in [1..m -> C]
      /\ [k \in 1..m |-> Printing!Taken(s[k])] \in [1..m -> I]
  BY <1>2, Zenon DEF C, I
<1> QED
  BY <1>1, <1>3, <1>4, Zenon DEF m, C, I

\* The format is joined from the directives,
LEMMA FmtJoins ==
  ASSUME NEW s \in Printing!Formats
  PROVE  Joins(FmtTo(s), Chars, WrittenOf(s), Len(s))
<1> DEFINE m == Len(s)
           t == WrittenOf(s)
           P(f) == f = [k \in 0..m |-> IF k = 0 THEN <<>> ELSE f[k - 1] \o Printing!Written(s[k])]
           Q(f) == f = [k \in 0..m |-> IF k = 0 THEN <<>> ELSE f[k - 1] \o t[k]]
<1>1. m \in Nat /\ t \in [1..m -> Seq(Chars)]
  BY Texts, Zenon
<1>2. \A k \in 1..m : t[k] = Printing!Written(s[k])
  BY DEF WrittenOf
<1>3. \A k \in 0..m : k # 0 => k \in 1..m
  BY <1>1
<1> HIDE DEF m, t
<1>4. \A f : P(f) <=> Q(f)
  <2> SUFFICES ASSUME NEW f PROVE P(f) <=> Q(f)
    OBVIOUS
  <2>1. \A k \in 0..m : (IF k = 0 THEN <<>> ELSE f[k - 1] \o Printing!Written(s[k]))
                        = IF k = 0 THEN <<>> ELSE f[k - 1] \o t[k]
    BY <1>2, <1>3, Zenon
  <2>2. [k \in 0..m |-> IF k = 0 THEN <<>> ELSE f[k - 1] \o Printing!Written(s[k])]
        = [k \in 0..m |-> IF k = 0 THEN <<>> ELSE f[k - 1] \o t[k]]
    BY <2>1, Zenon
  <2> QED
    BY <2>2, Zenon
<1>5. \E f : Q(f)
  BY <1>1, JoinsExist, Zenon
<1>6. P(CHOOSE f : P(f))
  BY <1>4, <1>5, Zenon
<1>7. FmtTo(s) = CHOOSE f : P(f)
  BY Zenon DEF FmtTo, m
<1>8. Q(FmtTo(s))
  BY <1>4, <1>6, <1>7, Zenon
<1> QED
  BY <1>1, <1>8, JoinsTyped, Zenon DEF m, t

\* the output from what they print,
LEMMA OutJoins ==
  ASSUME NEW s \in Printing!Formats
  PROVE  Joins(OutTo(s), Chars, ExpectedOf(s), Len(s))
<1> DEFINE m == Len(s)
           t == ExpectedOf(s)
           P(f) == f = [k \in 0..m |-> IF k = 0 THEN <<>> ELSE f[k - 1] \o Printing!Expected(s[k])]
           Q(f) == f = [k \in 0..m |-> IF k = 0 THEN <<>> ELSE f[k - 1] \o t[k]]
<1>1. m \in Nat /\ t \in [1..m -> Seq(Chars)]
  BY Texts, Zenon
<1>2. \A k \in 1..m : t[k] = Printing!Expected(s[k])
  BY DEF ExpectedOf
<1>3. \A k \in 0..m : k # 0 => k \in 1..m
  BY <1>1
<1> HIDE DEF m, t
<1>4. \A f : P(f) <=> Q(f)
  <2> SUFFICES ASSUME NEW f PROVE P(f) <=> Q(f)
    OBVIOUS
  <2>1. \A k \in 0..m : (IF k = 0 THEN <<>> ELSE f[k - 1] \o Printing!Expected(s[k]))
                        = IF k = 0 THEN <<>> ELSE f[k - 1] \o t[k]
    BY <1>2, <1>3, Zenon
  <2>2. [k \in 0..m |-> IF k = 0 THEN <<>> ELSE f[k - 1] \o Printing!Expected(s[k])]
        = [k \in 0..m |-> IF k = 0 THEN <<>> ELSE f[k - 1] \o t[k]]
    BY <2>1, Zenon
  <2> QED
    BY <2>2, Zenon
<1>5. \E f : Q(f)
  BY <1>1, JoinsExist, Zenon
<1>6. P(CHOOSE f : P(f))
  BY <1>4, <1>5, Zenon
<1>7. OutTo(s) = CHOOSE f : P(f)
  BY Zenon DEF OutTo, m
<1>8. Q(OutTo(s))
  BY <1>4, <1>6, <1>7, Zenon
<1> QED
  BY <1>1, <1>8, JoinsTyped, Zenon DEF m, t

\* and the arguments from those they take.
LEMMA ArgsJoins ==
  ASSUME NEW s \in Printing!Formats
  PROVE  Joins(ArgsTo(s), Items, TakenOf(s), Len(s))
<1> DEFINE m == Len(s)
           t == TakenOf(s)
           P(f) == f = [k \in 0..m |-> IF k = 0 THEN <<>> ELSE f[k - 1] \o Printing!Taken(s[k])]
           Q(f) == f = [k \in 0..m |-> IF k = 0 THEN <<>> ELSE f[k - 1] \o t[k]]
<1>1. m \in Nat /\ t \in [1..m -> Seq(Items)]
  BY Texts, Zenon
<1>2. \A k \in 1..m : t[k] = Printing!Taken(s[k])
  BY DEF TakenOf
<1>3. \A k \in 0..m : k # 0 => k \in 1..m
  BY <1>1
<1> HIDE DEF m, t
<1>4. \A f : P(f) <=> Q(f)
  <2> SUFFICES ASSUME NEW f PROVE P(f) <=> Q(f)
    OBVIOUS
  <2>1. \A k \in 0..m : (IF k = 0 THEN <<>> ELSE f[k - 1] \o Printing!Taken(s[k]))
                        = IF k = 0 THEN <<>> ELSE f[k - 1] \o t[k]
    BY <1>2, <1>3, Zenon
  <2>2. [k \in 0..m |-> IF k = 0 THEN <<>> ELSE f[k - 1] \o Printing!Taken(s[k])]
        = [k \in 0..m |-> IF k = 0 THEN <<>> ELSE f[k - 1] \o t[k]]
    BY <2>1, Zenon
  <2> QED
    BY <2>2, Zenon
<1>5. \E f : Q(f)
  BY <1>1, JoinsExist, Zenon
<1>6. P(CHOOSE f : P(f))
  BY <1>4, <1>5, Zenon
<1>7. ArgsTo(s) = CHOOSE f : P(f)
  BY Zenon DEF ArgsTo, m
<1>8. Q(ArgsTo(s))
  BY <1>4, <1>6, <1>7, Zenon
<1> QED
  BY <1>1, <1>8, JoinsTyped, Zenon DEF m, t

-----------------------------------------------------------------------------
(* Reading a format.                                                         *)

\* Where item k + 1 is in the format, and what it adds.
Lies(s, k) ==
  /\ ItemIs(s[k + 1]) /\ (s[k + 1].kind = "open" => k + 1 = Len(s))
  /\ Len(FmtTo(s)[k]) \in Nat /\ Len(Printing!Written(s[k + 1])) \in Nat
  /\ Len(FmtTo(s)[Len(s)]) \in Nat /\ Len(ArgsTo(s)[k]) \in Nat
  /\ Len(FmtTo(s)[k + 1]) = Len(FmtTo(s)[k]) + Len(Printing!Written(s[k + 1]))
  /\ Len(FmtTo(s)[k]) + Len(Printing!Written(s[k + 1])) <= Len(FmtTo(s)[Len(s)])
  /\ k + 1 = Len(s) => Len(FmtTo(s)[Len(s)]) = Len(FmtTo(s)[k]) + Len(Printing!Written(s[k + 1]))
  /\ \A i \in 1..Len(Printing!Written(s[k + 1])) :
       FmtTo(s)[Len(s)][Len(FmtTo(s)[k]) + i] = Printing!Written(s[k + 1])[i]
  /\ OutTo(s)[k] \in Seq(Chars)
  /\ OutTo(s)[k + 1] = OutTo(s)[k] \o Printing!Expected(s[k + 1])
  /\ Len(ArgsTo(s)[k + 1]) = Len(ArgsTo(s)[k]) + Len(Printing!Taken(s[k + 1]))
  /\ \A i \in 1..Len(Printing!Taken(s[k + 1])) :
       ArgsTo(s)[Len(s)][Len(ArgsTo(s)[k]) + i] = Printing!Taken(s[k + 1])[i]

\* So item k + 1 is in the format where Lies says.
LEMMA Layout ==
  ASSUME NEW s \in Printing!Formats, NEW k \in 0..(Len(s) - 1)
  PROVE  Lies(s, k)
<1> DEFINE m == Len(s)
<1>1. m \in Nat
  BY FormatsAre
<1>2. k + 1 \in 1..m
  BY <1>1
<1>3. ItemIs(s[k + 1]) /\ (s[k + 1].kind = "open" => k + 1 = m)
  BY <1>2, FormatsAre, Zenon
<1>4. WrittenOf(s)[k + 1] = Printing!Written(s[k + 1])
      /\ ExpectedOf(s)[k + 1] = Printing!Expected(s[k + 1])
      /\ TakenOf(s)[k + 1] = Printing!Taken(s[k + 1])
  BY <1>2 DEF WrittenOf, ExpectedOf, TakenOf
<1>5. Joins(FmtTo(s), Chars, WrittenOf(s), m) /\ Joins(OutTo(s), Chars, ExpectedOf(s), m)
      /\ Joins(ArgsTo(s), Items, TakenOf(s), m)
  BY FmtJoins, OutJoins, ArgsJoins, Zenon
<1>6. WrittenOf(s) \in [1..m -> Seq(Chars)] /\ ExpectedOf(s) \in [1..m -> Seq(Chars)]
      /\ TakenOf(s) \in [1..m -> Seq(Items)]
  BY Texts, Zenon
<1>7. JoinAt(FmtTo(s), WrittenOf(s), m, k) /\ JoinAt(OutTo(s), ExpectedOf(s), m, k)
      /\ JoinAt(ArgsTo(s), TakenOf(s), m, k)
  BY <1>1, <1>5, <1>6, JoinedAt
<1>8. OutTo(s)[k] \in Seq(Chars)
  <2>1. k \in 0..m
    BY <1>1
  <2> QED
    BY <1>1, <1>5, <1>6, <2>1, JoinedFront
<1>9. ASSUME k + 1 = m
      PROVE  Len(FmtTo(s)[m]) = Len(FmtTo(s)[k]) + Len(Printing!Written(s[k + 1]))
  <2>1. Len(FmtTo(s)[k + 1]) = Len(FmtTo(s)[k]) + Len(Printing!Written(s[k + 1]))
    BY <1>4, <1>7, Zenon DEF JoinAt
  <2> QED
    BY <1>9, <2>1, Zenon
<1>10. \A i \in 1..Len(Printing!Written(s[k + 1])) :
         FmtTo(s)[Len(s)][Len(FmtTo(s)[k]) + i] = Printing!Written(s[k + 1])[i]
  BY <1>4, <1>7, Zenon DEF JoinAt
<1>11. \A i \in 1..Len(Printing!Taken(s[k + 1])) :
         ArgsTo(s)[Len(s)][Len(ArgsTo(s)[k]) + i] = Printing!Taken(s[k + 1])[i]
  BY <1>4, <1>7, Zenon DEF JoinAt
<1>12. /\ Len(FmtTo(s)[k]) \in Nat /\ Len(Printing!Written(s[k + 1])) \in Nat
       /\ Len(FmtTo(s)[m]) \in Nat /\ Len(ArgsTo(s)[k]) \in Nat
       /\ Len(FmtTo(s)[k + 1]) = Len(FmtTo(s)[k]) + Len(Printing!Written(s[k + 1]))
       /\ Len(FmtTo(s)[k]) + Len(Printing!Written(s[k + 1])) <= Len(FmtTo(s)[m])
       /\ OutTo(s)[k + 1] = OutTo(s)[k] \o Printing!Expected(s[k + 1])
       /\ Len(ArgsTo(s)[k + 1]) = Len(ArgsTo(s)[k]) + Len(Printing!Taken(s[k + 1]))
  BY <1>4, <1>7, Zenon DEF JoinAt
<1> QED
  BY <1>3, <1>8, <1>9, <1>10, <1>11, <1>12, Zenon DEF Lies

\* The characters that are digits, and those that are not.
LEMMA DigitsApart ==
  ASSUME NEW d \in 0..15, NEW e \in 0..15, Printing!Digit(d) = Printing!Digit(e)
  PROVE  d = e
<1>1. d + 1 \in 1..16 /\ e + 1 \in 1..16
  OBVIOUS
<1>2. Printing!Digits[d + 1] = Printing!Digits[e + 1]
  BY Zenon DEF Printing!Digit
<1>3. d + 1 = e + 1
  BY <1>1, <1>2, DigitTable
<1> QED
  BY <1>3

\* A digit is one, has its value, and is neither a letter nor the flag 0 unless it is 0.
LEMMA DigitRight ==
  ASSUME NEW d \in 0..9
  PROVE  /\ Printing!isdigit(Printing!Digit(d)) /\ Printing!DigitValue(Printing!Digit(d)) = d
         /\ Printing!Digit(d) \notin Printing!Kinds
         /\ d > 0 => Printing!Digit(d) # "0"
         /\ Printing!Digit(0) = "0"
<1>1. d \in 0..15 /\ 0 \in 0..15 /\ 0 + 1 = 1
  OBVIOUS
<1>2. Printing!isdigit(Printing!Digit(d))
  BY Zenon DEF Printing!isdigit
<1>3. Printing!DigitValue(Printing!Digit(d)) = d
  <2> DEFINE v == CHOOSE x \in 0..15 : Printing!Digit(x) = Printing!Digit(d)
  <2>1. v \in 0..15 /\ Printing!Digit(v) = Printing!Digit(d)
    BY <1>1, Zenon
  <2>2. Printing!DigitValue(Printing!Digit(d)) = v
    BY Zenon DEF Printing!DigitValue
  <2> HIDE DEF v
  <2> QED
    BY <1>1, <2>1, <2>2, DigitsApart
<1>4. Printing!Digit(0) = "0"
  BY <1>1, DigitTable, Zenon DEF Printing!Digit
<1>5. d > 0 => Printing!Digit(d) # "0"
  <2>1. d > 0 => d # 0
    OBVIOUS
  <2> QED
    BY <1>1, <1>4, <2>1, DigitsApart, Zenon
<1>6. Printing!Digit(d) \notin Printing!Kinds
  <2>1. d + 1 \in 1..10
    OBVIOUS
  <2>2. Printing!Digits[d + 1] \notin {"d", "u", "x", "p", "c", "s"}
    BY <2>1, DigitTable
  <2> QED
    BY <2>2, Zenon DEF Printing!Digit, Printing!Kinds
<1> QED
  BY <1>2, <1>3, <1>4, <1>5, <1>6

\* The letter that ends a directive is not a digit, and says what it prints.
LEMMA LettersAreNoDigits ==
  ASSUME NEW it, ItemIs(it), it.kind # "open", it.kind # "plain"
  PROVE  ~Printing!isdigit(Letter(it))
         /\ (Letter(it) \in Printing!Kinds <=> it.kind # "percent")
         /\ (it.kind # "percent" => Letter(it) = it.kind)
<1>1. Letter(it) \in {"d", "u", "x", "p", "c", "s", "%"}
      /\ (Letter(it) \in {"d", "u", "x", "p", "c", "s"} <=> it.kind # "percent")
      /\ (it.kind # "percent" => Letter(it) = it.kind)
  BY DEF ItemIs, Letter
<1>2. ASSUME NEW d \in 0..9 PROVE Letter(it) # Printing!Digit(d)
  <2>1. Printing!Digit(d) \notin {"d", "u", "x", "p", "c", "s"}
    BY DigitRight, Zenon DEF Printing!Kinds
  <2>2. Printing!Digit(d) # "%"
    <3>1. d + 1 \in 1..10
      OBVIOUS
    <3>2. Printing!Digits[d + 1] # "%"
      BY <3>1, DigitTable
    <3> QED
      BY <3>2, Zenon DEF Printing!Digit
  <2> QED
    BY <1>1, <2>1, <2>2
<1>3. ~Printing!isdigit(Letter(it))
  BY <1>2, Zenon DEF Printing!isdigit
<1> QED
  BY <1>1, <1>3, Zenon DEF Printing!Kinds

\* What is read at each place of a directive.
ReadAt(s, k, j, p) ==
  LET it == s[k + 1]
      f  == FmtTo(s)[Len(s)]
  IN /\ p > Len(f) => it.kind = "open" /\ j = Flagged(it)
     /\ ~(p > Len(f)) => it.kind # "open" \/ j # Flagged(it)
     /\ j # Flagged(it) => \/ it.zero /\ j = 1 /\ f[p] = "0"
                           \/ /\ it.width > 0 /\ j = 1 + Zero(it) /\ j + 1 = Flagged(it)
                              /\ f[p] = Printing!Digit(it.width)
     /\ it.kind # "open" /\ j = Flagged(it) => f[p] = Letter(it) /\ p = Len(FmtTo(s)[k + 1])

\* So inside a directive vsprintf reads what the directive says, in its order.
LEMMA Reads ==
  ASSUME NEW s \in Printing!Formats, NEW k \in 0..(Len(s) - 1), s[k + 1].kind # "plain",
         NEW j \in 1..Flagged(s[k + 1]), NEW p, p = Len(FmtTo(s)[k]) + 1 + j
  PROVE  ReadAt(s, k, j, p)
<1> DEFINE it == s[k + 1]
           f  == FmtTo(s)[Len(s)]
           w  == Printing!Written(it)
           a  == Len(FmtTo(s)[k])
<1>1. Lies(s, k)
  BY Layout
<1>2. /\ ItemIs(it) /\ (it.kind = "open" => k + 1 = Len(s))
      /\ a \in Nat /\ Len(w) \in Nat /\ Len(f) \in Nat
      /\ Len(FmtTo(s)[k + 1]) = a + Len(w)
      /\ a + Len(w) <= Len(f)
      /\ (k + 1 = Len(s) => Len(f) = a + Len(w))
      /\ \A i \in 1..Len(w) : f[a + i] = w[i]
  BY <1>1, Zenon DEF Lies
<1>3. it.kind # "plain"
  OBVIOUS
<1>4. p = a + 1 + j /\ j \in 1..Flagged(it)
  OBVIOUS
<1> HIDE DEF it, f, w, a
<1>5. /\ Len(w) = Flagged(it) + IF it.kind = "open" THEN 0 ELSE 1
      /\ it.zero => w[2] = "0"
      /\ it.width > 0 => w[2 + Zero(it)] = Printing!Digit(it.width)
      /\ it.kind # "open" => w[1 + Flagged(it)] = Letter(it)
  BY <1>2, <1>3, WrittenRight DEF w
<1>6. /\ Zero(it) \in 0..1 /\ Wide(it) \in 0..1 /\ Flagged(it) = 1 + Zero(it) + Wide(it)
      /\ (Zero(it) = 1 => it.zero) /\ (Wide(it) = 1 => it.width > 0)
      /\ (Zero(it) = 0 => ~it.zero) /\ (Wide(it) = 0 => ~(it.width > 0))
  BY DEF Zero, Wide, Flagged
<1>7. p > Len(f) => it.kind = "open" /\ j = Flagged(it)
  BY <1>2, <1>4, <1>5, <1>6, SMTT(30)
<1>8. ~(p > Len(f)) => it.kind # "open" \/ j # Flagged(it)
  BY <1>2, <1>4, <1>5, <1>6, SMTT(30)
<1>9. ASSUME j # Flagged(it)
      PROVE  \/ it.zero /\ j = 1 /\ f[p] = "0"
             \/ /\ it.width > 0 /\ j = 1 + Zero(it) /\ j + 1 = Flagged(it)
                /\ f[p] = Printing!Digit(it.width)
  <2>1. 1 + j \in 1..Len(w) /\ p = a + (1 + j)
    BY <1>2, <1>4, <1>5, <1>6, <1>9, SMTT(30)
  <2>2. f[p] = w[1 + j]
    BY <1>2, <2>1, Zenon
  <2>3. \/ it.zero /\ j = 1 /\ 1 + j = 2
        \/ it.width > 0 /\ j = 1 + Zero(it) /\ j + 1 = Flagged(it) /\ 1 + j = 2 + Zero(it)
    BY <1>4, <1>6, <1>9
  <2> QED
    BY <1>5, <2>2, <2>3, Zenon
<1>10. ASSUME it.kind # "open", j = Flagged(it)
       PROVE  f[p] = Letter(it) /\ p = Len(FmtTo(s)[k + 1])
  <2>0. Len(w) = Flagged(it) + 1 /\ Flagged(it) \in Nat /\ a \in Nat
    BY <1>2, <1>5, <1>6, <1>10
  <2>1. 1 + j \in 1..Len(w) /\ p = a + (1 + j) /\ p = a + Len(w)
    BY <1>4, <1>10, <2>0, SMTT(30)
  <2>2. f[p] = w[1 + Flagged(it)]
    BY <1>2, <1>10, <2>1, Zenon
  <2> QED
    BY <1>2, <1>5, <1>10, <2>1, <2>2, Zenon
<1> QED
  BY <1>7, <1>8, <1>9, <1>10, Zenon DEF ReadAt, it, f

-----------------------------------------------------------------------------
(* The invariant of vsprintf.                                                *)

\* k items have been printed and their arguments taken.
Printed(s, k, o, u) == o = OutTo(s)[k] /\ u = Len(ArgsTo(s)[k])

\* vsprintf is between two items, or inside a directive, j characters of which it has read.
Between(s, k, p, o, u) == Printed(s, k, o, u) /\ p = Len(FmtTo(s)[k]) + 1

Within(s, k, j, p, o, u, c, l) ==
  /\ s[k + 1].kind # "plain" /\ Printed(s, k, o, u) /\ p = Len(FmtTo(s)[k]) + 1 + j
  /\ c = IF s[k + 1].zero /\ j >= 2 THEN "0" ELSE " "
  /\ l = IF s[k + 1].width > 0 /\ j = Flagged(s[k + 1]) THEN s[k + 1].width ELSE 0

PrintState(s, p, o, u, c, l, at) ==
  /\ s \in Printing!Formats
  /\ at \in {"scan", "directive", "done", "beyond"}
  /\ at = "scan" => \E k \in 0..Len(s) : Between(s, k, p, o, u)
  /\ at = "directive" => \E k \in 0..(Len(s) - 1) : \E j \in 1..Flagged(s[k + 1]) :
                            Within(s, k, j, p, o, u, c, l)
  /\ at \in {"done", "beyond"} => Printed(s, Len(s), o, u)
  /\ at = "beyond" => Len(s) \in Nat /\ Len(s) > 0 /\ s[Len(s)].kind = "open"

PrintInv == PrintState(items, pos, output, used, occupy, limit, fmt_pc)

\* Between two items is a state of the outer loop.
LEMMA PrintScan ==
  ASSUME NEW s \in Printing!Formats, NEW k \in 0..Len(s), NEW p, NEW o, NEW u, NEW c, NEW l,
         Between(s, k, p, o, u)
  PROVE  PrintState(s, p, o, u, c, l, "scan")
<1>1. "scan" \notin {"done", "beyond"} /\ "scan" # "beyond" /\ "scan" # "directive"
      /\ "scan" \in {"scan", "directive", "done", "beyond"}
  OBVIOUS
<1> QED
  BY <1>1, Zenon DEF PrintState

\* Inside a directive is a state of the inner one.
LEMMA PrintDirective ==
  ASSUME NEW s \in Printing!Formats, NEW k \in 0..(Len(s) - 1), NEW j \in 1..Flagged(s[k + 1]),
         NEW p, NEW o, NEW u, NEW c, NEW l, Within(s, k, j, p, o, u, c, l)
  PROVE  PrintState(s, p, o, u, c, l, "directive")
<1>1. "directive" \notin {"done", "beyond"} /\ "directive" # "beyond" /\ "directive" # "scan"
      /\ "directive" \in {"scan", "directive", "done", "beyond"}
  OBVIOUS
<1> QED
  BY <1>1, Zenon DEF PrintState

\* The end of an item.
LEMMA ItemPrinted ==
  ASSUME NEW s \in Printing!Formats, NEW k \in 0..(Len(s) - 1), NEW p, NEW o, NEW u,
         Printed(s, k, o, u), p = Len(FmtTo(s)[k + 1]) + 1,
         NEW c, NEW l, NEW o2, o2 = o \o Printing!Expected(s[k + 1]),
         NEW u2, u2 = u + Len(Printing!Taken(s[k + 1]))
  PROVE  PrintState(s, p, o2, u2, c, l, "scan")
<1>1. OutTo(s)[k + 1] = OutTo(s)[k] \o Printing!Expected(s[k + 1])
      /\ Len(ArgsTo(s)[k + 1]) = Len(ArgsTo(s)[k]) + Len(Printing!Taken(s[k + 1]))
  BY Layout, Zenon DEF Lies
<1>2. o2 = OutTo(s)[k + 1] /\ u2 = Len(ArgsTo(s)[k + 1])
  BY <1>1, Zenon DEF Printed
<1>3. k + 1 \in 0..Len(s)
  BY FormatsAre
<1>4. Between(s, k + 1, p, o2, u2)
  BY <1>2, Zenon DEF Between, Printed
<1> QED
  BY <1>3, <1>4, PrintScan, Zenon

\* A directive that prints a value takes one argument, and the others none.
LEMMA TakenRight ==
  ASSUME NEW it, ItemIs(it)
  PROVE  IF it.kind \in Printing!Kinds
           THEN Printing!Taken(it) = <<it>> /\ Len(Printing!Taken(it)) = 1 /\ Printing!Taken(it)[1] = it
           ELSE Printing!Taken(it) = <<>> /\ Len(Printing!Taken(it)) = 0
<1>1. Len(<<it>>) = 1 /\ <<it>>[1] = it /\ Len(<<>>) = 0
  OBVIOUS
<1> QED
  BY <1>1, Zenon DEF Printing!Taken

\* Before its NUL, vsprintf is at an item.
LEMMA AtItem ==
  ASSUME NEW s \in Printing!Formats, NEW k \in 0..Len(s), NEW p, p = Len(FmtTo(s)[k]) + 1
  PROVE  /\ Len(FmtTo(s)[k]) \in Nat /\ Len(FmtTo(s)[Len(s)]) \in Nat /\ p \in Nat
         /\ p > Len(FmtTo(s)[Len(s)]) <=> k = Len(s)
         /\ k # Len(s) => /\ k \in 0..(Len(s) - 1)
                          /\ FmtTo(s)[Len(s)][p] = Printing!Written(s[k + 1])[1]
<1>0. Len(s) \in Nat
  BY FormatsAre
<1>1. CASE k = Len(s)
  <2>1. Joins(FmtTo(s), Chars, WrittenOf(s), Len(s)) /\ WrittenOf(s) \in [1..Len(s) -> Seq(Chars)]
    BY FmtJoins, Texts, Zenon
  <2>2. FmtTo(s)[k] \in Seq(Chars)
    BY <1>0, <2>1, JoinedFront
  <2>3. Len(FmtTo(s)[k]) \in Nat
    BY <2>2, LenProperties
  <2>4. Len(FmtTo(s)[Len(s)]) = Len(FmtTo(s)[k])
    BY <1>1, Zenon
  <2>5. p \in Nat /\ p > Len(FmtTo(s)[k])
    BY <2>3
  <2> QED
    BY <1>1, <2>3, <2>4, <2>5, Zenon
<1>2. CASE k # Len(s)
  <2>0. k \in 0..(Len(s) - 1)
    BY <1>0, <1>2
  <2> DEFINE w == Printing!Written(s[k + 1])
  <2>1. /\ ItemIs(s[k + 1]) /\ Len(w) \in Nat
        /\ Len(FmtTo(s)[k]) \in Nat /\ Len(FmtTo(s)[Len(s)]) \in Nat
        /\ Len(FmtTo(s)[k]) + Len(w) <= Len(FmtTo(s)[Len(s)])
        /\ \A i \in 1..Len(w) : FmtTo(s)[Len(s)][Len(FmtTo(s)[k]) + i] = w[i]
    BY <2>0, Layout, Zenon DEF Lies
  <2>2. Len(w) >= 1
    <3>1. CASE s[k + 1].kind = "plain"
      <4>1. w = <<"d">>
        BY <2>1, <3>1, WrittenRight
      <4> QED
        BY <4>1
    <3>2. CASE s[k + 1].kind # "plain"
      <4>1. Len(w) = Flagged(s[k + 1]) + IF s[k + 1].kind = "open" THEN 0 ELSE 1
        BY <2>1, <3>2, WrittenRight
      <4>2. Flagged(s[k + 1]) \in Nat /\ Flagged(s[k + 1]) >= 1
        BY DEF Flagged, Zero, Wide
      <4> HIDE DEF w
      <4> QED
        BY <4>1, <4>2
    <3> QED
      BY <3>1, <3>2
  <2> HIDE DEF w
  <2>3. 1 \in 1..Len(w)
    BY <2>1, <2>2
  <2>4. FmtTo(s)[Len(s)][p] = w[1]
    BY <2>1, <2>3, Zenon
  <2>5. ~(p > Len(FmtTo(s)[Len(s)])) /\ p \in Nat
    BY <2>1, <2>2
  <2> QED
    BY <1>2, <2>0, <2>1, <2>4, <2>5, Zenon DEF w
<1> QED
  BY <1>1, <1>2

\* Before the first step nothing has been read, printed or taken.
LEMMA PrintInit ==
  ASSUME Printing!Init, items \in Printing!Formats
  PROVE  PrintInv
<1>1. 0 \in 0..Len(items)
  BY FormatsAre
<1>2. FmtTo(items)[0] = <<>> /\ OutTo(items)[0] = <<>> /\ ArgsTo(items)[0] = <<>>
  BY FmtJoins, OutJoins, ArgsJoins, Zenon DEF Joins
<1>3. pos = Len(<<>>) + 1 /\ used = Len(<<>>) /\ output = <<>> /\ fmt_pc = "scan"
  <2>1. Len(<<>>) = 0 /\ 0 + 1 = 1
    OBVIOUS
  <2> QED
    BY <2>1, Zenon DEF Printing!Init
<1>4. Between(items, 0, pos, output, used)
  BY <1>2, <1>3, Zenon DEF Between, Printed
<1> QED
  BY <1>1, <1>3, <1>4, PrintScan, Zenon DEF PrintInv

\* A plain character is copied (stdio.c:82-85).
LEMMA PrintCopy ==
  ASSUME PrintInv, Printing!Copy
  PROVE  PrintInv'
<1> DEFINE s == items
           f == FmtTo(s)[Len(s)]
<1>1. /\ fmt_pc = "scan" /\ ~(pos > Len(f)) /\ f[pos] # "%"
      /\ output' = Append(output, f[pos]) /\ pos' = pos + 1
      /\ items' = items /\ used' = used /\ fmt_pc' = "scan"
  BY Joined, Zenon DEF Printing!Copy, Printing!AtEnd
<1>2. s \in Printing!Formats /\ \E k \in 0..Len(s) : Between(s, k, pos, output, used)
  BY <1>1, Zenon DEF PrintInv, PrintState
<1>3. PICK k \in 0..Len(s) : Between(s, k, pos, output, used)
  BY <1>2
<1>4. pos = Len(FmtTo(s)[k]) + 1 /\ Printed(s, k, output, used)
  BY <1>3, Zenon DEF Between
<1>5. k \in 0..(Len(s) - 1) /\ f[pos] = Printing!Written(s[k + 1])[1]
  BY <1>1, <1>2, <1>4, AtItem, SMTT(30)
<1>6. /\ ItemIs(s[k + 1]) /\ OutTo(s)[k] \in Seq(Chars)
      /\ Len(FmtTo(s)[k + 1]) = Len(FmtTo(s)[k]) + Len(Printing!Written(s[k + 1]))
      /\ Len(FmtTo(s)[k]) \in Nat
  BY <1>2, <1>5, Layout, Zenon DEF Lies
<1>7. s[k + 1].kind = "plain" /\ Printing!Written(s[k + 1]) = <<"d">>
  BY <1>1, <1>5, <1>6, WrittenRight
<1>8. Printing!Expected(s[k + 1]) = <<"d">> /\ Printing!Taken(s[k + 1]) = <<>>
  <2>1. s[k + 1].txt = <<"d">>
    BY <1>6, <1>7, Zenon DEF ItemIs
  <2>2. "plain" \notin {"d", "u", "x", "p", "c", "s"} /\ "plain" \in {"plain", "c", "s"}
    OBVIOUS
  <2> QED
    BY <1>7, <2>1, <2>2, Zenon DEF Printing!Expected, Printing!Taken, Printing!Kinds
<1>9. output' = output \o Printing!Expected(s[k + 1])
  <2>1. <<"d">>[1] = "d"
    OBVIOUS
  <2>2. output' = Append(output, "d")
    BY <1>1, <1>5, <1>7, <2>1, Zenon
  <2>3. output \in Seq(Chars) /\ "d" \in Chars
    BY <1>4, <1>6, Zenon DEF Printed, Chars
  <2>4. Append(output, "d") = output \o <<"d">>
    BY <2>3, AppendIsConcat
  <2> QED
    BY <1>8, <2>2, <2>4, Zenon
<1>10. used' = used + Len(Printing!Taken(s[k + 1]))
  <2>1. Len(<<>>) = 0
    OBVIOUS
  <2>2. used \in Nat
    BY <1>2, <1>4, <1>5, Layout, Zenon DEF Printed, Lies
  <2>3. used + 0 = used
    BY <2>2
  <2> QED
    BY <1>1, <1>8, <2>1, <2>3, Zenon
<1>11. pos' = Len(FmtTo(s)[k + 1]) + 1
  <2>1. Len(<<"d">>) = 1
    OBVIOUS
  <2> QED
    BY <1>1, <1>4, <1>6, <1>7, <2>1
<1>12. PrintState(s, pos', output', used', occupy', limit', "scan")
  BY <1>2, <1>4, <1>5, <1>9, <1>10, <1>11, ItemPrinted
<1> QED
  BY <1>1, <1>12, Zenon DEF PrintInv

\* A directive begins, with no flag of the last one left (stdio.c:82-89).
LEMMA PrintPercent ==
  ASSUME PrintInv, Printing!Percent
  PROVE  PrintInv'
<1> DEFINE s == items
           f == FmtTo(s)[Len(s)]
<1>1. /\ fmt_pc = "scan" /\ ~(pos > Len(f)) /\ f[pos] = "%"
      /\ pos' = pos + 1 /\ occupy' = " " /\ limit' = 0
      /\ items' = items /\ used' = used /\ output' = output /\ fmt_pc' = "directive"
  BY Joined, Zenon DEF Printing!Percent, Printing!AtEnd
<1>2. s \in Printing!Formats /\ \E k \in 0..Len(s) : Between(s, k, pos, output, used)
  BY <1>1, Zenon DEF PrintInv, PrintState
<1>3. PICK k \in 0..Len(s) : Between(s, k, pos, output, used)
  BY <1>2
<1>4. pos = Len(FmtTo(s)[k]) + 1 /\ Printed(s, k, output, used)
  BY <1>3, Zenon DEF Between
<1>5. k \in 0..(Len(s) - 1) /\ f[pos] = Printing!Written(s[k + 1])[1]
  BY <1>1, <1>2, <1>4, AtItem
<1>6. ItemIs(s[k + 1]) /\ Len(FmtTo(s)[k]) \in Nat
  BY <1>2, <1>5, Layout, Zenon DEF Lies
<1>7. s[k + 1].kind # "plain"
  <2> SUFFICES ASSUME s[k + 1].kind = "plain" PROVE FALSE
    OBVIOUS
  <2>1. Printing!Written(s[k + 1]) = <<"d">>
    BY <1>6, WrittenRight
  <2>2. <<"d">>[1] = "d" /\ "d" # "%"
    OBVIOUS
  <2> QED
    BY <1>1, <1>5, <2>1, <2>2, Zenon
<1>8. Within(s, k, 1, pos', output', used', occupy', limit')
  <2>1. ~(1 >= 2)
    OBVIOUS
  <2>2. s[k + 1].width > 0 => 1 # Flagged(s[k + 1])
    BY DEF Flagged, Zero, Wide
  <2>3. pos' = Len(FmtTo(s)[k]) + 1 + 1
    BY <1>1, <1>4, Zenon
  <2> QED
    BY <1>1, <1>4, <1>7, <2>1, <2>2, <2>3, Zenon DEF Within
<1>9. 1 \in 1..Flagged(s[k + 1])
  BY DEF Flagged, Zero, Wide
<1>10. PrintState(s, pos', output', used', occupy', limit', "directive")
  BY <1>2, <1>5, <1>8, <1>9, PrintDirective
<1> QED
  BY <1>1, <1>10, Zenon DEF PrintInv

\* The outer loop ends where the items do (stdio.c:81, 121).
LEMMA PrintReturn ==
  ASSUME PrintInv, Printing!Return
  PROVE  PrintInv'
<1> DEFINE s == items
           f == FmtTo(s)[Len(s)]
<1>1. /\ fmt_pc = "scan" /\ pos > Len(f) /\ fmt_pc' = "done"
      /\ items' = items /\ pos' = pos /\ used' = used /\ output' = output
      /\ occupy' = occupy /\ limit' = limit
  BY Joined, Zenon DEF Printing!Return, Printing!AtEnd
<1>2. s \in Printing!Formats /\ \E k \in 0..Len(s) : Between(s, k, pos, output, used)
  BY <1>1, Zenon DEF PrintInv, PrintState
<1>3. PICK k \in 0..Len(s) : Between(s, k, pos, output, used)
  BY <1>2
<1>4. pos = Len(FmtTo(s)[k]) + 1 /\ Printed(s, k, output, used)
  BY <1>3, Zenon DEF Between
<1>5. k = Len(s)
  BY <1>1, <1>2, <1>4, AtItem
<1>6. Printed(s, Len(s), output, used)
  BY <1>4, <1>5, Zenon
<1>7. "done" \in {"scan", "directive", "done", "beyond"} /\ "done" # "scan" /\ "done" # "directive"
      /\ "done" # "beyond"
  OBVIOUS
<1>8. PrintState(s, pos, output, used, occupy, limit, "done")
  BY <1>2, <1>6, <1>7, Zenon DEF PrintState
<1> QED
  BY <1>1, <1>8, Zenon DEF PrintInv

\* Inside a directive.
LEMMA InDirective ==
  ASSUME PrintInv, fmt_pc = "directive"
  PROVE  /\ items \in Printing!Formats
         /\ \E k \in 0..(Len(items) - 1) : \E j \in 1..Flagged(items[k + 1]) :
              /\ Within(items, k, j, pos, output, used, occupy, limit)
              /\ ItemIs(items[k + 1]) /\ items[k + 1].kind # "plain"
              /\ ReadAt(items, k, j, pos)
<1>1. items \in Printing!Formats
      /\ \E k \in 0..(Len(items) - 1) : \E j \in 1..Flagged(items[k + 1]) :
           Within(items, k, j, pos, output, used, occupy, limit)
  BY Zenon DEF PrintInv, PrintState
<1>0. PICK k \in 0..(Len(items) - 1) : \E j \in 1..Flagged(items[k + 1]) :
        Within(items, k, j, pos, output, used, occupy, limit)
  BY <1>1
<1>2. PICK j \in 1..Flagged(items[k + 1]) : Within(items, k, j, pos, output, used, occupy, limit)
  BY <1>0
<1>3. items[k + 1].kind # "plain" /\ pos = Len(FmtTo(items)[k]) + 1 + j
  BY <1>2, Zenon DEF Within
<1>4. ItemIs(items[k + 1])
  BY <1>1, Layout, Zenon DEF Lies
<1>5. ReadAt(items, k, j, pos)
  BY <1>1, <1>3, Reads
<1> QED
  BY <1>1, <1>2, <1>3, <1>4, <1>5, Zenon

\* A flag is read, and only the one written (stdio.c:108-117).
LEMMA PrintFlags ==
  ASSUME PrintInv, Printing!Flags
  PROVE  PrintInv'
<1> DEFINE s == items
           f == FmtTo(s)[Len(s)]
<1>1. /\ fmt_pc = "directive" /\ ~(pos > Len(f)) /\ Printing!Flag(f[pos])
      /\ pos' = pos + 1
      /\ items' = items /\ used' = used /\ output' = output /\ fmt_pc' = "directive"
  BY Joined, Zenon DEF Printing!Flags, Printing!AtEnd
<1>0. PICK k \in 0..(Len(s) - 1) : \E j \in 1..Flagged(s[k + 1]) :
        /\ Within(s, k, j, pos, output, used, occupy, limit)
        /\ ItemIs(s[k + 1]) /\ s[k + 1].kind # "plain"
        /\ ReadAt(s, k, j, pos)
  BY <1>1, InDirective
<1>2. PICK j \in 1..Flagged(s[k + 1]) :
        /\ Within(s, k, j, pos, output, used, occupy, limit)
        /\ ItemIs(s[k + 1]) /\ s[k + 1].kind # "plain"
        /\ ReadAt(s, k, j, pos)
  BY <1>0
<1>3. s \in Printing!Formats
  BY <1>1, InDirective
<1> DEFINE it == s[k + 1]
<1>4. /\ Printed(s, k, output, used) /\ pos = Len(FmtTo(s)[k]) + 1 + j
      /\ occupy = IF it.zero /\ j >= 2 THEN "0" ELSE " "
      /\ limit = IF it.width > 0 /\ j = Flagged(it) THEN it.width ELSE 0
  BY <1>2, Zenon DEF Within
<1>5. Printing!isdigit(f[pos])
  <2>1. Printing!isdigit("0")
    <3>1. 0 \in 0..9
      OBVIOUS
    <3> QED
      BY <3>1, DigitRight, Zenon
  <2> QED
    BY <1>1, <2>1, Zenon DEF Printing!Flag
<1>6. j # Flagged(it)
  <2> SUFFICES ASSUME j = Flagged(it) PROVE FALSE
    OBVIOUS
  <2>1. it.kind # "open" /\ f[pos] = Letter(it)
    BY <1>1, <1>2, Zenon DEF ReadAt
  <2> QED
    BY <1>2, <1>5, <2>1, LettersAreNoDigits
<1>7. /\ Zero(it) \in 0..1 /\ Wide(it) \in 0..1 /\ Flagged(it) = 1 + Zero(it) + Wide(it)
      /\ (it.zero <=> Zero(it) = 1) /\ (it.width > 0 <=> Wide(it) = 1)
  BY DEF Zero, Wide, Flagged
<1>8. j \in 1..Flagged(it) /\ Len(FmtTo(s)[k]) \in Nat /\ it.width \in 0..9
  <2>1. Len(FmtTo(s)[k]) \in Nat
    BY <1>3, Layout, Zenon DEF Lies
  <2>2. it.width \in 0..9
    BY <1>2, Zenon DEF ItemIs
  <2> QED
    BY <2>1, <2>2
<1> DEFINE a == Len(FmtTo(s)[k])
           F == Flagged(it)
<1>9. \/ it.zero /\ j = 1 /\ f[pos] = "0"
      \/ it.width > 0 /\ j = 1 + Zero(it) /\ j + 1 = F /\ f[pos] = Printing!Digit(it.width)
  BY <1>2, <1>6, Zenon DEF ReadAt
<1>10. j + 1 \in 1..F /\ pos' = a + 1 + (j + 1)
  <2>1. a \in Nat /\ j \in 1..F /\ j # F /\ pos = a + 1 + j /\ pos' = pos + 1
    BY <1>1, <1>4, <1>6, <1>8, Zenon
  <2> HIDE DEF it, a, F
  <2>2. F \in Nat
    BY <1>7 DEF F
  <2> QED
    BY <2>1, <2>2
<1>11. /\ occupy' = IF it.zero /\ j + 1 >= 2 THEN "0" ELSE " "
       /\ limit' = IF it.width > 0 /\ j + 1 = F THEN it.width ELSE 0
  <2>1. CASE it.zero /\ j = 1 /\ f[pos] = "0"
    <3>1. occupy' = "0" /\ limit' = limit
      BY <1>1, <2>1, Zenon DEF Printing!Flag
    <3>2. limit = 0
      BY <1>4, <1>6, Zenon
    <3>3. j + 1 >= 2 /\ ~(it.width > 0 /\ j + 1 = F)
      <4> HIDE DEF it, F
      <4> QED
        BY <1>7, <2>1 DEF F
    <3> QED
      BY <2>1, <3>1, <3>2, <3>3, Zenon
  <2>2. CASE it.width > 0 /\ j = 1 + Zero(it) /\ j + 1 = F /\ f[pos] = Printing!Digit(it.width)
    <3>1. Printing!Digit(it.width) # "0" /\ Printing!DigitValue(Printing!Digit(it.width)) = it.width
      BY <1>8, <2>2, DigitRight
    <3>2. limit' = it.width /\ occupy' = occupy
      BY <1>1, <2>2, <3>1, Zenon DEF Printing!Flag
    <3>3. it.zero => j >= 2 /\ j + 1 >= 2
      <4> HIDE DEF it, F
      <4> QED
        BY <1>7, <2>2
    <3>4. occupy' = IF it.zero /\ j + 1 >= 2 THEN "0" ELSE " "
      <4>1. CASE it.zero
        BY <1>4, <3>2, <3>3, <4>1, Zenon
      <4>2. CASE ~it.zero
        BY <1>4, <3>2, <4>2, Zenon
      <4> QED
        BY <4>1, <4>2, Zenon
    <3> QED
      BY <2>2, <3>2, <3>4, Zenon
  <2> QED
    BY <1>9, <2>1, <2>2, Zenon
<1>12. Within(s, k, j + 1, pos', output', used', occupy', limit')
  BY <1>1, <1>2, <1>4, <1>10, <1>11, Zenon DEF Within
<1>13. PrintState(s, pos', output', used', occupy', limit', "directive")
  BY <1>3, <1>10, <1>12, PrintDirective
<1> QED
  BY <1>1, <1>13, Zenon DEF PrintInv

\* The letter of a directive.
LEMMA PrintValue ==
  ASSUME PrintInv, Printing!Value
  PROVE  PrintInv'
<1> DEFINE s == items
           f == FmtTo(s)[Len(s)]
           x == ArgsTo(s)[Len(s)][used + 1]
<1>1. /\ fmt_pc = "directive" /\ ~(pos > Len(f)) /\ f[pos] \in Printing!Kinds
      /\ used' = used + 1
      /\ output' = output \o IF f[pos] \in {"c", "s"} THEN x.txt
                             ELSE Printing!itos(x.num, f[pos], limit, occupy)
      /\ pos' = pos + 1 /\ items' = items /\ fmt_pc' = "scan"
  BY Joined, Zenon DEF Printing!Value, Printing!AtEnd
<1>0. PICK k \in 0..(Len(s) - 1) : \E j \in 1..Flagged(s[k + 1]) :
        /\ Within(s, k, j, pos, output, used, occupy, limit)
        /\ ItemIs(s[k + 1]) /\ s[k + 1].kind # "plain"
        /\ ReadAt(s, k, j, pos)
  BY <1>1, InDirective
<1>2. PICK j \in 1..Flagged(s[k + 1]) :
        /\ Within(s, k, j, pos, output, used, occupy, limit)
        /\ ItemIs(s[k + 1]) /\ s[k + 1].kind # "plain"
        /\ ReadAt(s, k, j, pos)
  BY <1>0
<1>3. s \in Printing!Formats
  BY <1>1, InDirective
<1> DEFINE it == s[k + 1]
<1>4. /\ Printed(s, k, output, used) /\ pos = Len(FmtTo(s)[k]) + 1 + j
      /\ occupy = IF it.zero /\ j >= 2 THEN "0" ELSE " "
      /\ limit = IF it.width > 0 /\ j = Flagged(it) THEN it.width ELSE 0
  BY <1>2, Zenon DEF Within
<1>5. j = Flagged(it)
  <2> SUFFICES ASSUME j # Flagged(it) PROVE FALSE
    OBVIOUS
  <2>1. f[pos] = "0" \/ f[pos] = Printing!Digit(it.width)
    BY <1>2, Zenon DEF ReadAt
  <2>2. 0 \in 0..9 /\ it.width \in 0..9
    BY <1>2 DEF ItemIs
  <2> QED
    BY <1>1, <2>1, <2>2, DigitRight, Zenon
<1>6. it.kind # "open" /\ f[pos] = Letter(it) /\ pos = Len(FmtTo(s)[k + 1])
  BY <1>1, <1>2, <1>5, Zenon DEF ReadAt
<1>7. f[pos] = it.kind /\ it.kind \in Printing!Kinds
  BY <1>1, <1>2, <1>6, LettersAreNoDigits, Zenon
<1>8. Len(Printing!Taken(it)) = 1 /\ Printing!Taken(it)[1] = it
  BY <1>2, <1>7, TakenRight
<1>9. x = it /\ used \in Nat
  <2>1. /\ Len(ArgsTo(s)[k]) \in Nat
        /\ \A i \in 1..Len(Printing!Taken(it)) :
             ArgsTo(s)[Len(s)][Len(ArgsTo(s)[k]) + i] = Printing!Taken(it)[i]
    BY <1>3, Layout, Zenon DEF Lies
  <2>2. 1 \in 1..1
    OBVIOUS
  <2>3. used = Len(ArgsTo(s)[k])
    BY <1>4, Zenon DEF Printed
  <2> QED
    BY <1>8, <2>1, <2>2, <2>3, Zenon
<1>10. limit = it.width /\ occupy = IF it.zero THEN "0" ELSE " "
  <2>1. it.width \in 0..9
    BY <1>2, Zenon DEF ItemIs
  <2>2. ~(it.width > 0) => it.width = 0
    <3> HIDE DEF it
    <3> QED
      BY <2>1
  <2>3. it.zero => Flagged(it) >= 2
    BY DEF Flagged, Zero, Wide
  <2> QED
    BY <1>4, <1>5, <2>2, <2>3, Zenon
<1>11. output' = output \o Printing!Expected(it)
  <2>1. CASE it.kind \in {"c", "s"}
    <3>1. Printing!Expected(it) = it.txt
      <4>1. it.kind \in {"plain", "c", "s"}
        BY <2>1
      <4> QED
        BY <4>1, Zenon DEF Printing!Expected
    <3> QED
      BY <1>1, <1>7, <1>9, <2>1, <3>1, Zenon
  <2>2. CASE it.kind \notin {"c", "s"}
    <3>1. it.kind \in {"d", "u", "x", "p"}
      BY <1>7, <2>2 DEF Printing!Kinds
    <3>2. it.num \in Printing!Int_ /\ it.width \in Nat
      BY <1>2, <3>1 DEF ItemIs
    <3>3. Printing!itos(it.num, it.kind, it.width, IF it.zero THEN "0" ELSE " ")
          = Printing!Expected(it)
      <4> HIDE DEF it
      <4> QED
        BY <3>1, <3>2, ItosRight
    <3> QED
      BY <1>1, <1>7, <1>9, <1>10, <2>2, <3>3, Zenon
  <2> QED
    BY <2>1, <2>2, Zenon
<1>12. used' = used + Len(Printing!Taken(it)) /\ pos' = Len(FmtTo(s)[k + 1]) + 1
  BY <1>1, <1>6, <1>8, Zenon
<1>13. PrintState(s, pos', output', used', occupy', limit', "scan")
  BY <1>3, <1>4, <1>11, <1>12, ItemPrinted
<1> QED
  BY <1>1, <1>13, Zenon DEF PrintInv

\* Of %%, and of a directive that is cut off, nothing is printed.
NothingPrinted(s, k) ==
  /\ OutTo(s)[k] \o Printing!Expected(s[k + 1]) = OutTo(s)[k]
  /\ Len(ArgsTo(s)[k]) + Len(Printing!Taken(s[k + 1])) = Len(ArgsTo(s)[k])

\* %% and a directive cut off print nothing and take nothing.
LEMMA NothingFrom ==
  ASSUME NEW s \in Printing!Formats, NEW k \in 0..(Len(s) - 1),
         s[k + 1].kind = "percent" \/ s[k + 1].kind = "open"
  PROVE  NothingPrinted(s, k)
<1>1. ItemIs(s[k + 1]) /\ OutTo(s)[k] \in Seq(Chars) /\ Len(ArgsTo(s)[k]) \in Nat
  BY Layout, Zenon DEF Lies
<1>2. s[k + 1].kind \notin {"plain", "c", "s"} /\ s[k + 1].kind \in {"percent", "open"}
      /\ s[k + 1].kind \notin Printing!Kinds
  BY DEF Printing!Kinds
<1>3. Printing!Expected(s[k + 1]) = <<>>
  BY <1>2 DEF Printing!Expected
<1>4. Len(Printing!Taken(s[k + 1])) = 0
  BY <1>1, <1>2, TakenRight
<1>5. OutTo(s)[k] \o <<>> = OutTo(s)[k]
  BY <1>1, ConcatEmptySeq
<1>6. Len(ArgsTo(s)[k]) + 0 = Len(ArgsTo(s)[k])
  BY <1>1
<1> QED
  BY <1>3, <1>4, <1>5, <1>6, Zenon DEF NothingPrinted

\* %% ends with a letter that is no directive (stdio.c:112-118).
LEMMA PrintUnknown ==
  ASSUME PrintInv, Printing!Unknown
  PROVE  PrintInv'
<1> DEFINE s == items
           f == FmtTo(s)[Len(s)]
<1>1. /\ fmt_pc = "directive" /\ ~(pos > Len(f)) /\ f[pos] \notin Printing!Kinds
      /\ ~Printing!isdigit(f[pos])
      /\ used' = used /\ output' = output /\ pos' = pos + 1 /\ items' = items /\ fmt_pc' = "scan"
  BY Joined, Zenon DEF Printing!Unknown, Printing!AtEnd
<1>0. PICK k \in 0..(Len(s) - 1) : \E j \in 1..Flagged(s[k + 1]) :
        /\ Within(s, k, j, pos, output, used, occupy, limit)
        /\ ItemIs(s[k + 1]) /\ s[k + 1].kind # "plain"
        /\ ReadAt(s, k, j, pos)
  BY <1>1, InDirective
<1>2. PICK j \in 1..Flagged(s[k + 1]) :
        /\ Within(s, k, j, pos, output, used, occupy, limit)
        /\ ItemIs(s[k + 1]) /\ s[k + 1].kind # "plain"
        /\ ReadAt(s, k, j, pos)
  BY <1>0
<1>3. s \in Printing!Formats
  BY <1>1, InDirective
<1> DEFINE it == s[k + 1]
<1>4. Printed(s, k, output, used)
  BY <1>2, Zenon DEF Within
<1>5. j = Flagged(it)
  <2> SUFFICES ASSUME j # Flagged(it) PROVE FALSE
    OBVIOUS
  <2>1. f[pos] = "0" \/ f[pos] = Printing!Digit(it.width)
    BY <1>2, Zenon DEF ReadAt
  <2>2. 0 \in 0..9 /\ it.width \in 0..9
    BY <1>2 DEF ItemIs
  <2> QED
    BY <1>1, <2>1, <2>2, DigitRight, Zenon
<1>6. it.kind # "open" /\ f[pos] = Letter(it) /\ pos = Len(FmtTo(s)[k + 1])
  BY <1>1, <1>2, <1>5, Zenon DEF ReadAt
<1>7. it.kind = "percent"
  BY <1>1, <1>2, <1>6, LettersAreNoDigits, Zenon
<1>8. NothingPrinted(s, k)
  BY <1>3, <1>7, NothingFrom
<1>9. output' = output \o Printing!Expected(it) /\ used' = used + Len(Printing!Taken(it))
  BY <1>1, <1>4, <1>8, Zenon DEF NothingPrinted, Printed
<1>10. pos' = Len(FmtTo(s)[k + 1]) + 1
  BY <1>1, <1>6, Zenon
<1>11. PrintState(s, pos', output', used', occupy', limit', "scan")
  BY <1>3, <1>4, <1>9, <1>10, ItemPrinted
<1> QED
  BY <1>1, <1>11, Zenon DEF PrintInv

\* A directive that the NUL cuts off is the last item (stdio.c:91, 112-118).
LEMMA PrintPastEnd ==
  ASSUME PrintInv, Printing!PastEnd
  PROVE  PrintInv'
<1> DEFINE s == items
           f == FmtTo(s)[Len(s)]
<1>1. /\ fmt_pc = "directive" /\ pos > Len(f) /\ fmt_pc' = "beyond"
      /\ used' = used /\ output' = output /\ pos' = pos /\ items' = items
      /\ occupy' = occupy /\ limit' = limit
  BY Joined, Zenon DEF Printing!PastEnd, Printing!AtEnd
<1>0. PICK k \in 0..(Len(s) - 1) : \E j \in 1..Flagged(s[k + 1]) :
        /\ Within(s, k, j, pos, output, used, occupy, limit)
        /\ ItemIs(s[k + 1]) /\ s[k + 1].kind # "plain"
        /\ ReadAt(s, k, j, pos)
  BY <1>1, InDirective
<1>2. PICK j \in 1..Flagged(s[k + 1]) :
        /\ Within(s, k, j, pos, output, used, occupy, limit)
        /\ ItemIs(s[k + 1]) /\ s[k + 1].kind # "plain"
        /\ ReadAt(s, k, j, pos)
  BY <1>0
<1>3. s \in Printing!Formats
  BY <1>1, InDirective
<1>4. Printed(s, k, output, used)
  BY <1>2, Zenon DEF Within
<1>5. s[k + 1].kind = "open"
  BY <1>1, <1>2, Zenon DEF ReadAt
<1>6. k + 1 = Len(s)
  BY <1>3, <1>5, Layout, Zenon DEF Lies
<1>7. NothingPrinted(s, k)
  BY <1>3, <1>5, NothingFrom
<1>8. OutTo(s)[k + 1] = OutTo(s)[k] /\ Len(ArgsTo(s)[k + 1]) = Len(ArgsTo(s)[k])
  <2>1. OutTo(s)[k + 1] = OutTo(s)[k] \o Printing!Expected(s[k + 1])
        /\ Len(ArgsTo(s)[k + 1]) = Len(ArgsTo(s)[k]) + Len(Printing!Taken(s[k + 1]))
    BY <1>3, Layout, Zenon DEF Lies
  <2> QED
    BY <1>7, <2>1, Zenon DEF NothingPrinted
<1>9. Printed(s, Len(s), output, used)
  BY <1>4, <1>6, <1>8, Zenon DEF Printed
<1>10. "beyond" \in {"scan", "directive", "done", "beyond"} /\ "beyond" # "scan"
       /\ "beyond" # "directive"
  OBVIOUS
<1>11. Len(s) \in Nat /\ Len(s) > 0 /\ s[Len(s)].kind = "open"
  <2>1. Len(s) \in Nat
    BY <1>3, FormatsAre
  <2>2. Len(s) > 0
    BY <1>6, <2>1
  <2> QED
    BY <1>5, <1>6, <2>1, <2>2, Zenon
<1>12. PrintState(s, pos, output, used, occupy, limit, "beyond")
  BY <1>3, <1>9, <1>10, <1>11, Zenon DEF PrintState
<1> QED
  BY <1>1, <1>12, Zenon DEF PrintInv

-----------------------------------------------------------------------------
(* The theorems about formatted output.                                      *)

\* Whatever is printed, vsprintf is where PrintInv says.
LEMMA PrintInvOfInstance == MCSpec => []PrintInv
<1>1. MCInit => PrintInv
  <2> SUFFICES ASSUME MCInit PROVE PrintInv
    OBVIOUS
  <2>1. Printing!Init
    BY Zenon DEF MCInit, PrintIdle
  <2>2. items \in Printing!Formats
    BY <2>1, Zenon DEF Printing!Init
  <2> QED
    BY <2>1, <2>2, PrintInit
<1>2. PrintInv /\ [MCNext]_mcVars => PrintInv'
  <2> SUFFICES ASSUME PrintInv, [MCNext]_mcVars PROVE PrintInv'
    OBVIOUS
  <2>1. CASE UNCHANGED printVars
    <3>1. /\ items' = items /\ pos' = pos /\ output' = output /\ used' = used
          /\ occupy' = occupy /\ limit' = limit /\ fmt_pc' = fmt_pc
      BY <2>1 DEF printVars
    <3> QED
      BY <3>1, Zenon DEF PrintInv
  <2>2. CASE Printing!Next
    BY <2>2, PrintCopy, PrintPercent, PrintReturn, PrintFlags, PrintValue, PrintUnknown,
       PrintPastEnd, Zenon DEF Printing!Next
  <2>3. UNCHANGED printVars \/ Printing!Next
    <3>1. CASE MCNext
      BY <3>1, Zenon DEF MCNext
    <3>2. CASE UNCHANGED mcVars
      BY <3>2, Zenon DEF mcVars
    <3> QED
      BY <3>1, <3>2
  <2> QED
    BY <2>1, <2>2, <2>3
<1> QED
  BY <1>1, <1>2, PTL DEF MCSpec

\* vsprintf prints each item as its directive asks, whatever comes before it, the most
\* negative number included, and takes one argument for each directive that prints one
\* (stdio.c:78-123): for every word length and every format of such items.
THEOREM PrintsItems == MCSpec => []PrintsRight
<1>1. PrintInv => PrintsRight
  <2> SUFFICES ASSUME PrintInv, fmt_pc \in {"done", "beyond"}
               PROVE  output = Printing!Concat(Printing!Expected, items) /\ used = Len(Printing!args)
    BY Zenon DEF PrintsRight, Printing!PrintsRight
  <2>1. Printed(items, Len(items), output, used)
    BY Zenon DEF PrintInv, PrintState
  <2> QED
    BY <2>1, Joined, Zenon DEF Printed
<1> QED
  BY <1>1, PrintInvOfInstance, PTL

\* memcpy's invariant holds in the instance.
LEMMA CopyOfInstance == MCSpec => []IInv
<1>1. MCInit => IInv
  BY InitInv, Zenon DEF MCInit, CopyIdle
<1>2. IInv /\ [MCNext]_mcVars => IInv'
  <2>1. ASSUME [MCNext]_mcVars PROVE [Next]_vars
    BY <2>1, Zenon DEF MCNext, mcVars
  <2> QED
    BY <2>1, StepInv
<1> QED
  BY <1>1, <1>2, PTL DEF MCSpec

\* Nothing is read or written outside the areas, strings and formats of a legal call
\* (string.c:7-88, stdio.c:82-116): a format is read beyond its NUL only if the NUL cuts a
\* directive off.
THEOREM AccessesStayInside == MCSpec => []AccessesInside
<1>1. IInv => Inside
  BY CopyInside
<1>2. PrintInv => Printing!ReadsInside
  <2> SUFFICES ASSUME PrintInv, fmt_pc = "beyond"
               PROVE  items # <<>> /\ items[Len(items)] \in Printing!Open
    BY Zenon DEF Printing!ReadsInside
  <2>1. items \in Printing!Formats /\ Len(items) \in Nat /\ Len(items) > 0
        /\ items[Len(items)].kind = "open"
    BY Zenon DEF PrintInv, PrintState
  <2>2. Len(items) \in 1..Len(items) /\ items # <<>>
    BY <2>1
  <2>3. ItemIs(items[Len(items)])
    BY <2>1, <2>2, FormatsAre, Zenon
  <2> QED
    BY <2>1, <2>2, <2>3, Zenon DEF ItemIs
<1>3. IInv /\ StrInv /\ PrintInv => AccessesInside
  BY <1>1, <1>2, StrInside DEF AccessesInside
<1> QED
  BY <1>3, CopyOfInstance, StringsOfInstance, PrintInvOfInstance, PTL

-----------------------------------------------------------------------------
(* Reading a number back.                                                    *)

\* A numeral with what it is padded with, blanks or zeros, in front.
PaddedNumeral(t, p, c, x, len_) ==
  /\ len_ \in Nat /\ len_ >= 1 /\ len_ <= Bits /\ IsLen(x, 10, len_)
  /\ p \in Nat /\ t \in Seq(Chars) /\ Len(t) = p + len_
  /\ \A i \in 1..p : t[i] = c
  /\ \A i \in 1..len_ : t[p + i] = Printing!Digit((x \div 10^(len_ - i)) % 10)

\* Dividing by a power of ten leaves a number, whose last digit is one.
LEMMA DigitOf ==
  ASSUME NEW x \in Nat, NEW k \in 0..Bits
  PROVE  x \div 10^k \in Nat /\ (x \div 10^k) % 10 \in 0..9
<1>1. PICK c \in Nat : c = 10^k /\ c > 0
  BY PowersOf
<1>2. c \in Nat /\ c > 0
  BY <1>1
<1>3. x \div c \in Nat
  BY <1>2, Z3
<1>4. (x \div c) % 10 \in 0..9
  BY <1>3
<1> QED
  BY <1>1, <1>3, <1>4, Zenon

\* What a directive pads with.
Filler(it) == IF it.zero THEN "0" ELSE " "

\* %u and %d make such a numeral of a number that is not negative.
LEMMA IsPadded ==
  ASSUME NEW it, it.num \in Printing!Int_, it.num >= 0, it.kind \in {"d", "u"}, it.width \in Nat
  PROVE  /\ it.num \in Nat
         /\ \E p, len_ : PaddedNumeral(Printing!Expected(it), p, Filler(it), it.num, len_)
<1> DEFINE x == it.num
           c == Filler(it)
<1>1. PICK h \in Nat : h > 0 /\ 2^(Bits - 1) = h /\ 2^Bits = 2 * h
  BY Halved
<1>2. x \in 0..(h - 1) /\ h \in Nat /\ h > 0
  <2>1. x \in (-h)..(h - 1) /\ h \in Nat /\ h > 0
    BY <1>1, Zenon DEF Printing!Int_
  <2>2. x >= 0
    OBVIOUS
  <2> HIDE DEF x
  <2> QED
    BY <2>1, <2>2
<1>3. Printing!Uint(x) = x /\ Printing!Wrap(x) = x
  <2>1. x % (2 * h) = x /\ ((x + h) % (2 * h)) - h = x
    <3> HIDE DEF x
    <3>1. x + h \in 0..(2 * h - 1) /\ x \in 0..(2 * h - 1)
      BY <1>2
    <3>2. (x + h) % (2 * h) = x + h /\ x % (2 * h) = x
      BY <1>2, <3>1
    <3>3. (x + h) - h = x
      BY <1>2
    <3> QED
      BY <3>2, <3>3, Zenon
  <2> QED
    BY <1>1, <2>1, Zenon DEF Printing!Uint, Printing!Wrap
<1>4. x \in 0..(2^Bits - 1)
  <2>1. x \in 0..(2 * h - 1)
    <3> HIDE DEF x
    <3> QED
      BY <1>2
  <2> QED
    BY <1>1, <2>1, Zenon
<1>5. x \in Nat
  <2> HIDE DEF x
  <2> QED
    BY <1>2
<1>6. PICK len_ \in Nat : /\ IsLen(x, 10, len_) /\ len_ <= Bits
                          /\ Printing!Numeral(x, 10) = DigitsOf(x, 10, len_)
  BY <1>4, NumeralTyped
<1> DEFINE numeral == Printing!Numeral(x, 10)
           pad     == [i \in 1..(it.width - Len(numeral)) |-> c]
<1>7. Printing!Expected(it) = pad \o numeral
  <2>1. ~(it.kind = "d" /\ x < 0) /\ it.kind \notin {"x", "p"} /\ it.kind \notin {"plain", "c", "s"}
        /\ it.kind \notin {"percent", "open"} /\ it.kind # "p"
    BY <1>5
  <2>2. Printing!Expected(it) = Printing!Padded(Printing!Numeral(Printing!Uint(x), 10), it.width, c)
    BY <2>1, Zenon DEF Printing!Expected, Filler
  <2> QED
    BY <1>3, <2>2, Zenon DEF Printing!Padded
<1>8. numeral \in Seq(Chars) /\ Len(numeral) = len_
  BY <1>5, <1>6, DigitsTyped
<1>9. len_ >= 1
  <2>1. len_ \in 1..Bits /\ Bits \in Nat
    BY <1>6, PowersOf, Zenon DEF IsLen
  <2> QED
    BY <2>1
<1>10. c \in Chars
  <2>1. "0" \in Chars /\ " " \in Chars
    BY DEF Chars
  <2> QED
    BY <2>1, Zenon DEF Filler
<1> HIDE DEF c
<1>11. PICK p \in Nat : Len(pad) = p /\ pad \in Seq(Chars) /\ \A i \in 1..p : pad[i] = c
  <2>1. pad = [i \in 1..(it.width - len_) |-> c]
    BY <1>8, Zenon
  <2> DEFINE q == it.width - len_
  <2>2. q \in Int
    OBVIOUS
  <2> HIDE DEF q, pad
  <2>3. pad = [i \in 1..q |-> c]
    BY <2>1, Zenon DEF q
  <2>4. CASE q \in Nat
    <3>1. [i \in 1..q |-> c] \in Seq(Chars) /\ Len([i \in 1..q |-> c]) = q
      BY <1>10, <2>4
    <3>2. \A i \in 1..q : [k \in 1..q |-> c][i] = c
      OBVIOUS
    <3> QED
      BY <2>3, <2>4, <3>1, <3>2, Zenon
  <2>5. CASE q \notin Nat
    <3>1. [i \in 1..q |-> c] = <<>>
      BY <2>2, <2>5
    <3>2. <<>> \in Seq(Chars) /\ Len(<<>>) = 0 /\ 0 \in Nat /\ \A i \in 1..0 : FALSE
      BY EmptySeq
    <3> QED
      BY <2>3, <3>1, <3>2, Zenon
  <2> QED
    BY <2>4, <2>5
<1> HIDE DEF pad, numeral
<1>12. /\ pad \o numeral \in Seq(Chars) /\ Len(pad \o numeral) = p + len_
       /\ \A i \in 1..(p + len_) : (pad \o numeral)[i] = IF i <= p THEN pad[i] ELSE numeral[i - p]
  <2>1. /\ pad \o numeral \in Seq(Chars) /\ Len(pad \o numeral) = Len(pad) + Len(numeral)
        /\ \A i \in 1..(Len(pad) + Len(numeral)) :
             (pad \o numeral)[i] = IF i <= Len(pad) THEN pad[i] ELSE numeral[i - Len(pad)]
    BY <1>8, <1>11, ConcatProperties
  <2> QED
    BY <1>8, <1>11, <2>1, Zenon
<1>13. ASSUME NEW i \in 1..p PROVE (pad \o numeral)[i] = c
  <2>1. i \in 1..(p + len_) /\ i <= p
    BY <1>6
  <2> QED
    BY <1>11, <1>12, <2>1, Zenon
<1>14. ASSUME NEW i \in 1..len_
       PROVE  (pad \o numeral)[p + i] = Printing!Digit((x \div 10^(len_ - i)) % 10)
  <2>1. p + i \in 1..(p + len_) /\ ~(p + i <= p) /\ (p + i) - p = i
    BY <1>6, <1>11
  <2>2. (pad \o numeral)[p + i] = numeral[i]
    BY <1>12, <2>1, Zenon
  <2>3. numeral[i] = Printing!Digit((x \div 10^(len_ - i)) % 10)
    BY <1>6, Zenon DEF DigitsOf, numeral
  <2> QED
    BY <2>2, <2>3, Zenon
<1>15. PaddedNumeral(Printing!Expected(it), p, c, x, len_)
  BY <1>6, <1>7, <1>9, <1>11, <1>12, <1>13, <1>14, Zenon DEF PaddedNumeral
<1> QED
  BY <1>5, <1>15, Zenon DEF c

\* Every character of a numeral padded with zeros is a digit.
LEMMA AllDigits ==
  ASSUME NEW t, NEW p, NEW x \in Nat, NEW len_, PaddedNumeral(t, p, "0", x, len_)
  PROVE  \A i \in 1..Len(t) : \E d \in 0..9 : t[i] = Printing!Digit(d)
<1>1. /\ len_ \in Nat /\ len_ <= Bits /\ p \in Nat /\ Len(t) = p + len_
      /\ \A i \in 1..p : t[i] = "0"
      /\ \A i \in 1..len_ : t[p + i] = Printing!Digit((x \div 10^(len_ - i)) % 10)
  BY Zenon DEF PaddedNumeral
<1>2. ASSUME NEW i \in 1..Len(t) PROVE \E d \in 0..9 : t[i] = Printing!Digit(d)
  <2>1. CASE i <= p
    <3>1. i \in 1..p /\ 0 \in 0..9
      BY <1>1, <2>1
    <3>2. Printing!Digit(0) = "0"
      BY <3>1, DigitRight
    <3> QED
      BY <1>1, <3>1, <3>2, Zenon
  <2>2. CASE ~(i <= p)
    <3>0. len_ \in Nat /\ p \in Nat /\ Bits \in Nat /\ len_ <= Bits /\ i \in 1..(p + len_)
      BY <1>1, PowersOf
    <3>1. i - p \in 1..len_ /\ p + (i - p) = i /\ len_ - (i - p) \in 0..Bits
      BY <2>2, <3>0
    <3>2. t[i] = Printing!Digit((x \div 10^(len_ - (i - p))) % 10)
      BY <1>1, <3>1, Zenon
    <3>3. (x \div 10^(len_ - (i - p))) % 10 \in 0..9
      BY <3>1, DigitOf
    <3> QED
      BY <3>2, <3>3, Zenon
  <2> QED
    BY <2>1, <2>2
<1> QED
  BY <1>2

\* (SMT takes no string with a blank in it.)
Blank == " "

\* No digit is a blank.
LEMMA DigitIsNoBlank ==
  ASSUME NEW d \in 0..9
  PROVE  Printing!Digit(d) # Blank
<1>1. d + 1 \in 1..10
  OBVIOUS
<1>2. Printing!Digits[d + 1] \in {"0", "1", "2", "3", "4", "5", "6", "7", "8", "9"}
  BY <1>1, DigitTable
<1> QED
  BY <1>2, Zenon DEF Printing!Digit, Blank

\* atoi skips the blanks in front, all of them and nothing else.
Skipped(s, k) ==
  k \in 0..Len(s) /\ (\A i \in 1..k : s[i] = Blank) /\ (k < Len(s) => ~(s[k + 1] = Blank))

LEMMA BlanksAre ==
  ASSUME NEW s, Len(s) \in Nat, NEW k, Skipped(s, k)
  PROVE  Printing!Blanks(s) = k
<1> DEFINE b == CHOOSE j \in 0..Len(s) :
                  (\A i \in 1..j : s[i] = Blank) /\ (j < Len(s) => ~(s[j + 1] = Blank))
<1>1. Skipped(s, b)
  BY Zenon DEF Skipped
<1>2. Printing!Blanks(s) = b
  BY Zenon DEF Printing!Blanks, Printing!Leading, Blank
<1> HIDE DEF b
<1> DEFINE Fewer(i, j) == Skipped(s, i) /\ Skipped(s, j) => ~(i < j)
<1>3. ASSUME NEW i, NEW j PROVE Fewer(i, j)
  <2> SUFFICES ASSUME Skipped(s, i), Skipped(s, j), i < j PROVE FALSE
    OBVIOUS
  <2>1. i \in 0..Len(s) /\ j \in 0..Len(s)
    BY DEF Skipped
  <2>2. i < Len(s) /\ i + 1 \in 1..j
    BY <2>1
  <2> QED
    BY <2>2, Zenon DEF Skipped
<1>4. ~(b < k) /\ ~(k < b)
  BY <1>1, <1>3
<1>5. b \in 0..Len(s) /\ k \in 0..Len(s)
  BY <1>1, Zenon DEF Skipped
<1>6. b = k
  BY <1>4, <1>5
<1> QED
  BY <1>2, <1>6

\* What atoi reads after the blanks is the numeral, with zeros in front or nothing.
LEMMA AfterSpaces ==
  ASSUME NEW s, NEW p, NEW x \in Nat, NEW len_, PaddedNumeral(s, p, Blank, x, len_)
  PROVE  \E z : PaddedNumeral(SubSeq(s, Printing!Blanks(s) + 1, Len(s)), z, "0", x, len_)
<1>1. /\ len_ \in Nat /\ len_ >= 1 /\ len_ <= Bits /\ IsLen(x, 10, len_)
      /\ p \in Nat /\ s \in Seq(Chars) /\ Len(s) = p + len_
      /\ \A i \in 1..p : s[i] = Blank
      /\ \A i \in 1..len_ : s[p + i] = Printing!Digit((x \div 10^(len_ - i)) % 10)
  BY Zenon DEF PaddedNumeral
<1>2. s \in Seq(Chars)
  BY <1>1, Zenon
<1>3. len_ \in Nat /\ len_ >= 1 /\ p \in Nat /\ Len(s) = p + len_ /\ len_ <= Bits
  BY <1>1, Zenon
<1>4. Bits \in Nat
  BY PowersOf
<1>5. p \in 0..Len(s) /\ 1 \in 1..len_ /\ len_ - 1 \in 0..Bits
  BY <1>3, <1>4
<1>6. Skipped(s, p)
  <2>1. s[p + 1] = Printing!Digit((x \div 10^(len_ - 1)) % 10)
    BY <1>1, <1>5, Zenon
  <2>2. (x \div 10^(len_ - 1)) % 10 \in 0..9
    BY <1>5, DigitOf
  <2>3. s[p + 1] # Blank
    BY <2>1, <2>2, DigitIsNoBlank, Zenon
  <2> QED
    BY <1>1, <1>5, <2>3, Zenon DEF Skipped
<1>7. Printing!Blanks(s) = p
  <2>1. Len(s) \in Nat
    BY <1>3
  <2> QED
    BY <1>6, <2>1, BlanksAre, Zenon
<1> DEFINE t == SubSeq(s, p + 1, Len(s))
<1>8. t \in Seq(Chars) /\ Len(t) = 0 + len_ /\ \A i \in 1..len_ : t[0 + i] = s[p + i]
  <2>1. /\ p + 1 \in Int /\ Len(s) \in Int /\ \A i \in (p + 1)..Len(s) : i \in 1..Len(s)
        /\ p + 1 <= Len(s) /\ Len(s) - (p + 1) + 1 = len_ /\ 0 + len_ = len_
        /\ \A i \in 1..len_ : (p + 1) + i - 1 = p + i /\ 0 + i = i
    BY <1>3
  <2>2. \A i \in 1..Len(s) : s[i] \in Chars
    BY <1>2, ElementOfSeq, Zenon
  <2>3. /\ t \in Seq(Chars)
        /\ Len(t) = IF p + 1 <= Len(s) THEN Len(s) - (p + 1) + 1 ELSE 0
        /\ \A i \in 1..(Len(s) - (p + 1) + 1) : t[i] = s[(p + 1) + i - 1]
    <3> DEFINE m == p + 1
               e == Len(s)
    <3>1. m \in Int /\ e \in Int /\ \A i \in m..e : s[i] \in Chars
      BY <2>1, <2>2, Zenon
    <3> HIDE DEF m, e
    <3>2. /\ SubSeq(s, m, e) \in Seq(Chars)
          /\ Len(SubSeq(s, m, e)) = IF m <= e THEN e - m + 1 ELSE 0
          /\ \A i \in 1..(e - m + 1) : SubSeq(s, m, e)[i] = s[m + i - 1]
      BY <3>1, SubSeqProperties
    <3> QED
      BY <3>2, Zenon DEF m, e
  <2> HIDE DEF t
  <2>4. Len(t) = len_
    <3> DEFINE m == Len(s) - (p + 1) + 1
    <3>1. Len(t) = IF p + 1 <= Len(s) THEN m ELSE 0
      BY <2>3, Zenon
    <3>2. p + 1 <= Len(s) /\ m = len_
      BY <2>1, Zenon
    <3> HIDE DEF m
    <3>3. Len(t) = m
      BY <3>1, <3>2
    <3> QED
      BY <3>2, <3>3, Zenon
  <2>5. ASSUME NEW i \in 1..len_ PROVE t[0 + i] = s[p + i]
    <3>1. t[i] = s[(p + 1) + i - 1]
      BY <2>1, <2>3, Zenon
    <3> QED
      BY <2>1, <3>1, Zenon
  <2> QED
    BY <2>1, <2>3, <2>4, <2>5, Zenon
<1>9. 0 \in Nat /\ \A i \in 1..0 : FALSE
  <2> HIDE DEF t
  <2> QED
    OBVIOUS
<1>10. PaddedNumeral(t, 0, "0", x, len_)
  <2> HIDE DEF t
  <2> QED
    BY <1>1, <1>8, <1>9, Zenon DEF PaddedNumeral
<1> QED
  BY <1>7, <1>10, Zenon

\* A numeral padded with zeros has no blank to skip.
LEMMA AfterZeros ==
  ASSUME NEW s, NEW p, NEW x \in Nat, NEW len_, PaddedNumeral(s, p, "0", x, len_)
  PROVE  \E z : PaddedNumeral(SubSeq(s, Printing!Blanks(s) + 1, Len(s)), z, "0", x, len_)
<1>1. s \in Seq(Chars) /\ len_ \in Nat /\ len_ >= 1 /\ p \in Nat /\ Len(s) = p + len_
  BY Zenon DEF PaddedNumeral
<1>2. len_ \in Nat /\ len_ >= 1 /\ p \in Nat /\ Len(s) = p + len_
  BY <1>1, Zenon
<1>3. /\ 0 \in 0..Len(s) /\ 0 + 1 \in 1..Len(s) /\ Len(s) \in Nat
      /\ \A i \in 1..0 : FALSE
  BY <1>2
<1>4. s[0 + 1] # Blank
  BY <1>3, AllDigits, DigitIsNoBlank, Zenon
<1>5. Skipped(s, 0)
  BY <1>3, <1>4, Zenon DEF Skipped
<1>6. Printing!Blanks(s) = 0
  BY <1>3, <1>5, BlanksAre, Zenon
<1>7. SubSeq(s, 0 + 1, Len(s)) = s
  BY <1>1
<1> QED
  BY <1>6, <1>7, Zenon

\* atoi stops where the digits end, here at the end.
LEMMA LeadingAll ==
  ASSUME NEW t, NEW p, NEW x \in Nat, NEW len_, PaddedNumeral(t, p, "0", x, len_)
  PROVE  Printing!Leading(t, Printing!isdigit) = Len(t)
<1> DEFINE Q(j) == (\A i \in 1..j : Printing!isdigit(t[i])) /\ (j < Len(t) => ~Printing!isdigit(t[j + 1]))
           b    == CHOOSE j \in 0..Len(t) : Q(j)
<1>0. Len(t) \in Nat
  <2>1. len_ \in Nat /\ p \in Nat /\ Len(t) = p + len_
    BY Zenon DEF PaddedNumeral
  <2> QED
    BY <2>1
<1>1. \A i \in 1..Len(t) : Printing!isdigit(t[i])
  BY AllDigits, DigitRight, Zenon
<1>2. Len(t) \in 0..Len(t) /\ ~(Len(t) < Len(t))
  BY <1>0
<1>3. b \in 0..Len(t) /\ Q(b)
  BY <1>1, <1>2, Zenon
<1>4. Printing!Leading(t, Printing!isdigit) = b
  BY DEF Printing!Leading
<1> HIDE DEF b
<1>5. ~(b < Len(t))
  <2>1. b < Len(t) => b + 1 \in 1..Len(t)
    BY <1>0, <1>3
  <2> QED
    BY <1>1, <1>3, <2>1, Zenon
<1>6. b = Len(t)
  BY <1>0, <1>3, <1>5
<1> QED
  BY <1>4, <1>6

-----------------------------------------------------------------------------
(* atoi.                                                                     *)

\* What atoi has read of x after k characters.
ReadOf(p, x, len_, k) == IF k <= p THEN 0 ELSE x \div 10^(len_ - (k - p))

\* A further character makes of it what atoi computes, which does not overflow.
LEMMA ReadStep ==
  ASSUME NEW t, NEW p, NEW x \in Nat, x \in Printing!Int_, NEW len_, PaddedNumeral(t, p, "0", x, len_),
         NEW k \in 1..Len(t)
  PROVE  ReadOf(p, x, len_, k)
         = Printing!Wrap(10 * ReadOf(p, x, len_, k - 1) + Printing!DigitValue(t[k]))
<1>1. /\ len_ \in Nat /\ len_ <= Bits /\ IsLen(x, 10, len_) /\ p \in Nat /\ Len(t) = p + len_
      /\ \A i \in 1..p : t[i] = "0"
      /\ \A i \in 1..len_ : t[p + i] = Printing!Digit((x \div 10^(len_ - i)) % 10)
  BY Zenon DEF PaddedNumeral
<1>2. PICK h \in Nat : h > 0 /\ 2^(Bits - 1) = h /\ 2^Bits = 2 * h
  BY Halved
<1>3. x < h /\ h \in Nat /\ h > 0 /\ x \in Nat
  <2>1. x \in (-h)..(h - 1) /\ h \in Nat /\ h > 0
    BY <1>2, Zenon DEF Printing!Int_
  <2> QED
    BY <2>1
<1>4. ASSUME NEW y \in Nat, y <= x PROVE Printing!Wrap(y) = y
  <2>1. y + h \in 0..(2 * h - 1) /\ (y + h) - h = y
    BY <1>3, <1>4
  <2>2. (y + h) % (2 * h) = y + h
    BY <1>3, <2>1
  <2>3. ((y + h) % (2 * h)) - h = y
    BY <2>1, <2>2, Zenon
  <2> QED
    BY <1>2, <2>3, Zenon DEF Printing!Wrap
<1>5. k \in Nat /\ p \in Nat /\ len_ \in Nat /\ k \in 1..(p + len_) /\ Bits \in Nat /\ len_ <= Bits
  <2>1. p \in Nat /\ len_ \in Nat /\ k \in 1..(p + len_) /\ len_ <= Bits
    BY <1>1, Zenon
  <2>2. Bits \in Nat
    BY PowersOf
  <2> QED
    BY <2>1, <2>2
<1>6. CASE k <= p
  <2>1. k \in 1..p /\ k - 1 <= p /\ 0 \in 0..9 /\ 10 * 0 + 0 = 0 /\ 0 \in Nat /\ 0 <= x
    BY <1>3, <1>5, <1>6
  <2>2. Printing!DigitValue("0") = 0
    BY <2>1, DigitRight, Zenon
  <2>3. t[k] = "0"
    BY <1>1, <2>1, Zenon
  <2>4. Printing!Wrap(0) = 0
    BY <1>4, <2>1, Zenon
  <2> QED
    BY <1>6, <2>1, <2>2, <2>3, <2>4, Zenon DEF ReadOf
<1>7. CASE ~(k <= p)
  <2> DEFINE i == k - p
             c == 10^(len_ - i)
             y == x \div c
  <2>1. i \in 1..len_ /\ p + i = k /\ len_ - i \in 0..Bits /\ len_ - i \in 0..(Bits - 1)
        /\ len_ \in 0..Bits
    BY <1>5, <1>7
  <2>2. t[k] = Printing!Digit(y % 10)
    BY <1>1, <2>1, Zenon
  <2>3. y \in Nat /\ y % 10 \in 0..9
    BY <2>1, DigitOf
  <2>4. Printing!DigitValue(t[k]) = y % 10
    BY <2>2, <2>3, DigitRight, Zenon
  <2>5. PICK d \in Nat : d = c /\ d > 0
    BY <2>1, PowersOf
  <2>6. d \in Nat /\ d > 0
    BY <2>5
  <2>7. x \div d <= x
    BY <2>6, Z3
  <2>8. Printing!Wrap(y) = y
    <3>1. y <= x
      BY <2>5, <2>7, Zenon
    <3> QED
      BY <1>4, <2>3, <3>1, Zenon
  <2>9. 10^((len_ - i) + 1) = 10 * d
    BY <2>1, <2>5, PowersOf, Zenon
  <2>10. ReadOf(p, x, len_, k - 1) = y \div 10
    <3>1. (x \div d) \div 10 = x \div (d * 10)
      BY <2>6, TwoQuotients
    <3>2. d * 10 = 10 * d
      BY <2>6
    <3>3. y \div 10 = x \div 10^((len_ - i) + 1)
      BY <2>5, <2>9, <3>1, <3>2, Zenon
    <3>4. CASE k - 1 <= p
      <4>1. (len_ - i) + 1 = len_
        BY <1>5, <1>7, <3>4
      <4>2. PICK e \in Nat : e = 10^len_ /\ e > 0
        BY <2>1, PowersOf
      <4>3. x < e /\ e \in Nat /\ e > 0
        BY <1>1, <4>2, Zenon DEF IsLen
      <4>4. x \div e = 0
        BY <4>3, Z3
      <4>5. y \div 10 = 0
        BY <3>3, <4>1, <4>2, <4>4, Zenon
      <4> QED
        BY <3>4, <4>5, Zenon DEF ReadOf
    <3>5. CASE ~(k - 1 <= p)
      <4>1. len_ - ((k - 1) - p) = (len_ - i) + 1
        BY <1>5
      <4> QED
        BY <3>3, <3>5, <4>1, Zenon DEF ReadOf
    <3> QED
      BY <3>4, <3>5
  <2>11. ReadOf(p, x, len_, k) = y
    BY <1>7, Zenon DEF ReadOf
  <2>12. 10 * (y \div 10) + (y % 10) = y
    <3> HIDE DEF y
    <3> QED
      BY <2>3
  <2> HIDE DEF y
  <2> QED
    BY <2>4, <2>8, <2>10, <2>11, <2>12, Zenon
<1> QED
  BY <1>6, <1>7

\* So atoi, which is a recursive function of what it reads, reads x.
AtoiOf(t) ==
  CHOOSE f : f = [k \in 0..Printing!Leading(t, Printing!isdigit) |->
                    IF k = 0 THEN 0 ELSE Printing!Wrap(10 * f[k - 1] + Printing!DigitValue(t[k]))]

LEMMA AtoiIs ==
  ASSUME NEW s
  PROVE  Printing!Atoi(s) = LET t == SubSeq(s, Printing!Blanks(s) + 1, Len(s))
                            IN AtoiOf(t)[Printing!Leading(t, Printing!isdigit)]
BY Zenon DEF Printing!Atoi, AtoiOf

\* At the smallest k where it had not read ReadOf it would have gone wrong one before.
LEMMA AtoiReads ==
  ASSUME NEW t, NEW p, NEW x \in Nat, x \in Printing!Int_, NEW len_, PaddedNumeral(t, p, "0", x, len_)
  PROVE  AtoiOf(t)[Len(t)] = x
<1> DEFINE N    == Len(t)
           R(k) == ReadOf(p, x, len_, k)
           P(f) == f = [k \in 0..N |->
                          IF k = 0 THEN 0 ELSE Printing!Wrap(10 * f[k - 1] + Printing!DigitValue(t[k]))]
<1>1. len_ \in Nat /\ len_ >= 1 /\ p \in Nat /\ N = p + len_
  BY Zenon DEF PaddedNumeral
<1>2. N \in Nat
  BY <1>1
<1>3. R(0) = 0
  <2>1. 0 <= p
    BY <1>1
  <2> QED
    BY <2>1, Zenon DEF ReadOf
<1>4. \A k \in 0..N : k # 0 =>
        /\ k \in 1..N /\ k - 1 \in 0..N
        /\ R(k) = Printing!Wrap(10 * R(k - 1) + Printing!DigitValue(t[k]))
  <2>1. \A k \in 0..N : k # 0 => k \in 1..N /\ k - 1 \in 0..N
    BY <1>2
  <2>2. ASSUME NEW k \in 1..Len(t)
        PROVE  ReadOf(p, x, len_, k)
               = Printing!Wrap(10 * ReadOf(p, x, len_, k - 1) + Printing!DigitValue(t[k]))
    BY ReadStep, Zenon
  <2> QED
    BY <2>1, <2>2, Zenon
<1>5. R(N) = x
  <2>1. ~(N <= p) /\ len_ - (N - p) = 0
    BY <1>1
  <2>2. 10^0 = 1 /\ x \div 1 = x
    BY PowersOf
  <2> QED
    BY <2>1, <2>2, Zenon DEF ReadOf
<1>6. AtoiOf(t) = CHOOSE f : P(f)
  <2>1. Printing!Leading(t, Printing!isdigit) = N
    BY LeadingAll, Zenon
  <2> QED
    BY <2>1, Zenon DEF AtoiOf
<1> HIDE DEF N, R
<1>7. \E f : P(f)
  <2> DEFINE f == [k \in 0..N |-> R(k)]
             g == [k \in 0..N |->
                     IF k = 0 THEN 0 ELSE Printing!Wrap(10 * f[k - 1] + Printing!DigitValue(t[k]))]
  <2>1. ASSUME NEW k \in 0..N
        PROVE  R(k) = IF k = 0 THEN 0 ELSE Printing!Wrap(10 * f[k - 1] + Printing!DigitValue(t[k]))
    <3>1. k # 0 => f[k - 1] = R(k - 1)
      BY <1>4, Zenon
    <3> QED
      BY <1>3, <1>4, <3>1, Zenon
  <2>2. f = g
    BY <2>1, Zenon
  <2> QED
    BY <2>2, Zenon
<1>8. P(AtoiOf(t))
  BY <1>6, <1>7, Zenon
<1> DEFINE f == AtoiOf(t)
<1>9. \A k \in 0..N : f[k] = IF k = 0 THEN 0 ELSE Printing!Wrap(10 * f[k - 1] + Printing!DigitValue(t[k]))
  BY <1>8, Zenon
<1> HIDE DEF f
<1> DEFINE S == {k \in 0..N : f[k] # R(k)}
<1>10. S = {}
  <2> SUFFICES ASSUME S # {} PROVE FALSE
    OBVIOUS
  <2>1. PICK e \in S : \A y \in S : e <= y
    <3>1. S \in SUBSET Nat
      BY <1>2
    <3> QED
      BY <3>1, Smallest, Zenon
  <2>2. e \in 0..N /\ f[e] # R(e)
    BY <2>1, Zenon
  <2>3. e # 0
    <3>1. 0 \in 0..N
      BY <1>2
    <3> QED
      BY <1>3, <1>9, <2>2, <3>1, Zenon
  <2>4. ~(e <= e - 1)
    BY <1>2, <2>2
  <2>5. f[e - 1] = R(e - 1)
    BY <1>4, <2>1, <2>2, <2>3, <2>4, Zenon
  <2> QED
    BY <1>4, <1>9, <2>2, <2>3, <2>5, Zenon
<1>11. N \in 0..N
  BY <1>2
<1> QED
  BY <1>5, <1>10, <1>11, Zenon DEF f, N

\* What %u or %d made of a number that is not negative, padded or not, atoi reads back
\* (stdlib.c:22-30, stdio.c:26-50), for every word length.
THEOREM ReadsBack == MCSpec => []ReadBack
<1>1. ASSUME PrintInv, fmt_pc = "done", Len(items) = 1, items[1].kind \in {"d", "u"}, items[1].num >= 0
      PROVE  Printing!Atoi(output) = items[1].num
  <2> DEFINE it == items[1]
             x  == it.num
  <2>1. items \in Printing!Formats /\ output = OutTo(items)[1]
    BY <1>1, Zenon DEF PrintInv, PrintState, Printed
  <2>2. 0 \in 0..(Len(items) - 1) /\ 0 + 1 = 1 /\ 0 \in Nat /\ 1 \in 1..Len(items)
    BY <1>1
  <2>3. output = Printing!Expected(it)
    <3>1. OutTo(items)[1] = OutTo(items)[0] \o Printing!Expected(it)
      BY <2>1, <2>2, Layout, ZenonT(30) DEF Lies
    <3>2. OutTo(items)[0] = <<>>
      BY <2>1, OutJoins, Zenon DEF Joins
    <3>3. it \in Items
      BY <2>1, <2>2, FormatsAre, Zenon
    <3>4. Printing!Expected(it) \in Seq(Chars)
      BY <3>3, TextsTyped, Zenon
    <3>5. <<>> \o Printing!Expected(it) = Printing!Expected(it)
      BY <3>4, ConcatEmptySeq
    <3> QED
      BY <2>1, <3>1, <3>2, <3>5, Zenon
  <2>4. ItemIs(it)
    BY <2>1, <2>2, FormatsAre, Zenon
  <2>5. x \in Printing!Int_ /\ it.width \in Nat
    <3>1. it.kind \in {"d", "u", "x", "p"}
      BY <1>1
    <3>2. it.width \in 0..9
      BY <2>4, Zenon DEF ItemIs
    <3>3. it.width \in Nat
      <4> HIDE DEF it
      <4> QED
        BY <3>2
    <3> QED
      BY <2>4, <3>1, <3>3, Zenon DEF ItemIs
  <2>6. x \in Nat /\ \E p, len_ : PaddedNumeral(output, p, Filler(it), x, len_)
    <3>1. x >= 0 /\ it.kind \in {"d", "u"}
      BY <1>1, Zenon
    <3> HIDE DEF it
    <3> QED
      BY <2>3, <2>5, <3>1, IsPadded
  <2>7. PICK p, len_ : PaddedNumeral(output, p, Filler(it), x, len_)
    BY <2>6, Zenon
  <2>8. Filler(it) = "0" \/ Filler(it) = Blank
    BY Zenon DEF Filler, Blank
  <2> DEFINE t == SubSeq(output, Printing!Blanks(output) + 1, Len(output))
  <2>9. PICK z : PaddedNumeral(t, z, "0", x, len_)
    BY <2>6, <2>7, <2>8, AfterSpaces, AfterZeros, Zenon
  <2>10. AtoiOf(t)[Len(t)] = x
    BY <2>5, <2>6, <2>9, AtoiReads, Zenon
  <2>11. Printing!Leading(t, Printing!isdigit) = Len(t)
    BY <2>6, <2>9, LeadingAll, Zenon
  <2> QED
    BY <2>10, <2>11, AtoiIs, Zenon
<1>2. PrintInv => ReadBack
  BY <1>1, Zenon DEF ReadBack, Printing!ReadBack
<1> QED
  BY <1>2, PrintInvOfInstance, PTL

=============================================================================
