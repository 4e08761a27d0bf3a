------------------------------ MODULE MCMemory ------------------------------
(* An instance for TLC of klib's strings, memory and formatted output: one  *)
(* call of a string function, of memcpy or of vsprintf, or two threads in   *)
(* malloc.  What is not used stays at its beginning.                        *)
EXTENDS Memcpy

CONSTANTS
  Bits, Nums, Widths, MaxItems,                              \* of Format
  HeapModulus, HeapStart, HeapEnd, Threads, Sizes, MaxCalls \* of Heap

\* A value for Nums; a .cfg has no negative numbers.
MCNums == {-64, -10, -1, 0, 9, 10, 63}

VARIABLES
  use,                                                                        \* which of them runs
  fn, s1, s2, str_n, str_old, str_mem, str_p, str_q, str_k, str_ret, str_pc,  \* Strings
  items, pos, output, used, occupy, limit, fmt_pc,                            \* Format
  addr, call, blocks, taken, lost, calls                                      \* Heap

stringVars == <<fn, s1, s2, str_n, str_old, str_mem, str_p, str_q, str_k, str_ret, str_pc>>
printVars  == <<items, pos, output, used, occupy, limit, fmt_pc>>
heapVars   == <<addr, call, blocks, taken, lost, calls>>
mcVars     == <<use, vars, stringVars, printVars, heapVars>>

Str      == INSTANCE Strings WITH n <- str_n, old <- str_old, mem <- str_mem, p <- str_p,
                                  q <- str_q, k <- str_k, ret <- str_ret, pc <- str_pc
Printing == INSTANCE Format WITH out <- output, pc <- fmt_pc
Heap     == INSTANCE Heap WITH Modulus <- HeapModulus

ASSUME MemoryParameters == Printing!FormatParameters /\ Heap!Parameters

\* What 2^k, 10^k and 16^k are: TLAPS knows nothing of powers.
ASSUME PowerAssumption ==
  \A b \in {2, 10, 16} : b^0 = 1 /\ \A k \in 0..(Bits - 1) : b^(k + 1) = b * b^k

CopyIdle    == old = [a \in Addr |-> 0] /\ out = 0 /\ in = 0 /\ len = 0 /\ Init
StringsIdle == /\ fn = "strcmp" /\ s1 = 0 /\ s2 = 0 /\ str_n = 0
               /\ str_old = [a \in Addr |-> 0] /\ Str!Init
PrintIdle   == items = <<>> /\ Printing!Init

MCInit ==
  /\ Heap!Init
  /\ \/ use = "memcpy"   /\ StringsIdle /\ PrintIdle /\ Init
     \/ use = "strings"  /\ CopyIdle    /\ PrintIdle /\ Str!Init
     \/ use = "vsprintf" /\ StringsIdle /\ CopyIdle  /\ Printing!Init
     \/ use = "malloc"   /\ StringsIdle /\ CopyIdle  /\ PrintIdle

MCNext ==
  /\ UNCHANGED use
  /\ \/ use = "memcpy"   /\ Next          /\ UNCHANGED <<stringVars, printVars, heapVars>>
     \/ use = "strings"  /\ Str!Next      /\ UNCHANGED <<vars, printVars, heapVars>>
     \/ use = "vsprintf" /\ Printing!Next /\ UNCHANGED <<vars, stringVars, heapVars>>
     \/ use = "malloc"   /\ Heap!Next     /\ UNCHANGED <<vars, stringVars, printVars>>

MCSpec == MCInit /\ [][MCNext]_mcVars

-----------------------------------------------------------------------------
(* The properties of the instances; those of Memcpy have their own names.    *)

\* The string functions write their result and nothing else (string.c:13-39, 63-68).
WritesRight == use = "strings" => Str!WritesRight

\* strlen counts, and comparisons order, as they should (string.c:7-61).
ReadsRight == use = "strings" => Str!ReadsRight

\* Nothing is read or written outside the areas, strings and formats of a legal call
\* (string.c:7-88, stdio.c:82-116), but for a format whose NUL cuts a directive off.
AccessesInside ==
  CASE use = "memcpy"   -> Inside
    [] use = "strings"  -> Str!Inside
    [] use = "vsprintf" -> Printing!ReadsInside
    [] OTHER            -> TRUE

\* Each item is printed as its directive asks (stdio.c:78-123).
PrintsRight == use = "vsprintf" => Printing!PrintsRight

\* atoi reads back what was printed (stdlib.c:22-30, stdio.c:26-50).
ReadBack == use = "vsprintf" => Printing!ReadBack

\* Blocks that malloc returned lie apart in the heap (stdlib.c:32-42).
BlocksApart == Heap!BlocksApart
=============================================================================
