------------------------------- MODULE Strings -------------------------------
(***************************************************************************)
(* The strings of klib/src/string.c: strlen, strcpy, strncpy, strcat,      *)
(* strcmp, strncmp, memset and memcmp (memcpy is in module Memcpy).        *)
(*                                                                         *)
(* A call's first pointer is p and its second q, both moved by the loops;  *)
(* k counts n down.  A step is one turn of a loop.                         *)
(***************************************************************************)
EXTENDS Memory

Functions == {"strlen", "memset", "strcmp", "strncmp", "memcmp", "strcpy", "strncpy", "strcat"}

VARIABLES
  fn, s1, s2, n,  \* the function and its arguments (s2 is memset's byte)
  old,            \* memory at the call
  mem, p, q, k, ret, pc

args == <<fn, s1, s2, n, old>>
vars == <<args, mem, p, q, k, ret, pc>>

\* Where the string at a ends; whether there is one.
IsString(a) == \E e \in a..M : old[e] = 0
Nul(a)      == CHOOSE e \in a..M : old[e] = 0 /\ \A x \in a..(e - 1) : old[x] # 0
Length(a)   == Nul(a) - a

\* The last byte strncpy, strncmp and memcmp have to look at, from a on.
Final(a) == IF \E e \in a..(a + n - 1) : e <= M /\ old[e] = 0 THEN Nul(a) ELSE a + n - 1

Apart(a, b, c, d) == b < c \/ d < a

Null == s1 = 0 \/ s2 = 0

\* What callers see to: pointers that may not be NULL are not, strings end, and the
\* target has room and is no part of the source.
Legal ==
  CASE fn = "strlen"  -> s1 # 0 /\ s2 = 0 /\ n = 0 /\ IsString(s1)
    [] fn = "memset"  -> s2 \in Byte /\ s1 + n - 1 <= M
    [] fn = "memcmp"  -> ~Null /\ s1 + n - 1 <= M /\ s2 + n - 1 <= M
    [] fn = "strncmp" -> ~Null /\ Final(s1) <= M /\ Final(s2) <= M
    [] fn = "strcmp"  -> n = 0 /\ IF Null THEN TRUE ELSE IsString(s1) /\ IsString(s2)
    [] fn = "strcpy"  -> n = 0 /\ IF Null THEN TRUE ELSE
                           /\ IsString(s2) /\ s1 + Length(s2) <= M
                           /\ Apart(s1, s1 + Length(s2), s2, Nul(s2))
    [] fn = "strncpy" -> IF Null THEN n = 0 ELSE
                           /\ Final(s2) <= M /\ s1 + n - 1 <= M
                           /\ Apart(s1, s1 + n - 1, s2, Final(s2))
    [] fn = "strcat"  -> n = 0 /\ IF Null THEN TRUE ELSE
                           /\ IsString(s1) /\ IsString(s2) /\ Nul(s1) + Length(s2) <= M
                           /\ Apart(s1, Nul(s1) + Length(s2), s2, Nul(s2))

Init ==
  /\ fn \in Functions /\ old \in [Addr -> Byte]
  /\ s1 \in 0..M /\ s2 \in 0..M /\ n \in 0..M
  /\ Legal
  /\ mem = old /\ p = s1 /\ q = s2 /\ k = n /\ ret = 0
  /\ pc = "call"

Return(v) == pc' = "done" /\ ret' = v /\ UNCHANGED <<args, mem, p, q, k>>

\* The functions that return at once when a pointer is NULL.
NullArgument ==
  \/ fn \in {"memset", "strcpy", "strncpy", "strcat", "strcmp"} /\ s1 = 0
  \/ fn \in {"strcpy", "strncpy", "strcat", "strcmp"} /\ s2 = 0

Call ==
  /\ pc = "call"
  /\ IF NullArgument THEN Return(0)
     ELSE /\ pc' = CASE fn \in {"strlen", "strcat"} -> "find"
                     [] fn = "strcpy"  -> "copy"
                     [] fn = "strncpy" -> "ncopy"
                     [] fn = "memset"  -> "set"
                     [] OTHER          -> "compare"
          /\ UNCHANGED <<args, mem, p, q, k, ret>>

\* strlen, and the first loop of strcat
Find ==
  /\ pc = "find"
  /\ \/ mem[p] # 0 /\ p' = p + 1 /\ UNCHANGED <<args, mem, q, k, ret, pc>>
     \/ mem[p] = 0 /\ fn = "strlen" /\ Return(p - s1)
     \/ mem[p] = 0 /\ fn = "strcat" /\ pc' = "copy" /\ UNCHANGED <<args, mem, p, q, k, ret>>

\* strcpy, also called by strcat: the NUL is copied after the loop.  Mutant: it is not.
CopiedNot == mem
Copied    == [mem EXCEPT ![p] = mem[q]]

Copy ==
  /\ pc = "copy"
  /\ \/ /\ mem[q] # 0
        /\ mem' = [mem EXCEPT ![p] = mem[q]] /\ p' = p + 1 /\ q' = q + 1
        /\ UNCHANGED <<args, k, ret, pc>>
     \/ /\ mem[q] = 0
        /\ mem' = Copied /\ pc' = "done" /\ ret' = s1
        /\ UNCHANGED <<args, p, q, k>>

\* strncpy: the source stands still at its NUL.  Mutant: it goes on.
OnwardAlways == q + 1
Onward       == IF mem'[q] # 0 THEN q + 1 ELSE q

Ncopy ==
  /\ pc = "ncopy"
  /\ \/ k = 0 /\ Return(s1)
     \/ /\ k > 0
        /\ mem' = [mem EXCEPT ![p] = mem[q]]
        /\ p' = p + 1 /\ q' = Onward /\ k' = k - 1
        /\ UNCHANGED <<args, ret, pc>>

Memset ==
  /\ pc = "set"
  /\ \/ k = 0 /\ Return(s1)
     \/ /\ k > 0
        /\ mem' = [mem EXCEPT ![p] = s2] /\ p' = p + 1 /\ k' = k - 1
        /\ UNCHANGED <<args, q, ret, pc>>

\* Bytes are compared as unsigned char.  Mutant: as signed (of two bits).
LessSigned(x, y) == (IF x > 1 THEN x - 4 ELSE x) < (IF y > 1 THEN y - 4 ELSE y)
Less(x, y)       == x < y

\* strcmp, strncmp, and memcmp, which is strncmp
Compare ==
  /\ pc = "compare"
  /\ IF fn # "strcmp" /\ k = 0 THEN Return(0)
     ELSE IF Less(mem[p], mem[q]) THEN Return(-1)
     ELSE IF Less(mem[q], mem[p]) THEN Return(1)
     ELSE IF mem[p] = 0 \/ mem[q] = 0 THEN Return(0)
     ELSE /\ p' = p + 1 /\ q' = q + 1
          /\ k' = IF fn = "strcmp" THEN k ELSE k - 1
          /\ UNCHANGED <<args, mem, ret, pc>>

Next == Call \/ Find \/ Copy \/ Ncopy \/ Memset \/ Compare

Spec == Init /\ [][Next]_vars

-----------------------------------------------------------------------------
(* Properties.                                                               *)

\* Memory with the cnt bytes from a on given by Op of their offset.
With(a, cnt, Op(_)) == [x \in Addr |-> IF x \in a..(a + cnt - 1) THEN Op(x - a) ELSE old[x]]
Source(i) == old[s2 + i]

\* What is written, and nothing else is (string.c:13-39, 63-68): the string with its
\* NUL, at the target or at its end; n bytes, NULs from the end of the source on.
WritesRight ==
  pc = "done" =>
    IF NullArgument \/ fn \in {"strlen", "strcmp", "strncmp", "memcmp"} THEN mem = old
    ELSE /\ ret = s1
         /\ mem = CASE fn = "strcpy"  -> With(s1, Length(s2) + 1, Source)
                    [] fn = "strcat"  -> With(Nul(s1), Length(s2) + 1, Source)
                    [] fn = "memset"  -> With(s1, n, LAMBDA i : s2)
                    [] fn = "strncpy" -> With(s1, n, LAMBDA i :
                         IF \E j \in 0..i : Source(j) = 0 THEN 0 ELSE Source(i))

\* The first of the first cnt bytes in which two areas differ decides.
Order(cnt) ==
  LET Differ(i) == old[s1 + i] # old[s2 + i]
  IN IF \A i \in 0..(cnt - 1) : ~Differ(i) THEN 0
     ELSE LET i == CHOOSE i \in 0..(cnt - 1) : Differ(i) /\ \A j \in 0..(i - 1) : ~Differ(j)
          IN IF old[s1 + i] < old[s2 + i] THEN -1 ELSE 1

Least(a, b) == IF a < b THEN a ELSE b

\* strlen counts to the NUL; strcmp orders strings, and strncmp their first n bytes, by
\* the first difference, and strings that end together are equal (string.c:7-61).
ReadsRight ==
  pc = "done" =>
    /\ fn = "strlen" => ret = Length(s1)
    /\ fn = "strcmp" /\ ~NullArgument => ret = Order(1 + Least(Length(s1), Length(s2)))
    /\ fn = "strncmp" => ret = Order(1 + Least(Final(s1) - s1, Final(s2) - s2))

\* No loop reads or writes outside memory when callers keep to Legal: strncpy does not
\* run past the end of a short source, nor do the comparisons past a common end
\* (string.c:22-61).
Inside ==
  /\ pc \in {"find", "copy"} => p \in Addr
  /\ (pc \in {"set", "ncopy"} /\ k > 0) => p \in Addr
  /\ pc = "copy" \/ (pc = "ncopy" /\ k > 0) => q \in Addr
  /\ pc = "compare" /\ (fn = "strcmp" \/ k > 0) => p \in Addr /\ q \in Addr
=============================================================================
