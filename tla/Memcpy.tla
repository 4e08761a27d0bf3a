------------------------------- MODULE Memcpy -------------------------------
(***************************************************************************)
(* Copying memory: memcpy of klib/src/string.c, which is memmove as well.  *)
(* The areas may overlap.  A step is one turn of a loop.                  *)
(***************************************************************************)
EXTENDS Memory

VARIABLES
  old,          \* memory at the call
  out, in, len, \* the arguments
  mem,
  dst, src, n,  \* the local pointers, and how many bytes are left
  ret,          \* what is returned
  pc

args == <<old, out, in, len>>
vars == <<args, mem, dst, src, n, ret, pc>>

\* Both areas lie in memory, unless a pointer is NULL.
Init ==
  /\ old \in [Addr -> Byte]
  /\ out \in 0..M /\ in \in 0..M /\ len \in 0..M
  /\ out # 0 /\ in # 0 => out + len - 1 <= M /\ in + len - 1 <= M
  /\ mem = old /\ dst = out /\ src = in /\ n = len /\ ret = 0
  /\ pc = "call"

\* out lies in the source: it has to be read from its end.  Mutant: the last byte of
\* the source is taken to be outside.
OverlapsShort == out >= in /\ out < in + len - 1
Overlaps      == out >= in /\ out <= in + len - 1

NullArgument ==
  /\ pc = "call" /\ (out = 0 \/ in = 0)
  /\ pc' = "done" /\ ret' = 0
  /\ UNCHANGED <<args, mem, dst, src, n>>

Forwards ==
  /\ pc = "call" /\ out # 0 /\ in # 0 /\ ~Overlaps
  /\ pc' = "forwards"
  /\ UNCHANGED <<args, mem, dst, src, n, ret>>

Backwards ==
  /\ pc = "call" /\ out # 0 /\ in # 0 /\ Overlaps
  /\ dst' = out + len - 1 /\ src' = in + len - 1
  /\ pc' = "backwards"
  /\ UNCHANGED <<args, mem, n, ret>>

CopyByte ==
  /\ pc \in {"forwards", "backwards"} /\ n > 0
  /\ mem' = [mem EXCEPT ![dst] = mem[src]]
  /\ n' = n - 1
  /\ dst' = IF pc = "forwards" THEN dst + 1 ELSE dst - 1
  /\ src' = IF pc = "forwards" THEN src + 1 ELSE src - 1
  /\ UNCHANGED <<args, ret, pc>>

Return ==
  /\ pc \in {"forwards", "backwards"} /\ n = 0
  /\ pc' = "done" /\ ret' = out
  /\ UNCHANGED <<args, mem, dst, src, n>>

Next == NullArgument \/ Forwards \/ Backwards \/ CopyByte \/ Return

Spec == Init /\ [][Next]_vars

-----------------------------------------------------------------------------
(* Properties.                                                               *)

\* Memory after i bytes from offset k on have been copied from what it was before.
Moved(k, i) ==
  [x \in Addr |-> IF x \in (out + k)..(out + k + i - 1) THEN old[in + (x - out)] ELSE old[x]]

\* Every variable has its type.
TypeOK ==
  /\ old \in [Addr -> Byte] /\ mem \in [Addr -> Byte]
  /\ out \in 0..M /\ in \in 0..M /\ len \in 0..M /\ n \in 0..len /\ ret \in 0..M
  /\ dst \in 0..(M + 1) /\ src \in 0..(M + 1)
  /\ pc \in {"call", "forwards", "backwards", "done"}

\* The loops write no byte that is still to be read (string.c:77-86): the front of the
\* target is right when going forwards, its end when going backwards.
CopyInv ==
  /\ TypeOK
  /\ pc \in {"call", "forwards", "backwards"} /\ out # 0 /\ in # 0 =>
       out + len - 1 <= M /\ in + len - 1 <= M
  /\ pc = "call" => mem = old /\ dst = out /\ src = in /\ n = len
  /\ pc \in {"forwards", "backwards"} => out # 0 /\ in # 0
  /\ pc = "forwards" =>
       /\ dst = out + (len - n) /\ src = in + (len - n)
       /\ mem = Moved(0, len - n) /\ (out < in \/ out > in + len - 1)
  /\ pc = "backwards" =>
       /\ dst = out + n - 1 /\ src = in + n - 1
       /\ mem = Moved(n, len - n) /\ out >= in

\* Every byte read or written is one of the two areas (string.c:80-86).
Inside ==
  pc \in {"forwards", "backwards"} /\ n > 0 =>
    dst \in out..(out + len - 1) /\ src \in in..(in + len - 1)

\* memcpy, and so memmove, leaves the target with what the source held before, however
\* the two overlap, and the rest of memory as it was (string.c:70-88); with a NULL it
\* does nothing.
CopiesRight ==
  pc = "done" => IF out = 0 \/ in = 0 THEN mem = old /\ ret = 0
                                       ELSE mem = Moved(0, len) /\ ret = out
=============================================================================
