------------------------------- MODULE SoftMul -------------------------------
(***************************************************************************)
(* Multiplication in software: klib/src/builtin/mulsi3.c.  A step is one   *)
(* turn of the loop; words have W bits, and what leaves them is lost.      *)
(***************************************************************************)
EXTENDS PowersOfTwo

Wrap(x) == x % Pow[W]

VARIABLES
  a0, b0,  \* the arguments
  a, b, r,
  done

vars == <<a0, b0, a, b, r, done>>

Init ==
  /\ a0 \in Unsigned /\ b0 \in Unsigned
  /\ a = a0 /\ b = b0 /\ r = 0 /\ done = FALSE

\* if (a & 1) r += b.  Mutant: b has been shifted already.
AddedLate == IF a % 2 = 1 THEN Wrap(r + 2 * b) ELSE r
Added     == IF a % 2 = 1 THEN Wrap(r + b) ELSE r

Turn ==
  /\ a # 0
  /\ r' = Added /\ a' = a \div 2 /\ b' = Wrap(2 * b)
  /\ UNCHANGED <<a0, b0, done>>

Return ==
  /\ a = 0 /\ ~done
  /\ done' = TRUE
  /\ UNCHANGED <<a0, b0, a, b, r>>

Next == Turn \/ Return

\* One call of one thread: the hart goes on.
Spec == Init /\ [][Next]_vars /\ WF_vars(Next)

-----------------------------------------------------------------------------
(* Properties.                                                               *)

\* Every variable has its type.
TypeOK ==
  /\ {a0, b0, a, b, r} \subseteq Unsigned /\ done \in BOOLEAN

\* The sum so far and what is left to multiply make up the product, modulo the
\* width of a word (mulsi3.c:6-12): so the code serves signed operands as well, and
\* bits that b loses on the left are bits the result has no room for.
Conserved == Wrap(r + a * b) = Wrap(a0 * b0)

\* __mulsi3 returns the low word of the product, of unsigned operands and of signed
\* ones alike (mulsi3.c:13).
Signed(x)       == IF x >= Pow[W - 1] THEN x - Pow[W] ELSE x
MultipliesRight ==
  done => r = Wrap(a0 * b0) /\ r = Wrap(Signed(a0) * Signed(b0))

\* The loop ends: a gets smaller by every turn.
CallEnds == <>done
=============================================================================
