------------------------------- MODULE SoftDiv -------------------------------
(***************************************************************************)
(* Division in software, for a hart without the M extension:               *)
(* klib/src/builtin/udivsi3.c, umodsi3.c and divsi3.c.                     *)
(*                                                                         *)
(* The three functions have the same two loops, over unsigned operands in  *)
(* the first two and signed ones in the third, and differ in what they     *)
(* return.  A step is one turn of a loop.                                  *)
(***************************************************************************)
EXTENDS PowersOfTwo

Functions == {"udivsi3", "umodsi3", "divsi3"}

VARIABLES
  fn,      \* the function called
  a0, b0,  \* its arguments
  a, b, bit, res,
  pc

vars == <<fn, a0, b0, a, b, bit, res, pc>>

\* The type of a and b, and how a value is brought back into it.
Word    == IF fn = "divsi3" THEN Int_ ELSE Unsigned
Wrap(x) == IF fn = "divsi3" THEN ((x + Pow[W - 1]) % Pow[W]) - Pow[W - 1]
                            ELSE x % Pow[W]

Init ==
  /\ fn \in Functions
  /\ a0 \in Word /\ b0 \in Word
  /\ a = a0 /\ b = b0 /\ bit = 1 /\ res = 0
  /\ pc = "widen"

\* b & (1UL << 31)
TopBit(x) == IF fn = "divsi3" THEN x < 0 ELSE x >= Pow[W - 1]

\* The condition of the first loop.  Mutants: one of its conjuncts is not there.
WideningOverTop  == b < a /\ bit # 0
WideningOverZero == b < a /\ ~TopBit(b)
Widening         == b < a /\ bit # 0 /\ ~TopBit(b)

Widen ==
  /\ pc = "widen" /\ Widening
  /\ b' = Wrap(2 * b) /\ bit' = (2 * bit) % Pow[W]
  /\ UNCHANGED <<fn, a0, b0, a, res, pc>>

Widened ==
  /\ pc = "widen" /\ ~Widening
  /\ pc' = "subtract"
  /\ UNCHANGED <<fn, a0, b0, a, b, bit, res>>

\* a >= b.  Mutant: a > b.
FitsStrictly == a > b
Fits         == a >= b

\* A turn of the second loop.  Bits are met from the left, so res |= bit adds.
Subtract ==
  /\ pc = "subtract" /\ bit # 0
  /\ IF Fits THEN a' = Wrap(a - b) /\ res' = res + bit ELSE UNCHANGED <<a, res>>
  /\ bit' = bit \div 2 /\ b' = b \div 2
  /\ UNCHANGED <<fn, a0, b0, pc>>

Return ==
  /\ pc = "subtract" /\ bit = 0
  /\ pc' = "done"
  /\ UNCHANGED <<fn, a0, b0, a, b, bit, res>>

Result == IF fn = "umodsi3" THEN a ELSE res

Next == Widen \/ Widened \/ Subtract \/ Return

\* One call of one thread: the hart goes on.
Spec == Init /\ [][Next]_vars /\ WF_vars(Next)

-----------------------------------------------------------------------------
(* Properties.                                                               *)

\* Every variable has its type.
TypeOK ==
  /\ fn \in Functions /\ pc \in {"widen", "subtract", "done"}
  /\ a0 \in Word /\ b0 \in Word /\ a \in Word /\ b \in Word
  /\ bit \in Unsigned /\ res \in Unsigned

\* The arguments for which the code divides: unsigned ones, a divisor other than 0;
\* signed ones, a positive divisor and a dividend of at most 2^(W - 2), for b <<= 1
\* may otherwise reach the sign bit.
InDomain == b0 > 0 /\ (fn = "divsi3" => 0 <= a0 /\ a0 <= Pow[W - 2])

\* What the loops keep (udivsi3.c:4-16 and its siblings): b is the divisor shifted by as much as bit, the quotient's
\* bits found so far are paid for in a, and what is left of a needs no higher bit.
Shifted(k) == bit = Pow[k] /\ b = b0 * Pow[k]
Paid       == a0 = b0 * res + a /\ a >= 0

Accounted ==
  InDomain =>
    /\ pc = "widen" => /\ \E k \in 0..(W - 1) : Shifted(k)
                       /\ a = a0 /\ res = 0
    /\ pc = "subtract" => /\ Paid
                          /\ \/ \E k \in 0..(W - 1) : Shifted(k) /\ a < 2 * b
                             \/ bit = 0 /\ a < b0
    /\ pc = "done" => Paid /\ a < b0

SubtractInv == TypeOK /\ Accounted

\* A division by zero returns as well: 0, or 1 for 0 / 0, and the dividend as the
\* remainder.  Only the bit that falls out ends the first loop then.
ByZero == Result = IF fn = "umodsi3" THEN a0 ELSE IF a0 = 0 THEN 1 ELSE 0

\* Within their domain the functions return the quotient and the remainder
\* (udivsi3.c, umodsi3.c, divsi3.c): no shift of the first loop loses a bit of the
\* divisor, and none is needed that the loop does not make.
QuotientRight ==
  pc = "done" =>
    /\ InDomain => Result = IF fn = "umodsi3" THEN a0 % b0 ELSE a0 \div b0
    /\ b0 = 0 /\ a0 >= 0 => ByZero

\* int64.c:314 declares `COMPILER_RT_ABI si_int __divsi3(si_int a, si_int b)`: the
\* compiler's run-time library's signed division, which rounds towards zero.
\* divsi3.c returns 0 or 1 whatever the quotient if an operand is negative, and may
\* return something else for a dividend above 2^(W - 2).
Magnitude(x)  == IF x < 0 THEN -x ELSE x
SiInt(x)      == IF x >= Pow[W - 1] THEN x - Pow[W] ELSE x
SignedDivides ==
  pc = "done" /\ fn = "divsi3" /\ b0 # 0 /\ ~(a0 = -Pow[W - 1] /\ b0 = -1) =>
    LET q == Magnitude(a0) \div Magnitude(b0)
    IN SiInt(Result) = IF (a0 < 0) = (b0 < 0) THEN q ELSE -q

\* Every call returns.
CallEnds == <>(pc = "done")
=============================================================================
