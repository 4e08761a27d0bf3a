-------------------------------- MODULE Int64 --------------------------------
(***************************************************************************)
(* The 64-bit divisions of klib/src/int64.c: __udivmoddi4 and what calls   *)
(* it, __udivdi3, __umoddi3, __divdi3, __moddi3 and __divmoddi4.           *)
(*                                                                         *)
(* A double word is a number below 2^(2H); of the signed functions it is   *)
(* the two's complement.  A step is one of the special cases, the          *)
(* preparation of the loop, or one turn of it.                             *)
(***************************************************************************)
EXTENDS WordBits

D       == 2 * H
Wrap(x) == x % 2^D
Neg(x)  == Wrap(-x)
IsNeg(x) == x >= 2^(D - 1)
Abs(x)  == IF IsNeg(x) THEN Neg(x) ELSE x

VARIABLES
  signed,   \* whether a signed function was called
  a, b,     \* its arguments
  n, d,     \* the arguments of __udivmoddi4
  q, r,     \* quotient and remainder
  sr, carry,
  pc

vars == <<signed, a, b, n, d, q, r, sr, carry, pc>>

\* The signed functions negate the negative of their arguments.
Init ==
  /\ signed \in BOOLEAN
  /\ a \in Dwords /\ b \in Dwords
  /\ n = IF signed THEN Abs(a) ELSE a
  /\ d = IF signed THEN Abs(b) ELSE b
  /\ q = 0 /\ r = 0 /\ sr = 0 /\ carry = 0
  /\ pc = "divide"

-----------------------------------------------------------------------------
(* The cases without a loop.                                                 *)

\* Single words are divided by __udivsi3 and __umodsi3 (SoftDiv, also for zero).
Udivsi3(x, y) == IF y = 0 THEN (IF x = 0 THEN 1 ELSE 0) ELSE x \div y
Umodsi3(x, y) == IF y = 0 THEN x ELSE x % y

IsPowerOf2(x) == \E k \in 0..(H - 1) : x = 2^k

Finish(quot, rem) ==
  /\ q' = quot /\ r' = rem
  /\ pc' = "done"
  /\ UNCHANGED <<signed, a, b, n, d, sr, carry>>

\* 0 X / 0 X and 0 X / K X
NoHigh ==
  /\ pc = "divide" /\ High(n) = 0
  /\ IF High(d) = 0 THEN Finish(Udivsi3(Low(n), Low(d)), Umodsi3(Low(n), Low(d)))
                    ELSE Finish(0, Low(n))

\* K X / 0 0 and K 0 / K 0
ByHighWord ==
  /\ pc = "divide" /\ High(n) # 0 /\ Low(d) = 0
  /\ \/ /\ High(d) = 0
        /\ Finish(Udivsi3(High(n), Low(d)), Umodsi3(High(n), Low(d)))
     \/ /\ High(d) # 0 /\ Low(n) = 0
        /\ Finish(High(n) \div High(d), Join(High(n) % High(d), 0))

\* K K / K 0, the divisor a power of two
ByHighPower ==
  /\ pc = "divide" /\ High(n) # 0 /\ Low(d) = 0 /\ Low(n) # 0
  /\ IsPowerOf2(High(d))
  /\ Finish(High(n) \div 2^Ctzsi2(High(d)), Join(High(n) % High(d), Low(n)))

\* K X / 0 K, the divisor a power of two
ByLowPower ==
  /\ pc = "divide" /\ High(n) # 0 /\ High(d) = 0 /\ IsPowerOf2(Low(d))
  /\ LET s == Ctzsi2(Low(d))
         shifted == Join(High(n) \div 2^s,
                         ((High(n) * 2^(H - s)) % 2^H) + Low(n) \div 2^s)
     IN Finish(IF Low(d) = 1 THEN n ELSE shifted, Low(n) % Low(d))

-----------------------------------------------------------------------------
(* The loop.                                                                 *)

General == High(n) # 0 /\ d # 0 /\ ~(High(d) = 0 /\ IsPowerOf2(Low(d)))
                       /\ ~(Low(d) = 0 /\ (Low(n) = 0 \/ IsPowerOf2(High(d))))

\* By how much the numerator is longer than the divisor, in unsigned arithmetic,
\* and the largest difference with which the code goes on.
Longer == (Clzsi2(High(d)) - Clzsi2(High(n))) % 2^H

\* Mutant: the limit of K K / K 0 for K X / K K.
MostTight == H - 2
Most      == IF Low(d) = 0 THEN H - 2 ELSE H - 1

Shorter ==
  /\ pc = "divide" /\ General /\ High(d) # 0
  /\ Longer > Most
  /\ Finish(0, n)

\* sr once it has been incremented.
Start == IF High(d) = 0 THEN 1 + H + Clzsi2(Low(d)) - Clzsi2(High(n)) ELSE Longer + 1

\* q = n << (D - sr) and r = n >> sr, made from words
Prepared(s) ==
  \/ /\ s < H
     /\ q' = Join((Low(n) * 2^(H - s)) % 2^H, 0)
     /\ r' = Join(High(n) \div 2^s, ((High(n) * 2^(H - s)) % 2^H) + Low(n) \div 2^s)
  \/ /\ s = H
     /\ q' = Join(Low(n), 0) /\ r' = Join(0, High(n))
  \/ /\ s > H
     /\ q' = Join(((High(n) * 2^(D - s)) % 2^H) + Low(n) \div 2^(s - H),
                  (Low(n) * 2^(D - s)) % 2^H)
     /\ r' = Join(0, High(n) \div 2^(s - H))

Prepare ==
  /\ pc = "divide" /\ General
  /\ High(d) # 0 => Longer <= Most
  /\ sr' = Start /\ Prepared(Start) /\ carry' = 0
  /\ pc' = "loop"
  /\ UNCHANGED <<signed, a, b, n, d>>

\* The sign of d - r - 1.  Mutant: of d - r.
BelowOrEqual(x) == IsNeg(Wrap(d - x))
NotBelow(x)     == IsNeg(Wrap(d - x - 1))

Turn ==
  /\ pc = "loop" /\ sr > 0
  /\ LET r1 == Wrap(2 * r + q \div 2^(D - 1))
     IN /\ q' = Wrap(2 * q + carry)
        /\ carry' = IF NotBelow(r1) THEN 1 ELSE 0
        /\ r' = IF NotBelow(r1) THEN Wrap(r1 - d) ELSE r1
  /\ sr' = sr - 1
  /\ UNCHANGED <<signed, a, b, n, d, pc>>

LoopEnd ==
  /\ pc = "loop" /\ sr = 0
  /\ Finish(Wrap(2 * q + carry), r)

\* Nothing more happens, so that any other state without a step is a deadlock.
Returned == pc = "done" /\ UNCHANGED vars

Next ==
  \/ NoHigh \/ ByHighWord \/ ByHighPower \/ ByLowPower \/ Shorter
  \/ Prepare \/ Turn \/ LoopEnd \/ Returned

Spec == Init /\ [][Next]_vars

-----------------------------------------------------------------------------
(* What the callers return.                                                  *)

Udivdi3 == q
Umoddi3 == r
Divdi3  == IF IsNeg(a) # IsNeg(b) THEN Neg(q) ELSE q

\* The remainder has the sign of the dividend.  Mutant: of the quotient.
Moddi3OfQuotient == IF IsNeg(a) # IsNeg(b) THEN Neg(r) ELSE r
Moddi3           == IF IsNeg(a) THEN Neg(r) ELSE r

DivmodRem == Wrap(a - Divdi3 * b)

-----------------------------------------------------------------------------
(* Properties.                                                               *)

\* Every variable has its type.
TypeOK ==
  /\ signed \in BOOLEAN /\ pc \in {"divide", "loop", "done"}
  /\ {a, b, n, d, q, r} \subseteq Dwords
  /\ sr \in 0..(D - 1) /\ carry \in {0, 1}

\* Of the numerator, sr bits wait at the top of q; the rest is accounted for by the
\* bits of the quotient below them, the last still in carry, and by r, which is
\* smaller than the divisor: so r:q can be shifted without a loss, and the sign of
\* d - r - 1 tells whether r is large enough (int64.c:611-628).  At its beginning,
\* where nothing has been found, this says that r:q is n shifted by sr
\* (int64.c:605-610), in whichever of the six places it was prepared.
LoopInv ==
  pc = "loop" =>
    LET waiting == q \div 2^(D - sr)
        found   == 2 * (q % 2^(D - sr)) + carry
    IN n = (found * d + r) * 2^sr + waiting /\ r < d

\* __udivmoddi4 returns the quotient and the remainder of any two numbers but for a
\* division by zero (int64.c:426-634), through whichever of its eight ways.
DividesRight == pc = "done" /\ d # 0 => n = q * d + r /\ r < d

\* The signed functions round towards zero (int64.c:368-404): a / b is the quotient
\* of the absolute values with the sign the operands give it, a % b has the sign of a,
\* and __divmoddi4's remainder agrees.  INT64_MIN / -1 is left out, as in C.
SignedRight ==
  LET Int_(x) == IF IsNeg(x) THEN x - 2^D ELSE x
  IN pc = "done" /\ signed /\ b # 0 /\ ~(a = 2^(D - 1) /\ b = Neg(1)) =>
       /\ Int_(a) = Int_(Divdi3) * Int_(b) + Int_(Moddi3)
       /\ Moddi3 # 0 => IsNeg(Moddi3) = IsNeg(a) /\ Abs(Moddi3) < Abs(b)
       /\ DivmodRem = Moddi3
=============================================================================
