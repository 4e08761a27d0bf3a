------------------------------ MODULE MCArith ------------------------------
(* An instance for TLC of the arithmetic of klib: one call of a double-word *)
(* division, of a division loop or of the multiplication loop, or one count *)
(* of zeros.  The machines that are not used stay where they begin with     *)
(* zero operands.                                                           *)
EXTENDS SoftDiv

CONSTANTS LogH, ZerosLogH

MCPow == [k \in 0..W |-> 2^k]

VARIABLES
  use,                                                      \* which function is called
  signed, wide_a, wide_b, wide_n, wide_d, wide_q, wide_r, sr, carry, wide_pc,  \* of Int64
  mul_a0, mul_b0, mul_a, mul_b, mul_r, mul_done,            \* of SoftMul
  counted                                                   \* the word whose zeros are counted

wideVars == <<signed, wide_a, wide_b, wide_n, wide_d, wide_q, wide_r, sr, carry, wide_pc>>
mulVars  == <<mul_a0, mul_b0, mul_a, mul_b, mul_r, mul_done>>
mcVars   == <<use, vars, wideVars, mulVars, counted>>

Wide  == INSTANCE Int64 WITH a <- wide_a, b <- wide_b, n <- wide_n, d <- wide_d,
                             q <- wide_q, r <- wide_r, pc <- wide_pc
Mul   == INSTANCE SoftMul WITH a0 <- mul_a0, b0 <- mul_b0, a <- mul_a, b <- mul_b,
                               r <- mul_r, done <- mul_done
Zeros == INSTANCE WordBits WITH LogH <- ZerosLogH

ASSUME ArithAssumption == Wide!Parameters /\ Zeros!Parameters

\* What 2^k is: an operator of TLA+ of which TLAPS knows only the constants.
ASSUME ExponentAssumption ==
  /\ 2^0 = 1
  /\ \A k \in (0..(LogH + ZerosLogH)) \cup (0..(2 * Wide!H + 2 * Zeros!H)) : 2^(k + 1) = 2 * 2^k

DivIdle  == fn = "udivsi3" /\ a0 = 0 /\ b0 = 0 /\ Init
WideIdle == signed = FALSE /\ wide_a = 0 /\ wide_b = 0 /\ Wide!Init
MulIdle  == mul_a0 = 0 /\ mul_b0 = 0 /\ Mul!Init

MCInit ==
  \/ use = "div"   /\ WideIdle /\ MulIdle /\ Init      /\ counted = 0
  \/ use = "wide"  /\ DivIdle  /\ MulIdle /\ Wide!Init /\ counted = 0
  \/ use = "mul"   /\ WideIdle /\ DivIdle /\ Mul!Init  /\ counted = 0
  \/ use = "zeros" /\ WideIdle /\ DivIdle /\ MulIdle   /\ counted \in Zeros!Dwords

Ended == pc = "done" \/ mul_done \/ use = "zeros"

DivStep  == use = "div"  /\ Next      /\ UNCHANGED <<use, wideVars, mulVars, counted>>
WideStep == use = "wide" /\ Wide!Next /\ UNCHANGED <<use, vars, mulVars, counted>>
MulStep  == use = "mul"  /\ Mul!Next  /\ UNCHANGED <<use, vars, wideVars, counted>>

MCNext == DivStep \/ WideStep \/ MulStep \/ (Ended /\ UNCHANGED mcVars)

\* One call of one thread: the hart goes on.
MCSpec == MCInit /\ [][MCNext]_mcVars /\ WF_mcVars(DivStep) /\ WF_mcVars(MulStep)

-----------------------------------------------------------------------------
(* The properties of the instances; those of SoftDiv have their own names.   *)

\* __mulsi3 returns the low word of the product, and its loop keeps the sum so far and
\* what is left to multiply equal to it (mulsi3.c:6-13).
MultipliesRight == use = "mul" => Mul!TypeOK /\ Mul!Conserved /\ Mul!MultipliesRight

\* Where the loop of __udivmoddi4 is entered, and what its turns keep (int64.c:605-629).
WideLoopInv == use = "wide" => Wide!TypeOK /\ Wide!LoopInv

\* Every double-word division returns quotient and remainder (int64.c:426-634).
DividesRight == use = "wide" => Wide!DividesRight

\* The signed double-word functions round towards zero (int64.c:368-404).
SignedRight == use = "wide" => Wide!SignedRight

\* clz is what is missing in front of the highest bit set, ctz the exponent of the
\* largest power of two that divides, of a word and of a double word (int64.c:634-731).
\* The code promises nothing for zero; it gives the width.
ZerosRight ==
  LET w == Zeros!H
      Clz(k, c) == IF counted = 0 THEN c = k
                   ELSE c \in 0..(k - 1) /\ 2^(k - 1 - c) <= counted /\ counted < 2^(k - c)
      Ctz(k, c) == IF counted = 0 THEN c = k ELSE counted % 2^c = 0 /\ counted % 2^(c + 1) # 0
  IN use = "zeros" =>
       /\ counted < 2^w => Clz(w, Zeros!Clzsi2(counted)) /\ Ctz(w, Zeros!Ctzsi2(counted))
       /\ Clz(2 * w, Zeros!Clzdi2(counted)) /\ Ctz(2 * w, Zeros!Ctzdi2(counted))

\* Every call of the division and multiplication loops returns (udivsi3.c, umodsi3.c,
\* divsi3.c, mulsi3.c), a division by zero included.
CallsEnd == (use = "div" => CallEnds) /\ (use = "mul" => Mul!CallEnds)
=============================================================================
