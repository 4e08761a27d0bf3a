------------------------------ MODULE WordBits ------------------------------
(***************************************************************************)
(* Counting zeros from either end of a word and of a double word:          *)
(* __clzsi2, __ctzsi2, __clzdi2 and __ctzdi2 of klib/src/int64.c.          *)
(*                                                                         *)
(* The code narrows a word of 32 bits down to two by halves of 16, 8, 4    *)
(* and 2 bits and reads the rest off; here a word has 2^LogH bits.         *)
(***************************************************************************)
EXTENDS Integers

CONSTANT LogH

Parameters == LogH \in Nat /\ LogH >= 1

H == 2^LogH
Words  == 0..(2^H - 1)
Dwords == 0..(2^(2 * H) - 1)

High(x)    == x \div 2^H
Low(x)     == x % 2^H
Join(h, l) == h * 2^H + l

\* t = ((x & mask) == 0) << k; x >>= h - t; r += t.
SkipHigh(s, h) == LET t == IF s.x \div 2^h = 0 THEN h ELSE 0
                  IN [x |-> s.x \div 2^(h - t), r |-> s.r + t]

\* t = ((x & mask) == 0) << k; x >>= t; r += t.
Skip(s, h) == LET t == IF s.x % 2^h = 0 THEN h ELSE 0
              IN [x |-> s.x \div 2^t, r |-> s.r + t]

\* What is left after the narrowings by half a word, a quarter, and so on down to 2.
NarrowedHigh(a) ==
  LET s[k \in 0..(LogH - 1)] == IF k = 0 THEN [x |-> a, r |-> 0]
                                 ELSE SkipHigh(s[k - 1], 2^(LogH - k))
  IN s[LogH - 1]
NarrowedLow(a) ==
  LET s[k \in 0..(LogH - 1)] == IF k = 0 THEN [x |-> a, r |-> 0]
                                 ELSE Skip(s[k - 1], 2^(LogH - k))
  IN s[LogH - 1]

Clzsi2(a) == LET s == NarrowedHigh(a) IN s.r + (IF s.x < 2 THEN 2 - s.x ELSE 0)

Ctzsi2(a) == LET s == NarrowedLow(a)
                 x == s.x % 4   \* the garbage above is cut off
             IN s.r + (IF x % 2 = 0 THEN 2 - x \div 2 ELSE 0)

Clzdi2(a) == IF High(a) = 0 THEN Clzsi2(Low(a)) + H ELSE Clzsi2(High(a))

\* Mutant: the halves are swapped.
Ctzdi2Swapped(a) == IF High(a) = 0 THEN Ctzsi2(Low(a)) + H ELSE Ctzsi2(High(a))
Ctzdi2(a)        == IF Low(a) = 0 THEN Ctzsi2(High(a)) + H ELSE Ctzsi2(Low(a))
=============================================================================
