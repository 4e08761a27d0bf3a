---------------------------- MODULE Conversions ----------------------------
(***************************************************************************)
(* Numbers to text and back: the helpers of klib/src/stdio.c, and atoi     *)
(* of klib/src/stdlib.c.  A string is the sequence of its characters       *)
(* before the NUL.  An int has Bits bits.                                  *)
(***************************************************************************)
EXTENDS Integers, Sequences

CONSTANT Bits

Parameters == Bits \in Nat /\ Bits >= 2

Int_      == -(2^(Bits - 1)) .. (2^(Bits - 1) - 1)
Wrap(n)   == ((n + 2^(Bits - 1)) % 2^Bits) - 2^(Bits - 1)
Uint(n)   == n % 2^Bits

Digits   == <<"0", "1", "2", "3", "4", "5", "6", "7", "8", "9",
              "a", "b", "c", "d", "e", "f">>
Digit(n) == Digits[n + 1]
DigitValue(c) == CHOOSE n \in 0..15 : Digit(n) = c

isdigit(c) == \E n \in 0..9 : c = Digit(n)

\* fpt and fptd, which call themselves for the digits in front.
fpt[n \in 0..(2^Bits - 1)] ==
  Append(IF n >= 10 THEN fpt[n \div 10] ELSE <<>>, Digit(n % 10))
fptd[n \in 0..(2^Bits - 1)] ==
  Append(IF n \div 16 # 0 THEN fptd[n \div 16] ELSE <<>>, Digit(n % 16))

Repeat(c, n) == [i \in 1..n |-> c]

\* itos
itos(n, type, limit, occupy) ==
  LET abs    == IF type = "d" /\ n < 0 THEN Wrap(-n) ELSE n
      digits == IF type \in {"x", "p"} THEN fptd[Uint(n)] ELSE fpt[Uint(abs)]
      prefix == IF type = "p" THEN <<"0", "x">>
                ELSE IF type = "d" /\ n < 0 THEN <<"-">> ELSE <<>>
      pad    == IF type = "p" THEN Repeat("0", 8 - Len(digits))
                ELSE Repeat(occupy, limit - Len(digits))
  IN prefix \o pad \o digits

\* How many characters at the beginning of s are as P says.
Leading(s, P(_)) ==
  CHOOSE k \in 0..Len(s) :
    (\A i \in 1..k : P(s[i])) /\ (k < Len(s) => ~P(s[k + 1]))

\* The blanks atoi skips.  Mutant: it does not.
NoBlanks(s) == 0
Blanks(s)   == Leading(s, LAMBDA c : c = " ")

Atoi(s) ==
  LET t == SubSeq(s, Blanks(s) + 1, Len(s))
      x[k \in 0..Leading(t, isdigit)] == IF k = 0 THEN 0 ELSE Wrap(10 * x[k - 1] + DigitValue(t[k]))
  IN x[Leading(t, isdigit)]
=============================================================================
