----------------------------- MODULE ArithProofs -----------------------------
(***************************************************************************)
(* Proofs about SoftDiv, SoftMul, WordBits and Int64: for words of any     *)
(* width, the division loops return quotient and remainder, and what is    *)
(* said of a division by zero; the multiplication loop returns the         *)
(* product; the zeros of a word and of a double word are counted; the      *)
(* double-word divisions return quotient and remainder too, with the signs *)
(* that C gives them.  MCArith names the instances and their properties;   *)
(* its bounds play no part.                                                *)
(***************************************************************************)
EXTENDS MCArith, WellFoundedInduction, TLAPS

-----------------------------------------------------------------------------
(* Arithmetic.                                                               *)

\* A set of natural numbers has a smallest element.
LEMMA Smallest ==
  ASSUME NEW S \in SUBSET Nat, S # {}
  PROVE  \E e \in S : \A y \in S : e <= y
<1>1. PICK e \in S : \A y \in S : ~(<<y, e>> \in OpToRel(<, Nat))
  BY NatLessThanWellFounded, WFMin
<1>2. \A y \in S : ~(y < e) /\ y \in Nat /\ e \in Nat
  BY <1>1 DEF OpToRel
<1> QED
  BY <1>2

\* Powers of two are positive, each is twice the one before, and they grow.
LEMMA Powers ==
  /\ W \in Nat /\ W >= 2
  /\ \A k \in 0..W : Pow[k] \in Nat /\ Pow[k] > 0
  /\ \A k \in 0..(W - 1) : Pow[k + 1] = 2 * Pow[k]
  /\ \A k \in 0..W : \A j \in 0..k : Pow[j] <= Pow[k]
  /\ Pow[0] = 1 /\ Pow[W] = 2 * Pow[W - 1] /\ Pow[W - 1] = 2 * Pow[W - 2]
<1>1. W \in Nat /\ W >= 2 /\ Pow \in [0..W -> Nat \ {0}] /\ Pow[0] = 1
  BY WordAssumption
<1>2. \A k \in 0..(W - 1) : Pow[k + 1] = 2 * Pow[k]
  BY WordAssumption
<1>3. Pow[(W - 1) + 1] = 2 * Pow[W - 1] /\ Pow[(W - 2) + 1] = 2 * Pow[W - 2]
  BY <1>1, <1>2
<1>4. (W - 1) + 1 = W /\ (W - 2) + 1 = W - 1
  BY <1>1
<1>5. \A k \in 0..W : Pow[k] \in Nat /\ Pow[k] > 0
  BY <1>1
<1>6. \A k \in 0..W : \A j \in 0..k : Pow[j] <= Pow[k]
  <2> DEFINE S == {k \in 0..W : \E j \in 0..k : ~(Pow[j] <= Pow[k])}
  <2> SUFFICES ASSUME S # {} PROVE FALSE
    OBVIOUS
  <2>1. PICK e \in S : \A y \in S : e <= y
    <3>1. S \in SUBSET Nat
      BY <1>1
    <3> QED
      BY <3>1, Smallest, Zenon
  <2>2. PICK j \in 0..e : ~(Pow[j] <= Pow[e])
    BY <2>1
  <2>3. e \in 0..W /\ j # e /\ e # 0 /\ j \in 0..(e - 1) /\ e - 1 \in 0..(W - 1) /\ e - 1 \in 0..W
    BY <1>1, <1>5, <2>1, <2>2
  <2>4. e - 1 \notin S
    BY <2>1, <2>3
  <2>5. Pow[j] <= Pow[e - 1]
    BY <2>3, <2>4
  <2>6. Pow[(e - 1) + 1] = 2 * Pow[e - 1] /\ (e - 1) + 1 = e
    BY <1>2, <2>3
  <2>7. Pow[j] \in Nat /\ Pow[e - 1] \in Nat
    BY <1>1, <1>5, <2>3
  <2> QED
    BY <2>2, <2>5, <2>6, <2>7
<1>7. QED
  BY <1>1, <1>2, <1>3, <1>4, <1>5, <1>6

\* Products of integers.
LEMMA Product ==
  ASSUME NEW x \in Int, NEW y \in Int, NEW z \in Int
  PROVE  /\ x * (y + z) = x * y + x * z
         /\ x * (2 * y) = 2 * (x * y)
         /\ (x > 0 /\ y > 0 => x * y >= x /\ x * y >= y)
         /\ x * y \in Int
  BY Z3

\* Quotient and remainder are the only numbers that are one.
LEMMA Unique ==
  ASSUME NEW x \in Nat, NEW y \in Nat, y > 0, NEW q \in Int, NEW r \in Nat,
         x = y * q + r, r < y
  PROVE  x \div y = q /\ x % y = r
  BY Z3

\* A number that is small enough is its own remainder.
LEMMA Small ==
  ASSUME NEW x \in Nat, NEW y \in Nat, x < y
  PROVE  x % y = x
  BY Z3

\* A remainder is smaller than the divisor.
LEMMA Remainder ==
  ASSUME NEW x \in Int, NEW y \in Nat, y > 0
  PROVE  x % y \in 0..(y - 1)
  BY Z3

\* Quotient and remainder.
LEMMA Quotient ==
  ASSUME NEW x \in Nat, NEW y \in Nat, y > 0
  PROVE  /\ x \div y \in Nat /\ x % y \in Nat /\ x % y < y
         /\ x = y * (x \div y) + (x % y)
BY Z3

\* Halving undoes doubling.
LEMMA Half ==
  ASSUME NEW x \in Int
  PROVE  (2 * x) \div 2 = x
  BY Z3

\* Reducing into -h..h - 1 changes only numbers outside of it.
LEMMA SignedReduction ==
  ASSUME NEW x \in Int, NEW h \in Nat, h > 0
  PROVE  /\ ((x + h) % (2 * h)) - h \in (-h)..(h - 1)
         /\ x \in (-h)..(h - 1) => ((x + h) % (2 * h)) - h = x
<1> DEFINE r == (x + h) % (2 * h)
<1>1. r \in 0..(2 * h - 1)
  BY Remainder
<1>2. r - h \in (-h)..(h - 1)
  <2> HIDE DEF r
  <2>1. QED
    BY <1>1
<1>3. x \in (-h)..(h - 1) => r = x + h
  BY Small
<1>4. x \in (-h)..(h - 1) => r - h = x
  <2> HIDE DEF r
  <2>1. QED
    BY <1>3
<1>5. QED
  BY <1>2, <1>4

\* What is wrapped is a word, and words are left alone.
LEMMA Wrapped ==
  ASSUME NEW x \in Int
  PROVE  Wrap(x) \in Word /\ (x \in Word => Wrap(x) = x)
<1>1. Pow[W] \in Nat /\ Pow[W] > 0 /\ Pow[W - 1] \in Nat /\ Pow[W - 1] > 0
      /\ Pow[W] = 2 * Pow[W - 1]
  BY Powers
<1>2. CASE fn = "divsi3"
  <2>1. /\ ((x + Pow[W - 1]) % (2 * Pow[W - 1])) - Pow[W - 1] \in Int_
        /\ x \in Int_ => ((x + Pow[W - 1]) % (2 * Pow[W - 1])) - Pow[W - 1] = x
    BY <1>1, SignedReduction DEF Int_
  <2>2. Word = Int_ /\ Wrap(x) = ((x + Pow[W - 1]) % (2 * Pow[W - 1])) - Pow[W - 1]
    BY <1>1, <1>2 DEF Word, Wrap
  <2>3. QED
    BY <2>1, <2>2
<1>3. CASE fn # "divsi3"
  <2>1. x % Pow[W] \in 0..(Pow[W] - 1)
    BY <1>1, Remainder
  <2>2. x \in 0..(Pow[W] - 1) => x % Pow[W] = x
    BY <1>1, Small
  <2>3. Word = 0..(Pow[W] - 1) /\ Wrap(x) = x % Pow[W]
    BY <1>3 DEF Word, Wrap, Unsigned
  <2>4. QED
    BY <2>1, <2>2, <2>3
<1>4. QED
  BY <1>2, <1>3

-----------------------------------------------------------------------------
(* The inductive invariant.                                                  *)

\* The bits below bit are free in res, so that setting bit adds it.
Room ==
  /\ bit # 0 => \E k \in 0..(W - 1) : bit = Pow[k]
  /\ res + 2 * bit <= Pow[W] \/ bit = 0
  /\ pc = "widen" => res = 0

\* A division by zero: b stays 0, and unless the dividend is 0 as well the first loop
\* ends with bit, so that nothing is subtracted.
ZeroInv ==
  b0 = 0 /\ a0 >= 0 =>
    /\ b = 0 /\ a = a0
    /\ pc = "widen" => res = 0 /\ (a0 = 0 => bit = 1)
    /\ pc = "subtract" => IF a0 = 0 THEN bit + res = 1 ELSE bit = 0 /\ res = 0
    /\ pc = "done" => res = IF a0 = 0 THEN 1 ELSE 0

IInv == TypeOK /\ Room /\ Accounted /\ ZeroInv

\* What type correctness says of the numbers.
LEMMA Types ==
  ASSUME TypeOK
  PROVE  /\ {a0, b0, a, b, bit, res} \subseteq Int /\ bit >= 0 /\ res >= 0
         /\ fn # "divsi3" => a0 >= 0 /\ b0 >= 0 /\ a >= 0 /\ b >= 0
  BY Powers DEF TypeOK, Word, Int_, Unsigned

\* A call begins in the invariant.
LEMMA InitInv == Init => IInv
<1>1. SUFFICES ASSUME Init PROVE IInv
  OBVIOUS
<1>2. TypeOK
  BY <1>1, Powers DEF Init, TypeOK, Unsigned
<1>3. Room
  BY <1>1, Powers DEF Init, Room
<1>4. Accounted
  <2>1. b = b0 * Pow[0] /\ bit = Pow[0] /\ 0 \in 0..(W - 1)
    BY <1>1, <1>2, Types, Powers DEF Init
  <2>2. QED
    BY <1>1, <2>1 DEF Init, Accounted, Shifted
<1>5. ZeroInv
  BY <1>1 DEF Init, ZeroInv
<1>6. QED
  BY <1>2, <1>3, <1>4, <1>5 DEF IInv

\* The bit of the first loop is doubled until it falls out at the top.
LEMMA BitDoubled ==
  ASSUME NEW k \in 0..(W - 1)
  PROVE  /\ k = W - 1 => (2 * Pow[k]) % Pow[W] = 0
         /\ k # W - 1 => /\ (2 * Pow[k]) % Pow[W] = Pow[k + 1]
                         /\ k + 1 \in 0..(W - 1) /\ 2 * Pow[k + 1] <= Pow[W]
<1>1. Pow[k + 1] = 2 * Pow[k] /\ Pow[k + 1] \in Nat /\ Pow[W] \in Nat /\ Pow[W] > 0
  BY Powers
<1>2. CASE k = W - 1
  <2>1. 2 * Pow[k] = Pow[W]
    BY <1>2, Powers
  <2>2. Pow[W] % Pow[W] = 0
    BY <1>1, Unique
  <2>3. QED
    BY <1>2, <2>1, <2>2
<1>3. CASE k # W - 1
  <2>1. k + 1 \in 0..(W - 1) /\ W - 1 \in 0..W
    BY <1>3, Powers
  <2>2. Pow[k + 1] <= Pow[W - 1] /\ Pow[W] = 2 * Pow[W - 1] /\ Pow[W - 1] \in Nat
        /\ Pow[W - 1] > 0
    BY <2>1, Powers
  <2>3. Pow[k + 1] < Pow[W] /\ 2 * Pow[k + 1] <= Pow[W]
    BY <1>1, <2>2
  <2>4. Pow[k + 1] % Pow[W] = Pow[k + 1]
    BY <1>1, <2>3, Small
  <2>5. QED
    BY <1>1, <1>3, <2>1, <2>3, <2>4
<1>4. QED
  BY <1>2, <1>3

\* A shifted divisor keeps its value as long as the first loop goes on.
LEMMA NoBitLost ==
  ASSUME TypeOK, InDomain, a = a0, b > 0, b < a, ~TopBit(b)
  PROVE  Wrap(2 * b) = 2 * b /\ b < Pow[W - 1]
<1>1. {a, b} \subseteq Int /\ Pow[W - 1] \in Nat /\ Pow[W - 2] \in Nat /\ Pow[W - 2] > 0
      /\ Pow[W] = 2 * Pow[W - 1] /\ Pow[W - 1] = 2 * Pow[W - 2]
  BY Types, Powers
<1>2. CASE fn = "divsi3"
  <2>1. a <= Pow[W - 2]
    BY <1>2 DEF InDomain
  <2>2. 2 * b \in Word /\ b < Pow[W - 1]
    BY <1>1, <1>2, <2>1 DEF Word, Int_
  <2>3. QED
    BY <1>1, <2>2, Wrapped
<1>3. CASE fn # "divsi3"
  <2>1. b < Pow[W - 1]
    BY <1>1, <1>3 DEF TopBit
  <2>2. 2 * b \in Word
    BY <1>1, <1>3, <2>1 DEF Word, Unsigned
  <2>3. QED
    BY <1>1, <2>1, <2>2, Wrapped
<1>4. QED
  BY <1>2, <1>3

\* A shifted divisor is at least as large as the divisor and the bit.
LEMMA ShiftedLarge ==
  ASSUME TypeOK, InDomain, NEW k \in 0..(W - 1), Shifted(k)
  PROVE  b >= b0 /\ b >= Pow[k] /\ b > 0 /\ bit > 0
<1>1. b0 \in Int /\ b0 > 0 /\ Pow[k] \in Int /\ Pow[k] > 0
  BY Types, Powers DEF InDomain
<1>2. b0 * Pow[k] >= b0 /\ b0 * Pow[k] >= Pow[k] /\ b0 * Pow[k] \in Int
  BY <1>1, Product
<1>3. b \in Int /\ b = b0 * Pow[k] /\ bit = Pow[k]
  BY Types DEF Shifted
<1>4. QED
  BY <1>1, <1>2, <1>3

\* Widening loses no bit of a divisor within the domain.
LEMMA WidenInv == IInv /\ Widen => IInv'
<1>1. SUFFICES ASSUME IInv, Widen PROVE IInv'
  OBVIOUS
<1>2. TypeOK /\ pc = "widen" /\ b < a /\ bit # 0 /\ ~TopBit(b) /\ pc' = "widen"
      /\ b' = Wrap(2 * b) /\ bit' = (2 * bit) % Pow[W]
      /\ UNCHANGED <<fn, a0, b0, a, res>>
  BY <1>1 DEF IInv, Widen, Widening
<1>3. {a0, b0, a, b, bit, res} \subseteq Int /\ bit >= 0 /\ res = 0
  BY <1>1, <1>2, Types DEF IInv, Room
<1>4. TypeOK'
  <2>1. b' \in Word
    BY <1>2, <1>3, Wrapped
  <2>2. bit' \in Unsigned
    BY <1>2, <1>3, Remainder, Powers DEF Unsigned
  <2>3. QED
    BY <1>2, <2>1, <2>2 DEF TypeOK, Word
<1>5. Room'
  <2>1. PICK k \in 0..(W - 1) : bit = Pow[k]
    BY <1>1, <1>2 DEF IInv, Room
  <2>2. CASE k = W - 1
    BY <1>2, <1>3, <2>1, <2>2, BitDoubled DEF Room
  <2>3. CASE k # W - 1
    <3>1. bit' = Pow[k + 1] /\ k + 1 \in 0..(W - 1) /\ 2 * Pow[k + 1] <= Pow[W]
      BY <1>2, <2>1, <2>3, BitDoubled
    <3>2. Pow[k + 1] \in Int
      BY Powers
    <3>3. res' + 2 * bit' <= Pow[W]
      BY <1>2, <1>3, <3>1, <3>2
    <3>4. QED
      BY <1>2, <1>3, <3>1, <3>3 DEF Room
  <2>4. QED
    BY <2>2, <2>3
<1>6. Accounted'
  <2>1. SUFFICES ASSUME InDomain
                 PROVE  (\E k \in 0..(W - 1) : Shifted(k))' /\ a = a0
    BY <1>2, <1>3 DEF Accounted, InDomain
  <2>2. PICK k \in 0..(W - 1) : Shifted(k)
    BY <1>1, <1>2, <2>1 DEF IInv, Accounted
  <2>3. a = a0
    BY <1>1, <1>2, <2>1 DEF IInv, Accounted
  <2>4. b > 0 /\ b >= Pow[k] /\ b = b0 * Pow[k] /\ bit = Pow[k]
    BY <1>2, <2>1, <2>2, ShiftedLarge DEF Shifted
  <2>5. b' = 2 * b /\ b < Pow[W - 1]
    BY <1>2, <2>1, <2>3, <2>4, NoBitLost
  <2>6. k # W - 1
    <3>1. Pow[k] \in Int
      BY Powers
    <3>2. Pow[k] < Pow[W - 1]
      BY <1>3, <2>4, <2>5, <3>1, Powers
    <3>3. QED
      BY <3>1, <3>2
  <2>7. bit' = Pow[k + 1] /\ k + 1 \in 0..(W - 1)
    BY <1>2, <2>4, <2>6, BitDoubled
  <2>8. b' = b0 * Pow[k + 1]
    <3>1. Pow[k] \in Int /\ Pow[k + 1] = 2 * Pow[k]
      BY Powers
    <3>2. b0 * (2 * Pow[k]) = 2 * (b0 * Pow[k])
      BY <1>3, <3>1, Product
    <3>3. QED
      BY <2>4, <2>5, <3>1, <3>2
  <2>9. QED
    BY <1>2, <2>3, <2>7, <2>8 DEF Shifted
<1>7. ZeroInv'
  <2>1. SUFFICES ASSUME b0 = 0, a0 >= 0
                 PROVE  b' = 0 /\ a = a0 /\ a0 # 0
    BY <1>2, <1>3 DEF ZeroInv
  <2>2. b = 0 /\ a = a0
    BY <1>1, <2>1 DEF IInv, ZeroInv
  <2>3. a0 # 0
    BY <1>2, <2>2
  <2>4. 0 \in Word
    BY <1>2, <2>2 DEF TypeOK
  <2>5. Wrap(0) = 0
    BY <2>4, Wrapped
  <2>6. QED
    BY <1>2, <2>2, <2>3, <2>5
<1>8. QED
  BY <1>4, <1>5, <1>6, <1>7 DEF IInv

\* When the first loop ends, the quotient has no bit above the one reached.
LEMMA WidenedInv == IInv /\ Widened => IInv'
<1>1. SUFFICES ASSUME IInv, Widened PROVE IInv'
  OBVIOUS
<1>2. TypeOK /\ pc = "widen" /\ ~Widening /\ pc' = "subtract"
      /\ UNCHANGED <<fn, a0, b0, a, b, bit, res>>
  BY <1>1 DEF IInv, Widened
<1>3. {a0, b0, a, b, bit, res} \subseteq Int /\ res = 0
  BY <1>1, <1>2, Types DEF IInv, Room
<1>4. TypeOK'
  BY <1>2 DEF TypeOK, Word
<1>5. Room'
  BY <1>1, <1>2 DEF IInv, Room
<1>6. Accounted'
  <2>1. SUFFICES ASSUME InDomain
                 PROVE  Paid /\ \E k \in 0..(W - 1) : Shifted(k) /\ a < 2 * b
    BY <1>2 DEF Accounted, InDomain, Paid, Shifted
  <2>2. PICK k \in 0..(W - 1) : Shifted(k)
    BY <1>1, <1>2, <2>1 DEF IInv, Accounted
  <2>3. a = a0 /\ a >= 0
    BY <1>1, <1>2, <2>1, Types DEF IInv, Accounted, InDomain
  <2>4. Paid
    BY <1>3, <2>3 DEF Paid
  <2>5. b > 0 /\ bit > 0
    BY <1>2, <2>1, <2>2, ShiftedLarge
  <2>6. b >= a \/ TopBit(b)
    BY <1>2, <1>3, <2>5 DEF Widening
  <2>7. TopBit(b) => a < 2 * b
    <3>1. CASE fn = "divsi3"
      BY <1>3, <2>5, <3>1 DEF TopBit
    <3>2. CASE fn # "divsi3"
      <4>1. a < Pow[W] /\ Pow[W] = 2 * Pow[W - 1] /\ Pow[W - 1] \in Nat
        BY <1>2, <1>3, <3>2, Powers DEF TypeOK, Word, Unsigned
      <4>2. TopBit(b) => b >= Pow[W - 1]
        BY <3>2 DEF TopBit
      <4>3. QED
        BY <1>3, <4>1, <4>2
    <3>3. QED
      BY <3>1, <3>2
  <2>8. a < 2 * b
    BY <1>3, <2>5, <2>6, <2>7
  <2>9. QED
    BY <2>2, <2>4, <2>8
<1>7. ZeroInv'
  <2>1. SUFFICES ASSUME b0 = 0, a0 >= 0
                 PROVE  /\ b = 0 /\ a = a0
                        /\ IF a0 = 0 THEN bit + res = 1 ELSE bit = 0 /\ res = 0
    BY <1>2 DEF ZeroInv
  <2>2. b = 0 /\ a = a0 /\ (a0 = 0 => bit = 1)
    BY <1>1, <1>2, <2>1 DEF IInv, ZeroInv
  <2>3. ~TopBit(b)
    BY <2>2, Powers DEF TopBit
  <2>4. a0 # 0 => bit = 0
    BY <1>2, <1>3, <2>1, <2>2, <2>3 DEF Widening
  <2>5. QED
    BY <1>3, <2>2, <2>4
<1>8. QED
  BY <1>4, <1>5, <1>6, <1>7 DEF IInv

\* Halving brings a word closer to zero.
LEMMA Halved ==
  ASSUME NEW x \in Int
  PROVE  /\ x \div 2 \in Int
         /\ x >= 0 => 0 <= x \div 2 /\ x \div 2 <= x
         /\ x < 0 => x <= x \div 2 /\ x \div 2 < 0
  BY Z3

\* The bit of the second loop is halved until it falls out at the bottom.
LEMMA BitHalved ==
  ASSUME NEW k \in 0..(W - 1)
  PROVE  /\ k = 0 => Pow[k] = 1 /\ Pow[k] \div 2 = 0
         /\ k # 0 => /\ k - 1 \in 0..(W - 1) /\ Pow[k] = 2 * Pow[k - 1]
                     /\ Pow[k] \div 2 = Pow[k - 1]
<1>1. CASE k = 0
  <2>1. Pow[k] = 1
    BY <1>1, Powers
  <2>2. 1 \div 2 = 0
    OBVIOUS
  <2>3. QED
    BY <1>1, <2>1, <2>2
<1>2. CASE k # 0
  <2>1. k - 1 \in 0..(W - 1) /\ (k - 1) + 1 = k
    BY <1>2, Powers
  <2>2. Pow[(k - 1) + 1] = 2 * Pow[k - 1] /\ Pow[k - 1] \in Int
    BY <2>1, Powers
  <2>3. (2 * Pow[k - 1]) \div 2 = Pow[k - 1]
    BY <2>2, Half
  <2>4. QED
    BY <1>2, <2>1, <2>2, <2>3
<1>3. QED
  BY <1>1, <1>2

\* A turn of the second loop pays for the bit it sets.
LEMMA SubtractStepInv == IInv /\ Subtract => IInv'
<1>1. SUFFICES ASSUME IInv, Subtract PROVE IInv'
  OBVIOUS
<1>2. TypeOK /\ pc = "subtract" /\ bit # 0 /\ pc' = "subtract"
      /\ bit' = bit \div 2 /\ b' = b \div 2 /\ UNCHANGED <<fn, a0, b0>>
  BY <1>1 DEF IInv, Subtract
<1>3. \/ Fits /\ a' = Wrap(a - b) /\ res' = res + bit
      \/ ~Fits /\ a' = a /\ res' = res
  BY <1>1 DEF Subtract
<1>4. {a0, b0, a, b, bit, res} \subseteq Int /\ bit > 0 /\ res >= 0
  BY <1>1, <1>2, Types DEF IInv
<1>5. PICK k \in 0..(W - 1) : bit = Pow[k]
  BY <1>1, <1>2 DEF IInv, Room
<1>6. res + 2 * bit <= Pow[W]
  BY <1>1, <1>2 DEF IInv, Room
<1>7. res' \in Int /\ res' >= 0 /\ res' <= res + bit
  BY <1>3, <1>4
<1>8. Pow[W] \in Nat /\ Pow[W - 1] \in Nat
  BY Powers
<1>9. TypeOK'
  <2>1. a' \in Word
    BY <1>2, <1>3, <1>4, Wrapped DEF TypeOK
  <2>2. b' \in Word
    <3>1. b' \in Int /\ (b >= 0 => 0 <= b' /\ b' <= b) /\ (b < 0 => b <= b' /\ b' < 0)
      BY <1>2, <1>4, Halved
    <3>2. b \in Word
      BY <1>2 DEF TypeOK
    <3>3. QED
      BY <1>4, <1>8, <3>1, <3>2 DEF Word, Int_, Unsigned
  <2>3. res' \in Unsigned
    BY <1>4, <1>6, <1>7, <1>8 DEF Unsigned
  <2>4. bit' \in Unsigned
    <3>1. bit' \in Int /\ 0 <= bit' /\ bit' <= bit
      BY <1>2, <1>4, Halved
    <3>2. QED
      BY <1>4, <1>6, <1>8, <3>1 DEF Unsigned
  <2>5. QED
    BY <1>2, <2>1, <2>2, <2>3, <2>4 DEF TypeOK, Word
<1>10. Room'
  <2>1. CASE k = 0
    BY <1>2, <1>5, <2>1, BitHalved DEF Room
  <2>2. CASE k # 0
    <3>1. bit' = Pow[k - 1] /\ k - 1 \in 0..(W - 1) /\ bit = 2 * bit'
      BY <1>2, <1>5, <2>2, BitHalved
    <3>2. bit' \in Int
      BY <3>1, Powers
    <3>3. res' + 2 * bit' <= Pow[W]
      BY <1>4, <1>6, <1>7, <1>8, <3>1, <3>2
    <3>4. QED
      BY <1>2, <3>1, <3>3 DEF Room
  <2>3. QED
    BY <2>1, <2>2
<1>11. Accounted'
  <2>1. SUFFICES ASSUME InDomain
                 PROVE  /\ Paid'
                        /\ \/ (\E i \in 0..(W - 1) : Shifted(i) /\ a < 2 * b)'
                           \/ bit' = 0 /\ a' < b0
    BY <1>2 DEF Accounted, InDomain
  <2>2. Paid /\ \E i \in 0..(W - 1) : Shifted(i) /\ a < 2 * b
    BY <1>1, <1>2, <2>1 DEF IInv, Accounted
  <2>3. PICK i \in 0..(W - 1) : Shifted(i) /\ a < 2 * b
    BY <2>2
  <2>4. b > 0 /\ b = b0 * Pow[i] /\ bit = Pow[i] /\ a >= 0 /\ a0 = b0 * res + a
    BY <1>2, <2>1, <2>2, <2>3, ShiftedLarge DEF Shifted, Paid
  <2>5. Paid' /\ a' < b
    <3>1. CASE Fits
      <4>1. a >= b /\ res' = res + bit /\ a' = Wrap(a - b)
        BY <1>3, <3>1 DEF Fits
      <4>2. a - b \in Word
        <5>1. a \in Word /\ a - b \in Int /\ 0 <= a - b /\ a - b <= a
          BY <1>2, <1>4, <2>4, <4>1 DEF TypeOK
        <5>2. CASE fn = "divsi3"
          BY <1>4, <1>8, <5>1, <5>2 DEF Word, Int_
        <5>3. CASE fn # "divsi3"
          BY <1>4, <1>8, <5>1, <5>3 DEF Word, Unsigned
        <5>4. QED
          BY <5>2, <5>3
      <4>3. a' = a - b
        BY <1>4, <4>1, <4>2, Wrapped
      <4>4. b0 * (res + bit) = b0 * res + b
        BY <1>4, <2>4, Product
      <4>5. b0 * res \in Int
        BY <1>4, Product
      <4>6. a0 = b0 * (res + bit) + a'
        BY <1>4, <2>4, <4>3, <4>4, <4>5
      <4>7. a' >= 0 /\ a' < b
        BY <1>4, <2>3, <4>1, <4>3
      <4>8. QED
        BY <1>2, <4>1, <4>6, <4>7 DEF Paid
    <3>2. CASE ~Fits
      BY <1>2, <1>3, <1>4, <2>4, <3>2 DEF Fits, Paid
    <3>3. QED
      BY <3>1, <3>2
  <2>6. CASE i = 0
    <3>1. Pow[i] = 1 /\ bit' = 0
      BY <1>2, <2>4, <2>6, BitHalved
    <3>2. b = b0
      BY <1>4, <2>4, <3>1
    <3>3. QED
      BY <2>5, <3>1, <3>2
  <2>7. CASE i # 0
    <3>1. bit' = Pow[i - 1] /\ i - 1 \in 0..(W - 1) /\ Pow[i] = 2 * Pow[i - 1]
      BY <1>2, <2>4, <2>7, BitHalved
    <3>2. Pow[i - 1] \in Int
      BY <3>1, Powers
    <3>3. b0 * (2 * Pow[i - 1]) = 2 * (b0 * Pow[i - 1]) /\ b0 * Pow[i - 1] \in Int
      BY <1>4, <3>2, Product
    <3>4. b = 2 * (b0 * Pow[i - 1])
      BY <2>4, <3>1, <3>3
    <3>5. b' = b0 * Pow[i - 1]
      BY <1>2, <3>3, <3>4, Half
    <3>6. a' < 2 * b'
      BY <2>5, <3>4, <3>5
    <3>7. QED
      BY <1>2, <2>5, <3>1, <3>5, <3>6 DEF Shifted
  <2>8. QED
    BY <2>6, <2>7
<1>12. ZeroInv'
  <2>1. SUFFICES ASSUME b0 = 0, a0 >= 0
                 PROVE  b' = 0 /\ a' = a0 /\ a0 = 0 /\ bit' + res' = 1
    BY <1>2 DEF ZeroInv
  <2>2. b = 0 /\ a = a0 /\ IF a0 = 0 THEN bit + res = 1 ELSE bit = 0 /\ res = 0
    BY <1>1, <1>2, <2>1 DEF IInv, ZeroInv
  <2>3. a0 = 0 /\ bit = 1 /\ res = 0
    BY <1>2, <1>4, <2>2
  <2>4. 0 \div 2 = 0 /\ 1 \div 2 = 0
    OBVIOUS
  <2>5. Fits
    BY <2>2, <2>3 DEF Fits
  <2>6. a' = Wrap(a - b) /\ res' = 1
    BY <1>3, <2>3, <2>5
  <2>7. a - b = a /\ a \in Word
    BY <1>2, <2>2, <2>3 DEF TypeOK
  <2>8. a' = a
    BY <1>4, <2>6, <2>7, Wrapped
  <2>9. QED
    BY <1>2, <2>2, <2>3, <2>4, <2>6, <2>8
<1>13. QED
  BY <1>9, <1>10, <1>11, <1>12 DEF IInv

\* The last bit found, nothing of the divisor is left in a.
LEMMA ReturnInv == IInv /\ Return => IInv'
<1>1. SUFFICES ASSUME IInv, Return PROVE IInv'
  OBVIOUS
<1>2. TypeOK /\ pc = "subtract" /\ bit = 0 /\ pc' = "done"
      /\ UNCHANGED <<fn, a0, b0, a, b, bit, res>>
  BY <1>1 DEF IInv, Return
<1>3. TypeOK'
  BY <1>2 DEF TypeOK, Word
<1>4. Room'
  BY <1>1, <1>2 DEF IInv, Room
<1>5. Accounted'
  <2>1. SUFFICES ASSUME InDomain PROVE Paid /\ a < b0
    BY <1>2 DEF Accounted, InDomain, Paid
  <2>2. \A k \in 0..(W - 1) : ~Shifted(k)
    BY <1>2, <2>1, ShiftedLarge
  <2>3. QED
    BY <1>1, <1>2, <2>1, <2>2 DEF IInv, Accounted
<1>6. ZeroInv'
  <2>1. res \in Int
    BY <1>2, Types
  <2>2. QED
    BY <1>1, <1>2, <2>1 DEF IInv, ZeroInv
<1>7. QED
  BY <1>3, <1>4, <1>5, <1>6 DEF IInv

\* A step that changes nothing changes nothing of the invariant.
LEMMA StutterInv == IInv /\ UNCHANGED vars => IInv'
  BY DEF IInv, TypeOK, Word, Room, Accounted, InDomain, Paid, Shifted, ZeroInv, vars

-----------------------------------------------------------------------------
(* What is proved of every call.                                             *)

\* The loops of udivsi3.c, umodsi3.c and divsi3.c keep their invariant.
THEOREM Inductive == Spec => []IInv
<1>1. IInv /\ [Next]_vars => IInv'
  BY WidenInv, WidenedInv, SubtractStepInv, ReturnInv, StutterInv DEF Next
<1>2. QED
  BY InitInv, <1>1, PTL DEF Spec

\* Every variable keeps its type: b never leaves its word, and no bit of the quotient
\* is set twice (udivsi3.c, umodsi3.c, divsi3.c).
THEOREM TypeCorrect == Spec => []TypeOK
<1>1. IInv => TypeOK
  BY DEF IInv
<1>2. QED
  BY Inductive, <1>1, PTL

\* The divisor stays shifted by as much as bit, and the quotient's bits found so far
\* are paid for in the dividend (udivsi3.c:4-18 and its siblings).
THEOREM LoopsKeep == Spec => []SubtractInv
<1>1. IInv => SubtractInv
  BY DEF IInv, SubtractInv
<1>2. QED
  BY Inductive, <1>1, PTL

\* Within their domain the three functions return quotient and remainder, for words
\* of any width, and from a division by zero 0, or 1 for 0 / 0, and the dividend.
THEOREM Divides == Spec => []QuotientRight
<1>1. ASSUME IInv, pc = "done", InDomain
      PROVE  a0 \div b0 = res /\ a0 % b0 = a
  <2>1. a0 = b0 * res + a /\ a >= 0 /\ a < b0 /\ b0 > 0
    BY <1>1 DEF IInv, Accounted, Paid, InDomain
  <2>2. {a0, b0, a, res} \subseteq Int
    BY <1>1, Types DEF IInv
  <2>3. a0 >= 0
    BY <1>1, Types DEF IInv, InDomain
  <2>4. a0 \in Nat /\ b0 \in Nat /\ res \in Int /\ a \in Nat
    BY <2>1, <2>2, <2>3
  <2>5. QED
    BY <2>1, <2>4, Unique
<1>2. IInv /\ pc = "done" /\ b0 = 0 /\ a0 >= 0 => ByZero
  BY DEF IInv, ZeroInv, ByZero, Result
<1>3. IInv => QuotientRight
  BY <1>1, <1>2 DEF QuotientRight, Result
<1>4. QED
  BY Inductive, <1>3, PTL
-----------------------------------------------------------------------------
(* Multiplication.                                                           *)

\* Of integers too, quotient and remainder are the only numbers that are one.
LEMMA OneRemainder ==
  ASSUME NEW u \in Int, NEW m \in Nat, m > 0, NEW q \in Int, NEW r \in 0..(m - 1),
         u = m * q + r
  PROVE  u % m = r
<1>1. PICK p \in Int, s \in 0..(m - 1) : s = u % m /\ s = u - m * p
  <2>1. u % m = u - m * (u \div m) /\ u % m \in 0..(m - 1) /\ u \div m \in Int
    BY Z3
  <2> QED
    BY <2>1
<1>2. ASSUME NEW k \in Int, k >= 1 PROVE m * k >= m
  BY <1>2, Z3
<1>3. m * (q - p) = s - r /\ m * (p - q) = r - s
  <2>1. m * q = u - r /\ m * p = u - s
    BY <1>1, Z3
  <2>2. m * (q - p) = m * q - m * p /\ m * (p - q) = m * p - m * q
    BY Z3
  <2>3. m * q \in Int /\ m * p \in Int
    BY Z3
  <2> QED
    BY <2>1, <2>2, <2>3
<1>4. ~(q - p >= 1) /\ ~(p - q >= 1)
  BY <1>2, <1>3
<1>5. p = q
  BY <1>4
<1> QED
  BY <1>1, <1>5

\* The remainder of a negative number that is not too far below zero.
LEMMA NegativeRemainder ==
  ASSUME NEW x \in Int, NEW k \in Nat, -k <= x, x < 0
  PROVE  x % k = k + x
<1>1. x = k * (-1) + (k + x) /\ k + x \in 0..(k - 1) /\ k > 0 /\ -1 \in Int
  OBVIOUS
<1> QED
  BY <1>1, OneRemainder

\* Multiples of the modulus do not count.
LEMMA Congruent ==
  ASSUME NEW u \in Int, NEW k \in Int, NEW m \in Nat, m > 0
  PROVE  (u + m * k) % m = u % m
<1>1. PICK q \in Int, r \in 0..(m - 1) : r = u % m /\ r = u - m * q
  <2>1. u % m = u - m * (u \div m) /\ u % m \in 0..(m - 1) /\ u \div m \in Int
    BY Z3
  <2> QED
    BY <2>1
<1>2. m * (q + k) = m * q + m * k /\ m * q \in Int /\ m * k \in Int /\ q + k \in Int
  BY Z3
<1>3. PICK v \in Int : v = u + m * k /\ v = m * (q + k) + r
  BY <1>1, <1>2
<1>4. v % m = r
  <2> DEFINE p == q + k
  <2> HIDE DEF p
  <2>1. v = m * p + r /\ p \in Int
    BY <1>2, <1>3 DEF p
  <2> QED
    BY <2>1, OneRemainder
<1> QED
  BY <1>1, <1>3, <1>4

\* The modulus of a word is a positive number.
LEMMA WordModulus == Pow[W] \in Nat /\ Pow[W] > 0 /\ 0 \in Unsigned
<1>1. W \in 0..W
  BY Powers
<1>2. Pow[W] \in Nat /\ Pow[W] > 0
  BY <1>1, Powers
<1> QED
  BY <1>2 DEF Unsigned

\* A word is what is left of a number without some multiple of the modulus.
LEMMA WordLeft ==
  ASSUME NEW u \in Int
  PROVE  Mul!Wrap(u) \in Unsigned /\ \E k \in Int : Mul!Wrap(u) = u + Pow[W] * k
<1> DEFINE m == Pow[W]
           k == -(u \div m)
<1>1. m \in Nat /\ m > 0
  BY WordModulus
<1> HIDE DEF m
<1>2. u % m = u - m * (u \div m) /\ u % m \in 0..(m - 1) /\ u \div m \in Int
  BY <1>1, Z3
<1>3. k \in Int /\ u - m * (u \div m) = u + m * k
  BY <1>1, <1>2, Z3
<1> HIDE DEF k
<1>4. Mul!Wrap(u) = u % m
  BY DEF m, Mul!Wrap
<1>5. Mul!Wrap(u) \in Unsigned
  BY <1>2, <1>4 DEF m, Unsigned
<1>6. Mul!Wrap(u) = u + Pow[W] * k
  BY <1>2, <1>3, <1>4 DEF m
<1> QED
  BY <1>3, <1>5, <1>6

\* The inductive invariant of the multiplication.
MulInv == Mul!TypeOK /\ Mul!Conserved /\ (mul_done => mul_a = 0)

\* A multiplication begins in it.
LEMMA MulInitInv == Mul!Init => MulInv
<1> SUFFICES ASSUME Mul!Init PROVE MulInv
  OBVIOUS
<1>1. mul_a0 \in Int /\ mul_b0 \in Int
  BY WordModulus DEF Mul!Init, Mul!Unsigned
<1>2. mul_a0 * mul_b0 \in Int
  BY <1>1, Z3
<1>3. 0 + mul_a0 * mul_b0 = mul_a0 * mul_b0
  BY <1>2
<1> QED
  BY <1>3, WordModulus DEF Mul!Init, Mul!Unsigned, Unsigned, MulInv, Mul!TypeOK, Mul!Conserved

\* A turn takes a bit off one operand, and adds the other as often as the bit says.
LEMMA MulTurnInv ==
  ASSUME MulInv, Mul!Turn
  PROVE  MulInv'
<1>1. PICK m \in Nat, u \in Nat, v \in Nat, s \in Nat :
         /\ m = Pow[W] /\ u = mul_a /\ v = mul_b /\ s = mul_r
         /\ u < m /\ v < m /\ s < m
  BY WordModulus DEF MulInv, Mul!TypeOK, Mul!Unsigned, Unsigned
<1>2. PICK h \in Nat, low \in {0, 1} : h = u \div 2 /\ low = u % 2 /\ u = 2 * h + low
  <2>1. u \div 2 \in Nat /\ u % 2 \in {0, 1} /\ u = 2 * (u \div 2) + (u % 2)
    OBVIOUS
  <2> QED
    BY <2>1
<1>3. PICK k \in Int : mul_r' \in Unsigned /\ mul_r' = s + low * v + m * k
  <2>1. CASE low = 1
    <3>1. mul_r' = Mul!Wrap(s + v) /\ s + v \in Int /\ low * v = v
      BY <2>1, <1>1, <1>2 DEF Mul!Turn, Mul!Added
    <3> DEFINE w == s + v
    <3> HIDE DEF w
    <3>2. w \in Int /\ mul_r' = Mul!Wrap(w)
      BY <3>1 DEF w
    <3>3. PICK j \in Int : mul_r' \in Unsigned /\ mul_r' = w + Pow[W] * j
      BY <3>2, WordLeft, Zenon
    <3>4. mul_r' = s + low * v + m * j
      BY <3>1, <3>3, <1>1 DEF w
    <3> QED
      BY <3>3, <3>4
  <2>2. CASE low = 0
    <3>1. mul_r' = s /\ s = s + low * v + m * 0
      BY <2>2, <1>1, <1>2 DEF Mul!Turn, Mul!Added
    <3> QED
      BY <3>1, <1>1 DEF MulInv, Mul!TypeOK, Mul!Unsigned, Unsigned
  <2> QED
    BY <2>1, <2>2
<1>4. PICK j \in Int : mul_b' \in Unsigned /\ mul_b' = 2 * v + m * j
  <2> DEFINE w == 2 * v
  <2> HIDE DEF w
  <2>1. w \in Int /\ mul_b' = Mul!Wrap(w)
    BY <1>1 DEF w, Mul!Turn
  <2>2. PICK j \in Int : mul_b' \in Unsigned /\ mul_b' = w + Pow[W] * j
    BY <2>1, WordLeft, Zenon
  <2> QED
    BY <2>2, <1>1 DEF w
<1>5. mul_a' = h /\ mul_a' \in Unsigned
  BY <1>1, <1>2 DEF Mul!Turn, Unsigned
<1>6. Mul!TypeOK'
  BY <1>3, <1>4, <1>5 DEF MulInv, Mul!TypeOK, Mul!Unsigned, Unsigned, Mul!Turn
<1>7. mul_r' + mul_a' * mul_b' = (s + u * v) + m * (k + h * j)
  <2>1. /\ h * (2 * v + m * j) = 2 * (h * v) + m * (h * j)
        /\ (2 * h + low) * v = 2 * (h * v) + low * v
        /\ m * (k + h * j) = m * k + m * (h * j)
    BY Z3
  <2>2. h * v \in Int /\ low * v \in Int /\ m * k \in Int /\ m * (h * j) \in Int
    BY Z3
  <2>3. mul_a' * mul_b' = h * (2 * v + m * j) /\ u * v = (2 * h + low) * v
    BY <1>2, <1>4, <1>5
  <2>4. PICK hv \in Int, lv \in Int, mk \in Int, mhj \in Int :
          hv = h * v /\ lv = low * v /\ mk = m * k /\ mhj = m * (h * j)
    BY <2>2
  <2>5. /\ mul_r' = s + lv + mk /\ mul_a' * mul_b' = 2 * hv + mhj
        /\ u * v = 2 * hv + lv /\ m * (k + h * j) = mk + mhj
    BY <1>3, <2>1, <2>3, <2>4
  <2> QED
    BY <2>5
<1>8. s + u * v \in Int /\ k + h * j \in Int /\ m > 0
  BY <1>1, Powers, Z3
<1>9. Mul!Wrap(mul_r' + mul_a' * mul_b') = Mul!Wrap(s + u * v)
  <2>1. PICK c \in Int, k2 \in Int, w \in Int :
          c = s + u * v /\ k2 = k + h * j /\ w = mul_r' + mul_a' * mul_b' /\ w = c + m * k2
    <3>1. (s + u * v) + m * (k + h * j) \in Int
      BY <1>8, Z3
    <3> QED
      BY <1>7, <1>8, <3>1
  <2>2. w % m = c % m
    <3>1. m > 0 /\ w = c + m * k2 /\ c \in Int /\ k2 \in Int /\ w \in Int /\ m \in Nat
      BY <1>8, <2>1
    <3> QED
      BY <3>1, Congruent, Zenon
  <2> QED
    BY <2>1, <2>2, <1>1 DEF Mul!Wrap
<1>10. Mul!Conserved'
  BY <1>9, <1>1 DEF MulInv, Mul!Conserved, Mul!Turn, Mul!Wrap
<1> QED
  BY <1>6, <1>10 DEF MulInv, Mul!Turn

\* __mulsi3's loop conserves the product, modulo the width of a word.
THEOREM MulInvariant == Mul!Spec => []MulInv
<1>1. MulInv /\ [Mul!Next]_mulVars => MulInv'
  <2> SUFFICES ASSUME MulInv, [Mul!Next]_mulVars PROVE MulInv'
    OBVIOUS
  <2>1. CASE Mul!Turn
    BY <2>1, MulTurnInv
  <2>2. CASE Mul!Return
    BY <2>2 DEF MulInv, Mul!Return, Mul!TypeOK, Mul!Conserved, Mul!Wrap
  <2>3. CASE UNCHANGED mulVars
    BY <2>3 DEF MulInv, mulVars, Mul!TypeOK, Mul!Conserved, Mul!Wrap
  <2> QED
    BY <2>1, <2>2, <2>3 DEF Mul!Next
<1> QED
  BY <1>1, MulInitInv, PTL DEF Mul!Spec, Mul!vars, mulVars

\* A signed operand differs from the word it is kept in by the modulus, if at all.
LEMMA SignedCongruent ==
  ASSUME NEW u \in Unsigned, NEW v \in Unsigned
  PROVE  Mul!Wrap(Mul!Signed(u) * Mul!Signed(v)) = Mul!Wrap(u * v)
<1>1. PICK m \in Nat : m = Pow[W] /\ m > 0
  BY WordModulus
<1>2. u \in Int /\ v \in Int
  BY <1>1 DEF Unsigned
<1>3. PICK e \in {0, -1} : Mul!Signed(u) = u + m * e
  BY <1>1, <1>2 DEF Mul!Signed
<1>4. PICK f \in {0, -1} : Mul!Signed(v) = v + m * f
  BY <1>1, <1>2 DEF Mul!Signed
<1>5. (u + m * e) * (v + m * f) = u * v + m * (u * f + e * v + e * f * m)
  <2>1. CASE e = 0
    <3>1. u * (v + m * f) = u * v + m * (u * f)
      BY <1>2, Z3
    <3> QED
      BY <2>1, <3>1, <1>2
  <2>2. CASE e = -1
    BY <2>2, <1>2, Z3
  <2> QED
    BY <2>1, <2>2
<1>6. u * v \in Int /\ u * f + e * v + e * f * m \in Int
  BY <1>2, Z3
<1>7. PICK c \in Int, k \in Int, w \in Int :
        c = u * v /\ k = u * f + e * v + e * f * m /\ w = (u + m * e) * (v + m * f)
        /\ w = c + m * k
  <2>1. u * v + m * (u * f + e * v + e * f * m) \in Int
    BY <1>6, Z3
  <2> QED
    BY <1>5, <1>6, <2>1
<1>8. w % m = c % m
  <2>1. m > 0 /\ w = c + m * k /\ c \in Int /\ k \in Int /\ w \in Int /\ m \in Nat
    BY <1>1, <1>7
  <2> QED
    BY <2>1, Congruent, Zenon
<1> QED
  BY <1>1, <1>3, <1>4, <1>7, <1>8 DEF Mul!Wrap

\* __mulsi3 returns the low word of the product, of unsigned and of signed operands, for
\* words of any width (mulsi3.c:4-14).
THEOREM Multiplies == Mul!Spec => []MultipliesRight
<1>1. MulInv => MultipliesRight
  <2> SUFFICES ASSUME MulInv, mul_done
               PROVE  mul_r = Mul!Wrap(mul_a0 * mul_b0)
    BY SignedCongruent DEF MulInv, MultipliesRight, Mul!MultipliesRight, Mul!TypeOK,
                           Mul!Unsigned, Unsigned
  <2>1. PICK m \in Nat, v \in Nat, s \in Nat :
          m = Pow[W] /\ v = mul_b /\ s = mul_r /\ s < m
    BY Powers DEF MulInv, Mul!TypeOK, Mul!Unsigned, Unsigned
  <2>2. mul_a = 0 /\ 0 * v = 0
    BY <2>1 DEF MulInv
  <2>3. s + 0 * v = s /\ s % m = s
    BY <2>1, <2>2, Small
  <2> QED
    BY <2>1, <2>2, <2>3 DEF MulInv, Mul!Conserved, Mul!Wrap
<1> QED
  BY <1>1, MulInvariant, PTL

-----------------------------------------------------------------------------
(* Recursive functions and exponents.                                        *)

\* A function that is given by its first value and by each next one exists.
Iterates(f, V, x0, n, G) ==
  f \in [0..n -> V] /\ f = [k \in 0..n |-> IF k = 0 THEN x0 ELSE G[k][f[k - 1]]]

LEMMA Recursion ==
  ASSUME NEW V, NEW x0 \in V, NEW n \in Nat, NEW G \in [1..n -> [V -> V]]
  PROVE  \E f : Iterates(f, V, x0, n, G)
<1> DEFINE Upto(f, m) == f \in [0..m -> V] /\ f[0] = x0 /\ \A k \in 1..m : f[k] = G[k][f[k - 1]]
           S == {m \in 0..n : ~ \E f : Upto(f, m)}
<1>1. S = {}
  <2> SUFFICES ASSUME S # {} PROVE FALSE
    OBVIOUS
  <2>1. PICK e \in S : \A y \in S : e <= y
    <3>1. S \in SUBSET Nat
      OBVIOUS
    <3> QED
      BY <3>1, Smallest, Zenon
  <2>2. e # 0
    <3>1. Upto([k \in 0..0 |-> x0], 0)
      OBVIOUS
    <3> QED
      BY <2>1, <3>1, ZenonT(30)
  <2>3. e - 1 \in 0..n /\ e - 1 \notin S
    <3>1. e \in 0..n /\ e - 1 \in 0..n
      BY <2>1, <2>2
    <3>2. ~(e <= e - 1)
      BY <3>1
    <3> QED
      BY <2>1, <3>1, <3>2, Zenon
  <2>4. PICK g : Upto(g, e - 1)
    BY <2>3
  <2> DEFINE f == [k \in 0..e |-> IF k = e THEN G[e][g[e - 1]] ELSE g[k]]
  <2>5. e \in 1..n /\ g[e - 1] \in V
    BY <2>1, <2>2, <2>4
  <2>6. G[e][g[e - 1]] \in V
    BY <2>5
  <2>7. f \in [0..e -> V]
    BY <2>4, <2>5, <2>6
  <2>8. f[0] = x0
    BY <2>4, <2>5
  <2>9. ASSUME NEW k \in 1..e PROVE f[k] = G[k][f[k - 1]]
    <3>1. k - 1 \in 0..(e - 1) /\ k - 1 # e /\ f[k - 1] = g[k - 1]
      BY <2>5
    <3>2. CASE k = e
      BY <2>5, <3>1, <3>2
    <3>3. CASE k # e
      <4>1. k \in 1..(e - 1) /\ f[k] = g[k]
        BY <2>5, <3>3
      <4> QED
        BY <2>4, <3>1, <4>1
    <3> QED
      BY <3>2, <3>3
  <2> QED
    BY <2>1, <2>7, <2>8, <2>9
<1>2. PICK f : Upto(f, n)
  <2>1. n \in 0..n
    OBVIOUS
  <2> QED
    BY <1>1, <2>1, Zenon
<1>3. \A k \in 0..n : f[k] = IF k = 0 THEN x0 ELSE G[k][f[k - 1]]
  BY <1>2
<1>4. f \in [0..n -> V]
  BY <1>2
<1>5. f = [k \in 0..n |-> IF k = 0 THEN x0 ELSE G[k][f[k - 1]]]
  BY <1>3, <1>4
<1> QED
  BY <1>4, <1>5 DEF Iterates

\* While each power of two is twice the one before, they are positive and exceed their exponents.
LEMMA Doubling ==
  ASSUME NEW n \in Nat, \A k \in 0..n : 2^(k + 1) = 2 * 2^k, NEW j \in 0..(n + 1)
  PROVE  2^j \in Nat /\ j < 2^j
<1> DEFINE S == {k \in 0..(n + 1) : ~(2^k \in Nat /\ k < 2^k)}
<1> SUFFICES ASSUME S # {} PROVE FALSE
  OBVIOUS
<1>1. PICK e \in S : \A y \in S : e <= y
  <2>1. S \in SUBSET Nat
    OBVIOUS
  <2> QED
    BY <2>1, Smallest, Zenon
<1>2. e # 0
  <2>1. 2^0 = 1
    BY ExponentAssumption
  <2>2. 2^0 \in Nat /\ 0 < 2^0
    BY <2>1
  <2>3. 0 \notin S
    BY <2>2
  <2> QED
    BY <1>1, <2>3
<1>3. e - 1 \in 0..n /\ e - 1 \in 0..(n + 1) /\ e - 1 \notin S /\ (e - 1) + 1 = e
  BY <1>1, <1>2
<1>4. PICK u \in Nat : u = 2^(e - 1) /\ e - 1 < u
  BY <1>3
<1>5. 2^e = 2 * u
  BY <1>3, <1>4
<1>6. 2^e \in Nat /\ e < 2^e
  BY <1>1, <1>3, <1>4, <1>5
<1> QED
  BY <1>1, <1>6

\* The largest exponent that is needed.
Top == 2 * Wide!H + 2 * Zeros!H

LEMMA Exponentials ==
  /\ Wide!H \in Nat /\ Zeros!H \in Nat /\ Top \in Nat
  /\ LogH \in Nat /\ LogH >= 1 /\ LogH < Wide!H /\ Wide!H = 2^LogH
  /\ ZerosLogH \in Nat /\ ZerosLogH >= 1 /\ ZerosLogH < Zeros!H /\ Zeros!H = 2^ZerosLogH
  /\ 2 * Wide!H <= Top /\ 2 * Zeros!H <= Top
  /\ 2^0 = 1 /\ 2^1 = 2 /\ 2^2 = 4
  /\ \A k \in 0..Top : 2^k \in Nat /\ 2^k > 0 /\ k < 2^k
  /\ \A k \in 0..Top : 2^(k + 1) = 2 * 2^k
<1>1. LogH \in Nat /\ LogH >= 1 /\ ZerosLogH \in Nat /\ ZerosLogH >= 1
  BY ArithAssumption DEF Wide!Parameters, Zeros!Parameters
<1>2. \A k \in 0..(LogH + ZerosLogH) : 2^(k + 1) = 2 * 2^k
  BY ExponentAssumption
<1>3. 2^LogH \in Nat /\ LogH < 2^LogH
  BY <1>1, <1>2, Doubling
<1>4. 2^ZerosLogH \in Nat /\ ZerosLogH < 2^ZerosLogH
  BY <1>1, <1>2, Doubling
<1>5. Wide!H = 2^LogH /\ Zeros!H = 2^ZerosLogH
  BY DEF Wide!H, Zeros!H
<1>6. Wide!H \in Nat /\ Zeros!H \in Nat /\ Top \in Nat /\ 2 * Wide!H <= Top /\ 2 * Zeros!H <= Top
  BY <1>3, <1>4, <1>5 DEF Top
<1>7. \A k \in 0..Top : 2^(k + 1) = 2 * 2^k
  BY <1>6, ExponentAssumption DEF Top
<1>8. \A k \in 0..Top : 2^k \in Nat /\ k < 2^k
  BY <1>6, <1>7, Doubling
<1>9. 2^(0 + 1) = 2 * 2^0 /\ 2^(1 + 1) = 2 * 2^1 /\ 2^0 = 1
  BY <1>1, <1>3, <1>4, <1>5, <1>6, <1>7, ExponentAssumption
<1> QED
  BY <1>1, <1>3, <1>4, <1>5, <1>6, <1>7, <1>8, <1>9

\* 2^(i+j) is 2^i times 2^j.
LEMMA ExponentialSum ==
  ASSUME NEW i \in Nat, NEW j \in Nat, i + j <= Top
  PROVE  2^(i + j) = 2^i * 2^j
<1> DEFINE S == {k \in Nat : i + k <= Top /\ 2^(i + k) # 2^i * 2^k}
<1> SUFFICES ASSUME S # {} PROVE FALSE
  BY Zenon
<1>1. PICK e \in S : \A y \in S : e <= y
  <2>1. S \in SUBSET Nat
    OBVIOUS
  <2> QED
    BY <2>1, Smallest, Zenon
<1>2. PICK p \in Nat : p = 2^i
  BY Exponentials
<1>3. e # 0
  <2>1. i + 0 = i /\ p * 1 = p
    BY <1>2
  <2>2. 2^0 = 1
    BY Exponentials
  <2> QED
    BY <1>1, <1>2, <2>1, <2>2
<1>4. e - 1 \in Nat /\ e - 1 \notin S /\ i + (e - 1) <= Top /\ e - 1 <= Top
  BY <1>1, <1>3, Exponentials
<1>5. PICK u \in Nat, v \in Nat : u = 2^(i + (e - 1)) /\ v = 2^(e - 1) /\ u = p * v
  BY <1>2, <1>4, Exponentials
<1>6. 2^(e - 1 + 1) = 2 * v /\ 2^(i + (e - 1) + 1) = 2 * u
  BY <1>4, <1>5, Exponentials
<1>7. e - 1 + 1 = e /\ i + (e - 1) + 1 = i + e
  BY <1>1
<1>8. 2 * u = p * (2 * v)
  BY <1>5, Product
<1> QED
  BY <1>1, <1>2, <1>6, <1>7, <1>8

\* Powers of two grow.
LEMMA ExponentialGrows ==
  ASSUME NEW j \in 0..Top, NEW i \in 0..j
  PROVE  2^i <= 2^j /\ (i < j => 2 * 2^i <= 2^j)
<1>0. j \in Nat /\ i \in Nat /\ i <= j /\ j <= Top /\ Top \in Nat
  BY Exponentials
<1>1. ASSUME NEW k \in 0..j PROVE 2^k <= 2^j
  <2>1. 2^(k + (j - k)) = 2^k * 2^(j - k) /\ k + (j - k) = j
    BY <1>0, ExponentialSum
  <2>2. PICK u \in Nat, v \in Nat : u = 2^k /\ v = 2^(j - k) /\ u > 0 /\ v > 0
    BY <1>0, Exponentials
  <2>3. u * v >= u
    BY <2>2, Product
  <2> QED
    BY <2>1, <2>2, <2>3
<1>2. ASSUME i < j PROVE 2 * 2^i <= 2^j
  <2>1. i \in 0..Top /\ i + 1 \in 0..j
    BY <1>0, <1>2
  <2>2. 2^(i + 1) <= 2^j /\ 2^(i + 1) = 2 * 2^i
    BY <1>1, <2>1, Exponentials
  <2> QED
    BY <2>2
<1> QED
  BY <1>1, <1>2

-----------------------------------------------------------------------------
(* Counting zeros.                                                           *)

\* Dividing by p what is less than p^2 narrows what it says of y to a p times longer unit.
LEMMA Narrowed ==
  ASSUME NEW x \in Nat, NEW p \in Nat, p > 0, NEW e \in Nat, x < p * p, NEW m \in Nat, m = x \div p
  PROVE  /\ m < p
         /\ m = 0 <=> x < p
         /\ \A y \in Nat : x * e <= y /\ y < (x + 1) * e =>
              m * (p * e) <= y /\ y < (m + 1) * (p * e)
<1>1. p * m <= x /\ x + 1 <= p * (m + 1) /\ p * m \in Int /\ p * (m + 1) \in Int
  <2>1. PICK t \in Nat : t = x % p /\ t < p /\ x = p * m + t
    BY Quotient
  <2>2. p * (m + 1) = p * m + p /\ p * m \in Int
    BY Product
  <2> QED
    BY <2>1, <2>2
<1>2. m < p
  <2>1. ASSUME p <= m PROVE FALSE
    <3>1. p * p <= p * m /\ p * p \in Int
      BY <2>1, Z3
    <3> QED
      BY <1>1, <3>1
  <2> QED
    BY <2>1
<1>3. m = 0 <=> x < p
  <2>1. m = 0 => p * (m + 1) = p
    OBVIOUS
  <2>2. m > 0 => p * m >= p
    BY Product
  <2> QED
    BY <1>1, <2>1, <2>2
<1>4. ASSUME NEW y \in Nat, x * e <= y, y < (x + 1) * e
      PROVE  m * (p * e) <= y /\ y < (m + 1) * (p * e)
  <2>1. m * (p * e) = (p * m) * e /\ (m + 1) * (p * e) = (p * (m + 1)) * e
    BY Z3
  <2>2. \A u \in Int, v \in Int : u <= v => u * e <= v * e /\ u * e \in Int /\ v * e \in Int
    BY Z3
  <2>3. (p * m) * e <= x * e /\ (x + 1) * e <= (p * (m + 1)) * e
        /\ x * e \in Int /\ (p * m) * e \in Int /\ (x + 1) * e \in Int /\ (p * (m + 1)) * e \in Int
    BY <1>1, <2>2
  <2> QED
    BY <1>4, <2>1, <2>3
<1> QED
  BY <1>2, <1>3, <1>4

\* What is left of the word y of h bits when its first one is in the low w bits of x.
HighLeft(s, w, h, y) ==
  /\ s.x \in Nat /\ s.x < 2^w /\ s.r \in 0..(h - w)
  /\ y = 0 => s.x = 0 /\ s.r = h - w
  /\ y # 0 => /\ s.x # 0
              /\ s.x * 2^((h - w) - s.r) <= y
              /\ y < (s.x + 1) * 2^((h - w) - s.r)

\* Halving the width keeps it.
LEMMA SkipHighKeeps ==
  ASSUME NEW h \in 0..Top, NEW v \in 1..h, 2 * v <= h, NEW y \in Nat, NEW s,
         HighLeft(s, 2 * v, h, y)
  PROVE  HighLeft(Wide!SkipHigh(s, v), v, h, y)
<1>1. PICK x \in Nat, r \in Nat : x = s.x /\ r = s.r /\ r <= h - 2 * v
  BY Exponentials DEF HighLeft
<1>2. h \in Nat /\ v \in Nat /\ v > 0 /\ 2 * v <= h /\ h <= Top /\ Top \in Nat
  BY Exponentials
<1>3. r <= h - 2 * v
  BY <1>1
<1> DEFINE E == (h - 2 * v) - r
<1>4. /\ E \in Nat /\ E <= Top /\ v <= Top /\ v + v <= Top /\ v + E <= Top /\ v + v = 2 * v
      /\ (h - v) - (r + v) = E /\ (h - v) - r = v + E /\ r + v \in 0..(h - v) /\ r \in 0..(h - v)
      /\ (r = h - 2 * v => r + v = h - v) /\ v - v = 0 /\ v - 0 = v /\ r + 0 = r
  BY <1>2, <1>3
<1>5. PICK p \in Nat, e \in Nat : p = 2^v /\ e = 2^E /\ p > 0 /\ e > 0
  BY <1>2, <1>4, Exponentials
<1>6. 2^(2 * v) = p * p /\ 2^(v + E) = p * e
  BY <1>2, <1>4, <1>5, ExponentialSum
<1>7. /\ x < p * p
      /\ y = 0 => x = 0 /\ r = h - 2 * v
      /\ y # 0 => x # 0 /\ x * e <= y /\ y < (x + 1) * e
  BY <1>1, <1>5, <1>6, Zenon DEF HighLeft
<1> HIDE DEF E
<1>8. PICK m \in Nat : m = x \div p
  BY <1>5, Quotient
<1>9. /\ m < p
      /\ m = 0 <=> x < p
      /\ x * e <= y /\ y < (x + 1) * e => m * (p * e) <= y /\ y < (m + 1) * (p * e)
  BY <1>5, <1>7, <1>8, Narrowed
<1>10. CASE m = 0
  <2>1. Wide!SkipHigh(s, v) = [x |-> x \div 2^(v - v), r |-> r + v]
    BY <1>1, <1>5, <1>8, <1>10, Zenon DEF Wide!SkipHigh
  <2>2. 2^0 = 1
    BY Exponentials
  <2>3. x \div 1 = x
    OBVIOUS
  <2>4. Wide!SkipHigh(s, v) = [x |-> x, r |-> r + v]
    BY <1>4, <2>1, <2>2, <2>3, Zenon
  <2> DEFINE t == Wide!SkipHigh(s, v)
  <2>5. t.x = x /\ t.r = r + v
    BY <2>4
  <2> HIDE DEF t
  <2>6. t.x \in Nat /\ t.x < 2^v /\ t.r \in 0..(h - v) /\ (h - v) - t.r = E
    BY <1>4, <1>5, <1>9, <1>10, <2>5, Zenon
  <2>7. y = 0 => t.x = 0 /\ t.r = h - v
    BY <1>4, <1>7, <2>5, Zenon
  <2>8. y # 0 => t.x # 0 /\ t.x * 2^E <= y /\ y < (t.x + 1) * 2^E
    BY <1>5, <1>7, <2>5, Zenon
  <2>9. HighLeft(t, v, h, y)
    BY <2>6, <2>7, <2>8, Zenon DEF HighLeft
  <2> QED
    BY <2>9 DEF t
<1>11. CASE m # 0
  <2>1. Wide!SkipHigh(s, v) = [x |-> x \div 2^(v - 0), r |-> r + 0]
    BY <1>1, <1>5, <1>8, <1>11, Zenon DEF Wide!SkipHigh
  <2>2. Wide!SkipHigh(s, v) = [x |-> m, r |-> r]
    BY <1>4, <1>5, <1>8, <2>1, Zenon
  <2>3. y # 0
    <3>1. x = 0 => x < p
      BY <1>5
    <3> QED
      BY <1>7, <1>9, <1>11, <3>1, Zenon
  <2> DEFINE t == Wide!SkipHigh(s, v)
  <2>4. t.x = m /\ t.r = r
    BY <2>2
  <2> HIDE DEF t
  <2>5. t.x \in Nat /\ t.x < 2^v /\ t.r \in 0..(h - v) /\ (h - v) - t.r = v + E
    BY <1>4, <1>5, <1>8, <1>9, <2>4, Zenon
  <2>6. y # 0 => t.x # 0 /\ t.x * 2^(v + E) <= y /\ y < (t.x + 1) * 2^(v + E)
    BY <1>6, <1>7, <1>9, <1>11, <2>4, Zenon
  <2>7. HighLeft(t, v, h, y)
    BY <2>3, <2>5, <2>6, Zenon DEF HighLeft
  <2> QED
    BY <2>7 DEF t
<1> QED
  BY <1>10, <1>11

\* Dividing by p what p divides leaves what p does not divide, unless its square did.
RestKept(x, p, e, m, u) == x * e = m * (e * p) /\ (x % u # 0 => m % p # 0) /\ (x = 0 => m = 0)

LEMMA NarrowedLow ==
  ASSUME NEW x \in Nat, NEW p \in Nat, p > 0, NEW e \in Nat, NEW m \in Nat, m = x \div p, x % p = 0,
         NEW u \in Nat, u = p * p
  PROVE  RestKept(x, p, e, m, u)
<1>1. x = p * m
  BY Quotient
<1>2. x * e = m * (e * p)
  BY <1>1, Z3
<1>3. ASSUME m % p = 0 PROVE x % u = 0
  <2>1. PICK k \in Nat : m = p * k
    BY <1>3, Quotient
  <2>2. x = (p * p) * k
    BY <1>1, <2>1, Z3
  <2>3. u > 0
    BY Product
  <2>4. x % u = 0
    <3>1. x = u * k + 0
      BY <2>2, <2>3
    <3>2. u > 0 /\ k \in Int /\ 0 \in Nat /\ 0 < u
      BY <2>1, <2>3
    <3> QED
      BY <3>1, <3>2, Unique, Zenon
  <2> QED
    BY <2>4
<1>4. x = 0 => m = 0
  <2>1. m # 0 => p * m > 0
    BY Product
  <2> QED
    BY <1>1, <2>1
<1> QED
  BY <1>2, <1>3, <1>4, Zenon DEF RestKept

\* What is left of the word y of h bits when its last one is in the low w bits of x.
LowLeft(s, w, h, y) ==
  /\ s.x \in Nat /\ s.r \in 0..(h - w)
  /\ y = s.x * 2^s.r
  /\ y = 0 => s.x = 0 /\ s.r = h - w
  /\ y # 0 => s.x % 2^w # 0

\* Halving the width keeps it.
LEMMA SkipKeeps ==
  ASSUME NEW h \in 0..Top, NEW v \in 1..h, 2 * v <= h, NEW y \in Nat, NEW s,
         LowLeft(s, 2 * v, h, y)
  PROVE  LowLeft(Wide!Skip(s, v), v, h, y)
<1>1. PICK x \in Nat, r \in Nat : x = s.x /\ r = s.r /\ r <= h - 2 * v
  BY Exponentials DEF LowLeft
<1>2. h \in Nat /\ v \in Nat /\ v > 0 /\ 2 * v <= h /\ h <= Top /\ Top \in Nat
  BY Exponentials
<1>3. r <= h - 2 * v
  BY <1>1
<1>4. /\ r <= Top /\ v <= Top /\ v + v <= Top /\ r + v <= Top /\ v + v = 2 * v
      /\ r + v \in 0..(h - v) /\ r \in 0..(h - v)
      /\ (r = h - 2 * v => r + v = h - v) /\ r + 0 = r
  BY <1>2, <1>3
<1>5. PICK p \in Nat, e \in Nat : p = 2^v /\ e = 2^r /\ p > 0 /\ e > 0
  BY <1>2, <1>4, Exponentials
<1>6. 2^(2 * v) = p * p /\ 2^(r + v) = e * p
  BY <1>2, <1>4, <1>5, ExponentialSum
<1>7. /\ y = x * e
      /\ y = 0 => x = 0 /\ r = h - 2 * v
      /\ y # 0 => x % (p * p) # 0
  BY <1>1, <1>5, <1>6, Zenon DEF LowLeft
<1>8. PICK m \in Nat : m = x \div p
  BY <1>5, Quotient
<1> DEFINE t == Wide!Skip(s, v)
<1>9. CASE x % p = 0
  <2>1. t = [x |-> x \div 2^v, r |-> r + v]
    BY <1>1, <1>5, <1>9, Zenon DEF Wide!Skip
  <2>2. t = [x |-> m, r |-> r + v]
    BY <1>5, <1>8, <2>1, Zenon
  <2>3. t.x = m /\ t.r = r + v
    BY <2>2
  <2> HIDE DEF t
  <2>4. x * e = m * (e * p) /\ (x % (p * p) # 0 => m % p # 0) /\ (x = 0 => m = 0)
    <3>1. x \in Nat /\ p \in Nat /\ p > 0 /\ e \in Nat /\ m \in Nat
      BY <1>1, <1>5, <1>8
    <3>2. PICK u \in Nat : u = p * p
      BY <3>1, Z3
    <3>3. RestKept(x, p, e, m, u)
      BY <1>8, <1>9, <3>1, <3>2, NarrowedLow, Zenon
    <3> QED
      BY <3>2, <3>3, Zenon DEF RestKept
  <2>5. t.x \in Nat /\ t.r \in 0..(h - v) /\ y = t.x * 2^t.r
    BY <1>4, <1>6, <1>7, <1>8, <2>3, <2>4, Zenon
  <2>6. y = 0 => t.x = 0 /\ t.r = h - v
    BY <1>4, <1>7, <2>3, <2>4, Zenon
  <2>7. y # 0 => t.x % 2^v # 0
    BY <1>5, <1>7, <2>3, <2>4, Zenon
  <2>8. LowLeft(t, v, h, y)
    BY <2>5, <2>6, <2>7, Zenon DEF LowLeft
  <2> QED
    BY <2>8 DEF t
<1>10. CASE x % p # 0
  <2>1. t = [x |-> x \div 2^0, r |-> r + 0]
    BY <1>1, <1>5, <1>10, Zenon DEF Wide!Skip
  <2>2. 2^0 = 1
    BY Exponentials
  <2>3. x \div 1 = x
    OBVIOUS
  <2>4. t = [x |-> x, r |-> r]
    BY <1>4, <2>1, <2>2, <2>3, Zenon
  <2>5. t.x = x /\ t.r = r
    BY <2>4
  <2> HIDE DEF t
  <2>6. y # 0
    <3>1. x = 0 => x % p = 0
      <4>1. p \in Nat /\ p > 0
        BY <1>5
      <4> QED
        BY <4>1, Small
    <3> QED
      BY <1>7, <1>10, <3>1, Zenon
  <2>7. t.x \in Nat /\ t.r \in 0..(h - v) /\ y = t.x * 2^t.r
    BY <1>1, <1>4, <1>5, <1>7, <2>5, Zenon
  <2>8. t.x % 2^v # 0
    BY <1>5, <1>10, <2>5, Zenon
  <2>9. LowLeft(t, v, h, y)
    BY <2>6, <2>7, <2>8, Zenon DEF LowLeft
  <2> QED
    BY <2>9 DEF t
<1> QED
  BY <1>9, <1>10

\* The widths by which words are narrowed.
LEMMA Widths ==
  ASSUME NEW L \in Nat, L = LogH \/ L = ZerosLogH
  PROVE  /\ L >= 1 /\ 2^L \in 0..Top /\ 2^L \in Nat /\ 2^L >= 2 /\ 2 * 2^L <= Top
         /\ \A k \in 1..(L - 1) : 2^(L - k) \in 1..2^L /\ 2 * 2^(L - k) <= 2^L
                                  /\ 2^(L - (k - 1)) = 2 * 2^(L - k)
<1>1. L >= 1 /\ L < 2^L /\ 2 * 2^L <= Top /\ 2^L \in Nat /\ Top \in Nat /\ L <= Top
  <2>1. CASE L = LogH
    BY <2>1, Exponentials
  <2>2. CASE L = ZerosLogH
    BY <2>2, Exponentials
  <2> QED
    BY <2>1, <2>2
<1>2. 2^L >= 2
  <2>1. 2^1 <= 2^L
    BY <1>1, ExponentialGrows
  <2> QED
    BY <1>1, <2>1, Exponentials
<1>3. ASSUME NEW k \in 1..(L - 1)
      PROVE  2^(L - k) \in 1..2^L /\ 2 * 2^(L - k) <= 2^L /\ 2^(L - (k - 1)) = 2 * 2^(L - k)
  <2>1. L - k \in 0..L /\ L - k \in 0..Top /\ L - k < L /\ L \in 0..Top /\ L - (k - 1) = (L - k) + 1
    BY <1>1
  <2>2. 2^((L - k) + 1) = 2 * 2^(L - k) /\ 2^(L - k) \in Nat /\ 2^(L - k) > 0
    BY <2>1, Exponentials
  <2>3. 2 * 2^(L - k) <= 2^L
    BY <2>1, ExponentialGrows
  <2> QED
    BY <1>1, <2>1, <2>2, <2>3
<1> QED
  BY <1>1, <1>2, <1>3

\* The narrowings from the left exist, and end with the two bits that hold the first one.
NarrowsHigh(s, L, y) ==
  s = [k \in 0..(L - 1) |-> IF k = 0 THEN [x |-> y, r |-> 0]
                            ELSE Wide!SkipHigh(s[k - 1], 2^(L - k))]

LEMMA HighNarrows ==
  ASSUME NEW L \in Nat, L = LogH \/ L = ZerosLogH, NEW y \in Nat, y < 2^(2^L),
         NEW s, NarrowsHigh(s, L, y)
  PROVE  HighLeft(s[L - 1], 2, 2^L, y)
<1>1. PICK h \in Nat : h = 2^L /\ h \in 0..Top
  BY Widths
<1> DEFINE S == {k \in 0..(L - 1) : ~HighLeft(s[k], 2^(L - k), h, y)}
<1>2. S = {}
  <2> SUFFICES ASSUME S # {} PROVE FALSE
    OBVIOUS
  <2>1. PICK e \in S : \A z \in S : e <= z
    <3>1. S \in SUBSET Nat
      OBVIOUS
    <3> QED
      BY <3>1, Smallest, Zenon
  <2>2. L >= 1 /\ 0 \in 0..(L - 1) /\ L - 0 = L
    BY Widths
  <2>3. e # 0
    <3>1. s[0] = [x |-> y, r |-> 0]
      BY <2>2 DEF NarrowsHigh
    <3>2. s[0].x = y /\ s[0].r = 0
      BY <3>1
    <3>3. h - h = 0 /\ (h - h) - 0 = 0 /\ 0 \in 0..(h - h) /\ 2^0 = 1
      BY <1>1, Exponentials
    <3>4. y * 1 <= y /\ y < (y + 1) * 1
      OBVIOUS
    <3>5. HighLeft(s[0], h, h, y)
      BY <1>1, <3>2, <3>3, <3>4, Zenon DEF HighLeft
    <3>6. 0 \notin S
      BY <1>1, <2>2, <3>5, Zenon
    <3> QED
      BY <2>1, <3>6
  <2>4. e \in 1..(L - 1) /\ e - 1 \in 0..(L - 1) /\ ~(e <= e - 1)
    <3>1. e \in 0..(L - 1)
      BY <2>1
    <3> QED
      BY <2>3, <3>1
  <2>5. HighLeft(s[e - 1], 2^(L - (e - 1)), h, y)
    BY <2>1, <2>4, Zenon
  <2>6. PICK v \in 1..h : v = 2^(L - e) /\ 2 * v <= h /\ 2^(L - (e - 1)) = 2 * v
    BY <1>1, <2>4, Widths
  <2>7. HighLeft(Wide!SkipHigh(s[e - 1], v), v, h, y)
    BY <1>1, <2>5, <2>6, SkipHighKeeps
  <2>8. s[e] = Wide!SkipHigh(s[e - 1], 2^(L - e))
    <3>1. e \in 0..(L - 1)
      BY <2>1
    <3> QED
      BY <2>3, <3>1, Zenon DEF NarrowsHigh
  <2> QED
    BY <2>1, <2>6, <2>7, <2>8, Zenon
<1>3. L - 1 \in 0..(L - 1) /\ L - (L - 1) = 1 /\ 2^1 = 2
  BY Widths, Exponentials
<1> QED
  BY <1>1, <1>2, <1>3

\* The narrowings from the right likewise.
NarrowsLow(s, L, y) ==
  s = [k \in 0..(L - 1) |-> IF k = 0 THEN [x |-> y, r |-> 0]
                            ELSE Wide!Skip(s[k - 1], 2^(L - k))]

LEMMA LowNarrows ==
  ASSUME NEW L \in Nat, L = LogH \/ L = ZerosLogH, NEW y \in Nat, y < 2^(2^L),
         NEW s, NarrowsLow(s, L, y)
  PROVE  LowLeft(s[L - 1], 2, 2^L, y)
<1>1. PICK h \in Nat : h = 2^L /\ h \in 0..Top
  BY Widths
<1> DEFINE S == {k \in 0..(L - 1) : ~LowLeft(s[k], 2^(L - k), h, y)}
<1>2. S = {}
  <2> SUFFICES ASSUME S # {} PROVE FALSE
    OBVIOUS
  <2>1. PICK e \in S : \A z \in S : e <= z
    <3>1. S \in SUBSET Nat
      OBVIOUS
    <3> QED
      BY <3>1, Smallest, Zenon
  <2>2. L >= 1 /\ 0 \in 0..(L - 1) /\ L - 0 = L
    BY Widths
  <2>3. e # 0
    <3>1. s[0] = [x |-> y, r |-> 0]
      BY <2>2 DEF NarrowsLow
    <3>2. s[0].x = y /\ s[0].r = 0
      BY <3>1
    <3>3. h - h = 0 /\ 0 \in 0..(h - h) /\ 2^0 = 1
      BY <1>1, Exponentials
    <3>4. y * 1 = y /\ y % 2^h = y
      <4>1. PICK u \in Nat : u = 2^h /\ y < u
        BY <1>1, Exponentials
      <4> QED
        BY <4>1, Small
    <3>5. LowLeft(s[0], h, h, y)
      BY <1>1, <3>2, <3>3, <3>4, Zenon DEF LowLeft
    <3>6. 0 \notin S
      BY <1>1, <2>2, <3>5, Zenon
    <3> QED
      BY <2>1, <3>6
  <2>4. e \in 1..(L - 1) /\ e - 1 \in 0..(L - 1) /\ ~(e <= e - 1)
    <3>1. e \in 0..(L - 1)
      BY <2>1
    <3> QED
      BY <2>3, <3>1
  <2>5. LowLeft(s[e - 1], 2^(L - (e - 1)), h, y)
    BY <2>1, <2>4, Zenon
  <2>6. PICK v \in 1..h : v = 2^(L - e) /\ 2 * v <= h /\ 2^(L - (e - 1)) = 2 * v
    BY <1>1, <2>4, Widths
  <2>7. LowLeft(Wide!Skip(s[e - 1], v), v, h, y)
    BY <1>1, <2>5, <2>6, SkipKeeps
  <2>8. s[e] = Wide!Skip(s[e - 1], 2^(L - e))
    <3>1. e \in 0..(L - 1)
      BY <2>1
    <3> QED
      BY <2>3, <3>1, Zenon DEF NarrowsLow
  <2> QED
    BY <2>1, <2>6, <2>7, <2>8, Zenon
<1>3. L - 1 \in 0..(L - 1) /\ L - (L - 1) = 1 /\ 2^1 = 2
  BY Widths, Exponentials
<1> QED
  BY <1>1, <1>2, <1>3

\* Both exist: each narrowing maps such a pair of numbers to one.
LEMMA NarrowingsExist ==
  ASSUME NEW L \in Nat, L = LogH \/ L = ZerosLogH, NEW y \in Nat
  PROVE  (\E s : NarrowsHigh(s, L, y)) /\ (\E s : NarrowsLow(s, L, y))
<1> DEFINE V == [x : Nat, r : Nat]
           x0 == [x |-> y, r |-> 0]
           G1 == [k \in 1..(L - 1) |-> [t \in V |-> Wide!SkipHigh(t, 2^(L - k))]]
           G2 == [k \in 1..(L - 1) |-> [t \in V |-> Wide!Skip(t, 2^(L - k))]]
<1>1. x0 \in V /\ L - 1 \in Nat
  BY Widths
<1>2. ASSUME NEW k \in 1..(L - 1), NEW t \in V
      PROVE  Wide!SkipHigh(t, 2^(L - k)) \in V /\ Wide!Skip(t, 2^(L - k)) \in V
  <2>1. PICK v \in Nat : v = 2^(L - k) /\ v <= Top
    <3>1. 2^L \in 0..Top /\ 2^(L - k) \in 1..2^L
      BY Widths
    <3>2. \A h \in 0..Top : \A v \in 1..h : v \in Nat /\ v <= Top
      BY Exponentials
    <3> QED
      BY <3>1, <3>2, Zenon
  <2>2. \A j \in {0, v} : 2^j \in Nat /\ 2^j > 0 /\ 2^(v - j) \in Nat /\ 2^(v - j) > 0
    <3>1. v \in 0..Top /\ 0 \in 0..Top /\ v - v = 0 /\ v - 0 = v
      BY <2>1, Exponentials
    <3> QED
      BY <3>1, Exponentials
  <2>3. PICK x \in Nat, r \in Nat : x = t.x /\ r = t.r
    OBVIOUS
  <2>4. \A j \in {0, v} : x \div 2^j \in Nat /\ x \div 2^(v - j) \in Nat /\ r + j \in Nat
    <3>1. \A u \in Nat : u > 0 => x \div u \in Nat
      BY Quotient
    <3>2. \A j \in {0, v} : r + j \in Nat
      OBVIOUS
    <3> QED
      BY <2>2, <3>1, <3>2, Zenon
  <2>5. \A j \in {0, v} : [x |-> x \div 2^(v - j), r |-> r + j] \in V /\ [x |-> x \div 2^j, r |-> r + j] \in V
    BY <2>4
  <2> HIDE DEF V
  <2>6. Wide!SkipHigh(t, v) \in V
    BY <2>3, <2>5, Zenon DEF Wide!SkipHigh
  <2>7. Wide!Skip(t, v) \in V
    BY <2>3, <2>5, Zenon DEF Wide!Skip
  <2> QED
    BY <2>1, <2>6, <2>7
<1> HIDE DEF V, x0
<1>3. G1 \in [1..(L - 1) -> [V -> V]] /\ G2 \in [1..(L - 1) -> [V -> V]]
  BY <1>2
<1> HIDE DEF G1, G2
<1>4. PICK f : Iterates(f, V, x0, L - 1, G1)
  BY <1>1, <1>3, Recursion, Zenon
<1>5. PICK g : Iterates(g, V, x0, L - 1, G2)
  BY <1>1, <1>3, Recursion, Zenon
<1>6. ASSUME NEW k \in 0..(L - 1), k # 0
      PROVE  /\ k \in 1..(L - 1) /\ f[k - 1] \in V /\ g[k - 1] \in V
             /\ G1[k][f[k - 1]] = Wide!SkipHigh(f[k - 1], 2^(L - k))
             /\ G2[k][g[k - 1]] = Wide!Skip(g[k - 1], 2^(L - k))
  <2>1. k \in 1..(L - 1) /\ k - 1 \in 0..(L - 1)
    BY <1>1, <1>6
  <2>2. f[k - 1] \in V /\ g[k - 1] \in V
    BY <1>4, <1>5, <2>1 DEF Iterates
  <2> QED
    BY <2>1, <2>2 DEF G1, G2
<1>7. NarrowsHigh(f, L, y)
  <2>1. \A k \in 0..(L - 1) : (IF k = 0 THEN x0 ELSE G1[k][f[k - 1]])
                           = IF k = 0 THEN [x |-> y, r |-> 0] ELSE Wide!SkipHigh(f[k - 1], 2^(L - k))
    BY <1>6, Zenon DEF x0
  <2>2. [k \in 0..(L - 1) |-> IF k = 0 THEN x0 ELSE G1[k][f[k - 1]]]
        = [k \in 0..(L - 1) |-> IF k = 0 THEN [x |-> y, r |-> 0] ELSE Wide!SkipHigh(f[k - 1], 2^(L - k))]
    BY <2>1
  <2> QED
    BY <1>4, <2>2, Zenon DEF NarrowsHigh, Iterates
<1>8. NarrowsLow(g, L, y)
  <2>1. \A k \in 0..(L - 1) : (IF k = 0 THEN x0 ELSE G2[k][g[k - 1]])
                           = IF k = 0 THEN [x |-> y, r |-> 0] ELSE Wide!Skip(g[k - 1], 2^(L - k))
    BY <1>6, Zenon DEF x0
  <2>2. [k \in 0..(L - 1) |-> IF k = 0 THEN x0 ELSE G2[k][g[k - 1]]]
        = [k \in 0..(L - 1) |-> IF k = 0 THEN [x |-> y, r |-> 0] ELSE Wide!Skip(g[k - 1], 2^(L - k))]
    BY <2>1
  <2> QED
    BY <1>5, <2>2, Zenon DEF NarrowsLow, Iterates
<1> QED
  BY <1>7, <1>8

\* What the number of zeros in front of a word of h bits is.
IsClz(c, h, y) ==
  IF y = 0 THEN c = h ELSE c \in 0..(h - 1) /\ 2^((h - 1) - c) <= y /\ y < 2^(h - c)

\* The last two bits are read off.
LEMMA HighRead ==
  ASSUME NEW h \in 0..Top, h >= 2, NEW y \in Nat, NEW s, HighLeft(s, 2, h, y)
  PROVE  IsClz(s.r + (IF s.x < 2 THEN 2 - s.x ELSE 0), h, y)
<1>1. PICK x \in Nat, r \in 0..(h - 2) : x = s.x /\ r = s.r
  BY DEF HighLeft
<1> DEFINE E == (h - 2) - r
           c == r + (IF x < 2 THEN 2 - x ELSE 0)
<1>2. h \in Nat /\ h >= 2 /\ r \in Nat /\ E \in Nat /\ E + 2 <= Top /\ E + 1 <= Top /\ E <= Top /\ Top \in Nat
  BY Exponentials
<1>3. PICK e \in Nat : e = 2^E /\ e > 0
  BY <1>2, Exponentials
<1>4. 2^(E + 1) = 2 * e /\ 2^(E + 2) = 4 * e
  <2>1. 2^(E + 1) = 2 * 2^E /\ 2^((E + 1) + 1) = 2 * 2^(E + 1) /\ (E + 1) + 1 = E + 2
    BY <1>2, Exponentials
  <2>2. \A u \in Int, v \in Int, w \in Int : u = e /\ v = 2 * u /\ w = 2 * v => v = 2 * e /\ w = 4 * e
    OBVIOUS
  <2>3. 2^(E + 1) \in Nat /\ 2^(E + 2) \in Nat
    BY <1>2, Exponentials
  <2> QED
    BY <1>3, <2>1, <2>2, <2>3
<1>5. 2^2 = 4
  BY Exponentials
<1>6. /\ x < 4
      /\ y = 0 => x = 0 /\ r = h - 2
      /\ y # 0 => x # 0 /\ x * e <= y /\ y < (x + 1) * e
  BY <1>1, <1>3, <1>5, Zenon DEF HighLeft
<1>7. e \in Nat /\ e > 0
  BY <1>3
<1> HIDE DEF E
<1>8. CASE y = 0
  <2>1. c = h
    BY <1>1, <1>2, <1>6, <1>8
  <2> QED
    BY <1>1, <1>8, <2>1, Zenon DEF IsClz
<1>9. CASE y # 0 /\ x = 1
  <2>1. c \in 0..(h - 1) /\ (h - 1) - c = E /\ h - c = E + 1
    BY <1>2, <1>9 DEF E
  <2>2. e <= y /\ y < 2 * e
    BY <1>6, <1>7, <1>9
  <2>3. 2^((h - 1) - c) <= y /\ y < 2^(h - c)
    BY <1>3, <1>4, <2>1, <2>2, Zenon
  <2> HIDE DEF c
  <2>4. IsClz(c, h, y)
    BY <1>9, <2>1, <2>3, Zenon DEF IsClz
  <2> QED
    BY <1>1, <2>4, Zenon DEF c
<1>10. CASE y # 0 /\ x \in 2..3
  <2>1. c \in 0..(h - 1) /\ (h - 1) - c = E + 1 /\ h - c = E + 2
    BY <1>2, <1>10 DEF E
  <2>2. 2 * e <= y /\ y < 4 * e
    <3>1. CASE x = 2
      BY <1>6, <1>7, <1>10, <3>1
    <3>2. CASE x = 3
      BY <1>6, <1>7, <1>10, <3>2
    <3> QED
      BY <1>10, <3>1, <3>2
  <2>3. 2^((h - 1) - c) <= y /\ y < 2^(h - c)
    BY <1>4, <2>1, <2>2, Zenon
  <2> HIDE DEF c
  <2>4. IsClz(c, h, y)
    BY <1>10, <2>1, <2>3, Zenon DEF IsClz
  <2> QED
    BY <1>1, <2>4, Zenon DEF c
<1>11. y = 0 \/ (y # 0 /\ x = 1) \/ (y # 0 /\ x \in 2..3)
  BY <1>6
<1> QED
  BY <1>8, <1>9, <1>10, <1>11

\* An odd number of 2^c: there are c zeros at the end of y.
OddTimes(y, c) == \E u \in Nat : y = (2 * u + 1) * 2^c

IsCtz(c, h, y) == IF y = 0 THEN c = h ELSE c \in 0..(h - 1) /\ OddTimes(y, c)

\* The last two bits are read off.
LEMMA LowRead ==
  ASSUME NEW h \in 0..Top, h >= 2, NEW y \in Nat, NEW s, LowLeft(s, 2, h, y)
  PROVE  IsCtz(s.r + (IF (s.x % 4) % 2 = 0 THEN 2 - ((s.x % 4) \div 2) ELSE 0), h, y)
<1>1. PICK x \in Nat, r \in 0..(h - 2) : x = s.x /\ r = s.r
  BY DEF LowLeft
<1> DEFINE c == r + (IF (x % 4) % 2 = 0 THEN 2 - ((x % 4) \div 2) ELSE 0)
<1>2. h \in Nat /\ h >= 2 /\ r \in Nat /\ r + 1 <= Top /\ r <= Top /\ Top \in Nat
  BY Exponentials
<1>3. PICK e \in Nat : e = 2^r /\ e > 0
  BY <1>2, Exponentials
<1>4. 2^(r + 1) = 2 * e
  BY <1>2, <1>3, Exponentials
<1>5. 2^2 = 4
  BY Exponentials
<1>6. y = x * e /\ (y = 0 => x = 0 /\ r = h - 2) /\ (y # 0 => x % 4 # 0)
  BY <1>1, <1>3, <1>5, Zenon DEF LowLeft
<1>7. e \in Nat /\ e > 0
  BY <1>3
<1>8. CASE y = 0
  <2>1. x % 4 = 0 /\ 0 % 2 = 0 /\ 0 \div 2 = 0 /\ r + 2 = h /\ 2 - 0 = 2
    BY <1>2, <1>6, <1>8
  <2>2. c = h
    BY <2>1, Zenon
  <2> QED
    BY <1>1, <1>8, <2>2, Zenon DEF IsCtz
<1>9. CASE y # 0 /\ x % 4 = 2
  <2>1. PICK u \in Nat : x = 2 * (2 * u + 1)
    <3>1. x = 4 * (x \div 4) + 2 /\ x \div 4 \in Nat
      BY <1>9, Quotient
    <3>2. x = 2 * (2 * (x \div 4) + 1)
      BY <3>1
    <3> QED
      BY <3>1, <3>2, Zenon
  <2>2. x * e = (2 * u + 1) * (2 * e)
    BY <1>7, <2>1, Z3
  <2>3. c = r + 1 /\ c \in 0..(h - 1)
    BY <1>2, <1>9
  <2> HIDE DEF c
  <2>4. OddTimes(y, c)
    BY <1>4, <1>6, <2>1, <2>2, <2>3, Zenon DEF OddTimes
  <2>5. IsCtz(c, h, y)
    BY <1>9, <2>3, <2>4, Zenon DEF IsCtz
  <2> QED
    BY <1>1, <2>5, Zenon DEF c
<1>10. CASE y # 0 /\ x % 4 \in {1, 3}
  <2>1. PICK u \in Nat : x = 2 * u + 1
    <3>1. x = 4 * (x \div 4) + (x % 4) /\ x \div 4 \in Nat
      BY Quotient
    <3>2. x % 4 = 1 => x = 2 * (2 * (x \div 4)) + 1 /\ 2 * (x \div 4) \in Nat
      BY <3>1
    <3>3. x % 4 = 3 => x = 2 * (2 * (x \div 4) + 1) + 1 /\ 2 * (x \div 4) + 1 \in Nat
      BY <3>1
    <3> QED
      BY <1>10, <3>2, <3>3, Zenon
  <2>2. c = r /\ c \in 0..(h - 1)
    BY <1>2, <1>10
  <2> HIDE DEF c
  <2>3. OddTimes(y, c)
    BY <1>3, <1>6, <2>1, <2>2, Zenon DEF OddTimes
  <2>4. IsCtz(c, h, y)
    BY <1>10, <2>2, <2>3, Zenon DEF IsCtz
  <2> QED
    BY <1>1, <2>4, Zenon DEF c
<1>11. y = 0 \/ (y # 0 /\ x % 4 = 2) \/ (y # 0 /\ x % 4 \in {1, 3})
  <2>1. x % 4 \in 0..3
    OBVIOUS
  <2> QED
    BY <1>6, <2>1
<1> QED
  BY <1>8, <1>9, <1>10, <1>11

\* What an odd multiple of 2^c leaves when it is divided by it and by its double.
LEMMA OddTimesIs ==
  ASSUME NEW y \in Nat, NEW c \in Nat, c < Top, OddTimes(y, c)
  PROVE  y % 2^c = 0 /\ y % 2^(c + 1) # 0
<1>1. PICK u \in Nat : y = (2 * u + 1) * 2^c
  BY DEF OddTimes
<1>2. PICK p \in Nat : p = 2^c /\ p > 0 /\ 2^(c + 1) = 2 * p
  BY Exponentials
<1>3. p \in Nat /\ p > 0
  BY <1>2
<1>4. y = (2 * u + 1) * p
  BY <1>1, <1>2, Zenon
<1>5. y = p * (2 * u + 1) + 0 /\ y = (2 * p) * u + p
  <2>1. \A v \in Nat, w \in Nat : (2 * v + 1) * w = w * (2 * v + 1) + 0 /\ (2 * v + 1) * w = (2 * w) * v + w
    BY Z3
  <2>2. u \in Nat
    BY <1>1
  <2> QED
    BY <1>3, <1>4, <2>1, <2>2, Zenon
<1>6. y % p = 0
  <2>1. 2 * u + 1 \in Int /\ 0 \in Nat /\ 0 < p
    BY <1>3
  <2>2. y = p * (2 * u + 1) + 0
    BY <1>5
  <2> QED
    BY <1>3, <2>1, <2>2, Unique, Zenon
<1>7. y % (2 * p) = p
  <2>1. 2 * p \in Nat /\ 2 * p > 0 /\ u \in Int /\ p < 2 * p
    BY <1>1, <1>3
  <2> QED
    BY <1>3, <1>5, <2>1, Unique, Zenon
<1> QED
  BY <1>2, <1>3, <1>6, <1>7

\* __clzsi2 and __ctzsi2 count zeros, in words of either size.
LEMMA WideZeros ==
  ASSUME NEW y \in Nat, y < 2^Wide!H
  PROVE  IsClz(Wide!Clzsi2(y), Wide!H, y) /\ IsCtz(Wide!Ctzsi2(y), Wide!H, y)
<1>1. LogH \in Nat /\ Wide!H = 2^LogH /\ y < 2^(2^LogH) /\ Wide!H \in 0..Top /\ Wide!H >= 2
  BY Exponentials, Widths
<1> DEFINE f == CHOOSE s : NarrowsHigh(s, LogH, y)
           g == CHOOSE s : NarrowsLow(s, LogH, y)
<1>2. NarrowsHigh(f, LogH, y) /\ NarrowsLow(g, LogH, y)
  BY <1>1, NarrowingsExist, Zenon
<1>3. Wide!NarrowedHigh(y) = f[LogH - 1] /\ Wide!NarrowedLow(y) = g[LogH - 1]
  BY DEF Wide!NarrowedHigh, Wide!NarrowedLow, NarrowsHigh, NarrowsLow
<1> HIDE DEF f, g
<1>4. HighLeft(f[LogH - 1], 2, Wide!H, y) /\ LowLeft(g[LogH - 1], 2, Wide!H, y)
  BY <1>1, <1>2, HighNarrows, LowNarrows, Zenon
<1>5. Wide!Clzsi2(y) = f[LogH - 1].r + (IF f[LogH - 1].x < 2 THEN 2 - f[LogH - 1].x ELSE 0)
  BY <1>3, Zenon DEF Wide!Clzsi2
<1>6. Wide!Ctzsi2(y) = g[LogH - 1].r + (IF (g[LogH - 1].x % 4) % 2 = 0 THEN 2 - ((g[LogH - 1].x % 4) \div 2) ELSE 0)
  BY <1>3, Zenon DEF Wide!Ctzsi2
<1> QED
  BY <1>1, <1>4, <1>5, <1>6, HighRead, LowRead, Zenon

LEMMA ZerosZeros ==
  ASSUME NEW y \in Nat, y < 2^Zeros!H
  PROVE  IsClz(Zeros!Clzsi2(y), Zeros!H, y) /\ IsCtz(Zeros!Ctzsi2(y), Zeros!H, y)
<1>1. /\ ZerosLogH \in Nat /\ Zeros!H = 2^ZerosLogH /\ y < 2^(2^ZerosLogH)
      /\ Zeros!H \in 0..Top /\ Zeros!H >= 2
  BY Exponentials, Widths
<1> DEFINE f == CHOOSE s : NarrowsHigh(s, ZerosLogH, y)
           g == CHOOSE s : NarrowsLow(s, ZerosLogH, y)
<1>2. NarrowsHigh(f, ZerosLogH, y) /\ NarrowsLow(g, ZerosLogH, y)
  BY <1>1, NarrowingsExist, Zenon
<1>3. Zeros!NarrowedHigh(y) = f[ZerosLogH - 1] /\ Zeros!NarrowedLow(y) = g[ZerosLogH - 1]
  BY DEF Zeros!NarrowedHigh, Zeros!NarrowedLow, NarrowsHigh, NarrowsLow,
         Zeros!SkipHigh, Zeros!Skip, Wide!SkipHigh, Wide!Skip
<1> HIDE DEF f, g
<1>4. HighLeft(f[ZerosLogH - 1], 2, Zeros!H, y) /\ LowLeft(g[ZerosLogH - 1], 2, Zeros!H, y)
  BY <1>1, <1>2, HighNarrows, LowNarrows, Zenon
<1>5. Zeros!Clzsi2(y) = f[ZerosLogH - 1].r + (IF f[ZerosLogH - 1].x < 2 THEN 2 - f[ZerosLogH - 1].x ELSE 0)
  BY <1>3, Zenon DEF Zeros!Clzsi2
<1>6. Zeros!Ctzsi2(y) = g[ZerosLogH - 1].r + (IF (g[ZerosLogH - 1].x % 4) % 2 = 0 THEN 2 - ((g[ZerosLogH - 1].x % 4) \div 2) ELSE 0)
  BY <1>3, Zenon DEF Zeros!Ctzsi2
<1> QED
  BY <1>1, <1>4, <1>5, <1>6, HighRead, LowRead, Zenon

\* A power of two is an odd multiple of that power only.
LEMMA PowerOdd ==
  ASSUME NEW k \in 0..Top, NEW c \in 0..Top, OddTimes(2^k, c)
  PROVE  c = k
<1>1. PICK u \in Nat : 2^k = (2 * u + 1) * 2^c
  BY DEF OddTimes
<1>2. k \in Nat /\ c \in Nat /\ k <= Top /\ c <= Top /\ Top \in Nat
  BY Exponentials
<1>3. PICK p \in Nat, q \in Nat : p = 2^k /\ q = 2^c /\ p > 0 /\ q > 0 /\ p = (2 * u + 1) * q
  BY <1>1, <1>2, Exponentials
<1>4. p \in Nat /\ q \in Nat /\ u \in Nat /\ p > 0 /\ q > 0 /\ p = (2 * u + 1) * q
  BY <1>1, <1>3
<1>5. ~(k < c)
  <2> SUFFICES ASSUME k < c PROVE FALSE
    OBVIOUS
  <2>1. 2 * p <= q
    BY <1>2, <1>3, ExponentialGrows
  <2>2. (2 * u + 1) * q >= q
    BY <1>4, Product
  <2> QED
    BY <1>4, <2>1, <2>2
<1>6. ~(c < k)
  <2> SUFFICES ASSUME c < k PROVE FALSE
    OBVIOUS
  <2>1. (k - c) - 1 \in 0..Top /\ k - c \in Nat /\ (k - c) + c = k /\ ((k - c) - 1) + 1 = k - c
    BY <1>2
  <2>2. PICK v \in Nat : v = 2^((k - c) - 1)
    BY <2>1, Exponentials
  <2>3. 2^(k - c) = 2 * v
    BY <2>1, <2>2, Exponentials
  <2>4. 2^k = 2^(k - c) * 2^c
    BY <1>2, <2>1, ExponentialSum
  <2>5. v \in Nat /\ p = (2 * v) * q
    BY <1>3, <2>2, <2>3, <2>4, Zenon
  <2>6. 2 * v = 2 * u + 1
    <3>1. \A x \in Int, y \in Int, z \in Nat : z > 0 /\ x * z = y * z => x = y
      BY Z3
    <3>2. 2 * v \in Int /\ 2 * u + 1 \in Int /\ (2 * v) * q = (2 * u + 1) * q
      BY <1>4, <2>5
    <3> QED
      BY <1>4, <3>1, <3>2, Zenon
  <2> QED
    BY <1>4, <2>5, <2>6
<1> QED
  BY <1>2, <1>5, <1>6

\* __clzsi2 of a word that is not zero, and __ctzsi2 of a power of two.
LEMMA ZeroCounts ==
  /\ \A x \in Wide!Words \ {0} :
       \E c \in 0..(Wide!H - 1) :
         /\ Wide!Clzsi2(x) = c
         /\ 2^((Wide!H - 1) - c) <= x /\ x < 2^(Wide!H - c)
  /\ \A k \in 0..(Wide!H - 1) : Wide!Ctzsi2(2^k) = k
<1>1. ASSUME NEW x \in Wide!Words \ {0}
      PROVE  \E c \in 0..(Wide!H - 1) : Wide!Clzsi2(x) = c /\ 2^((Wide!H - 1) - c) <= x /\ x < 2^(Wide!H - c)
  <2>1. x \in Nat /\ x # 0 /\ x < 2^Wide!H
    <3>1. PICK p \in Nat : p = 2^Wide!H
      BY Exponentials
    <3>2. x \in 0..(p - 1) /\ x # 0
      BY <3>1 DEF Wide!Words
    <3> QED
      BY <3>1, <3>2
  <2> QED
    BY <2>1, WideZeros, Zenon DEF IsClz
<1>2. ASSUME NEW k \in 0..(Wide!H - 1) PROVE Wide!Ctzsi2(2^k) = k
  <2>1. k \in 0..Top /\ Wide!H \in 0..Top /\ k < Wide!H /\ k \in 0..Wide!H /\ \A c \in 0..(Wide!H - 1) : c \in 0..Top
    BY Exponentials
  <2>2. 2^k \in Nat /\ 2^k # 0 /\ 2^k < 2^Wide!H
    <3>1. 2 * 2^k <= 2^Wide!H
      BY <2>1, ExponentialGrows
    <3>2. PICK p \in Nat, q \in Nat : p = 2^k /\ q = 2^Wide!H /\ p > 0
      BY <2>1, Exponentials
    <3> QED
      BY <3>1, <3>2
  <2>3. IsCtz(Wide!Ctzsi2(2^k), Wide!H, 2^k)
    BY <2>2, WideZeros, Zenon
  <2>4. Wide!Ctzsi2(2^k) \in 0..(Wide!H - 1) /\ OddTimes(2^k, Wide!Ctzsi2(2^k))
    BY <2>2, <2>3, Zenon DEF IsCtz
  <2> QED
    BY <2>1, <2>4, PowerOdd, Zenon
<1> QED
  BY <1>1, <1>2

\* The halves of a double word.
LEMMA DoubleHalves ==
  ASSUME NEW y \in Nat, y < 2^(2 * Zeros!H)
  PROVE  /\ Zeros!High(y) \in Nat /\ Zeros!High(y) < 2^Zeros!H
         /\ Zeros!Low(y) \in Nat /\ Zeros!Low(y) < 2^Zeros!H
         /\ y = Zeros!High(y) * 2^Zeros!H + Zeros!Low(y)
<1>1. PICK p \in Nat : p = 2^Zeros!H /\ p > 0
  BY Exponentials
<1>2. p \in Nat /\ p > 0
  BY <1>1
<1>3. y < p * p
  <2>1. 2^(Zeros!H + Zeros!H) = 2^Zeros!H * 2^Zeros!H /\ 2 * Zeros!H = Zeros!H + Zeros!H
    BY Exponentials, ExponentialSum
  <2> QED
    BY <1>1, <2>1, Zenon
<1>4. PICK m \in Nat, l \in Nat : m = y \div p /\ l = y % p /\ l < p /\ y = p * m + l
  BY <1>2, Quotient
<1>5. m < p
  BY <1>2, <1>3, <1>4, Narrowed
<1>6. y = m * p + l
  <2>1. p * m = m * p
    BY Z3
  <2> QED
    BY <1>4, <2>1
<1> QED
  BY <1>1, <1>4, <1>5, <1>6 DEF Zeros!High, Zeros!Low

\* __clzdi2 counts the zeros of the high word, and goes on with the low one if there is nothing else.
LEMMA DoubleClz ==
  ASSUME NEW y \in Nat, y < 2^(2 * Zeros!H)
  PROVE  IsClz(Zeros!Clzdi2(y), 2 * Zeros!H, y)
<1> DEFINE w == Zeros!H
<1>1. w \in Nat /\ w + w <= Top /\ 2 * w = w + w /\ Top \in Nat
  BY Exponentials
<1>2. PICK m \in Nat, l \in Nat, p \in Nat :
        /\ m = Zeros!High(y) /\ l = Zeros!Low(y) /\ p = 2^w
        /\ m < p /\ l < p /\ y = m * p + l
  <2>1. 2^w \in Nat
    BY Exponentials
  <2> QED
    BY <2>1, DoubleHalves, Zenon
<1> HIDE DEF w
<1>3. CASE m = 0
  <2>1. y = l
    BY <1>2, <1>3
  <2>2. IsClz(Zeros!Clzsi2(l), w, l)
    BY <1>2, ZerosZeros, Zenon DEF w
  <2>3. PICK c : c = Zeros!Clzsi2(l)
    OBVIOUS
  <2>4. Zeros!Clzdi2(y) = c + w
    BY <1>2, <1>3, <2>3, Zenon DEF Zeros!Clzdi2, w
  <2>5. CASE y = 0
    <3>1. c + w = 2 * w
      <4>1. c = w
        BY <2>1, <2>2, <2>3, <2>5, Zenon DEF IsClz
      <4> QED
        BY <1>1, <4>1
    <3> QED
      BY <2>4, <2>5, <3>1, Zenon DEF IsClz, w
  <2>6. CASE y # 0
    <3>1. c \in 0..(w - 1) /\ 2^((w - 1) - c) <= y /\ y < 2^(w - c)
      BY <2>1, <2>2, <2>3, <2>6, Zenon DEF IsClz
    <3>2. c + w \in 0..(2 * w - 1) /\ (2 * w - 1) - (c + w) = (w - 1) - c /\ 2 * w - (c + w) = w - c
      <4>1. c \in 0..(w - 1)
        BY <3>1
      <4> QED
        BY <1>1, <4>1
    <3>3. IsClz(c + w, 2 * w, y)
      BY <2>6, <3>1, <3>2, Zenon DEF IsClz
    <3> QED
      BY <2>4, <3>3, Zenon DEF w
  <2> QED
    BY <2>5, <2>6
<1>4. CASE m # 0
  <2>1. IsClz(Zeros!Clzsi2(m), w, m)
    BY <1>2, ZerosZeros, Zenon DEF w
  <2>2. PICK c \in 0..(w - 1) : c = Zeros!Clzsi2(m) /\ 2^((w - 1) - c) <= m /\ m < 2^(w - c)
    BY <1>4, <2>1, Zenon DEF IsClz
  <2>3. Zeros!Clzdi2(y) = c
    BY <1>2, <1>4, <2>2, Zenon DEF Zeros!Clzdi2
  <2>4. /\ c \in 0..(2 * w - 1) /\ (2 * w - 1) - c = ((w - 1) - c) + w /\ 2 * w - c = (w - c) + w
        /\ (w - 1) - c \in Nat /\ w - c \in Nat /\ ((w - 1) - c) + w <= Top /\ (w - c) + w <= Top
        /\ w - c \in 0..Top /\ (w - 1) - c \in 0..Top
    BY <1>1
  <2>5. PICK i \in Nat, j \in Nat : i = 2^((w - 1) - c) /\ j = 2^(w - c) /\ i <= m /\ m < j
    BY <2>2, <2>4, Exponentials
  <2>6. 2^((2 * w - 1) - c) = i * p /\ 2^(2 * w - c) = j * p
    BY <1>1, <1>2, <2>4, <2>5, ExponentialSum
  <2>7. i * p <= y /\ y < j * p
    <3>1. i \in Int /\ m \in Int /\ m + 1 \in Int /\ j \in Int /\ i <= m /\ m + 1 <= j /\ p \in Nat
          /\ l \in Nat /\ l < p /\ y = m * p + l
      BY <1>2, <2>5
    <3>2. i * p <= m * p /\ (m + 1) * p <= j * p /\ i * p \in Int /\ m * p \in Int /\ (m + 1) * p \in Int /\ j * p \in Int
      <4>1. \A u \in Int, v \in Int, z \in Nat : u <= v => u * z <= v * z /\ u * z \in Int /\ v * z \in Int
        BY Z3
      <4> QED
        BY <3>1, <4>1
    <3>3. (m + 1) * p = m * p + p
      BY <3>1, Z3
    <3> QED
      BY <3>1, <3>2, <3>3
  <2>8. y # 0
    <3>1. m * p > 0
      <4>1. p \in Nat /\ p > 0
        BY <1>2
      <4> QED
        BY <1>4, <4>1, Product
    <3> QED
      BY <1>2, <3>1
  <2>9. IsClz(c, 2 * w, y)
    BY <2>4, <2>6, <2>7, <2>8, Zenon DEF IsClz
  <2> QED
    BY <2>3, <2>9, Zenon DEF w
<1> QED
  BY <1>3, <1>4

\* __ctzdi2 counts the zeros of the low word, and goes on with the high one if there is nothing else.
LEMMA DoubleCtz ==
  ASSUME NEW y \in Nat, y < 2^(2 * Zeros!H)
  PROVE  IsCtz(Zeros!Ctzdi2(y), 2 * Zeros!H, y)
<1> DEFINE w == Zeros!H
<1>1. w \in Nat /\ w + w <= Top /\ 2 * w = w + w /\ Top \in Nat
  BY Exponentials
<1>2. PICK m \in Nat, l \in Nat, p \in Nat :
        /\ m = Zeros!High(y) /\ l = Zeros!Low(y) /\ p = 2^w
        /\ m < p /\ l < p /\ y = m * p + l
  <2>1. 2^w \in Nat
    BY Exponentials
  <2> QED
    BY <2>1, DoubleHalves, Zenon
<1> HIDE DEF w
<1>3. CASE l = 0
  <2>1. y = m * p
    <3>1. m * p \in Int
      BY Product
    <3> QED
      BY <1>2, <1>3, <3>1
  <2>2. IsCtz(Zeros!Ctzsi2(m), w, m)
    BY <1>2, ZerosZeros, Zenon DEF w
  <2>3. PICK c : c = Zeros!Ctzsi2(m)
    OBVIOUS
  <2>4. Zeros!Ctzdi2(y) = c + w
    BY <1>2, <1>3, <2>3, Zenon DEF Zeros!Ctzdi2, w
  <2>5. CASE m = 0
    <3>1. c + w = 2 * w
      <4>1. c = w
        BY <2>2, <2>3, <2>5, Zenon DEF IsCtz
      <4> QED
        BY <1>1, <4>1
    <3>2. y = 0
      BY <1>2, <2>1, <2>5
    <3> QED
      BY <2>4, <3>1, <3>2, Zenon DEF IsCtz, w
  <2>6. CASE m # 0
    <3>1. c \in 0..(w - 1) /\ OddTimes(m, c)
      BY <2>2, <2>3, <2>6, Zenon DEF IsCtz
    <3>2. c \in Nat /\ c + w \in 0..(2 * w - 1) /\ c + w <= Top
      <4>1. c \in 0..(w - 1)
        BY <3>1
      <4> QED
        BY <1>1, <4>1
    <3>3. PICK u \in Nat : m = (2 * u + 1) * 2^c
      BY <3>1 DEF OddTimes
    <3>4. PICK q \in Nat : q = 2^c
      <4>1. c \in 0..Top
        BY <1>1, <3>2
      <4> QED
        BY <4>1, Exponentials
    <3>5. 2^(c + w) = q * p
      BY <1>1, <1>2, <3>2, <3>4, ExponentialSum
    <3>6. y = (2 * u + 1) * (q * p)
      <4>1. \A x \in Int, z \in Int, v \in Int : (x * z) * v = x * (z * v)
        BY Z3
      <4>2. 2 * u + 1 \in Int /\ q \in Int /\ p \in Int
        BY <1>2, <3>3, <3>4
      <4>3. m = (2 * u + 1) * q
        BY <3>3, <3>4, Zenon
      <4> QED
        BY <2>1, <4>1, <4>2, <4>3, Zenon
    <3>7. OddTimes(y, c + w)
      BY <3>3, <3>5, <3>6, Zenon DEF OddTimes
    <3>8. y # 0
      <4>1. p \in Nat /\ p > 0 /\ m > 0
        BY <1>2, <2>6
      <4> QED
        BY <2>1, <4>1, Product
    <3>9. IsCtz(c + w, 2 * w, y)
      BY <3>2, <3>7, <3>8, Zenon DEF IsCtz
    <3> QED
      BY <2>4, <3>9, Zenon DEF w
  <2> QED
    BY <2>5, <2>6
<1>4. CASE l # 0
  <2>1. IsCtz(Zeros!Ctzsi2(l), w, l)
    BY <1>2, ZerosZeros, Zenon DEF w
  <2>2. PICK c \in 0..(w - 1) : c = Zeros!Ctzsi2(l) /\ OddTimes(l, c)
    BY <1>4, <2>1, Zenon DEF IsCtz
  <2>3. Zeros!Ctzdi2(y) = c
    BY <1>2, <1>4, <2>2, Zenon DEF Zeros!Ctzdi2
  <2>4. /\ c \in Nat /\ c \in 0..(2 * w - 1) /\ (w - 1) - c \in Nat /\ (w - 1) - c \in 0..Top
        /\ (((w - 1) - c) + 1) + c = w /\ ((w - 1) - c) + 1 \in Nat /\ w <= Top /\ c \in 0..Top
    BY <1>1
  <2>5. PICK u \in Nat : l = (2 * u + 1) * 2^c
    BY <2>2 DEF OddTimes
  <2>6. PICK q \in Nat, v \in Nat : q = 2^c /\ v = 2^((w - 1) - c)
    BY <2>4, Exponentials
  <2>7. 2^(((w - 1) - c) + 1) = 2 * v
    BY <2>4, <2>6, Exponentials
  <2>8. p = (2 * v) * q
    <3>1. 2^((((w - 1) - c) + 1) + c) = 2^(((w - 1) - c) + 1) * 2^c
      BY <1>1, <2>4, ExponentialSum
    <3> QED
      BY <1>2, <2>4, <2>6, <2>7, <3>1, Zenon
  <2>9. y = (2 * (m * v + u) + 1) * q /\ m * v + u \in Nat
    <3>1. \A i \in Nat, j \in Nat, k \in Nat, z \in Nat :
            i * ((2 * j) * k) + (2 * z + 1) * k = (2 * (i * j + z) + 1) * k /\ i * j + z \in Nat
      BY Z3
    <3>2. u \in Nat /\ m \in Nat /\ v \in Nat /\ q \in Nat
      BY <1>2, <2>5, <2>6
    <3>3. y = m * p + l
      BY <1>2
    <3>4. l = (2 * u + 1) * q
      BY <2>5, <2>6, Zenon
    <3>5. y = m * ((2 * v) * q) + (2 * u + 1) * q
      BY <2>8, <3>3, <3>4, Zenon
    <3>6. /\ m * ((2 * v) * q) + (2 * u + 1) * q = (2 * (m * v + u) + 1) * q
          /\ m * v + u \in Nat
      BY <3>1, <3>2
    <3> QED
      BY <3>5, <3>6, Zenon
  <2>10. OddTimes(y, c)
    BY <2>6, <2>9, Zenon DEF OddTimes
  <2>11. y # 0
    <3>1. m * p \in Nat
      BY Z3
    <3> QED
      BY <1>2, <1>4, <3>1
  <2>12. IsCtz(c, 2 * w, y)
    BY <2>4, <2>10, <2>11, Zenon DEF IsCtz
  <2> QED
    BY <2>3, <2>12, Zenon DEF w
<1> QED
  BY <1>3, <1>4

\* What ZerosRight says of the counts.
ClzSays(c, h, y) == IF y = 0 THEN c = h ELSE c \in 0..(h - 1) /\ 2^(h - 1 - c) <= y /\ y < 2^(h - c)
CtzSays(c, h, y) == IF y = 0 THEN c = h ELSE y % 2^c = 0 /\ y % 2^(c + 1) # 0

LEMMA CountsRight ==
  ASSUME NEW h \in 0..Top, NEW y \in Nat, NEW c
  PROVE  (IsClz(c, h, y) => ClzSays(c, h, y)) /\ (IsCtz(c, h, y) => CtzSays(c, h, y))
<1>1. ASSUME IsCtz(c, h, y), y # 0 PROVE y % 2^c = 0 /\ y % 2^(c + 1) # 0
  <2>1. c \in 0..(h - 1) /\ OddTimes(y, c)
    BY <1>1, Zenon DEF IsCtz
  <2>2. c \in Nat /\ c < Top
    BY <2>1, Exponentials
  <2> QED
    BY <2>1, <2>2, OddTimesIs, Zenon
<1>2. ASSUME IsClz(c, h, y), y # 0 PROVE c \in 0..(h - 1) /\ 2^(h - 1 - c) <= y /\ y < 2^(h - c)
  BY <1>2, Zenon DEF IsClz
<1>3. y = 0 => (IsClz(c, h, y) => c = h) /\ (IsCtz(c, h, y) => c = h)
  BY Zenon DEF IsClz, IsCtz
<1> QED
  BY <1>1, <1>2, <1>3, Zenon DEF ClzSays, CtzSays

\* What is counted is a double word.
CountedInv == use = "zeros" => counted \in Zeros!Dwords

\* Every count of zeros is right, for words of any width that is a power of two.
LEMMA CountedRight == CountedInv => ZerosRight
<1> SUFFICES ASSUME CountedInv, use = "zeros" PROVE ZerosRight
  BY DEF ZerosRight
<1> DEFINE w == Zeros!H
           y == counted
<1>1. w \in 0..Top /\ 2 * w \in 0..Top
  BY Exponentials
<1>2. y \in Nat /\ y < 2^(2 * w)
  <2>1. PICK p \in Nat : p = 2^(2 * w)
    BY <1>1, Exponentials
  <2>2. y \in 0..(p - 1)
    BY <2>1 DEF CountedInv, Zeros!Dwords
  <2>3. y \in Nat /\ y < p
    BY <2>1, <2>2
  <2> QED
    BY <2>1, <2>3
<1> HIDE DEF y
<1>3. y < 2^w => IsClz(Zeros!Clzsi2(y), w, y) /\ IsCtz(Zeros!Ctzsi2(y), w, y)
  BY <1>2, ZerosZeros
<1>4. IsClz(Zeros!Clzdi2(y), 2 * w, y) /\ IsCtz(Zeros!Ctzdi2(y), 2 * w, y)
  BY <1>2, DoubleClz, DoubleCtz
<1>5. y < 2^w => ClzSays(Zeros!Clzsi2(y), w, y) /\ CtzSays(Zeros!Ctzsi2(y), w, y)
  BY <1>1, <1>2, <1>3, CountsRight, Zenon
<1>6. ClzSays(Zeros!Clzdi2(y), 2 * w, y) /\ CtzSays(Zeros!Ctzdi2(y), 2 * w, y)
  BY <1>1, <1>2, <1>4, CountsRight, Zenon
<1> QED
  BY <1>5, <1>6, Zenon DEF ZerosRight, ClzSays, CtzSays, y

\* Each count of zeros is right: __clzsi2 and __ctzsi2 of a word, __clzdi2 and __ctzdi2 of a
\* double word (int64.c:634-731).
THEOREM CountsZeros == MCSpec => []ZerosRight
<1>1. MCInit => CountedInv
  BY DEF MCInit, CountedInv
<1>2. CountedInv /\ [MCNext]_mcVars => CountedInv'
  BY DEF CountedInv, MCNext, DivStep, WideStep, MulStep, mcVars, Zeros!Dwords, Zeros!H
<1> QED
  BY <1>1, <1>2, CountedRight, PTL DEF MCSpec

-----------------------------------------------------------------------------
(* Double words.                                                             *)

\* The powers of two up to the double word.
LEMMA Exponents ==
  /\ Wide!H \in Nat /\ Wide!H >= 2 /\ Wide!D \in Nat /\ Wide!D = Wide!H + Wide!H
  /\ 2^0 = 1 /\ 2^1 = 2
  /\ \A k \in 0..Wide!D : 2^k \in Nat /\ 2^k > 0
  /\ \A k \in 0..Wide!D : 2^(k + 1) = 2 * 2^k
<1>1. Wide!D = 2 * Wide!H /\ Wide!H \in Nat /\ Wide!H >= 2 /\ Wide!D <= Top /\ Top \in Nat
  BY Exponentials, Widths DEF Wide!D
<1>2. \A k \in 0..Wide!D : k \in 0..Top
  BY <1>1
<1>3. Wide!D \in Nat /\ Wide!D = Wide!H + Wide!H
  BY <1>1
<1> QED
  BY <1>1, <1>2, <1>3, Exponentials

\* 2^(i+j) is 2^i times 2^j.
LEMMA ExponentSum ==
  ASSUME NEW i \in Nat, NEW j \in Nat, i + j <= Wide!D
  PROVE  2^(i + j) = 2^i * 2^j
<1>1. i + j <= Top
  <2>1. Wide!D = 2 * Wide!H /\ 2 * Wide!H <= Top /\ Wide!D \in Nat /\ Top \in Nat
    BY Exponents, Exponentials DEF Wide!D
  <2> QED
    BY <2>1
<1> QED
  BY <1>1, ExponentialSum

\* Powers of two grow, and faster than their exponents.
LEMMA ExponentGrows ==
  ASSUME NEW j \in 0..Wide!D
  PROVE  /\ \A i \in 0..j : 2^i <= 2^j /\ (i < j => 2 * 2^i <= 2^j)
         /\ j < 2^j
<1>1. j \in 0..Top
  <2>1. Wide!D = 2 * Wide!H /\ 2 * Wide!H <= Top /\ Wide!D \in Nat /\ Top \in Nat
    BY Exponents, Exponentials DEF Wide!D
  <2> QED
    BY <2>1
<1> QED
  BY <1>1, ExponentialGrows, Exponentials

\* Products grow with their factors.
LEMMA Grows ==
  ASSUME NEW x \in Int, NEW y \in Int, NEW z \in Nat, x <= y
  PROVE  x * z <= y * z /\ z * x <= z * y /\ x * z \in Int /\ y * z \in Int
<1>1. y * z = x * z + (y - x) * z /\ z * x = x * z /\ z * y = y * z
  BY Z3
<1>2. (y - x) * z >= 0
  BY Z3
<1>3. x * z \in Int /\ y * z \in Int /\ (y - x) * z \in Int
  BY Z3
<1> QED
  BY <1>1, <1>2, <1>3

\* A number below the square of m has two digits.
LEMMA TwoDigits ==
  ASSUME NEW x \in Nat, NEW m \in Nat, m > 0, x < m * m
  PROVE  x \div m \in 0..(m - 1) /\ x % m \in 0..(m - 1) /\ x = (x \div m) * m + (x % m)
<1>1. PICK h \in Nat : h = x \div m
  BY Quotient
<1>2. PICK k \in Nat : k = x % m
  BY Quotient
<1>3. k < m /\ x = m * h + k
  BY <1>1, <1>2, Quotient
<1>4. ~(m <= h)
  <2> SUFFICES ASSUME m <= h PROVE FALSE
    OBVIOUS
  <2>1. m * m <= m * h /\ m * m \in Int
    BY Grows
  <2> QED
    BY <1>3, <2>1
<1>5. m * h = h * m
  BY Z3
<1>6. h \in 0..(m - 1) /\ k \in 0..(m - 1) /\ x = h * m + k
  BY <1>3, <1>4, <1>5
<1> QED
  BY <1>1, <1>2, <1>6

\* A double word and its halves.
LEMMA Halves ==
  /\ 2^Wide!H \in Nat /\ 2^Wide!H > 0 /\ 2^Wide!D = 2^Wide!H * 2^Wide!H
  /\ Wide!Dwords = 0..(2^Wide!D - 1) /\ Wide!Words = 0..(2^Wide!H - 1)
  /\ \A x \in Wide!Dwords :
       /\ x \in Nat /\ x < 2^Wide!D /\ x = Wide!High(x) * 2^Wide!H + Wide!Low(x)
       /\ Wide!High(x) \in Wide!Words /\ Wide!Low(x) \in Wide!Words
<1>1. PICK m \in Nat : m = 2^Wide!H /\ m > 0
  BY Exponents
<1>2. 2^Wide!D = m * m
  BY <1>1, Exponents, ExponentSum
<1>3. Wide!Dwords = 0..(2^Wide!D - 1) /\ Wide!Words = 0..(m - 1)
  BY <1>1 DEF Wide!Dwords, Wide!Words, Wide!D
<1>4. ASSUME NEW x \in Wide!Dwords
      PROVE  /\ x \in Nat /\ x < 2^Wide!D /\ x = Wide!High(x) * m + Wide!Low(x)
             /\ Wide!High(x) \in 0..(m - 1) /\ Wide!Low(x) \in 0..(m - 1)
  <2>1. x \in Nat /\ x < m * m /\ m * m \in Nat
    BY <1>1, <1>2, <1>3, Product
  <2> QED
    BY <1>1, <1>2, <2>1, TwoDigits DEF Wide!High, Wide!Low
<1> QED
  BY <1>1, <1>2, <1>3, <1>4

\* Shifts of a word, and of a double word made of two, by p; what falls out of a word is
\* moved to the top of the next, m = p * k being the word.
ShortShift(p, k, m, u, v) ==
  /\ (u * k) % m = (u % p) * k
  /\ u * m + v = ((u \div p) * m + ((u % p) * k + (v \div p))) * p + (v % p)
  /\ ((v % p) * k) * m + 0 = (v % p) * (k * m) /\ v % p \in Nat /\ v % p < p
  /\ (u \div p) * m + ((u % p) * k + (v \div p)) \in Nat
LongShift(p, k, m, u, v) ==
  LET w == (u % p) * m + v
  IN /\ ((u % p) * k + (v \div p)) * m + (v % p) * k = w * k
     /\ u * m + v = (u \div p) * (p * m) + w
     /\ w \in Nat /\ w < p * m
     /\ 0 * m + (u \div p) = u \div p /\ u \div p \in Nat

\* They hold whenever m = p * k.
LEMMA ShiftedWords ==
  ASSUME NEW p \in Nat, NEW k \in Nat, NEW m \in Nat, p > 0, k > 0, m = p * k,
         NEW u \in Nat, NEW v \in Nat
  PROVE  ShortShift(p, k, m, u, v) /\ (v < m => LongShift(p, k, m, u, v))
<1>1. m > 0
  BY Product
<1>2. PICK u1 \in Nat, u0 \in Nat : u1 = u \div p /\ u0 = u % p /\ u0 < p /\ u = p * u1 + u0
  BY Quotient
<1>3. PICK v1 \in Nat, v0 \in Nat : v1 = v \div p /\ v0 = v % p /\ v0 < p /\ v = p * v1 + v0
  BY Quotient
<1>4. u * k = m * u1 + u0 * k
  BY <1>2, Z3
<1>5. u0 * k \in 0..(m - 1)
  <2>1. u0 * k \in Nat
    BY <1>2, Z3
  <2>2. p * k = u0 * k + (p - u0) * k /\ p - u0 \in Int /\ p - u0 > 0
    BY <1>2, Z3
  <2>3. (p - u0) * k >= k
    BY <2>2, Product
  <2> QED
    BY <2>1, <2>2, <2>3
<1>6. (u * k) % m = u0 * k
  <2> DEFINE x == u * k
             y == u0 * k
  <2> HIDE DEF x, y
  <2>1. x \in Int
    BY Z3 DEF x
  <2>2. x = m * u1 + y /\ y \in 0..(m - 1) /\ u1 \in Int /\ m > 0
    BY <1>1, <1>2, <1>4, <1>5 DEF x, y
  <2>3. x % m = y
    BY <2>1, <2>2, OneRemainder, Zenon
  <2> QED
    BY <2>3 DEF x, y
<1>7. /\ u1 * m \in Nat /\ u0 * m \in Nat /\ u0 * k \in Nat /\ v0 * k \in Int /\ m * v1 \in Int
      /\ u1 * (p * m) \in Int /\ p * m \in Int /\ (u0 * m) * k \in Int
  BY Z3
<1>8. u * m + v = (u1 * m + (u0 * k + v1)) * p + v0
  <2>1. (p * u1 + u0) * m = (u1 * m) * p + u0 * m /\ (u1 * m) * p \in Int
    BY <1>2, Z3
  <2>2. (u1 * m + (u0 * k + v1)) * p = (u1 * m) * p + ((u0 * k) * p + v1 * p)
    BY <1>2, <1>3, Z3
  <2>3. (u0 * k) * p = u0 * (p * k) /\ v1 * p = p * v1 /\ p * v1 \in Int
    BY <1>2, <1>3, Z3
  <2>4. u * m = (u1 * m) * p + u0 * m
    BY <1>2, <2>1
  <2>5. (u0 * k) * p = u0 * m
    BY <2>3
  <2> QED
    BY <1>3, <1>7, <2>1, <2>2, <2>3, <2>4, <2>5
<1>9. (v0 * k) * m = v0 * (k * m) /\ v0 * (k * m) \in Int
  BY <1>3, Z3
<1>10. ShortShift(p, k, m, u, v)
  <2>1. u1 * m + (u0 * k + v1) \in Nat
    BY <1>3, <1>7
  <2>2. (v0 * k) * m + 0 = v0 * (k * m)
    BY <1>9
  <2> QED
    BY <1>2, <1>3, <1>6, <1>8, <2>1, <2>2, Zenon DEF ShortShift
<1>11. ASSUME v < m PROVE LongShift(p, k, m, u, v)
  <2>1. (u0 * k + v1) * m = (u0 * m) * k + m * v1
    BY <1>2, <1>3, Z3
  <2>2. (u0 * m + v) * k = (u0 * m) * k + v * k
    BY <1>2, Z3
  <2>3. (p * v1 + v0) * k = (p * k) * v1 + v0 * k
    BY <1>3, Z3
  <2>4. (p * u1 + u0) * m = u1 * (p * m) + u0 * m
    BY <1>2, Z3
  <2>5. v * k = m * v1 + v0 * k /\ u * m = u1 * (p * m) + u0 * m
    BY <1>2, <1>3, <2>3, <2>4
  <2>6. (u0 + 1) * m <= p * m
    BY <1>2, Grows
  <2>7. (u0 + 1) * m = u0 * m + m
    BY <1>2, Z3
  <2>8. /\ (u0 * k + v1) * m + v0 * k = (u0 * m + v) * k
        /\ u * m + v = u1 * (p * m) + (u0 * m + v)
        /\ u0 * m + v \in Nat /\ u0 * m + v < p * m
    BY <1>7, <1>11, <2>1, <2>2, <2>5, <2>6, <2>7
  <2>9. 0 * m + u1 = u1
    BY <1>2, Z3
  <2> QED
    BY <1>2, <1>3, <2>8, <2>9, Zenon DEF LongShift
<1> QED
  BY <1>10, <1>11

\* Prepared shifts a double word to the right into r, and what falls out to the top of q.
LEMMA PreparedShifts ==
  ASSUME wide_n \in Wide!Dwords, NEW s \in 1..(Wide!D - 1), Wide!Prepared(s)
  PROVE  \E w \in Nat : /\ w < 2^s /\ wide_n = wide_r' * 2^s + w
                        /\ wide_q' = w * 2^(Wide!D - s) /\ wide_r' \in Nat
<1>1. PICK m \in Nat : m = 2^Wide!H /\ m > 0
  BY Exponents
<1>2. PICK u \in Nat : u = Wide!High(wide_n) /\ u < m
  BY <1>1, Halves
<1>3. PICK v \in Nat : v = Wide!Low(wide_n) /\ v < m
  BY <1>1, Halves
<1>4. wide_n = u * m + v
  BY <1>1, <1>2, <1>3, Halves
<1>5. CASE s < Wide!H
  <2>1. PICK p \in Nat : p = 2^s /\ p > 0
    BY <1>5, Exponents
  <2>2. PICK k \in Nat : k = 2^(Wide!H - s) /\ k > 0
    BY <1>5, Exponents
  <2>3. m = p * k /\ 2^(Wide!D - s) = k * m
    <3>1. s + (Wide!H - s) = Wide!H /\ (Wide!H - s) + Wide!H = Wide!D - s
      BY Exponents
    <3> QED
      BY <1>1, <1>5, <2>1, <2>2, <3>1, Exponents, ExponentSum
  <2>4. ShortShift(p, k, m, u, v) /\ (v * k) % m = (v % p) * k
    <3>1. ShortShift(p, k, m, u, v) /\ ShortShift(p, k, m, v, v)
      BY <1>1, <1>2, <1>3, <2>1, <2>2, <2>3, ShiftedWords
    <3> QED
      BY <3>1, Zenon DEF ShortShift
  <2>5. /\ wide_q' = Wide!Join((v * k) % m, 0)
        /\ wide_r' = Wide!Join(u \div p, ((u * k) % m) + (v \div p))
    BY <1>1, <1>2, <1>3, <1>5, <2>1, <2>2, Exponents DEF Wide!Prepared
  <2>6. /\ wide_q' = ((v % p) * k) * m + 0
        /\ wide_r' = (u \div p) * m + ((u % p) * k + (v \div p))
    BY <1>1, <2>4, <2>5, Zenon DEF Wide!Join, ShortShift
  <2> QED
    BY <1>4, <2>1, <2>3, <2>4, <2>6, Zenon DEF ShortShift
<1>6. CASE s = Wide!H
  <2>1. wide_q' = v * m + 0 /\ wide_r' = 0 * m + u
    BY <1>1, <1>2, <1>3, <1>6, Exponents DEF Wide!Prepared, Wide!Join
  <2>2. 2^(Wide!D - s) = m /\ 2^s = m
    BY <1>1, <1>6, Exponents
  <2>3. v * m + 0 = v * m /\ 0 * m + u = u
    BY <1>1, <1>2, <1>3, Z3
  <2> QED
    BY <1>2, <1>3, <1>4, <2>1, <2>2, <2>3, Zenon
<1>7. CASE s > Wide!H
  <2>1. PICK p \in Nat : p = 2^(s - Wide!H) /\ p > 0
    BY <1>7, Exponents
  <2>2. PICK k \in Nat : k = 2^(Wide!D - s) /\ k > 0
    BY <1>7, Exponents
  <2>3. m = p * k /\ 2^s = p * m
    <3>1. (s - Wide!H) + (Wide!D - s) = Wide!H /\ (s - Wide!H) + Wide!H = s
      BY Exponents
    <3> QED
      BY <1>1, <1>7, <2>1, <2>2, <3>1, Exponents, ExponentSum
  <2>4. LongShift(p, k, m, u, v) /\ (u * k) % m = (u % p) * k /\ (v * k) % m = (v % p) * k
    <3>1. /\ ShortShift(p, k, m, u, v) /\ ShortShift(p, k, m, v, v)
          /\ LongShift(p, k, m, u, v)
      BY <1>1, <1>2, <1>3, <2>1, <2>2, <2>3, ShiftedWords
    <3> QED
      BY <3>1, Zenon DEF ShortShift
  <2>5. /\ wide_q' = Wide!Join(((u * k) % m) + (v \div p), (v * k) % m)
        /\ wide_r' = Wide!Join(0, u \div p)
    BY <1>1, <1>2, <1>3, <1>7, <2>1, <2>2, Exponents DEF Wide!Prepared
  <2>6. /\ wide_q' = ((u % p) * k + (v \div p)) * m + (v % p) * k
        /\ wide_r' = 0 * m + (u \div p)
    BY <1>1, <2>4, <2>5, Zenon DEF Wide!Join
  <2> QED
    BY <1>4, <2>2, <2>3, <2>4, <2>6, Zenon DEF LongShift
<1> QED
  BY <1>5, <1>6, <1>7, Exponents

\* How large a double word is by the zeros in front of its high word.
LEMMA HighZeros ==
  ASSUME NEW x \in Wide!Dwords, Wide!High(x) # 0
  PROVE  \E c \in 0..(Wide!H - 1) :
           /\ Wide!Clzsi2(Wide!High(x)) = c
           /\ 2^(Wide!H - 1 - c) <= Wide!High(x) /\ Wide!High(x) < 2^(Wide!H - c)
           /\ 2^(Wide!D - 1 - c) <= x /\ x < 2^(Wide!D - c)
<1>1. PICK m \in Nat : m = 2^Wide!H /\ m > 0
  BY Exponents
<1>2. PICK h \in Nat : h = Wide!High(x) /\ h \in Wide!Words \ {0}
  BY Halves
<1>3. PICK v \in Nat : v = Wide!Low(x) /\ v < m
  BY <1>1, Halves
<1>4. x = h * m + v
  BY <1>1, <1>2, <1>3, Halves
<1>5. PICK c \in 0..(Wide!H - 1) :
        Wide!Clzsi2(h) = c /\ 2^(Wide!H - 1 - c) <= h /\ h < 2^(Wide!H - c)
  BY <1>2, ZeroCounts
<1>6. PICK p \in Nat : p = 2^(Wide!H - 1 - c)
  BY <1>5, Exponents
<1>7. PICK k \in Nat : k = 2^(Wide!H - c)
  BY <1>5, Exponents
<1>8. 2^(Wide!D - 1 - c) = p * m /\ 2^(Wide!D - c) = k * m
  <2>1. /\ (Wide!H - 1 - c) + Wide!H = Wide!D - 1 - c /\ (Wide!H - c) + Wide!H = Wide!D - c
        /\ Wide!H - 1 - c \in Nat /\ Wide!H - c \in Nat
    BY <1>5, Exponents
  <2> QED
    BY <1>1, <1>5, <1>6, <1>7, <2>1, Exponents, ExponentSum
<1>9. p * m <= h * m /\ (h + 1) * m <= k * m /\ p * m \in Int /\ h * m \in Int /\ k * m \in Int
  <2>1. p <= h /\ h + 1 <= k
    BY <1>2, <1>5, <1>6, <1>7
  <2> QED
    BY <1>1, <1>2, <1>6, <1>7, <2>1, Grows
<1>10. (h + 1) * m = h * m + m
  BY <1>1, <1>2, Z3
<1>11. p * m <= x /\ x < k * m
  BY <1>1, <1>3, <1>4, <1>9, <1>10
<1> QED
  BY <1>2, <1>5, <1>8, <1>11

\* The difference of two counts of zeros, in unsigned arithmetic.
LEMMA LongerIs ==
  ASSUME NEW cd \in 0..(Wide!H - 1), NEW cn \in 0..(Wide!H - 1),
         Wide!Clzsi2(Wide!High(wide_d)) = cd, Wide!Clzsi2(Wide!High(wide_n)) = cn
  PROVE  /\ cn <= cd => Wide!Longer = cd - cn
         /\ cd < cn => Wide!Longer >= Wide!H /\ Wide!Longer \in Nat
<1>1. PICK m \in Nat : m = 2^Wide!H /\ m >= 2 * Wide!H
  <2>1. Wide!H - 1 \in 0..Wide!D /\ (Wide!H - 1) + 1 = Wide!H
    BY Exponents
  <2>2. Wide!H - 1 < 2^(Wide!H - 1) /\ 2^Wide!H = 2 * 2^(Wide!H - 1) /\ 2^(Wide!H - 1) \in Nat
    BY <2>1, Exponents, ExponentGrows
  <2> QED
    BY <2>1, <2>2, Exponents
<1>2. Wide!Longer = (cd - cn) % m
  BY <1>1 DEF Wide!Longer
<1>3. CASE cn <= cd
  <2>1. cd - cn = m * 0 + (cd - cn) /\ cd - cn \in 0..(m - 1)
    BY <1>1, <1>3, Exponents
  <2>2. (cd - cn) % m = cd - cn
    BY <1>1, <2>1, Exponents, OneRemainder
  <2> QED
    BY <1>2, <1>3, <2>2
<1>4. CASE cd < cn
  <2>1. cd - cn = m * (-1) + (m + cd - cn) /\ m + cd - cn \in 0..(m - 1)
        /\ m + cd - cn >= Wide!H
    BY <1>1, <1>4, Exponents
  <2>2. (cd - cn) % m = m + cd - cn
    BY <1>1, <2>1, Exponents, OneRemainder
  <2> QED
    BY <1>2, <1>4, <2>1, <2>2
<1> QED
  BY <1>3, <1>4

\* One is a power of two.
LEMMA IsOne == Wide!IsPowerOf2(1)
<1>1. 0 \in 0..(Wide!H - 1) /\ 1 = 2^0
  BY Exponents
<1> QED
  BY <1>1, Zenon DEF Wide!IsPowerOf2

\* A numerator that is shorter than the divisor is smaller.
LEMMA ShorterSmaller ==
  ASSUME {wide_n, wide_d} \subseteq Wide!Dwords, Wide!General, Wide!High(wide_d) # 0,
         Wide!Longer > Wide!Most
  PROVE  wide_n < wide_d
<1>1. PICK cd \in 0..(Wide!H - 1) :
        /\ Wide!Clzsi2(Wide!High(wide_d)) = cd
        /\ 2^(Wide!H - 1 - cd) <= Wide!High(wide_d) /\ Wide!High(wide_d) < 2^(Wide!H - cd)
        /\ 2^(Wide!D - 1 - cd) <= wide_d /\ wide_d < 2^(Wide!D - cd)
  BY HighZeros
<1>2. PICK cn \in 0..(Wide!H - 1) :
        /\ Wide!Clzsi2(Wide!High(wide_n)) = cn
        /\ 2^(Wide!D - 1 - cn) <= wide_n /\ wide_n < 2^(Wide!D - cn)
  BY HighZeros DEF Wide!General
<1>3. CASE cd < cn
  <2>1. Wide!D - 1 - cd \in 0..Wide!D /\ Wide!D - cn \in 0..(Wide!D - 1 - cd)
    BY <1>1, <1>2, <1>3, Exponents
  <2>2. 2^(Wide!D - cn) <= 2^(Wide!D - 1 - cd)
    BY <2>1, ExponentGrows
  <2>3. 2^(Wide!D - cn) \in Nat /\ 2^(Wide!D - 1 - cd) \in Nat /\ wide_n \in Nat /\ wide_d \in Nat
    <3>1. Wide!D - cn \in 0..Wide!D /\ wide_n \in Wide!Dwords /\ wide_d \in Wide!Dwords
      BY <1>1, <1>2, Exponents
    <3> QED
      BY <2>1, <3>1, Exponents, Halves
  <2> QED
    BY <1>1, <1>2, <2>2, <2>3
<1>4. CASE cn <= cd
  <2>1. Wide!Longer = cd - cn
    BY <1>1, <1>2, <1>4, LongerIs
  <2>2. Wide!Low(wide_d) = 0 /\ cd = Wide!H - 1
    BY <1>1, <1>2, <2>1, Exponents DEF Wide!Most
  <2>3. Wide!H - 1 - cd = 0 /\ Wide!H - cd = 1
    BY <2>2, Exponents
  <2>4. Wide!High(wide_d) = 1
    <3>1. Wide!High(wide_d) \in Wide!Words /\ Wide!Words = 0..(2^Wide!H - 1) /\ 2^Wide!H \in Nat
      BY Halves
    <3>2. 1 <= Wide!High(wide_d) /\ Wide!High(wide_d) < 2
      BY <1>1, <2>3, Exponents
    <3> QED
      BY <3>1, <3>2
  <2>5. Wide!IsPowerOf2(Wide!High(wide_d))
    BY <2>4, IsOne
  <2> QED
    BY <2>2, <2>5 DEF Wide!General
<1> QED
  BY <1>1, <1>2, <1>3, <1>4

\* The loop begins so far left that the divisor is not shorter than what is in r.
LEMMA StartFits ==
  ASSUME {wide_n, wide_d} \subseteq Wide!Dwords, Wide!General,
         Wide!High(wide_d) # 0 => Wide!Longer <= Wide!Most
  PROVE  /\ Wide!Start \in 1..(Wide!D - 1)
         /\ \E e \in Nat : /\ Wide!Start + e <= Wide!D /\ 2^e <= wide_d
                           /\ wide_n < 2^(Wide!Start + e)
         /\ wide_d >= 2^(Wide!D - 1) => Wide!Start = 1 /\ wide_n >= 2^(Wide!D - 1)
<1>1. PICK cn \in 0..(Wide!H - 1) :
        /\ Wide!Clzsi2(Wide!High(wide_n)) = cn
        /\ 2^(Wide!D - 1 - cn) <= wide_n /\ wide_n < 2^(Wide!D - cn)
  BY HighZeros DEF Wide!General
<1>2. wide_n \in Nat /\ wide_d \in Nat
  BY Exponents, Halves
<1>3. CASE Wide!High(wide_d) = 0
  <2>1. wide_d = Wide!Low(wide_d) /\ wide_d \in Wide!Words \ {0}
    <3>1. wide_d = 0 * 2^Wide!H + Wide!Low(wide_d) /\ wide_d # 0
      BY <1>3, Halves DEF Wide!General
    <3> QED
      BY <3>1, Halves
  <2>2. PICK cd \in 0..(Wide!H - 1) :
          /\ Wide!Clzsi2(wide_d) = cd
          /\ 2^(Wide!H - 1 - cd) <= wide_d /\ wide_d < 2^(Wide!H - cd)
    BY <2>1, ZeroCounts
  <2>3. cd # Wide!H - 1
    <3> SUFFICES ASSUME cd = Wide!H - 1 PROVE FALSE
      OBVIOUS
    <3>1. Wide!H - 1 - cd = 0 /\ Wide!H - cd = 1
      BY Exponents
    <3>2. wide_d = 1
      BY <1>2, <2>2, <3>1, Exponents
    <3>3. Wide!IsPowerOf2(Wide!Low(wide_d))
      BY <2>1, <3>2, IsOne
    <3> QED
      BY <1>3, <3>3 DEF Wide!General
  <2>4. Wide!Start = 1 + Wide!H + cd - cn
    BY <1>1, <1>3, <2>1, <2>2 DEF Wide!Start
  <2>5. Wide!Start \in 1..(Wide!D - 1) /\ Wide!Start + (Wide!H - 1 - cd) = Wide!D - cn
        /\ Wide!H - 1 - cd \in Nat
    BY <1>1, <2>2, <2>3, <2>4, Exponents
  <2>6. wide_d < 2^(Wide!D - 1)
    <3>1. Wide!H - cd \in 0..(Wide!D - 1) /\ Wide!D - 1 \in 0..Wide!D
      BY <2>2, Exponents
    <3>2. 2^(Wide!H - cd) <= 2^(Wide!D - 1)
      BY <3>1, ExponentGrows
    <3>3. 2^(Wide!H - cd) \in Nat /\ 2^(Wide!D - 1) \in Nat
      BY <3>1, Exponents
    <3> QED
      BY <1>2, <2>2, <3>2, <3>3
  <2>7. 2^(Wide!D - 1) \in Nat
    BY Exponents
  <2>8. ~(wide_d >= 2^(Wide!D - 1))
    BY <1>2, <2>6, <2>7
  <2>9. 2^(Wide!H - 1 - cd) <= wide_d /\ wide_n < 2^(Wide!Start + (Wide!H - 1 - cd))
    BY <1>1, <2>2, <2>5, Zenon
  <2>10. Wide!Start + (Wide!H - 1 - cd) <= Wide!D
    BY <1>1, <2>5, Exponents
  <2> QED
    BY <2>5, <2>8, <2>9, <2>10, Zenon
<1>4. CASE Wide!High(wide_d) # 0
  <2>1. PICK cd \in 0..(Wide!H - 1) :
          /\ Wide!Clzsi2(Wide!High(wide_d)) = cd
          /\ 2^(Wide!D - 1 - cd) <= wide_d /\ wide_d < 2^(Wide!D - cd)
    BY <1>4, HighZeros
  <2>2. cn <= cd /\ Wide!Longer = cd - cn
    BY <1>1, <1>4, <2>1, Exponents, LongerIs DEF Wide!Most
  <2>3. Wide!Start = cd - cn + 1
    BY <1>4, <2>2 DEF Wide!Start
  <2>4. Wide!Start \in 1..(Wide!D - 1) /\ Wide!Start + (Wide!D - 1 - cd) = Wide!D - cn
        /\ Wide!D - 1 - cd \in Nat
    BY <1>1, <2>1, <2>2, <2>3, Exponents
  <2>5. wide_d >= 2^(Wide!D - 1) => cd = 0
    <3> SUFFICES ASSUME cd > 0 PROVE wide_d < 2^(Wide!D - 1)
      BY <1>2, Exponents
    <3>1. Wide!D - cd \in 0..(Wide!D - 1) /\ Wide!D - 1 \in 0..Wide!D
      BY Exponents
    <3>2. 2^(Wide!D - cd) <= 2^(Wide!D - 1) /\ 2^(Wide!D - cd) \in Nat /\ 2^(Wide!D - 1) \in Nat
      BY <3>1, Exponents, ExponentGrows
    <3> QED
      BY <1>2, <2>1, <3>2
  <2>6. cd = 0 => Wide!Start = 1 /\ Wide!D - 1 - cn = Wide!D - 1
    BY <1>1, <2>2, <2>3, Exponents
  <2>7. 2^(Wide!D - 1 - cd) <= wide_d /\ wide_n < 2^(Wide!Start + (Wide!D - 1 - cd))
    BY <1>1, <2>1, <2>4, Zenon
  <2>8. Wide!Start + (Wide!D - 1 - cd) <= Wide!D
    BY <1>1, <2>4, Exponents
  <2>9. 2^(Wide!D - 1 - cn) <= wide_n
    BY <1>1
  <2>10. ASSUME wide_d >= 2^(Wide!D - 1) PROVE wide_n >= 2^(Wide!D - 1) /\ Wide!Start = 1
    <3>1. 2^(Wide!D - 1) <= wide_n /\ Wide!Start = 1
      BY <2>5, <2>6, <2>9, <2>10, Zenon
    <3> QED
      BY <3>1
  <2> QED
    BY <2>4, <2>7, <2>8, <2>10, Zenon
<1> QED
  BY <1>3, <1>4

\* The halves of a double word are the digits of a number.
LEMMA Digits ==
  ASSUME NEW m \in Nat, m = 2^Wide!H, NEW x \in Wide!Dwords
  PROVE  \E h \in 0..(m - 1), l \in 0..(m - 1) :
           h = Wide!High(x) /\ l = Wide!Low(x) /\ x = h * m + l
<1>1. /\ x = Wide!High(x) * m + Wide!Low(x)
      /\ Wide!High(x) \in 0..(m - 1) /\ Wide!Low(x) \in 0..(m - 1)
  <2>1. Wide!Words = 0..(m - 1)
    BY Halves
  <2> QED
    BY <2>1, Halves, Zenon
<1> QED
  BY <1>1, Zenon

\* What is a double word.
LEMMA IsDword ==
  /\ 2^Wide!D \in Nat /\ 2^(Wide!D - 1) \in Nat /\ 2^Wide!D = 2 * 2^(Wide!D - 1)
  /\ 2^(Wide!D - 1) > 1
  /\ \A x \in Nat : x < 2^Wide!D => x \in Wide!Dwords /\ Wide!Wrap(x) = x
<1>1. Wide!D - 1 \in 0..Wide!D /\ (Wide!D - 1) + 1 = Wide!D /\ 1 \in 0..(Wide!D - 1)
  BY Exponents
<1>2. PICK M \in Nat : M = 2^(Wide!D - 1) /\ M > 1
  BY <1>1, Exponents, ExponentGrows
<1>3. 2^Wide!D = 2 * M
  BY <1>1, <1>2, Exponents
<1>4. ASSUME NEW x \in Nat, x < 2 * M PROVE x \in Wide!Dwords /\ Wide!Wrap(x) = x
  <2>1. x % (2 * M) = x
    BY <1>2, <1>4, Small
  <2> QED
    BY <1>2, <1>3, <1>4, <2>1, Halves DEF Wide!Wrap
<1> QED
  BY <1>2, <1>3, <1>4

\* The inductive invariant of the divisions: with it, a divisor whose highest bit is set
\* is met in the last turn only, with a numerator whose highest bit is set too, so that
\* neither r1 nor the sign of d - r1 - 1 is lost.
WideInv ==
  /\ Wide!TypeOK /\ Wide!LoopInv /\ Wide!DividesRight
  /\ wide_n = (IF signed THEN Wide!Abs(wide_a) ELSE wide_a)
  /\ wide_d = (IF signed THEN Wide!Abs(wide_b) ELSE wide_b)
  /\ wide_pc = "loop" /\ wide_d >= 2^(Wide!D - 1) => sr <= 1 /\ wide_n >= 2^(Wide!D - 1)

\* The numbers in it.
LEMMA WideTypes ==
  ASSUME WideInv
  PROVE  /\ {wide_a, wide_b, wide_n, wide_d, wide_q, wide_r} \subseteq Wide!Dwords
         /\ {wide_a, wide_b, wide_n, wide_d, wide_q, wide_r} \subseteq Nat
         /\ wide_n < 2^Wide!D /\ wide_d < 2^Wide!D /\ wide_q < 2^Wide!D /\ wide_r < 2^Wide!D
         /\ sr \in 0..(Wide!D - 1) /\ carry \in {0, 1}
<1>1. {wide_a, wide_b, wide_n, wide_d, wide_q, wide_r} \subseteq Wide!Dwords
      /\ sr \in 0..(Wide!D - 1) /\ carry \in {0, 1}
  BY DEF WideInv, Wide!TypeOK
<1>2. \A x \in Wide!Dwords : x \in Nat /\ x < 2^Wide!D
  BY Halves
<1> QED
  BY <1>1, <1>2

\* A negated double word is one.
LEMMA NegIsDword ==
  ASSUME NEW x \in Wide!Dwords
  PROVE  Wide!Neg(x) \in Wide!Dwords /\ Wide!Abs(x) \in Wide!Dwords
<1>1. PICK M \in Nat : M = 2^Wide!D /\ M > 0
  BY IsDword
<1>2. -x \in Int
  BY Halves
<1>3. (-x) % M \in 0..(M - 1)
  BY <1>1, <1>2, Remainder
<1> QED
  BY <1>1, <1>3, Halves DEF Wide!Neg, Wide!Wrap, Wide!Abs

\* A division begins in it.
LEMMA WideInitInv == Wide!Init => WideInv
<1> SUFFICES ASSUME Wide!Init PROVE WideInv
  OBVIOUS
<1>1. 0 \in Wide!Dwords
  BY IsDword
<1>2. wide_n \in Wide!Dwords /\ wide_d \in Wide!Dwords
  BY NegIsDword DEF Wide!Init
<1>3. Wide!TypeOK
  BY <1>1, <1>2, Exponents DEF Wide!Init, Wide!TypeOK
<1> QED
  BY <1>3 DEF WideInv, Wide!Init, Wide!LoopInv, Wide!DividesRight

\* A way that ends with quotient and remainder keeps the invariant.
LEMMA FinishInv ==
  ASSUME WideInv, NEW x \in Wide!Dwords, NEW y \in Wide!Dwords, Wide!Finish(x, y),
         wide_d # 0 => wide_n = x * wide_d + y /\ y < wide_d
  PROVE  WideInv'
<1>1. Wide!TypeOK'
  BY DEF WideInv, Wide!Finish, Wide!TypeOK
<1>2. Wide!DividesRight' /\ Wide!LoopInv'
  BY DEF Wide!Finish, Wide!DividesRight, Wide!LoopInv
<1> QED
  BY <1>1, <1>2 DEF WideInv, Wide!Finish, Wide!Abs, Wide!IsNeg, Wide!Neg, Wide!Wrap

\* What the division of single words returns.
LEMMA SingleWords ==
  ASSUME NEW x \in Nat, NEW y \in Nat, x < 2^Wide!D
  PROVE  /\ Wide!Udivsi3(x, y) \in Wide!Dwords /\ Wide!Umodsi3(x, y) \in Wide!Dwords
         /\ y # 0 => /\ x = Wide!Udivsi3(x, y) * y + Wide!Umodsi3(x, y)
                     /\ Wide!Umodsi3(x, y) < y
                     /\ Wide!Udivsi3(x, y) <= x
<1>1. CASE y = 0
  <2>1. 0 < 2^Wide!D /\ 1 < 2^Wide!D
    BY IsDword
  <2> QED
    BY <1>1, <2>1, IsDword DEF Wide!Udivsi3, Wide!Umodsi3
<1>2. CASE y # 0
  <2>1. PICK e \in Nat, f \in Nat : e = x \div y /\ f = x % y /\ f < y /\ x = y * e + f
    BY <1>2, Quotient
  <2>2. y * e = e * y /\ e * y \in Nat /\ (e > 0 => e * y >= e)
    BY <1>2, <2>1, Product, Z3
  <2>3. x = e * y + f /\ e <= x /\ f <= x
    BY <2>1, <2>2
  <2>4. e < 2^Wide!D /\ f < 2^Wide!D
    BY <2>1, <2>3, IsDword
  <2> QED
    BY <1>2, <2>1, <2>3, <2>4, IsDword DEF Wide!Udivsi3, Wide!Umodsi3
<1> QED
  BY <1>1, <1>2

\* The step for a numerator of one word keeps it.
LEMMA NoHighInv == WideInv /\ Wide!NoHigh => WideInv'
<1> SUFFICES ASSUME WideInv, Wide!NoHigh PROVE WideInv'
  OBVIOUS
<1>1. PICK m \in Nat : m = 2^Wide!H /\ m > 0
  BY Halves
<1>2. Wide!Low(wide_n) = wide_n /\ wide_n < m
  <2>1. PICK h \in 0..(m - 1), l \in 0..(m - 1) :
          h = Wide!High(wide_n) /\ l = Wide!Low(wide_n) /\ wide_n = h * m + l
    BY <1>1, WideTypes, Digits
  <2>2. h = 0
    BY <2>1 DEF Wide!NoHigh
  <2> QED
    BY <1>1, <2>1, <2>2
<1>3. CASE Wide!High(wide_d) = 0
  <2>1. Wide!Low(wide_d) = wide_d
    <3>1. PICK h \in 0..(m - 1), l \in 0..(m - 1) :
            h = Wide!High(wide_d) /\ l = Wide!Low(wide_d) /\ wide_d = h * m + l
      BY <1>1, WideTypes, Digits
    <3> QED
      BY <1>1, <1>3, <3>1
  <2>2. Wide!Finish(Wide!Udivsi3(wide_n, wide_d), Wide!Umodsi3(wide_n, wide_d))
    BY <1>2, <1>3, <2>1 DEF Wide!NoHigh
  <2>3. wide_n \in Nat /\ wide_d \in Nat /\ wide_n < 2^Wide!D
    BY WideTypes
  <2> QED
    BY <2>2, <2>3, SingleWords, FinishInv, Zenon
<1>4. CASE Wide!High(wide_d) # 0
  <2>1. Wide!Finish(0, wide_n)
    BY <1>2, <1>4 DEF Wide!NoHigh
  <2>2. wide_n < wide_d
    <3>1. PICK h \in 0..(m - 1), l \in 0..(m - 1) :
            h = Wide!High(wide_d) /\ l = Wide!Low(wide_d) /\ wide_d = h * m + l
      BY <1>1, WideTypes, Digits
    <3>2. h > 0 /\ h * m >= m /\ h * m \in Int
      BY <1>1, <1>4, <3>1, Product
    <3> QED
      BY <1>1, <1>2, <3>1, <3>2, WideTypes
  <2>3. wide_n = 0 * wide_d + wide_n
    BY WideTypes
  <2>4. 0 \in Wide!Dwords /\ wide_n \in Wide!Dwords
    BY WideTypes, IsDword
  <2> QED
    BY <2>1, <2>2, <2>3, <2>4, FinishInv, Zenon
<1> QED
  BY <1>3, <1>4

\* The step for a numerator shorter than the divisor keeps it.
LEMMA ShorterInv == WideInv /\ Wide!Shorter => WideInv'
<1> SUFFICES ASSUME WideInv, Wide!Shorter PROVE WideInv'
  OBVIOUS
<1>1. wide_n < wide_d
  BY WideTypes, ShorterSmaller DEF Wide!Shorter
<1>2. wide_n = 0 * wide_d + wide_n /\ 0 \in Wide!Dwords /\ wide_n \in Wide!Dwords
  BY WideTypes, IsDword
<1>3. Wide!Finish(0, wide_n)
  BY DEF Wide!Shorter
<1> QED
  BY <1>1, <1>2, <1>3, FinishInv, Zenon

\* Division of h:l by e:0.
HighDivided(h, l, e, m) ==
  /\ h * m + l = (h \div e) * (e * m) + ((h % e) * m + l)
  /\ (h % e) * m + l \in Nat /\ (h % e) * m + l < e * m
  /\ h \div e \in Nat /\ h \div e <= h

\* It is what the digits say.
LEMMA DividingHigh ==
  ASSUME NEW m \in Nat, NEW h \in Nat, NEW l \in Nat, NEW e \in Nat, l < m, e > 0
  PROVE  HighDivided(h, l, e, m)
<1>1. PICK f \in Nat, g \in Nat : f = h \div e /\ g = h % e /\ g < e /\ h = e * f + g
  BY Quotient
<1>2. (e * f + g) * m = f * (e * m) + g * m
  BY <1>1, Z3
<1>3. h * m = f * (e * m) + g * m
  BY <1>1, <1>2
<1>4. (g + 1) * m <= e * m
  BY <1>1, Grows
<1>5. (g + 1) * m = g * m + m /\ g * m \in Nat /\ e * m \in Nat /\ f * (e * m) \in Nat
  BY <1>1, Z3
<1>6. e * f \in Nat /\ f <= e * f
  <2>1. CASE f = 0
    BY <1>1, <2>1
  <2>2. CASE f > 0
    BY <1>1, <2>2, Product
  <2> QED
    BY <1>1, <2>1, <2>2
<1>7. /\ h * m + l = f * (e * m) + (g * m + l)
      /\ g * m + l \in Nat /\ g * m + l < e * m
  BY <1>3, <1>4, <1>5
<1>8. f <= h
  BY <1>1, <1>6
<1> QED
  BY <1>1, <1>7, <1>8, Zenon DEF HighDivided

\* The divisions of the high word alone.
LEMMA DividedHighInv ==
  ASSUME WideInv, Wide!High(wide_d) # 0, Wide!Low(wide_d) = 0, NEW x, NEW y,
         x = Wide!High(wide_n) \div Wide!High(wide_d),
         y = Wide!Join(Wide!High(wide_n) % Wide!High(wide_d), Wide!Low(wide_n)),
         Wide!Finish(x, y)
  PROVE  WideInv'
<1>1. PICK m \in Nat : m = 2^Wide!H /\ m > 0
  BY Halves
<1>2. PICK h \in 0..(m - 1), l \in 0..(m - 1) :
        h = Wide!High(wide_n) /\ l = Wide!Low(wide_n) /\ wide_n = h * m + l
  BY <1>1, WideTypes, Digits
<1>3. PICK e \in 0..(m - 1), f \in 0..(m - 1) :
        e = Wide!High(wide_d) /\ f = Wide!Low(wide_d) /\ wide_d = e * m + f
  BY <1>1, WideTypes, Digits
<1>4. wide_d = e * m /\ e > 0
  <2>1. e * m + 0 = e * m
    BY <1>1, <1>3, Z3
  <2> QED
    BY <1>3, <2>1
<1>5. HighDivided(h, l, e, m)
  BY <1>1, <1>2, <1>3, <1>4, DividingHigh
<1>6. x = h \div e /\ y = (h % e) * m + l
  BY <1>1, <1>2, <1>3 DEF Wide!Join
<1>7. /\ wide_n = x * wide_d + y /\ y \in Nat /\ y < wide_d /\ x \in Nat /\ x <= h
  BY <1>2, <1>4, <1>5, <1>6, Zenon DEF HighDivided
<1>8. x < 2^Wide!D /\ y < 2^Wide!D
  <2>1. h * m >= h /\ h * m \in Int
    <3>1. CASE h = 0
      BY <1>1, <3>1, Z3
    <3>2. CASE h > 0
      BY <1>1, <1>2, <3>2, Product
    <3> QED
      BY <1>2, <3>1, <3>2
  <2> QED
    BY <1>2, <1>7, <2>1, WideTypes, IsDword
<1>9. x \in Wide!Dwords /\ y \in Wide!Dwords
  BY <1>7, <1>8, IsDword
<1> QED
  BY <1>7, <1>9, FinishInv, Zenon

\* The step for a divisor whose low word is zero, and its division by zero, keep it.
LEMMA ByHighWordInv == WideInv /\ Wide!ByHighWord => WideInv'
<1> SUFFICES ASSUME WideInv, Wide!ByHighWord PROVE WideInv'
  OBVIOUS
<1>1. CASE Wide!High(wide_d) = 0
  <2>1. PICK m \in Nat : m = 2^Wide!H /\ m > 0
    BY Halves
  <2>2. PICK e \in 0..(m - 1), f \in 0..(m - 1) :
          e = Wide!High(wide_d) /\ f = Wide!Low(wide_d) /\ wide_d = e * m + f
    BY <2>1, WideTypes, Digits
  <2>3. wide_d = 0
    BY <1>1, <2>1, <2>2 DEF Wide!ByHighWord
  <2>4. PICK x \in Nat, y \in Nat :
          x = Wide!High(wide_n) /\ y = Wide!Low(wide_d) /\ x < 2^Wide!D
    <3>1. PICK h \in 0..(m - 1), l \in 0..(m - 1) :
            h = Wide!High(wide_n) /\ l = Wide!Low(wide_n) /\ wide_n = h * m + l
      BY <2>1, WideTypes, Digits
    <3>2. h * m >= h /\ h * m \in Int
      <4>1. CASE h = 0
        BY <2>1, <4>1, Z3
      <4>2. CASE h > 0
        BY <2>1, <3>1, <4>2, Product
      <4> QED
        BY <3>1, <4>1, <4>2
    <3>3. h < 2^Wide!D
      BY <3>1, <3>2, WideTypes, IsDword
    <3> QED
      BY <2>2, <3>1, <3>3
  <2>5. Wide!Finish(Wide!Udivsi3(x, y), Wide!Umodsi3(x, y))
    BY <1>1, <2>4 DEF Wide!ByHighWord
  <2> QED
    BY <2>3, <2>4, <2>5, SingleWords, FinishInv, Zenon
<1>2. CASE Wide!High(wide_d) # 0
  <2>1. /\ Wide!Low(wide_d) = 0 /\ Wide!Low(wide_n) = 0
        /\ Wide!Finish(Wide!High(wide_n) \div Wide!High(wide_d),
                       Wide!Join(Wide!High(wide_n) % Wide!High(wide_d), 0))
    BY <1>2 DEF Wide!ByHighWord
  <2> QED
    BY <1>2, <2>1, DividedHighInv, Zenon
<1> QED
  BY <1>1, <1>2

\* The step for a power of two in the high word keeps it.
LEMMA ByHighPowerInv == WideInv /\ Wide!ByHighPower => WideInv'
<1> SUFFICES ASSUME WideInv, Wide!ByHighPower PROVE WideInv'
  OBVIOUS
<1>1. PICK k \in 0..(Wide!H - 1) : Wide!High(wide_d) = 2^k
  BY DEF Wide!ByHighPower, Wide!IsPowerOf2
<1>2. Wide!Ctzsi2(2^k) = k /\ 2^k # 0
  BY ZeroCounts, Exponents
<1>3. /\ Wide!Low(wide_d) = 0 /\ Wide!High(wide_d) # 0
      /\ Wide!Finish(Wide!High(wide_n) \div Wide!High(wide_d),
                     Wide!Join(Wide!High(wide_n) % Wide!High(wide_d), Wide!Low(wide_n)))
  BY <1>1, <1>2, Zenon DEF Wide!ByHighPower
<1> QED
  BY <1>3, DividedHighInv, Zenon

\* The step for a power of two in the low word keeps it.
LEMMA ByLowPowerInv == WideInv /\ Wide!ByLowPower => WideInv'
<1> SUFFICES ASSUME WideInv, Wide!ByLowPower PROVE WideInv'
  OBVIOUS
<1>1. PICK s \in 0..(Wide!H - 1) : Wide!Low(wide_d) = 2^s /\ Wide!High(wide_d) = 0
  BY DEF Wide!ByLowPower, Wide!IsPowerOf2
<1>2. PICK m \in Nat : m = 2^Wide!H /\ m > 0
  BY Halves
<1>3. PICK u \in 0..(m - 1), v \in 0..(m - 1) :
        u = Wide!High(wide_n) /\ v = Wide!Low(wide_n) /\ wide_n = u * m + v
  BY <1>2, WideTypes, Digits
<1>4. PICK e \in 0..(m - 1), f \in 0..(m - 1) :
        e = Wide!High(wide_d) /\ f = Wide!Low(wide_d) /\ wide_d = e * m + f
  BY <1>2, WideTypes, Digits
<1>5. PICK p \in Nat : p = 2^s /\ p > 0
  BY <1>1, Exponents
<1>6. PICK k \in Nat : k = 2^(Wide!H - s) /\ k > 0
  BY <1>1, Exponents
<1>7. m = p * k
  <2>1. s + (Wide!H - s) = Wide!H /\ s \in Nat /\ Wide!H - s \in Nat
    BY <1>1, Exponents
  <2> QED
    BY <1>1, <1>2, <1>5, <1>6, <2>1, Exponents, ExponentSum
<1>8. wide_d = p
  BY <1>1, <1>2, <1>4, <1>5
<1>9. Wide!Ctzsi2(Wide!Low(wide_d)) = s
  BY <1>1, ZeroCounts
<1>10. ShortShift(p, k, m, u, v)
  BY <1>2, <1>3, <1>5, <1>6, <1>7, ShiftedWords
<1> DEFINE x == (u \div p) * m + ((u % p) * k + (v \div p))
<1>11. /\ x \in Nat /\ wide_n = x * p + (v % p) /\ v % p \in Nat /\ v % p < p
       /\ (u * k) % m = (u % p) * k
  BY <1>3, <1>10, Zenon DEF ShortShift
<1>12. Wide!Finish(IF wide_d = 1 THEN wide_n ELSE x, v % p)
  <2>1. Wide!Low(wide_d) = p /\ wide_d = p
    BY <1>1, <1>5, <1>8
  <2>2. /\ (u * k) % m = (u % p) * k /\ p = 2^s /\ k = 2^(Wide!H - s) /\ m = 2^Wide!H
        /\ u = Wide!High(wide_n) /\ v = Wide!Low(wide_n)
    BY <1>2, <1>3, <1>5, <1>6, <1>11
  <2>3. Wide!Finish(IF Wide!Low(wide_d) = 1 THEN wide_n
                    ELSE Wide!Join(u \div p, ((u * k) % m) + (v \div p)),
                    v % Wide!Low(wide_d))
    BY <1>9, <2>2, Zenon DEF Wide!ByLowPower
  <2> QED
    BY <2>1, <2>2, <2>3, Zenon DEF Wide!Join
<1> HIDE DEF x
<1>13. p = 1 => v % p = 0 /\ wide_n = wide_n * p + 0
  BY <1>3, <1>11, WideTypes
<1>14. x * p >= x /\ x * p \in Int
  <2>1. CASE x = 0
    <3>1. 0 * p = 0
      BY <1>5
    <3> QED
      BY <2>1, <3>1
  <2>2. CASE x > 0
    BY <1>5, <1>11, <2>2, Product
  <2> QED
    BY <1>11, <2>1, <2>2
<1>15. x \in Wide!Dwords
  BY <1>11, <1>14, WideTypes, IsDword
<1>16. v % p \in Wide!Dwords
  BY <1>5, <1>8, <1>11, WideTypes, IsDword
<1>17. wide_n \in Wide!Dwords
  BY WideTypes
<1>18. CASE p = 1
  BY <1>8, <1>11, <1>12, <1>13, <1>16, <1>17, <1>18, FinishInv, Zenon
<1>19. CASE p # 1
  BY <1>8, <1>11, <1>12, <1>15, <1>16, <1>19, FinishInv, Zenon
<1> QED
  BY <1>18, <1>19

\* What the loop says of its state, 2^sr being s and 2^(D - sr) being z.
LoopState(n, d, q, r, c, s, z) ==
  /\ n = ((2 * (q % z) + c) * d + r) * s + (q \div z)
  /\ r < d

\* The preparation of the loop establishes what its turns keep.
LEMMA PrepareInv == WideInv /\ Wide!Prepare => WideInv'
<1> SUFFICES ASSUME WideInv, Wide!Prepare PROVE WideInv'
  OBVIOUS
<1>1. PICK s \in 1..(Wide!D - 1) : s = Wide!Start
  BY WideTypes, StartFits DEF Wide!Prepare
<1>2. /\ sr' = s /\ Wide!Prepared(s) /\ carry' = 0 /\ wide_pc' = "loop"
      /\ UNCHANGED <<signed, wide_a, wide_b, wide_n, wide_d>>
  BY <1>1 DEF Wide!Prepare
<1>3. PICK w \in Nat :
        /\ w < 2^s /\ wide_n = wide_r' * 2^s + w
        /\ wide_q' = w * 2^(Wide!D - s) /\ wide_r' \in Nat
  BY <1>2, WideTypes, PreparedShifts
<1>4. PICK e \in Nat : s + e <= Wide!D /\ 2^e <= wide_d /\ wide_n < 2^(s + e)
  BY <1>1, WideTypes, StartFits DEF Wide!Prepare
<1>5. PICK p \in Nat : p = 2^s /\ p > 0
  BY <1>1, Exponents
<1>6. PICK z \in Nat : z = 2^(Wide!D - s) /\ z > 0
  BY <1>1, Exponents
<1>7. PICK g \in Nat : g = 2^e /\ p * g = 2^(s + e)
  BY <1>1, <1>4, <1>5, Exponents, ExponentSum
<1>8. PICK x \in Nat, y \in Nat : x = wide_r' /\ y = wide_q'
  <2>1. w * z \in Nat
    BY <1>3, <1>6, Z3
  <2> QED
    BY <1>3, <1>6, <2>1
<1>9. wide_n = x * p + w /\ w < p /\ y = w * z
  BY <1>3, <1>5, <1>6, <1>8
<1>10. x < g
  <2>0. x \in Int /\ g \in Int /\ p \in Nat /\ w \in Nat
    BY <1>3, <1>5, <1>7, <1>8
  <2> SUFFICES ASSUME g <= x PROVE FALSE
    BY <2>0
  <2>1. g * p <= x * p
    BY <2>0, Grows, Zenon
  <2>2. g * p = p * g /\ g * p \in Int /\ x * p \in Int
    BY <2>0, Z3
  <2>3. wide_n < p * g
    BY <1>4, <1>7, Zenon
  <2>4. wide_n = x * p + w
    BY <1>9
  <2> QED
    BY <2>0, <2>1, <2>2, <2>3, <2>4
<1>11. x < wide_d /\ wide_d < 2^Wide!D
  BY <1>4, <1>7, <1>8, <1>10, WideTypes
<1>12. y < 2^Wide!D
  <2>1. p * z = 2^Wide!D
    <3>1. s + (Wide!D - s) = Wide!D /\ s \in Nat /\ Wide!D - s \in Nat
      BY <1>1, Exponents
    <3> QED
      BY <1>5, <1>6, <3>1, ExponentSum
  <2>2. (w + 1) * z <= p * z /\ (w + 1) * z = w * z + z /\ w * z \in Int /\ p * z \in Int
    <3>1. w + 1 <= p /\ w + 1 \in Int /\ w \in Int /\ p \in Int /\ z \in Nat
      BY <1>3, <1>5, <1>6, <1>9
    <3>2. (w + 1) * z <= p * z
      BY <3>1, Grows, Zenon
    <3>3. (w + 1) * z = w * z + z /\ w * z \in Int /\ p * z \in Int
      BY <3>1, Z3
    <3> QED
      BY <3>2, <3>3
  <2> QED
    BY <1>6, <1>9, <2>1, <2>2
<1>13. x \in Wide!Dwords /\ y \in Wide!Dwords
  BY <1>8, <1>11, <1>12, IsDword, WideTypes
<1>14. y \div z = w /\ y % z = 0
  <2>1. y = z * w + 0
    BY <1>3, <1>6, <1>9, Z3
  <2> QED
    BY <1>3, <1>6, <1>8, <2>1, Unique
<1>15. LoopState(wide_n, wide_d, y, x, 0, p, z)
  <2>1. (2 * 0 + 0) * wide_d + x = x
    BY <1>8, WideTypes
  <2> QED
    BY <1>9, <1>11, <1>14, <2>1, Zenon DEF LoopState
<1>16. Wide!LoopInv'
  <2>1. /\ wide_q' = y /\ wide_r' = x /\ wide_n' = wide_n /\ wide_d' = wide_d /\ carry' = 0
        /\ 2^(sr') = p /\ 2^(Wide!D - sr') = z
    BY <1>2, <1>5, <1>6, <1>8
  <2> QED
    BY <1>15, <2>1, Zenon DEF Wide!LoopInv, LoopState
<1>17. Wide!TypeOK'
  BY <1>1, <1>2, <1>8, <1>13, Exponents DEF WideInv, Wide!TypeOK
<1>18. wide_d >= 2^(Wide!D - 1) => s <= 1 /\ wide_n >= 2^(Wide!D - 1)
  BY <1>1, WideTypes, StartFits DEF Wide!Prepare
<1>19. Wide!DividesRight'
  BY <1>2 DEF Wide!DividesRight
<1> QED
  BY <1>2, <1>16, <1>17, <1>18, <1>19
  DEF WideInv, Wide!Abs, Wide!IsNeg, Wide!Neg, Wide!Wrap

\* Shifting q by one moves its highest bit out, and another one in.
Rotated(p, z, x, c) ==
  \E t \in {0, 1}, w \in 0..(p - 1), u \in 0..(z - 1) :
    /\ x \div (p * z) = t /\ x \div z = t * p + w /\ x % z = u
    /\ ((2 * x + c) % (2 * (p * z))) \div (2 * z) = w
    /\ ((2 * x + c) % (2 * (p * z))) % (2 * z) = 2 * u + c

\* That is so of every q of twice the width of p * z.
LEMMA Rotating ==
  ASSUME NEW p \in Nat, NEW z \in Nat, NEW x \in Nat, NEW c \in {0, 1},
         p > 0, z > 0, x < 2 * (p * z)
  PROVE  Rotated(p, z, x, c)
<1>1. PICK v \in Nat, u \in Nat : v = x \div z /\ u = x % z /\ u < z /\ x = z * v + u
  BY Quotient
<1>2. PICK m \in Nat : m = p * z /\ m > 0
  BY Product
<1>3. ~(2 * p <= v)
  <2> SUFFICES ASSUME 2 * p <= v PROVE FALSE
    OBVIOUS
  <2>1. (2 * p) * z <= v * z /\ v * z \in Int
    BY <1>1, Grows
  <2>2. (2 * p) * z = 2 * (p * z) /\ z * v = v * z
    BY <1>1, Z3
  <2> QED
    BY <1>1, <1>2, <2>1, <2>2
<1>4. PICK t \in {0, 1}, w \in 0..(p - 1) : v = t * p + w
  <2>1. CASE v < p
    <3>1. v = 0 * p + v /\ v \in 0..(p - 1)
      BY <1>1, <2>1
    <3> QED
      BY <3>1
  <2>2. CASE p <= v
    <3>1. v = 1 * p + (v - p) /\ v - p \in 0..(p - 1)
      BY <1>1, <1>3, <2>2
    <3> QED
      BY <3>1
  <2> QED
    BY <1>1, <2>1, <2>2
<1>5. PICK y \in Nat : y = w * z + u /\ y < m
  <2>1. (w + 1) * z <= p * z
    BY <1>4, Grows
  <2>2. (w + 1) * z = w * z + z /\ w * z \in Nat
    BY <1>4, Z3
  <2> QED
    BY <1>1, <1>2, <2>1, <2>2
<1>6. x = m * t + y
  <2>1. z * (t * p + w) = t * (p * z) + w * z
    BY <1>4, Z3
  <2>2. z * v = t * m + w * z /\ t * m = m * t
    BY <1>2, <1>4, <2>1, Z3
  <2>3. t * m \in Int /\ w * z \in Int
    BY <1>4, Z3
  <2> QED
    BY <1>1, <1>5, <2>2, <2>3
<1>7. x \div m = t
  <2>1. t \in Int /\ x \in Nat /\ y \in Nat /\ m \in Nat /\ m > 0 /\ y < m
    BY <1>2, <1>4, <1>5
  <2> QED
    BY <1>6, <2>1, Unique, ZenonT(30)
<1>8. (2 * x + c) % (2 * m) = 2 * y + c
  <2> DEFINE i == 2 * x + c
             j == 2 * y + c
             k == 2 * m
  <2>1. i = k * t + j /\ j \in 0..(k - 1) /\ i \in Int /\ k \in Nat /\ k > 0 /\ t \in Int
    <3>1. CASE t = 0
      BY <1>2, <1>5, <1>6, <3>1
    <3>2. CASE t = 1
      BY <1>2, <1>5, <1>6, <3>2
    <3> QED
      BY <1>4, <3>1, <3>2
  <2> HIDE DEF i, j, k
  <2>2. i % k = j
    BY <2>1, OneRemainder, Zenon
  <2> QED
    BY <2>2 DEF i, j, k
<1>9. (2 * y + c) \div (2 * z) = w /\ (2 * y + c) % (2 * z) = 2 * u + c
  <2> DEFINE j == 2 * y + c
             k == 2 * z
             f == 2 * u + c
  <2>1. j = k * w + f /\ j \in Nat /\ k \in Nat /\ k > 0 /\ f \in Nat /\ f < k
    <3>1. (2 * z) * w = 2 * (w * z) /\ w * z \in Int
      BY <1>4, Z3
    <3> QED
      BY <1>1, <1>5, <3>1
  <2>2. w \in Int
    BY <1>4
  <2> HIDE DEF j, k, f
  <2>3. j \div k = w /\ j % k = f
    BY <2>1, <2>2, Unique, Zenon
  <2> QED
    BY <2>3 DEF j, k, f
<1>10. u \in 0..(z - 1)
  BY <1>1
<1> QED
  BY <1>1, <1>2, <1>4, <1>7, <1>8, <1>9, <1>10, Zenon DEF Rotated

\* A turn conserves the sum: f is what was found, w what still waits, t the next bit,
\* x what is subtracted zero or one times.
SumKept(f, x, y, p, t, w, c, z) ==
  (f * x + y) * (2 * p) + (t * p + w) = ((2 * f + c) * x + z) * p + w

\* It does, for any integers.
LEMMA TurnSum ==
  ASSUME NEW f \in Int, NEW x \in Int, NEW y \in Int, NEW p \in Int, NEW t \in Int,
         NEW w \in Int, NEW c \in Int, NEW z \in Int, 2 * y + t = c * x + z
  PROVE  SumKept(f, x, y, p, t, w, c, z)
<1>1. PICK g \in Int, h \in Int : g = f * x /\ h = c * x
  BY Product
<1>2. (2 * f + c) * x = 2 * (f * x) + c * x
  BY Z3
<1>3. (2 * f + c) * x + z = 2 * g + (2 * y + t)
  BY <1>1, <1>2
<1>4. (g + y) * (2 * p) + (t * p + w) = (2 * g + (2 * y + t)) * p + w
  BY <1>1, Z3
<1> QED
  BY <1>1, <1>3, <1>4, Zenon DEF SumKept

\* The sign of d - x - 1 tells whether d fits into x, if neither is too large.
LEMMA Compared ==
  ASSUME wide_d \in Nat, wide_d > 0, wide_d < 2^Wide!D,
         NEW x \in Nat, x < 2^Wide!D, x < 2 * wide_d,
         wide_d >= 2^(Wide!D - 1) => x >= 2^(Wide!D - 1)
  PROVE  /\ Wide!NotBelow(x) <=> wide_d <= x
         /\ wide_d <= x => Wide!Wrap(x - wide_d) = x - wide_d
<1>1. PICK m \in Nat : m = 2^(Wide!D - 1) /\ m > 1 /\ 2^Wide!D = 2 * m
  BY IsDword
<1>2. PICK e \in Nat : e = wide_d
  OBVIOUS
<1>3. Wide!NotBelow(x) <=> (e - x - 1) % (2 * m) >= m
  BY <1>1, <1>2 DEF Wide!NotBelow, Wide!IsNeg, Wide!Wrap
<1>4. CASE e <= x
  <2>1. (e - x - 1) % (2 * m) = 2 * m + (e - x - 1)
    BY <1>1, <1>2, <1>4, NegativeRemainder
  <2>2. 2 * m + (e - x - 1) >= m
    BY <1>1, <1>2, <1>4
  <2>3. x - e \in Nat /\ x - e < 2^Wide!D
    BY <1>1, <1>2, <1>4
  <2> QED
    BY <1>2, <1>3, <1>4, <2>1, <2>2, <2>3, IsDword
<1>5. CASE x < e
  <2>1. e - x - 1 \in Nat /\ e - x - 1 < 2 * m /\ e - x - 1 < m
    BY <1>1, <1>2, <1>5
  <2>2. (e - x - 1) % (2 * m) = e - x - 1
    BY <1>1, <2>1, Small
  <2> QED
    BY <1>1, <1>2, <1>3, <1>5, <2>1, <2>2
<1> QED
  BY <1>2, <1>4, <1>5

\* A turn keeps it.
LEMMA TurnInv == WideInv /\ Wide!Turn => WideInv'
<1> SUFFICES ASSUME WideInv, Wide!Turn PROVE WideInv'
  OBVIOUS
<1>1. /\ wide_pc = "loop" /\ sr > 0 /\ sr' = sr - 1
      /\ UNCHANGED <<signed, wide_a, wide_b, wide_n, wide_d, wide_pc>>
  BY DEF Wide!Turn
<1>2. PICK n \in Nat, d \in Nat, x \in Nat, y \in Nat, c \in {0, 1} :
        /\ n = wide_n /\ d = wide_d /\ x = wide_q /\ y = wide_r /\ c = carry
        /\ n < 2^Wide!D /\ d < 2^Wide!D /\ x < 2^Wide!D
  BY WideTypes
<1>3. PICK p \in Nat : p = 2^(sr - 1) /\ p > 0 /\ 2^sr = 2 * p
  <2>1. sr - 1 \in 0..Wide!D /\ (sr - 1) + 1 = sr
    BY <1>1, WideTypes, Exponents
  <2> QED
    BY <2>1, Exponents
<1>4. PICK z \in Nat : z = 2^(Wide!D - sr) /\ z > 0 /\ 2^(Wide!D - sr') = 2 * z
  <2>1. Wide!D - sr \in 0..Wide!D /\ (Wide!D - sr) + 1 = Wide!D - sr'
    BY <1>1, WideTypes, Exponents
  <2> QED
    BY <2>1, Exponents
<1>5. PICK m \in Nat : m = p * z /\ m = 2^(Wide!D - 1) /\ 2^Wide!D = 2 * m /\ m > 1
  <2>1. (sr - 1) + (Wide!D - sr) = Wide!D - 1 /\ sr - 1 \in Nat /\ Wide!D - sr \in Nat
        /\ Wide!D - 1 <= Wide!D
    BY <1>1, WideTypes, Exponents
  <2>2. 2^(Wide!D - 1) = p * z
    BY <1>3, <1>4, <2>1, ExponentSum
  <2> QED
    BY <2>2, IsDword
<1>6. LoopState(n, d, x, y, c, 2 * p, z)
  BY <1>1, <1>2, <1>3, <1>4, Zenon DEF WideInv, Wide!LoopInv, LoopState
<1>7. Rotated(p, z, x, c)
  <2>1. x < 2 * (p * z)
    BY <1>2, <1>5
  <2>2. p \in Nat /\ z \in Nat /\ x \in Nat /\ c \in {0, 1} /\ p > 0 /\ z > 0
    BY <1>2, <1>3, <1>4
  <2> QED
    BY <2>1, <2>2, Rotating, Zenon
<1>8. PICK t \in {0, 1}, w \in 0..(p - 1), u \in 0..(z - 1) :
        /\ x \div (p * z) = t /\ x \div z = t * p + w /\ x % z = u
        /\ ((2 * x + c) % (2 * (p * z))) \div (2 * z) = w
        /\ ((2 * x + c) % (2 * (p * z))) % (2 * z) = 2 * u + c
  BY <1>7, Zenon DEF Rotated
<1>9. PICK f \in Nat : f = 2 * u + c
  BY <1>2, <1>4, <1>8
<1>10. n = (f * d + y) * (2 * p) + (t * p + w) /\ y < d
  BY <1>6, <1>8, <1>9, Zenon DEF LoopState
<1>11. PICK v \in Nat : v = 2 * y + t
  BY <1>2, <1>8
<1>12. v < 2 * d
  BY <1>2, <1>8, <1>10, <1>11
<1>13. v < 2 * m /\ (d >= m => v >= m)
  <2>1. CASE d < m
    BY <1>2, <1>5, <1>12, <2>1
  <2>2. CASE d >= m
    <3>1. sr = 1 /\ n >= m
      BY <1>1, <1>2, <1>5, <2>2, WideTypes DEF WideInv
    <3>2. p = 1
      BY <1>3, <3>1, Exponents
    <3>3. w = 0
      BY <1>8, <3>2
    <3>4. PICK g \in Nat : g = f * d
      BY <1>2, <1>9, Z3
    <3>5. n = 2 * g + v
      <4>1. n = (g + y) * (2 * 1) + (t * 1 + 0)
        BY <1>10, <3>2, <3>3, <3>4, Zenon
      <4> QED
        BY <1>2, <1>8, <1>11, <3>4, <4>1
    <3>6. f = 0
      <4> SUFFICES ASSUME f > 0 PROVE FALSE
        BY <1>9
      <4>1. g >= d
        BY <1>2, <1>9, <3>4, Product
      <4> QED
        BY <1>2, <1>5, <1>11, <2>2, <3>4, <3>5, <1>10, <4>1
    <3>7. g = 0
      BY <1>2, <3>4, <3>6
    <3> QED
      BY <1>2, <1>5, <1>11, <3>1, <3>5, <3>7
  <2> QED
    BY <1>2, <1>5, <2>1, <2>2
<1>14. /\ Wide!NotBelow(v) <=> d <= v
       /\ d <= v => Wide!Wrap(v - d) = v - d
  BY <1>2, <1>5, <1>10, <1>11, <1>12, <1>13, Compared
<1>15. Wide!Wrap(2 * wide_r + wide_q \div 2^(Wide!D - 1)) = v
  <2>1. 2 * wide_r + wide_q \div 2^(Wide!D - 1) = v
    BY <1>2, <1>5, <1>8, <1>11, Zenon
  <2> QED
    BY <1>5, <1>11, <1>13, <2>1, IsDword
<1>16. /\ wide_q' = (2 * x + c) % (2 * (p * z))
       /\ carry' = (IF d <= v THEN 1 ELSE 0)
       /\ wide_r' = (IF d <= v THEN v - d ELSE v)
  <2>1. /\ wide_q' = Wide!Wrap(2 * x + c)
        /\ carry' = (IF Wide!NotBelow(v) THEN 1 ELSE 0)
        /\ wide_r' = (IF Wide!NotBelow(v) THEN Wide!Wrap(v - d) ELSE v)
    BY <1>2, <1>15, Zenon DEF Wide!Turn
  <2>2. Wide!Wrap(2 * x + c) = (2 * x + c) % (2 * (p * z))
    BY <1>5, Zenon DEF Wide!Wrap
  <2> QED
    BY <1>14, <2>1, <2>2, Zenon
<1>17. PICK c1 \in {0, 1}, y1 \in Nat :
         c1 = carry' /\ y1 = wide_r' /\ v = c1 * d + y1 /\ y1 < d
  <2>1. CASE d <= v
    <3>1. v = 1 * d + (v - d) /\ v - d \in Nat /\ v - d < d
      BY <1>2, <1>11, <1>12, <2>1
    <3> QED
      BY <1>16, <2>1, <3>1
  <2>2. CASE v < d
    <3>1. v = 0 * d + v /\ ~(d <= v)
      BY <1>2, <1>11, <2>2
    <3> QED
      BY <1>11, <1>16, <2>2, <3>1
  <2> QED
    BY <1>2, <1>11, <2>1, <2>2
<1>18. n = ((2 * f + c1) * d + y1) * p + w
  <2>1. /\ f \in Int /\ d \in Int /\ y \in Int /\ p \in Int /\ t \in Int /\ w \in Int
        /\ c1 \in Int /\ y1 \in Int
    BY <1>2, <1>3, <1>8, <1>9, <1>17
  <2>2. 2 * y + t = c1 * d + y1
    BY <1>11, <1>17
  <2>3. SumKept(f, d, y, p, t, w, c1, y1)
    BY <2>1, <2>2, TurnSum, Zenon
  <2> QED
    BY <1>10, <2>3, Zenon DEF SumKept
<1>19. wide_q' \div (2 * z) = w /\ wide_q' % (2 * z) = f
  BY <1>8, <1>9, <1>16, Zenon
<1>20. Wide!LoopInv'
  <2>1. LoopState(n, d, wide_q', y1, c1, p, 2 * z)
    BY <1>17, <1>18, <1>19, Zenon DEF LoopState
  <2>2. /\ wide_r' = y1 /\ wide_n' = n /\ wide_d' = d /\ carry' = c1
        /\ 2^(sr') = p /\ 2^(Wide!D - sr') = 2 * z
    BY <1>1, <1>2, <1>3, <1>4, <1>17
  <2> QED
    BY <2>1, <2>2, Zenon DEF Wide!LoopInv, LoopState
<1>21. wide_q' \in Wide!Dwords /\ wide_r' \in Wide!Dwords
  <2>1. wide_q' \in 0..(2 * m - 1)
    <3>1. (2 * x + c) % (2 * m) \in 0..(2 * m - 1)
      BY <1>2, <1>5, Remainder
    <3> QED
      BY <1>5, <1>16, <3>1, Zenon
  <2>2. wide_q' \in Nat /\ wide_q' < 2^Wide!D
    BY <1>5, <2>1
  <2>3. wide_r' \in Nat /\ wide_r' < 2^Wide!D
    BY <1>2, <1>5, <1>17
  <2> QED
    BY <2>2, <2>3, IsDword
<1>22. Wide!TypeOK'
  BY <1>1, <1>17, <1>21, WideTypes, Exponents DEF WideInv, Wide!TypeOK
<1>23. wide_d >= 2^(Wide!D - 1) => sr' <= 1 /\ wide_n >= 2^(Wide!D - 1)
  BY <1>1, WideTypes DEF WideInv
<1>24. Wide!DividesRight'
  BY <1>1 DEF Wide!DividesRight
<1> QED
  BY <1>1, <1>20, <1>22, <1>23, <1>24
  DEF WideInv, Wide!Abs, Wide!IsNeg, Wide!Neg, Wide!Wrap

\* The end of the loop puts the last bit into the quotient.
LEMMA LoopEndInv == WideInv /\ Wide!LoopEnd => WideInv'
<1> SUFFICES ASSUME WideInv, Wide!LoopEnd PROVE WideInv'
  OBVIOUS
<1>1. wide_pc = "loop" /\ sr = 0 /\ Wide!Finish(Wide!Wrap(2 * wide_q + carry), wide_r)
  BY DEF Wide!LoopEnd
<1>2. PICK n \in Nat, d \in Nat, x \in Nat, y \in Nat, c \in {0, 1} :
        /\ n = wide_n /\ d = wide_d /\ x = wide_q /\ y = wide_r /\ c = carry
        /\ n < 2^Wide!D /\ x < 2^Wide!D
  BY WideTypes
<1>3. PICK z \in Nat : z = 2^Wide!D /\ z > 0
  BY IsDword
<1>4. LoopState(n, d, x, y, c, 1, z)
  <2>1. 2^sr = 1 /\ 2^(Wide!D - sr) = z
    BY <1>1, <1>3, Exponents
  <2> QED
    BY <1>1, <1>2, <2>1, Zenon DEF WideInv, Wide!LoopInv, LoopState
<1>5. x % z = x /\ x \div z = 0
  <2>1. x = z * 0 + x
    BY <1>2, <1>3
  <2> QED
    BY <1>2, <1>3, <2>1, Unique
<1>6. PICK f \in Nat, g \in Nat : f = 2 * x + c /\ g = f * d
  <2>1. 2 * x + c \in Nat
    BY <1>2
  <2>2. (2 * x + c) * d \in Nat
    BY <1>2, <2>1, Z3
  <2> QED
    BY <2>1, <2>2
<1>7. n = g + y /\ y < d
  <2>1. n = (g + y) * 1 + 0 /\ y < d
    BY <1>4, <1>5, <1>6, Zenon DEF LoopState
  <2> QED
    BY <1>2, <1>6, <2>1
<1>8. f <= g
  <2>1. CASE f = 0
    BY <1>6, <2>1
  <2>2. CASE f > 0
    BY <1>2, <1>6, <1>7, <2>2, Product
  <2> QED
    BY <1>6, <2>1, <2>2
<1>9. f < 2^Wide!D
  BY <1>2, <1>3, <1>6, <1>7, <1>8
<1>10. f \in Wide!Dwords /\ Wide!Wrap(f) = f
  BY <1>6, <1>9, IsDword
<1>11. Wide!Finish(f, wide_r)
  BY <1>1, <1>2, <1>6, <1>10
<1>12. wide_n = f * wide_d + wide_r /\ wide_r < wide_d /\ wide_r \in Wide!Dwords
  BY <1>2, <1>6, <1>7, WideTypes
<1> QED
  BY <1>10, <1>11, <1>12, FinishInv, Zenon

-----------------------------------------------------------------------------
(* What is proved of every double-word division.                             *)

\* __udivmoddi4 keeps its invariant, whichever of its ways it takes.
THEOREM WideInvariant == Wide!Spec => []WideInv
<1>1. WideInv /\ [Wide!Next]_wideVars => WideInv'
  <2> SUFFICES ASSUME WideInv, [Wide!Next]_wideVars PROVE WideInv'
    OBVIOUS
  <2>1. CASE UNCHANGED wideVars
    BY <2>1 DEF WideInv, wideVars, Wide!TypeOK, Wide!LoopInv, Wide!DividesRight,
                Wide!Abs, Wide!IsNeg, Wide!Neg, Wide!Wrap
  <2>2. CASE Wide!Returned
    BY <2>1, <2>2 DEF Wide!Returned, Wide!vars, wideVars
  <2> QED
    BY <2>1, <2>2, NoHighInv, ByHighWordInv, ByHighPowerInv, ByLowPowerInv, ShorterInv,
       PrepareInv, TurnInv, LoopEndInv DEF Wide!Next
<1> QED
  BY <1>1, WideInitInv, PTL DEF Wide!Spec, Wide!vars, wideVars

\* Where the loop of __udivmoddi4 is entered, in whichever of the six places it was
\* prepared, and in each of its turns, what has been found, what is left and what waits
\* make up the numerator (int64.c:605-629), for words of any width.
THEOREM WideLoopKeeps == Wide!Spec => []WideLoopInv
<1>1. WideInv => WideLoopInv
  BY DEF WideInv, WideLoopInv
<1> QED
  BY <1>1, WideInvariant, PTL

\* Every double-word division that is not by zero returns quotient and remainder
\* (int64.c:426-634), for words of any width.
THEOREM WideDivides == Wide!Spec => []DividesRight
<1>1. WideInv => DividesRight
  BY DEF WideInv, DividesRight
<1> QED
  BY <1>1, WideInvariant, PTL

-----------------------------------------------------------------------------
(* The signed functions.                                                     *)

\* What a double word stands for.
AsInt(x) == IF Wide!IsNeg(x) THEN x - 2^Wide!D ELSE x

\* The absolute value of a signed double word, which has no sign of its own.
LEMMA AbsIs ==
  ASSUME NEW x \in Wide!Dwords
  PROVE  \E y \in Nat :
           /\ y = Wide!Abs(x) /\ y <= 2^(Wide!D - 1) /\ (x # 0 => y > 0)
           /\ Wide!IsNeg(x) => AsInt(x) = -y /\ x = 2^Wide!D - y
           /\ ~Wide!IsNeg(x) => AsInt(x) = y /\ x = y /\ y < 2^(Wide!D - 1)
<1>1. PICK m \in Nat : m = 2^(Wide!D - 1) /\ m > 1 /\ 2^Wide!D = 2 * m
  BY IsDword
<1>2. x \in Nat /\ x < 2 * m
  BY <1>1, Halves
<1>3. Wide!IsNeg(x) <=> x >= m
  BY <1>1 DEF Wide!IsNeg
<1>4. CASE x >= m
  <2>1. (-x) % (2 * m) = 2 * m - x
    BY <1>1, <1>2, <1>4, NegativeRemainder
  <2>2. Wide!Abs(x) = 2 * m - x
    BY <1>1, <1>3, <1>4, <2>1, Zenon DEF Wide!Abs, Wide!Neg, Wide!Wrap
  <2>3. 2 * m - x \in Nat /\ AsInt(x) = -(2 * m - x)
    BY <1>1, <1>2, <1>3, <1>4 DEF AsInt
  <2> QED
    BY <1>1, <1>2, <1>3, <1>4, <2>2, <2>3
<1>5. CASE x < m
  BY <1>1, <1>2, <1>3, <1>5 DEF Wide!Abs, AsInt
<1> QED
  BY <1>1, <1>2, <1>4, <1>5

\* A number given a sign, or none.
LEMMA NegIs ==
  ASSUME NEW x \in Nat, x <= 2^(Wide!D - 1)
  PROVE  /\ Wide!Neg(x) \in Wide!Dwords /\ AsInt(Wide!Neg(x)) = -x
         /\ x # 0 => /\ Wide!IsNeg(Wide!Neg(x)) /\ Wide!Abs(Wide!Neg(x)) = x
                     /\ Wide!Neg(x) = 2^Wide!D - x
         /\ x = 0 => Wide!Neg(x) = 0
         /\ x < 2^(Wide!D - 1) => /\ x \in Wide!Dwords /\ AsInt(x) = x
                                  /\ ~Wide!IsNeg(x) /\ Wide!Abs(x) = x
<1>1. PICK m \in Nat : m = 2^(Wide!D - 1) /\ m > 1 /\ 2^Wide!D = 2 * m
  BY IsDword
<1>2. CASE x = 0
  <2>1. (-x) % (2 * m) = 0
    BY <1>1, <1>2
  <2>2. Wide!Neg(x) = 0
    BY <1>1, <2>1, Zenon DEF Wide!Neg, Wide!Wrap
  <2>3. ~Wide!IsNeg(0)
    BY <1>1 DEF Wide!IsNeg
  <2> QED
    BY <1>1, <1>2, <2>2, <2>3, IsDword DEF AsInt, Wide!Abs
<1>3. CASE x # 0
  <2>1. (-x) % (2 * m) = 2 * m - x
    BY <1>1, <1>3, NegativeRemainder
  <2>2. PICK y \in Nat : y = Wide!Neg(x) /\ y = 2 * m - x
    <3>1. Wide!Neg(x) = 2 * m - x
      BY <1>1, <2>1, Zenon DEF Wide!Neg, Wide!Wrap
    <3> QED
      BY <1>1, <3>1
  <2>3. y \in Wide!Dwords /\ Wide!IsNeg(y) /\ AsInt(y) = -x
    BY <1>1, <1>3, <2>2, IsDword DEF AsInt, Wide!IsNeg
  <2>4. Wide!Abs(y) = x
    <3>1. PICK z \in Nat : z = Wide!Abs(y) /\ AsInt(y) = -z
      BY <2>3, AbsIs
    <3> QED
      BY <2>3, <3>1
  <2>5. x < m => x \in Wide!Dwords /\ AsInt(x) = x /\ ~Wide!IsNeg(x) /\ Wide!Abs(x) = x
    BY <1>1, IsDword DEF AsInt, Wide!IsNeg, Wide!Abs
  <2> QED
    BY <1>1, <1>3, <2>2, <2>3, <2>4, <2>5
<1> QED
  BY <1>2, <1>3

\* A double word and what it stands for differ by the modulus, if at all.
LEMMA AsIntCongruent ==
  ASSUME NEW x \in Wide!Dwords
  PROVE  \E k \in Int : x = AsInt(x) + 2^Wide!D * k /\ AsInt(x) \in Int
<1>1. PICK m \in Nat, y \in Nat : m = 2^Wide!D /\ y = x
  BY IsDword, Halves
<1>2. CASE Wide!IsNeg(x)
  <2>1. AsInt(x) = y - m /\ y = (y - m) + m * 1
    BY <1>1, <1>2 DEF AsInt
  <2> QED
    BY <1>1, <2>1
<1>3. CASE ~Wide!IsNeg(x)
  <2>1. AsInt(x) = y /\ y = y + m * 0
    BY <1>1, <1>3 DEF AsInt
  <2> QED
    BY <1>1, <2>1
<1> QED
  BY <1>2, <1>3

\* The remainder of the quotient's product is the remainder, in the ring of double words.
LEMMA RingRemainder ==
  ASSUME NEW x \in Wide!Dwords, NEW y \in Wide!Dwords, NEW u \in Wide!Dwords,
         NEW v \in Wide!Dwords, AsInt(x) = AsInt(u) * AsInt(y) + AsInt(v)
  PROVE  Wide!Wrap(x - u * y) = v
<1>1. PICK m \in Nat : m = 2^Wide!D /\ m > 0
  BY IsDword
<1>2. PICK a1 \in Int, ka \in Int : a1 = AsInt(x) /\ x = a1 + m * ka
  BY <1>1, AsIntCongruent
<1>3. PICK b1 \in Int, kb \in Int : b1 = AsInt(y) /\ y = b1 + m * kb
  BY <1>1, AsIntCongruent
<1>4. PICK q1 \in Int, kq \in Int : q1 = AsInt(u) /\ u = q1 + m * kq
  BY <1>1, AsIntCongruent
<1>5. PICK r1 \in Int, kr \in Int : r1 = AsInt(v) /\ v = r1 + m * kr
  BY <1>1, AsIntCongruent
<1>6. PICK e \in Nat : e = v /\ e < m
  BY <1>1, Halves
<1>7. a1 = q1 * b1 + r1
  BY <1>2, <1>3, <1>4, <1>5, Zenon
<1>8. PICK c \in Int : c = ka - (kq * b1 + q1 * kb + m * (kq * kb)) - kr
  <2>1. ka - (kq * b1 + q1 * kb + m * (kq * kb)) - kr \in Int
    BY Z3
  <2> QED
    BY <2>1
<1>9. ((q1 * b1 + r1) + m * ka) - (q1 + m * kq) * (b1 + m * kb)
        = (r1 + m * kr) + m * (ka - (kq * b1 + q1 * kb + m * (kq * kb)) - kr)
  BY Z3
<1>10. x - u * y = e + m * c
  <2>1. x - u * y = (a1 + m * ka) - (q1 + m * kq) * (b1 + m * kb)
    BY <1>2, <1>3, <1>4, Zenon
  <2>2. e + m * c = (r1 + m * kr) + m * (ka - (kq * b1 + q1 * kb + m * (kq * kb)) - kr)
    BY <1>5, <1>6, <1>8, Zenon
  <2>3. x - u * y = ((q1 * b1 + r1) + m * ka) - (q1 + m * kq) * (b1 + m * kb)
    BY <1>7, <2>1, Zenon
  <2> QED
    BY <1>9, <2>2, <2>3, Zenon
<1>11. (e + m * c) % m = e
  <2>1. (e + m * c) % m = e % m
    <3>1. e \in Int /\ c \in Int /\ m \in Nat /\ m > 0
      BY <1>1, <1>6, <1>8
    <3> QED
      BY <3>1, Congruent, Zenon
  <2> QED
    BY <1>1, <1>6, <2>1, Small
<1> QED
  BY <1>1, <1>6, <1>10, <1>11, Zenon DEF Wide!Wrap

\* Where a division has returned, the signed functions return what C says.
LEMMA SignedFromUnsigned ==
  ASSUME WideInv, wide_pc = "done", signed, wide_b # 0,
         ~(wide_a = 2^(Wide!D - 1) /\ wide_b = Wide!Neg(1))
  PROVE  /\ AsInt(wide_a) = AsInt(Wide!Divdi3) * AsInt(wide_b) + AsInt(Wide!Moddi3)
         /\ Wide!Moddi3 # 0 => /\ Wide!IsNeg(Wide!Moddi3) <=> Wide!IsNeg(wide_a)
                               /\ Wide!Abs(Wide!Moddi3) < Wide!Abs(wide_b)
         /\ Wide!DivmodRem = Wide!Moddi3
<1>1. PICK m \in Nat : m = 2^(Wide!D - 1) /\ m > 1 /\ 2^Wide!D = 2 * m
  BY IsDword
<1>2. wide_a \in Wide!Dwords /\ wide_b \in Wide!Dwords
  BY WideTypes
<1>3. PICK n \in Nat :
        /\ n = wide_n /\ n <= m
        /\ Wide!IsNeg(wide_a) => AsInt(wide_a) = -n /\ wide_a = 2 * m - n
        /\ ~Wide!IsNeg(wide_a) => AsInt(wide_a) = n /\ n < m
  <2>1. wide_n = Wide!Abs(wide_a)
    BY DEF WideInv
  <2> QED
    BY <1>1, <1>2, <2>1, AbsIs
<1>4. PICK d \in Nat :
        /\ d = wide_d /\ d = Wide!Abs(wide_b) /\ d <= m /\ d > 0
        /\ Wide!IsNeg(wide_b) => AsInt(wide_b) = -d /\ wide_b = 2 * m - d
        /\ ~Wide!IsNeg(wide_b) => AsInt(wide_b) = d
  <2>1. wide_d = Wide!Abs(wide_b)
    BY DEF WideInv
  <2> QED
    BY <1>1, <1>2, <2>1, AbsIs
<1>5. PICK q \in Nat, r \in Nat, g \in Nat :
        q = wide_q /\ r = wide_r /\ g = q * d /\ n = g + r /\ r < d
  <2>1. PICK q \in Nat, r \in Nat : q = wide_q /\ r = wide_r
    BY WideTypes
  <2>2. n = q * d + r /\ r < d
    BY <1>3, <1>4, <2>1 DEF WideInv, Wide!DividesRight
  <2>3. q * d \in Nat
    BY <1>4, <2>1, Z3
  <2> QED
    BY <2>1, <2>2, <2>3
<1>6. q <= m /\ (q = m => n = m /\ d = 1)
  <2>1. CASE q = 0
    BY <1>1, <2>1
  <2>2. CASE q > 0
    <3>1. g >= q
      BY <1>4, <1>5, <2>2, Product
    <3>2. d >= 2 => g >= 2 * q
      <4> SUFFICES ASSUME d >= 2 PROVE g >= 2 * q
        OBVIOUS
      <4>1. q \in Nat /\ 2 \in Int /\ d \in Int /\ 2 <= d
        BY <1>4, <1>5
      <4>2. q * 2 <= q * d
        BY <4>1, Grows, Zenon
      <4>3. g = q * d
        BY <1>5
      <4> QED
        BY <4>1, <4>2, <4>3
    <3> QED
      BY <1>1, <1>3, <1>4, <1>5, <2>2, <3>1, <3>2
  <2> QED
    BY <1>5, <2>1, <2>2
<1>7. /\ Wide!Moddi3 \in Wide!Dwords
      /\ AsInt(Wide!Moddi3) = (IF Wide!IsNeg(wide_a) THEN -r ELSE r)
      /\ Wide!Moddi3 # 0 => /\ Wide!IsNeg(Wide!Moddi3) <=> Wide!IsNeg(wide_a)
                            /\ Wide!Abs(Wide!Moddi3) = r
  <2>1. r < m
    BY <1>1, <1>4, <1>5
  <2>2. CASE Wide!IsNeg(wide_a)
    <3>1. Wide!Moddi3 = Wide!Neg(r)
      BY <1>5, <2>2 DEF Wide!Moddi3
    <3> QED
      BY <1>1, <1>5, <2>1, <2>2, <3>1, NegIs
  <2>3. CASE ~Wide!IsNeg(wide_a)
    <3>1. Wide!Moddi3 = r
      BY <1>5, <2>3 DEF Wide!Moddi3
    <3> QED
      BY <1>1, <1>5, <2>1, <2>3, <3>1, NegIs
  <2> QED
    BY <2>2, <2>3
<1>8. CASE Wide!IsNeg(wide_a) <=> Wide!IsNeg(wide_b)
  <2>1. Wide!Divdi3 = q
    BY <1>5, <1>8 DEF Wide!Divdi3, Wide!IsNeg
  <2>2. q < m
    <3> SUFFICES ASSUME q = m PROVE FALSE
      BY <1>1, <1>5, <1>6
    <3>1. n = m /\ d = 1
      BY <1>6
    <3>2. Wide!IsNeg(wide_a) /\ wide_a = m
      BY <1>1, <1>3, <3>1
    <3>3. wide_b = 2 * m - 1
      BY <1>4, <1>8, <3>1, <3>2
    <3>4. Wide!Neg(1) = 2 * m - 1
      BY <1>1, NegIs
    <3> QED
      BY <1>1, <3>2, <3>3, <3>4
  <2>3. Wide!Divdi3 \in Wide!Dwords /\ AsInt(Wide!Divdi3) = q
    BY <1>1, <1>5, <2>1, <2>2, NegIs
  <2>4. AsInt(wide_a) = AsInt(Wide!Divdi3) * AsInt(wide_b) + AsInt(Wide!Moddi3)
    <3>1. CASE Wide!IsNeg(wide_a)
      <4>1. q * (-d) = -(q * d)
        BY <1>4, <1>5, Z3
      <4>2. AsInt(wide_a) = q * (-d) + (-r)
        BY <1>3, <1>5, <3>1, <4>1
      <4>3. AsInt(wide_b) = -d /\ AsInt(Wide!Moddi3) = -r
        BY <1>4, <1>7, <1>8, <3>1
      <4> QED
        BY <2>3, <4>2, <4>3, Zenon
    <3>2. CASE ~Wide!IsNeg(wide_a)
      <4>1. AsInt(wide_a) = q * d + r
        BY <1>3, <1>5, <3>2
      <4>2. AsInt(wide_b) = d /\ AsInt(Wide!Moddi3) = r
        BY <1>4, <1>7, <1>8, <3>2
      <4> QED
        BY <2>3, <4>1, <4>2, Zenon
    <3> QED
      BY <3>1, <3>2
  <2>5. Wide!DivmodRem = Wide!Moddi3
    <3>1. Wide!Divdi3 \in Wide!Dwords /\ Wide!Moddi3 \in Wide!Dwords
      BY <1>7, <2>3
    <3>2. Wide!Wrap(wide_a - Wide!Divdi3 * wide_b) = Wide!Moddi3
      BY <1>2, <2>4, <3>1, RingRemainder, Zenon
    <3> QED
      BY <3>2, Zenon DEF Wide!DivmodRem
  <2> QED
    BY <1>4, <1>5, <1>7, <2>4, <2>5
<1>9. CASE ~(Wide!IsNeg(wide_a) <=> Wide!IsNeg(wide_b))
  <2>1. Wide!Divdi3 = Wide!Neg(q)
    BY <1>5, <1>9 DEF Wide!Divdi3, Wide!IsNeg
  <2>2. Wide!Divdi3 \in Wide!Dwords /\ AsInt(Wide!Divdi3) = -q
    BY <1>1, <1>5, <1>6, <2>1, NegIs
  <2>3. AsInt(wide_a) = AsInt(Wide!Divdi3) * AsInt(wide_b) + AsInt(Wide!Moddi3)
    <3>1. CASE Wide!IsNeg(wide_a)
      <4>1. (-q) * d = -(q * d)
        BY <1>4, <1>5, Z3
      <4>2. AsInt(wide_a) = (-q) * d + (-r)
        BY <1>3, <1>5, <3>1, <4>1
      <4>3. AsInt(wide_b) = d /\ AsInt(Wide!Moddi3) = -r
        BY <1>4, <1>7, <1>9, <3>1
      <4> QED
        BY <2>2, <4>2, <4>3, Zenon
    <3>2. CASE ~Wide!IsNeg(wide_a)
      <4>1. (-q) * (-d) = q * d
        BY <1>4, <1>5, Z3
      <4>2. AsInt(wide_a) = (-q) * (-d) + r
        BY <1>3, <1>5, <3>2, <4>1
      <4>3. AsInt(wide_b) = -d /\ AsInt(Wide!Moddi3) = r
        BY <1>4, <1>7, <1>9, <3>2
      <4> QED
        BY <2>2, <4>2, <4>3, Zenon
    <3> QED
      BY <3>1, <3>2
  <2>4. Wide!DivmodRem = Wide!Moddi3
    <3>1. Wide!Divdi3 \in Wide!Dwords /\ Wide!Moddi3 \in Wide!Dwords
      BY <1>7, <2>2
    <3>2. Wide!Wrap(wide_a - Wide!Divdi3 * wide_b) = Wide!Moddi3
      BY <1>2, <2>3, <3>1, RingRemainder, Zenon
    <3> QED
      BY <3>2, Zenon DEF Wide!DivmodRem
  <2> QED
    BY <1>4, <1>5, <1>7, <2>3, <2>4
<1> QED
  BY <1>8, <1>9

\* The signed double-word functions round towards zero (int64.c:368-404), for words of
\* any width.
THEOREM WideSignedDivides == Wide!Spec => []SignedRight
<1>1. WideInv => SignedRight
  BY SignedFromUnsigned DEF SignedRight, Wide!SignedRight, AsInt, Wide!IsNeg
<1> QED
  BY <1>1, WideInvariant, PTL
=============================================================================
