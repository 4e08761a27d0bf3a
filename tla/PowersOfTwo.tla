---------------------------- MODULE PowersOfTwo ----------------------------
(* Words of W bits, and the powers of two by which code shifts them, given  *)
(* as a function so that proofs can take its steps.                         *)
EXTENDS Integers

CONSTANTS
  W,    \* the bits of a word
  Pow   \* the powers of two, Pow[k] = 2^k

ASSUME WordAssumption ==
  /\ W \in Nat /\ W >= 2
  /\ Pow \in [0..W -> Nat \ {0}] /\ Pow[0] = 1
  /\ \A k \in 0..(W - 1) : Pow[k + 1] = 2 * Pow[k]

Unsigned == 0..(Pow[W] - 1)
Int_     == (-Pow[W - 1])..(Pow[W - 1] - 1)
=============================================================================
