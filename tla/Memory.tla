------------------------------- MODULE Memory -------------------------------
(* The memory that functions of klib/src/string.c work on.  Address 0 is    *)
(* NULL.                                                                    *)
EXTENDS Integers

CONSTANTS
  M,    \* memory is 1..M
  Byte  \* what a byte of it can be, NUL = 0 among them

ASSUME MemoryAssumption == M \in Nat /\ Byte \subseteq Nat /\ 0 \in Byte

Addr == 1..M
=============================================================================
