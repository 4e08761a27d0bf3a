-------------------------------- MODULE MCVme --------------------------------
(* Instances of Vme for TLC: a table has four entries; memory is three groups *)
(* of pages and the user area two; there are tables enough for two spaces.   *)
(* Either Main alone maps three pages, one of them to two in turn, or two     *)
(* callers preempt each other and map two.                                    *)
EXTENDS Vme, TLC
MCPmem      == 8..19
MCUserSpace == 0..7
MCPool      == 10..19
MCTwoPages  == {8, 9}
MCThreeVas  == {0, 1, 4}
SpaceSymmetry == Permutations(Spaces)

VARIABLE alone

FewMaps ==
  \A c \in {d \in Callers : req[d] # None} :
    IF alone THEN c = Main /\ (req[c].va \in {1, 4} => req[c].pa = 8)
    ELSE req[c].va \in UserSpace => req[c].va \in {0, 4} /\ req[c].pa = 8

MCInit == Init /\ alone \in BOOLEAN
MCNext == Next /\ UNCHANGED alone /\ FewMaps'
MCSpec == MCInit /\ [][MCNext]_<<vars, alone>>
=============================================================================
