---------------------------- MODULE MCServing ----------------------------
(* Serving instantiated for TLC: subnet 1 exists and netuid 0 is not    *)
(* added, so a serve on it is a call on a missing brain.  Two computekeys *)
(* of one personalkey: a key serves, is evicted or swapped, and the other *)
(* key takes its slot.                                                    *)
EXTENDS Serving, TLC

MCNets == {0, 1}
MCGenesisNets == {1}
MCMaxAllowedUids == [n \in MCNets |-> 1]

(* u32::MAX and u128::MAX scaled into TLC's integers, above 0x7f000001. *)
MCU32Max == 2147483000
MCU128Max == 2147483647

MaxBlock == 3
StateConstraint == block <= MaxBlock

Symmetry == Permutations(Computekeys)
====
