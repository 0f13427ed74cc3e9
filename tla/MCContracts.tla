--------------------------- MODULE MCContracts ---------------------------
(* Contracts instantiated for TLC: one brain, two token contracts, two   *)
(* holders besides the zero address, and a u128 scaled to 8 values so    *)
(* that a wrapped entry is a state TLC reaches.                          *)
EXTENDS Contracts, TLC

Symmetry == Permutations(TokenContracts) \cup Permutations(Holders \ {Zero})
====
