--------------------------- MODULE MCSenateVotes ---------------------------
(* SenateVotes instantiated for TLC: the root network of one slot and a  *)
(* subnet of two, a senate of one seat and one open motion.  A second    *)
(* root registration replaces the root validator and swaps the senate   *)
(* member.                                                               *)
EXTENDS SenateVotes, Queries, TLC

MCNets == {0, 1}
MCMaxAllowedUids == [n \in MCNets |-> IF n = 0 THEN 1 ELSE 2]

MaxBlock == 2
StateConstraint == block <= MaxBlock

Symmetry == Permutations(Personalkeys) \cup Permutations(Computekeys)
====
