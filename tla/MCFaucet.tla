---------------------------- MODULE MCFaucet ----------------------------
(* Faucet instantiated for TLC: the registry of MCRegistry with a faucet *)
(* that may pay out twice, so a payout can follow a registration, a      *)
(* stake movement, or another payout for the same work.                  *)
EXTENDS Faucet, TLC

MCNets == {0, 1}
MCMaxAllowedUids == [n \in MCNets |-> 1]

MaxBlock == 2
StateConstraint == block <= MaxBlock

Symmetry == Permutations(Personalkeys) \cup Permutations(Computekeys)
====
