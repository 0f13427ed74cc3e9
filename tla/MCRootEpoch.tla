---------------------------- MODULE MCRootEpoch ----------------------------
(* The root epoch instantiated for TLC: the root network with one slot,  *)
(* one subnet at genesis and a free netuid, a brain limit of one subnet  *)
(* so that user_add_network prunes and reuses a netuid, and two          *)
(* computekeys that compete for the root slot.                           *)
EXTENDS RootEpoch, TLC

MCNets == {0, 1, 2}
MCGenesisNets == {0, 1}
MCMaxAllowedUids == [n \in MCNets |-> 1]

MaxBlock == 2
MaxLock == 4
StateConstraint == block <= MaxBlock /\ networkLastLock <= MaxLock

Symmetry == Permutations(Personalkeys) \cup Permutations(Computekeys)
====
