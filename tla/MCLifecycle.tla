---------------------------- MODULE MCLifecycle ----------------------------
(* The lifecycle model, with the agent views, instantiated for TLC: four *)
(* netuids (root and three subnets) with one slot each and a brain limit *)
(* of two subnets.                                                        *)
EXTENDS Views, TLC

(* The netuids the model can use. *)
MCNets == {0, 1, 2, 3}

(* The brains of the genesis state: root and two subnets. *)
MCGenesisNets == {0, 1, 2}

(* One slot per brain: registration replaces at once. *)
MCMaxAllowedUids == [n \in MCNets |-> 1]

(* The blocks explored. *)
MaxBlock == 2

(* The largest last lock cost explored: create_or_update_network_ownership *)
(* is not rate limited and doubles the lock cost at every call.           *)
MaxLock == 4

StateConstraint == block <= MaxBlock /\ networkLastLock <= MaxLock

(* Personalkeys and computekeys are interchangeable. *)
Symmetry == Permutations(Personalkeys) \cup Permutations(Computekeys)
====
