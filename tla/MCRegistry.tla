---------------------------- MODULE MCRegistry ----------------------------
(* Registry instantiated for TLC.  The cfg files give two personalkeys,  *)
(* two or three computekeys, the root network and one subnet, one stake   *)
(* unit and periods of one or two blocks, so that registrations fill a    *)
(* brain and evict within the first blocks.                               *)
EXTENDS Registry, TLC

MCNets == {0, 1}
MCMaxAllowedUids == [n \in MCNets |-> 1]

(* A subnet of two slots, so that get_agent_to_prune chooses between uids. *)
MCPruneMaxAllowedUids == [n \in MCNets |-> IF n = 0 THEN 1 ELSE 2]

(* The model stops at block MaxBlock. *)
MaxBlock == 3
StateConstraint == block <= MaxBlock

(* Personalkeys start with equal balances and computekeys are            *)
(* interchangeable names, so both sets are symmetric.                     *)
Symmetry == Permutations(Personalkeys) \cup Permutations(Computekeys)
====
