------------------------- MODULE AbstractRegistry -------------------------
(***************************************************************************)
(* What the peer registry promises, without slots: each brain has a set of *)
(* member computekeys, never more than its capacity.  A key joins a brain  *)
(* with room, or takes the place of one member of a full brain; a key swap *)
(* renames a key in every brain at once, onto a key that is in none.     *)
(* Which member is evicted, and who may register, is left to the         *)
(* implementation.  Brains are not created or removed here.              *)
(***************************************************************************)
EXTENDS Naturals, FiniteSets

CONSTANTS
  Nets,         \* the brains
  Computekeys,  \* the keys that can be members
  Cap           \* netuid -> capacity (MaxAllowedUids)

VARIABLE members  \* netuid -> set of member computekeys

Join(n, hk) ==
  /\ hk \notin members[n]
  /\ Cardinality(members[n]) < Cap[n]
  /\ members' = [members EXCEPT ![n] = @ \cup {hk}]

Evict(n, old, hk) ==
  /\ old \in members[n]
  /\ hk \notin members[n]
  /\ Cardinality(members[n]) = Cap[n]
  /\ members' = [members EXCEPT ![n] = (@ \ {old}) \cup {hk}]

Rename(old, new) ==
  /\ \A n \in Nets : new \notin members[n]
  /\ members' = [n \in Nets |->
                   IF old \in members[n] THEN (members[n] \ {old}) \cup {new}
                   ELSE members[n]]

Init == members = [n \in Nets |-> {}]

Next ==
  \/ \E n \in Nets, hk \in Computekeys :
       \/ Join(n, hk)
       \/ \E old \in Computekeys : Evict(n, old, hk)
  \/ \E old, new \in Computekeys : Rename(old, new)

Spec == Init /\ [][Next]_members
====
