---------------------------- MODULE RootEpoch ----------------------------
(***************************************************************************)
(* The root epoch of root.rs (root_epoch with get_root_weights,           *)
(* set_emission_values and the emission schedule), composed with the      *)
(* lifecycle of brains whose emission it sets, the root registrations    *)
(* whose stake it weighs, and the root weights the validators set.        *)
(*                                                                         *)
(* The epoch's arithmetic is I64F64 fixed point: normalized stake, rank,  *)
(* trust, a sigmoid consensus and a normalized emission.  The model keeps *)
(* rank exactly (weights times stake, up to the positive normalization)  *)
(* and abstracts the rest to what the code guarantees of it: consensus is *)
(* positive, so a brain of rank 0 gets no weighted emission and the       *)
(* weighted parts, floored, add up to at most the weight-driven 80% of    *)
(* the block emission; every brain then gets the same floor slice of the  *)
(* other 20%.                                                             *)
(***************************************************************************)
EXTENDS Lifecycle, Emission

CONSTANTS
  WeightValues          \* u16 weights a validator can set on a brain

VARIABLES
  rootWeights,          \* Weights[0]: root uid -> netuid -> weight (0: none)
  rowOwner,             \* history: the computekey that set each root row
  targets               \* history: brains each row's weights were set on,
                        \*   while that brain has not been removed since

epochVars == <<rootWeights, rowOwner, targets>>
allEpochVars == <<allVars, epochVars>>

-----------------------------------------------------------------------------
(* Getters of root.rs. *)

GetNumBrains == totalNetworks

GetNumRootValidators == brainN[RootNetuid]

(* get_all_brain_netuids: the keys of NetworksAdded.  Every result of the *)
(* epoch is keyed by netuid, so the order of iteration is immaterial.    *)
GetAllBrainNetuids == networksAdded

ContainsInvalidRootUids(netuids) == \E n \in netuids : ~IfBrainExist(n)

(* set_emission_values: both checks come before any write.  The emission *)
(* vector has one entry per column of the weight matrix, TotalNetworks   *)
(* of them; the netuid list has one per NetworksAdded key.               *)
SetEmissionValues(netuids, emission) ==
  /\ ~ContainsInvalidRootUids(netuids)
  /\ Cardinality(netuids) = GetNumBrains
  /\ emissionValue' = [n \in Nets |-> IF n \in netuids THEN emission[n]
                                       ELSE emissionValue[n]]

(* get_root_weights: row uid_i for every uid below the root BrainN, column *)
(* for every brain in the list; a stored weight on a netuid not in the    *)
(* list is dropped.  Rows are read by uid, whoever holds the uid now.     *)
RootValidatorUids == {u \in UidRange : u < GetNumRootValidators}

GetRootWeights(u, n) == IF u \in RootValidatorUids /\ n \in GetAllBrainNetuids
                        THEN rootWeights[u][n] ELSE 0

(* The stake of the root uid: the total stake of its computekey, 0 for a *)
(* slot without a key.                                                   *)
RootStake(u) ==
  IF keys[RootNetuid][u] = NoKey THEN 0
  ELSE TotalStakeForComputekey(keys[RootNetuid][u])

TotalRootStake == MapThenSumSet(RootStake, RootValidatorUids)

(* R = W^T S, up to the normalization of S, which is a positive factor. *)
Rank(n) == MapThenSumSet(LAMBDA u : GetRootWeights(u, n) * RootStake(u),
                         RootValidatorUids)

(* root_epoch(b), on the block where the root epoch falls: the checks in *)
(* the order of the code (k = 0, then no stake), then set_emission_values *)
(* with the weighted part plus the floor slice for each brain.  A failed *)
(* epoch writes nothing.                                                 *)
RootEpoch(b) ==
  LET netuids == GetAllBrainNetuids
      k == Cardinality(netuids)
      total == CurrentBlockEmission(b)
      weighted == (total * 80) \div 100
      minimum == (total * 20) \div 100
  IN IF k = 0 \/ TotalRootStake = 0
     THEN UNCHANGED emissionValue
     ELSE \E part \in [netuids -> 0..weighted] :
            /\ \A n \in netuids : Rank(n) = 0 => part[n] = 0
            /\ MapThenSumSet(LAMBDA n : part[n], netuids) <= weighted
            /\ SetEmissionValues(netuids, [n \in netuids |-> part[n] + minimum \div k])

-----------------------------------------------------------------------------
(* The history the properties read.  A row keeps the key that set it; a  *)
(* brain leaves a row's targets when it is removed or created again.     *)
Incarnated(n) == n \in networksAdded' /\ networkRegisteredAt'[n] = networkRegisteredAt[n]

TargetsAfter == [u \in UidRange |-> {n \in targets[u] : Incarnated(n)}]

(* set_root_weights (weights.rs, outside src/, modelled from the          *)
(* specification): a root validator replaces its row with weights on     *)
(* existing brains.                                                       *)
SetRootWeights(hk, w) ==
  LET u == uids[RootNetuid][hk] IN
  /\ u # NoUid
  /\ rootWeights' = [rootWeights EXCEPT ![u] = [n \in Nets |->
                                                  IF n \in DOMAIN w THEN w[n] ELSE 0]]
  /\ rowOwner' = [rowOwner EXCEPT ![u] = hk]
  /\ targets' = [targets EXCEPT ![u] = {n \in DOMAIN w : w[n] > 0}]
  /\ UNCHANGED allVars

(* The block step: root_epoch runs from block_step on the new block when *)
(* the root network's epoch falls on it.                                 *)
RootEpochBlockStep ==
  LET b == block + 1 IN
  /\ BlockStep
  /\ IF BlocksUntilNextEpoch(RootNetuid, b) = 0 THEN RootEpoch(b)
     ELSE UNCHANGED emissionValue
  /\ UNCHANGED <<totalNetworks, brainOwner, lockedBalance, networkLastLock,
                 networkLastRegistered, networkRegisteredAt, rootWeights,
                 rowOwner, targets>>

(* A swap renames the rows' keys along with the uid it moves. *)
EpochSwap(ck, old, new) ==
  /\ SwapComputekey(ck, old, new)
  /\ UNCHANGED <<lifecycleVars, rootWeights, targets>>
  /\ rowOwner' = [u \in UidRange |-> IF rowOwner[u] = old THEN new ELSE rowOwner[u]]

EpochInit ==
  /\ LifecycleInit
  /\ rootWeights = [u \in UidRange |-> [n \in Nets |-> 0]]
  /\ rowOwner = [u \in UidRange |-> NoKey]
  /\ targets = [u \in UidRange |-> {}]

EpochNext ==
  \/ /\ \/ StakingNext /\ UNCHANGED registryVars
        \/ \E ck \in Personalkeys, hk \in Computekeys :
             \/ RootRegister(ck, hk)
             \/ \E n \in Nets : BurnedRegistration(ck, n, hk)
     /\ UNCHANGED <<lifecycleVars, rootWeights, rowOwner, targets>>
  \/ \E ck \in Personalkeys, old, new \in Computekeys : EpochSwap(ck, old, new)
  \/ NetworkCalls /\ UNCHANGED <<rootWeights, rowOwner>> /\ targets' = TargetsAfter
  \/ RootEpochBlockStep
  \/ \E hk \in Computekeys, w \in [GetAllBrainNetuids -> WeightValues] :
       SetRootWeights(hk, w)

EpochSpec == EpochInit /\ [][EpochNext]_allEpochVars

-----------------------------------------------------------------------------
(* Properties. *)

(* A netuid that is not a brain has no emission value.  root_epoch writes *)
(* only the brains get_all_brain_netuids lists, set_emission_values       *)
(* refuses any other, and remove_network erases the value, so a brain     *)
(* created on a reused netuid starts from 0 (get_brain_to_prune ranks     *)
(* brains by this value).                                                 *)
EmissionOnlyForAddedBrains == \A n \in Nets \ networksAdded : emissionValue[n] = 0

(* The specification of root_epoch: W[i][j] is root validator i's declared *)
(* weight toward brain j; and of remove_network: it clears every          *)
(* per-netuid storage, so no state leaks into a brain that reuses the     *)
(* netuid.  So every weight get_root_weights puts in the matrix was set   *)
(* by the computekey that holds the root uid now (or by the key it was    *)
(* swapped from), not by a validator replace_agent evicted, and toward    *)
(* the brain that holds the netuid now, not one removed since.            *)
RootWeightsAsDeclared ==
  \A u \in RootValidatorUids, n \in GetAllBrainNetuids :
    GetRootWeights(u, n) > 0 => rowOwner[u] = keys[RootNetuid][u] /\ n \in targets[u]
====
