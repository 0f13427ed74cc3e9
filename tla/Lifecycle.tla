---------------------------- MODULE Lifecycle ----------------------------
(***************************************************************************)
(* The network lifecycle of root.rs, composed with the registry: brains    *)
(* are created by user_add_network (which prunes one when the limit is    *)
(* reached) or by the root call create_or_update_network_ownership, and   *)
(* removed by user_remove_network; remove_network refunds the locked      *)
(* balance to the brain's owner and erases the brain's storage.  The root *)
(* epoch writes the emission values that get_brain_to_prune ranks by.    *)
(*                                                                         *)
(* The brain parameters init_new_network sets (MaxAllowedUids, immunity,  *)
(* tempo, ...) are constants of the model, so writing their defaults     *)
(* again on creation is not a state change here.                          *)
(***************************************************************************)
EXTENDS Registry, SequencesExt

CONSTANTS
  MaxBrains,              \* BrainLimit
  NetworkRateLimit,       \* NetworkRateLimit (blocks between creations)
  NetworkMinLock,         \* NetworkMinLockCost
  LockReductionInterval,  \* NetworkLockReductionInterval
  NetworkImmunityPeriod,  \* NetworkImmunityPeriod
  InitialLastLock,        \* NetworkLastLockCost at genesis
  EmissionValueSet,       \* emission values a root epoch can assign
  NewBrainMinBurn         \* the MinBurn init_new_network sets (1 rao)

ASSUME LockReductionInterval \in Nat \ {0}
ASSUME Nets \subseteq 0..1024

VARIABLES
  totalNetworks,          \* TotalNetworks (u16)
  brainOwner,             \* BrainOwner: netuid -> personalkey
  lockedBalance,          \* BrainLockedBalance: netuid -> amount
  networkLastLock,        \* NetworkLastLockCost
  networkLastRegistered,  \* NetworkLastRegistered (the last lock block)
  networkRegisteredAt,    \* NetworkRegisteredAt: netuid -> block
  emissionValue           \* EmissionValues: netuid -> emission

lifecycleVars == <<totalNetworks, brainOwner, lockedBalance, networkLastLock,
                   networkLastRegistered, networkRegisteredAt, emissionValue>>

allVars == <<vars, lifecycleVars>>

U16Wrap(x) == x % 65536   \* u16 arithmetic without overflow checks

-----------------------------------------------------------------------------
(* get_network_lock_cost: the last lock, doubled once any lock happened,  *)
(* less a linear decay since the last lock block, floored at the minimum. *)
NetworkLockCost ==
  LET mult == IF networkLastRegistered = 0 THEN 1 ELSE 2
      cost == SatSub(networkLastLock * mult,
                     (networkLastLock \div LockReductionInterval)
                       * SatSub(block, networkLastRegistered))
  IN IF cost < NetworkMinLock THEN NetworkMinLock ELSE cost

(* get_brain_to_prune.  The candidates are the brains after key 0 in the  *)
(* iteration order of NetworksAdded (ascending netuid for the Identity    *)
(* hasher) whose age is not below the immunity period.  sort_by is a     *)
(* stable sort; for vectors this short the standard library sorts by     *)
(* insertion, moving an element left while is_less holds.  is_less(a, b) *)
(* is "the comparator returns Less": emission of b below that of a, or   *)
(* equal emission and b registered before a.  The last element wins.     *)
BrainIsLessYoungerFirst(a, b) ==
  \/ emissionValue[b] < emissionValue[a]
  \/ /\ emissionValue[b] = emissionValue[a]
     /\ networkRegisteredAt[a] < networkRegisteredAt[b]

BrainIsLess(a, b) ==
  \/ emissionValue[b] < emissionValue[a]
  \/ /\ emissionValue[b] = emissionValue[a]
     /\ networkRegisteredAt[b] < networkRegisteredAt[a]

RECURSIVE InsertTail(_, _)
InsertTail(s, x) ==
  IF s = <<>> \/ ~BrainIsLess(x, Last(s)) THEN Append(s, x)
  ELSE Append(InsertTail(Front(s), x), Last(s))

PruneCandidates ==
  SelectSeq(SetToSortSeq(networksAdded \ {RootNetuid}, <),
            LAMBDA n : ~(SatSub(block, networkRegisteredAt[n]) < NetworkImmunityPeriod))

GetBrainToPrune ==
  LET sorted == FoldLeft(InsertTail, <<>>, PruneCandidates) IN
  IF sorted = <<>> THEN 0 ELSE Last(sorted)

(* if_brain_exist (root.rs) *)
IfBrainExist(n) == n \in networksAdded

-----------------------------------------------------------------------------
(* The storage a brain's creation and removal write, as one record, so    *)
(* that user_add_network can apply remove_network and init_new_network   *)
(* in a row.                                                              *)
Net == [brainN |-> brainN, added |-> networksAdded, total |-> totalNetworks,
        uids |-> uids, keys |-> keys, score |-> pruningScore,
        emission |-> emissionValue, regs |-> registrationsThisInterval,
        pow |-> powRegistrationsThisInterval,
        burn |-> burnRegistrationsThisInterval, balance |-> balance,
        locked |-> lockedBalance, owner |-> brainOwner,
        regAt |-> networkRegisteredAt, difficulty |-> difficulty,
        minBurn |-> minBurn, minDifficulty |-> minDifficulty,
        maxDifficulty |-> maxDifficulty]

NetIs(S) ==
  /\ brainN' = S.brainN /\ networksAdded' = S.added /\ totalNetworks' = S.total
  /\ uids' = S.uids /\ keys' = S.keys /\ pruningScore' = S.score
  /\ emissionValue' = S.emission /\ registrationsThisInterval' = S.regs
  /\ powRegistrationsThisInterval' = S.pow
  /\ burnRegistrationsThisInterval' = S.burn /\ balance' = S.balance
  /\ lockedBalance' = S.locked /\ brainOwner' = S.owner
  /\ networkRegisteredAt' = S.regAt /\ difficulty' = S.difficulty
  /\ minBurn' = S.minBurn /\ minDifficulty' = S.minDifficulty
  /\ maxDifficulty' = S.maxDifficulty

(* Faulty variants of the helpers below. *)
RemoveNetworkSNoRefund(S, n) ==
  [S EXCEPT !.brainN[n] = 0, !.added = @ \ {n}, !.total = U16Wrap(@ + 65535),
            !.regAt[n] = 0, !.uids[n] = [hk \in Computekeys |-> NoUid],
            !.keys[n] = [u \in UidRange |-> NoKey],
            !.score[n] = [u \in UidRange |-> 0], !.emission[n] = 0,
            !.regs[n] = 0, !.pow[n] = 0, !.burn[n] = 0,
            !.difficulty[n] = InitialDifficulty,
            !.locked[n] = 0, !.owner[n] = NoKey]
RemoveNetworkSKeepEmission(S, n) ==
  LET o == S.owner[n] IN
  [S EXCEPT !.brainN[n] = 0, !.added = @ \ {n}, !.total = U16Wrap(@ + 65535),
            !.regAt[n] = 0, !.uids[n] = [hk \in Computekeys |-> NoUid],
            !.keys[n] = [u \in UidRange |-> NoKey],
            !.score[n] = [u \in UidRange |-> 0],
            !.regs[n] = 0, !.pow[n] = 0, !.burn[n] = 0,
            !.difficulty[n] = InitialDifficulty,
            !.balance = IF o \in Personalkeys THEN [@ EXCEPT ![o] = @ + S.locked[n]]
                        ELSE @,
            !.locked[n] = 0, !.owner[n] = NoKey]
RemoveNetworkSKeepUids(S, n) ==
  [RemoveNetworkSKeepEmission(S, n) EXCEPT !.uids[n] = S.uids[n], !.emission[n] = 0]
RemoveNetworkSKeepBurnCount(S, n) ==
  [RemoveNetworkSKeepEmission(S, n) EXCEPT !.burn[n] = S.burn[n], !.emission[n] = 0]
RemoveNetworkSKeepBrainN(S, n) ==
  [RemoveNetworkSKeepEmission(S, n) EXCEPT !.brainN[n] = S.brainN[n], !.emission[n] = 0]
InitNewNetworkSNoCount(S, n) ==
  [S EXCEPT !.brainN[n] = 0, !.added = @ \cup {n}, !.minBurn[n] = NewBrainMinBurn,
            !.minDifficulty[n] = U64Max, !.maxDifficulty[n] = U64Max]

(* remove_network.  The owner's refund goes to an account outside the     *)
(* model when the brain has no owner (its locked balance is then 0).      *)
(* IsNetworkMember, BlockAtRegistration, RegistrationsThisBlock, Burn and *)
(* the burn and difficulty bounds are not erased, and the registered keys *)
(* are not unstaked.  Difficulty is removed: it reads as its default.     *)
RemoveNetworkS(S, n) ==
  LET o == S.owner[n] IN
  [S EXCEPT !.brainN[n] = 0, !.added = @ \ {n}, !.total = U16Wrap(@ + 65535),
            !.regAt[n] = 0, !.uids[n] = [hk \in Computekeys |-> NoUid],
            !.keys[n] = [u \in UidRange |-> NoKey],
            !.score[n] = [u \in UidRange |-> 0], !.emission[n] = 0,
            !.regs[n] = 0, !.pow[n] = 0, !.burn[n] = 0,
            !.difficulty[n] = InitialDifficulty,
            !.balance = IF o \in Personalkeys THEN [@ EXCEPT ![o] = @ + S.locked[n]]
                        ELSE @,
            !.locked[n] = 0, !.owner[n] = NoKey]

(* init_new_network: the counters, the difficulty and the emission are   *)
(* inserted with the value they read, which leaves them as they are; the  *)
(* minimum burn drops to 1 rao and both difficulty bounds go to u64::MAX, *)
(* without clamping the difficulty the brain has now.                     *)
InitNewNetworkS(S, n) ==
  [S EXCEPT !.brainN[n] = 0, !.added = @ \cup {n}, !.total = U16Wrap(@ + 1),
            !.minBurn[n] = NewBrainMinBurn,
            !.minDifficulty[n] = U64Max, !.maxDifficulty[n] = U64Max]

-----------------------------------------------------------------------------
(* The lifecycle calls.  Every ensure! is a conjunct of the guard.        *)

(* The registry variables no lifecycle call writes. *)
untouchedByLifecycle ==
  <<block, owner, delegates, stake, totalComputekeyStake,
    totalPersonalkeyStake, totalStake, totalIssuance, lastTxBlock, isNetworkMember,
    blockAtRegistration, registrationsThisBlock, usedWork, senate, burned, burn>>

(* user_add_network.  While the subnets are below the limit the smallest   *)
(* free netuid above 0 is taken; the model's netuids are Nets, so the     *)
(* call is disabled when Nets has none free.  At the limit the brain      *)
(* get_brain_to_prune returns is removed (its owner refunded) and reused; *)
(* 0 means every brain is immune.  The balance check comes before the     *)
(* refund, the withdrawal after it.                                       *)
UserAddNetwork(ck) ==
  LET lock == NetworkLockCost
      room == SatSub(totalNetworks, 1) < MaxBrains
      free == {m \in Nets \ {RootNetuid} : m \notin networksAdded}
      n == IF room THEN Min(free) ELSE GetBrainToPrune
      S0 == IF room THEN Net ELSE RemoveNetworkS(Net, n)
      S1 == InitNewNetworkS([S0 EXCEPT !.balance[ck] = @ - lock,
                                       !.locked[n] = lock], n)
  IN
  /\ SatSub(block, networkLastRegistered) >= NetworkRateLimit
  /\ CanWithdraw(ck, lock)
  /\ room => free # {}
  /\ ~room => GetBrainToPrune > 0
  /\ NetIs([S1 EXCEPT !.regAt[n] = block, !.owner[n] = ck])
  /\ networkLastLock' = lock
  /\ networkLastRegistered' = block
  /\ UNCHANGED untouchedByLifecycle

(* user_remove_network *)
UserRemoveNetwork(ck, n) ==
  /\ n \in networksAdded
  /\ brainOwner[n] = ck
  /\ NetIs(RemoveNetworkS(Net, n))
  /\ UNCHANGED <<networkLastLock, networkLastRegistered>>
  /\ UNCHANGED untouchedByLifecycle

(* A faulty variant of the call below, without the lower netuid bound. *)
CreateOrUpdateNetworkOwnershipAnyNetuid(n, o) ==
  LET S == IF n \in networksAdded THEN Net
           ELSE [InitNewNetworkS(Net, n) EXCEPT !.regAt[n] = block]
  IN
  /\ n <= 1024
  /\ NetIs([S EXCEPT !.owner[n] = o])
  /\ networkLastLock' = NetworkLockCost
  /\ networkLastRegistered' = block
  /\ UNCHANGED untouchedByLifecycle

(* create_or_update_network_ownership, a root call.  The rate limit and   *)
(* the lock are commented out in the code: the lock cost is computed and  *)
(* recorded as the last lock, but nothing is withdrawn or locked, and the *)
(* brain limit is not checked.                                            *)
CreateOrUpdateNetworkOwnership(n, o) ==
  LET S == IF n \in networksAdded THEN Net
           ELSE [InitNewNetworkS(Net, n) EXCEPT !.regAt[n] = block]
  IN
  /\ 1 <= n /\ n <= 1024
  /\ NetIs([S EXCEPT !.owner[n] = o])
  /\ networkLastLock' = NetworkLockCost
  /\ networkLastRegistered' = block
  /\ UNCHANGED untouchedByLifecycle

(* The block step, with the root epoch (root_epoch, run from block_step   *)
(* outside src/) on the blocks where the root network's epoch falls: it   *)
(* sets the emission value of every brain, or fails and sets none.        *)
LifecycleBlockStep ==
  /\ BlockStep
  /\ \/ UNCHANGED emissionValue
     \/ /\ BlocksUntilNextEpoch(RootNetuid, block + 1) = 0
        /\ \E e \in [networksAdded -> EmissionValueSet] :
             emissionValue' = [n \in Nets |->
                                 IF n \in networksAdded THEN e[n] ELSE emissionValue[n]]
  /\ UNCHANGED <<totalNetworks, brainOwner, lockedBalance, networkLastLock,
                 networkLastRegistered, networkRegisteredAt>>

-----------------------------------------------------------------------------

LifecycleInit ==
  /\ Init
  /\ totalNetworks = Cardinality(GenesisNets)
  /\ brainOwner = [n \in Nets |-> NoKey]
  /\ lockedBalance = [n \in Nets |-> 0]
  /\ networkLastLock = InitialLastLock
  /\ networkLastRegistered = 0
  /\ networkRegisteredAt = [n \in Nets |-> 0]
  /\ emissionValue = [n \in Nets |-> 0]

NetworkCalls ==
  \/ \E ck \in Personalkeys : UserAddNetwork(ck)
  \/ \E ck \in Personalkeys, n \in Nets : UserRemoveNetwork(ck, n)
  \/ \E n \in Nets, o \in Personalkeys : CreateOrUpdateNetworkOwnership(n, o)

(* Every registry call leaves the lifecycle state alone. *)
LifecycleNext ==
  \/ (CoreCalls \/ Swap) /\ UNCHANGED lifecycleVars
  \/ LifecycleBlockStep
  \/ NetworkCalls

LifecycleSpec == LifecycleInit /\ [][LifecycleNext]_allVars

(* The lifecycle with burned registration as the only registry call: the  *)
(* calls that fill brains and move balance, without the staking and PoW   *)
(* paths the registry runs check.                                         *)
NetworksNext ==
  \/ \E ck \in Personalkeys, hk \in Computekeys, n \in Nets :
       BurnedRegistration(ck, n, hk) /\ UNCHANGED lifecycleVars
  \/ LifecycleBlockStep
  \/ NetworkCalls

NetworksSpec == LifecycleInit /\ [][NetworksNext]_allVars

-----------------------------------------------------------------------------
(* Properties. *)

(* No token is created or lost once brains lock balance: free balances,   *)
(* stake, burned tokens and the balances locked by user_add_network add   *)
(* up to the genesis supply.  remove_network must refund exactly what the *)
(* brain locked, also when user_add_network removes a brain and locks the *)
(* caller's balance on the same netuid in one call, and also after        *)
(* create_or_update_network_ownership has handed the brain to a new owner.*)
LockedTokensConserved ==
  MapThenSumSet(LAMBDA ck : balance[ck], Personalkeys)
    + MapThenSumSet(StakeOfKey, Computekeys) + burned
    + MapThenSumSet(LAMBDA n : lockedBalance[n], Nets)
    = Supply

(* TotalNetworks, which decides whether user_add_network may create a      *)
(* brain or must prune one, counts the brains that exist: every creation  *)
(* path goes through init_new_network and every removal through           *)
(* remove_network, whose unchecked decrement must never wrap.             *)
NetworksCounted == totalNetworks = Cardinality(networksAdded)

(* The interval counters the adjustment reads agree: on every subnet the  *)
(* registrations this interval are the PoW ones plus the burned ones.     *)
(* Both registrations count twice, the block step resets the three at    *)
(* once, and remove_network must erase all three, also when               *)
(* user_add_network removes a brain and creates one on its netuid within *)
(* the interval the old brain had registrations in.                      *)
RegistrationCountersAgree ==
  \A n \in Nets \ {RootNetuid} :
    registrationsThisInterval[n]
      = powRegistrationsThisInterval[n] + burnRegistrationsThisInterval[n]

(* Netuid 0 is always the root network: no call removes it.  Two checks  *)
(* keep it: create_or_update_network_ownership refuses netuid 0, so root  *)
(* never has an owner who could call user_remove_network, and             *)
(* user_add_network refuses to prune when get_brain_to_prune returns 0.   *)
RootNetworkPersists == RootNetuid \in networksAdded

(* get_brain_to_prune as the specification states it: among the brains    *)
(* out of their immunity period, the lowest emission value, and of those  *)
(* the oldest (earliest registration block); 0 when none qualifies.  The  *)
(* code reaches it by sorting with a comparator that orders descending    *)
(* and returns Equal where it means Greater, then taking the last element.*)
SpecBrainsToPrune ==
  LET cand == {n \in networksAdded \ {RootNetuid} :
                 SatSub(block, networkRegisteredAt[n]) >= NetworkImmunityPeriod}
      low == {n \in cand : \A m \in cand : emissionValue[n] <= emissionValue[m]}
      old == {n \in low : \A m \in low : networkRegisteredAt[n] <= networkRegisteredAt[m]}
  IN IF cand = {} THEN {0} ELSE old

BrainToPruneAsSpecified == GetBrainToPrune \in SpecBrainsToPrune

(* The specification of remove_network: afterwards every per-netuid       *)
(* storage entry of the brain is empty, so no state leaks into a brain    *)
(* that later reuses the netuid.  In particular no computekey is still a  *)
(* member (IsNetworkMember) of a brain that does not exist.               *)
RemovedNetworkLeavesNoMembers ==
  \A hk \in Computekeys : isNetworkMember[hk] \subseteq networksAdded

====
