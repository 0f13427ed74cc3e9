------------------------------ MODULE Staking ------------------------------
(***************************************************************************)
(* The staking engine of pallets/basednode/src/staking.rs: the ledger of   *)
(* stake held by a personalkey (cold key) on a computekey (hot key), the   *)
(* three aggregates kept beside it, the free balances of the personalkeys  *)
(* and the three extrinsics add_stake, remove_stake and become_delegate.   *)
(*                                                                         *)
(* Storage maps with ValueQuery semantics read 0 for a key that was never  *)
(* written; the model keeps the difference between "absent" and "0"       *)
(* (value Absent) because do_swap_computekey copies only present entries. *)
(*                                                                         *)
(* The ledger is also handled as one record value L so that an extrinsic   *)
(* that applies several ledger helpers in a row (registration creates an   *)
(* account and may unstake an evicted key) composes them as functions.    *)
(***************************************************************************)
EXTENDS Naturals, FiniteSets, FiniteSetsExt

CONSTANTS
  Personalkeys,       \* cold keys: hold balance, own computekeys, stake
  Computekeys,        \* hot keys: the identities that are registered and staked on
  NoKey,              \* Owner has no entry for the computekey
  Absent,             \* a Stake / TotalComputekeyStake entry never written
  NotDelegate,        \* Delegates has no entry for the computekey
  Takes,              \* the take values a caller passes to become_delegate
  StakeAmounts,       \* the amounts passed to add_stake / remove_stake
  TxRateLimit,        \* TxRateLimit storage value (blocks)
  ExistentialDeposit  \* pallet_balances ExistentialDeposit

ASSUME Personalkeys \cap Computekeys = {}
ASSUME StakeAmounts \subseteq Nat \ {0}
ASSUME TxRateLimit \in Nat /\ ExistentialDeposit \in Nat

VARIABLES
  block,                  \* current block number (frame_system)
  owner,                  \* Owner: computekey -> personalkey
  delegates,              \* Delegates: computekey -> take
  stake,                  \* Stake: computekey -> personalkey -> amount
  totalComputekeyStake,   \* TotalComputekeyStake: computekey -> amount
  totalPersonalkeyStake,  \* TotalPersonalkeyStake: personalkey -> amount
  totalStake,             \* TotalStake
  balance,                \* free balance of each personalkey (Currency)
  lastTxBlock,            \* LastTxBlock: personalkey -> block
  totalIssuance           \* TotalIssuance

stakingVars == <<owner, delegates, stake, totalComputekeyStake,
                 totalPersonalkeyStake, totalStake, balance, lastTxBlock,
                 totalIssuance>>

(* A ValueQuery read. *)
Val(x) == IF x = Absent THEN 0 ELSE x

(* u64::saturating_sub *)
SatSub(a, b) == IF a > b THEN a - b ELSE 0

-----------------------------------------------------------------------------
(* Read accessors of staking.rs. *)

ComputekeyAccountExists(hk) == owner[hk] # NoKey

PersonalkeyOwnsComputekey(ck, hk) ==
  ComputekeyAccountExists(hk) /\ owner[hk] = ck

ComputekeyIsDelegate(hk) == delegates[hk] # NotDelegate

StakeOf(hk, ck) == Val(stake[hk][ck])

TotalStakeForComputekey(hk) == Val(totalComputekeyStake[hk])

HasEnoughStake(ck, hk, amt) == StakeOf(hk, ck) >= amt

(* exceeds_tx_rate_limit (utils.rs, outside src/): a call is refused when *)
(* fewer than TxRateLimit blocks passed since the last rate-limited call. *)
ExceedsTxRateLimit(prev, cur) ==
  TxRateLimit > 0 /\ prev # 0 /\ cur - prev < TxRateLimit

(* can_remove_balance_from_personalkey_account followed by a successful   *)
(* Currency::withdraw with ExistenceRequirement::KeepAlive.               *)
CanWithdraw(ck, amt) ==
  /\ amt <= balance[ck]
  /\ balance[ck] - amt >= ExistentialDeposit

-----------------------------------------------------------------------------
(* The ledger as a record, and the helpers that write it. *)

Ledger == [stake |-> stake, tcs |-> totalComputekeyStake,
           tps |-> totalPersonalkeyStake, total |-> totalStake,
           balance |-> balance, issuance |-> totalIssuance]

LedgerIs(L) ==
  /\ stake' = L.stake
  /\ totalComputekeyStake' = L.tcs
  /\ totalPersonalkeyStake' = L.tps
  /\ totalStake' = L.total
  /\ balance' = L.balance
  /\ totalIssuance' = L.issuance

(* Faulty variants of the helpers below: each one is a plausible slip in *)
(* the code it stands for, and a property of the model must reject it.   *)
DecreaseStakeLKeepTotal(L, ck, hk, amt) ==
  [L EXCEPT !.tps[ck] = SatSub(@, amt),
            !.tcs[hk] = SatSub(Val(@), amt),
            !.stake[hk][ck] = SatSub(Val(@), amt),
            !.issuance = SatSub(@, amt)]
DepositLDropped(L, ck, amt) == L

(* increase_stake_on_personalkey_computekey_account *)
IncreaseStakeL(L, ck, hk, amt) ==
  [L EXCEPT !.tps[ck] = @ + amt,
            !.tcs[hk] = Val(@) + amt,
            !.stake[hk][ck] = Val(@) + amt,
            !.total = @ + amt,
            !.issuance = @ + amt]

(* decrease_stake_on_personalkey_computekey_account *)
DecreaseStakeL(L, ck, hk, amt) ==
  [L EXCEPT !.tps[ck] = SatSub(@, amt),
            !.tcs[hk] = SatSub(Val(@), amt),
            !.stake[hk][ck] = SatSub(Val(@), amt),
            !.total = SatSub(@, amt),
            !.issuance = SatSub(@, amt)]

(* Currency::withdraw and Currency::deposit_creating on a personalkey. *)
WithdrawL(L, ck, amt) == [L EXCEPT !.balance[ck] = @ - amt]
DepositL(L, ck, amt) == [L EXCEPT !.balance[ck] = @ + amt]

(* create_account_if_non_existent: the Stake entry is written with 0 and   *)
(* the Owner entry set, only for a computekey without an account.          *)
CreateAccountL(L, ck, hk) ==
  IF ComputekeyAccountExists(hk) THEN L
  ELSE [L EXCEPT !.stake[hk][ck] = 0]

(* unstake_all_personalkeys_from_computekey_account: every present Stake   *)
(* entry of hk is decreased to 0 and credited back to its personalkey, in *)
(* iteration order; the decrements commute, so the order does not matter. *)
RECURSIVE UnstakeEach(_, _, _)
UnstakeEach(L, hk, cks) ==
  IF cks = {} THEN L
  ELSE LET ck == CHOOSE c \in cks : TRUE
           amt == Val(L.stake[hk][ck])
       IN UnstakeEach(DepositL(DecreaseStakeL(L, ck, hk, amt), ck, amt),
                      hk, cks \ {ck})

UnstakeAllL(L, hk) ==
  UnstakeEach(L, hk, {ck \in Personalkeys : L.stake[hk][ck] # Absent})

-----------------------------------------------------------------------------
(* The extrinsics of staking.rs.  A dispatchable that fails leaves the     *)
(* storage unchanged (FRAME rolls back a failed call), so each action has *)
(* the conditions of all its ensure! checks as its guard.                 *)

(* do_become_delegate *)
BecomeDelegate(ck, hk, take) ==
  /\ ComputekeyAccountExists(hk)
  /\ PersonalkeyOwnsComputekey(ck, hk)
  /\ ~ComputekeyIsDelegate(hk)
  /\ ~ExceedsTxRateLimit(lastTxBlock[ck], block)
  /\ delegates' = [delegates EXCEPT ![hk] = take]
  /\ lastTxBlock' = [lastTxBlock EXCEPT ![ck] = block]
  /\ UNCHANGED <<block, owner, stake, totalComputekeyStake,
                 totalPersonalkeyStake, totalStake, balance, totalIssuance>>

(* do_add_stake *)
AddStake(ck, hk, amt) ==
  /\ CanWithdraw(ck, amt)
  /\ ComputekeyAccountExists(hk)
  /\ ComputekeyIsDelegate(hk) \/ PersonalkeyOwnsComputekey(ck, hk)
  /\ ~ExceedsTxRateLimit(lastTxBlock[ck], block)
  /\ LedgerIs(IncreaseStakeL(WithdrawL(Ledger, ck, amt), ck, hk, amt))
  /\ lastTxBlock' = [lastTxBlock EXCEPT ![ck] = block]
  /\ UNCHANGED <<block, owner, delegates>>

(* do_remove_stake *)
RemoveStake(ck, hk, amt) ==
  /\ ComputekeyAccountExists(hk)
  /\ ComputekeyIsDelegate(hk) \/ PersonalkeyOwnsComputekey(ck, hk)
  /\ amt > 0
  /\ HasEnoughStake(ck, hk, amt)
  /\ ~ExceedsTxRateLimit(lastTxBlock[ck], block)
  /\ LedgerIs(DepositL(DecreaseStakeL(Ledger, ck, hk, amt), ck, amt))
  /\ lastTxBlock' = [lastTxBlock EXCEPT ![ck] = block]
  /\ UNCHANGED <<block, owner, delegates>>

StakingNext ==
  \E ck \in Personalkeys, hk \in Computekeys :
    \/ \E take \in Takes : BecomeDelegate(ck, hk, take)
    \/ \E amt \in StakeAmounts : AddStake(ck, hk, amt)
    \/ \E amt \in StakeAmounts : RemoveStake(ck, hk, amt)

=============================================================================
