# TLA+ model of the basednode pallet

This directory holds TLA+ modules of the `basednode` FRAME pallet
(`src/pallets/basednode/src`), the TLC configurations that check them,
and `PROJECT.json`, the machine-readable index of components, runs,
mutants, the source map, findings and hazards.

## The system

The pallet runs inside a Substrate runtime. Every extrinsic is one
*transactional* dispatch: a failed `ensure!` rolls back every storage write
of the call. So the model treats each failing call as a step that does not
happen. Each action's guard is the conjunction of all of the call's checks,
including checks the code makes after it has written storage.

The system has these parts.

* **Staking engine** (`staking.rs`). Personalkeys (cold keys) hold free
  balance. They stake on computekeys (hot keys), and three aggregates are
  kept beside the `Stake` double map: `TotalComputekeyStake`,
  `TotalPersonalkeyStake` and `TotalStake`. Stake can be added only to a key
  that has an `Owner`, and only by its owner or when the key is a delegate.
* **Peer registry** (`uids.rs`). Each brain (subnetwork, `netuid`) has
  slots 0..BrainN-1. `Keys` and `Uids` map a slot to its computekey and
  back, and `IsNetworkMember` records the brains a key is on.
  `append_agent` fills the next slot. `replace_agent` evicts a slot's key,
  and unstakes it if the key is registered nowhere else.
* **Registration** (`registration.rs`):
  * burned registration, which burns a cost;
  * PoW registration, which takes a seal of a recent block;
  * `get_agent_to_prune`, which chooses the slot to evict in a full brain;
  * the computekey swap.
* **Root network and senate** (`root.rs`, runtime `lib.rs`). Netuid 0 is
  the root. A key joins it when there is room, or by out-staking the
  lowest-staked root validator. Each root registration also adds or swaps
  the key into the senate, a `pallet_membership` instance of at most
  `SenateMaxMembers` members.
* **Network lifecycle** (`root.rs`). `user_add_network` creates a brain
  on the smallest free netuid. At `BrainLimit` it instead removes the
  brain `get_brain_to_prune` picks, which is the lowest emission, then the
  oldest. It locks the caller's balance at `get_network_lock_cost`.
  `user_remove_network` removes a brain the caller owns. The root call
  `create_or_update_network_ownership` creates a brain or changes its
  owner, without a lock. `remove_network` refunds the lock and erases the
  brain's storage.
* **Root epoch** (`root.rs`). On the root network's epoch block,
  `root_epoch` reads the root validators' weights (`get_root_weights`) and
  their stake, and writes each brain's emission value
  (`set_emission_values`). The block emission halves every
  `BLOCKS_PER_YEAR` blocks. The emission values feed the network pruning.
* **Senate voting** (`do_vote_root` in `root.rs`, the adapters in runtime
  `lib.rs`). A senate member's owner votes on Triumvirate motions. A member
  that root registration swaps out loses its votes.
* **Faucet** (`do_faucet`, behind the `pow-faucet` feature). It pays a fixed
  amount for a PoW seal of the caller's own key and raises
  `TotalIssuance`.
* **Serving** (`serving.rs`). A registered key advertises its brainport
  and prometheus endpoints, within a per-brain rate limit. The key swap
  moves its brainport records.
* **Brain-linked ERC20 mirror** (`brain_contract_created`,
  `brain_contract_balance_change` in `root.rs`). The root origin records a
  token contract for a brain and relays the token's transfers into
  `BrainOwnerByTokenBalanceCut`.
* **Block step** (`block_step.rs`, not in this source tree). It resets the
  per-block counters every block and the per-interval counters once per
  adjustment interval. It runs each brain's epoch, which rewrites the
  pruning scores, and adjusts burn and difficulty.
* **Query layer** (`agent_info.rs`, `stake_info.rs`): read-only views the
  runtime API serves to RPC callers. The agent views are modelled.
* **Node and RPC** (`tft_enforcer_data.rs`, `node/`, `rpc`,
  `runtime-api`): I/O and wiring, out of scope.

How the parts interact:

* Registration writes the staking ledger: it creates the account and, on
  eviction, unstakes the evicted key.
* Root registration reads stake to choose whom to replace, and writes the
  senate.
* The swap rewrites every map keyed by a computekey.
* The block step reopens registration and changes who is evicted next.
* The lifecycle removes and reuses netuids under the registry's slot
  tables. It moves balance in and out of brain locks.
* The root epoch reads root registrations, stake and root weights, and its
  emission values decide which brain the lifecycle prunes.
* The senate step of root registration clears the votes of the member it
  swaps out.
* The faucet and PoW registration share `UsedWork`.
* Serving reads registry membership; the swap moves serving records.
* The agent views read the slot tables, `Owner` and `Stake`.

## Modules

| Module | Models | State |
|---|---|---|
| `Staking` | `staking.rs`: `do_become_delegate`, `do_add_stake`, `do_remove_stake`, and the ledger helpers as operators on a ledger record `L` | `owner`, `delegates`, `stake`, `totalComputekeyStake`, `totalPersonalkeyStake`, `totalStake`, `balance`, `lastTxBlock`, `totalIssuance`, `block` |
| `Registry` (EXTENDS `Staking`) | `uids.rs`, `do_burned_registration`, `do_registration`, `get_agent_to_prune`, `do_swap_computekey`, `do_root_register` with the senate step, and the block step | `networksAdded`, `brainN`, `keys`, `uids`, `isNetworkMember`, `pruningScore`, `blockAtRegistration`, the four registration counters, `burn`, `minBurn`, `difficulty`, `minDifficulty`, `maxDifficulty`, `usedWork`, `senate`, and `burned` (a history variable: total burned) |
| `AbstractRegistry` | What the registry promises: each brain is a set of member keys within a capacity. Its actions are `Join` (when there is room), `Evict` (exactly one member, and only when full) and `Rename` (in every brain at once, onto a fresh key) | `members` |
| `Faucet` (EXTENDS `Registry`) | `do_faucet` with the registry it shares balances, `TotalIssuance` and `UsedWork` with | `issued` (a history variable: what the faucet paid out) |
| `SenateVotes` (EXTENDS `Registry`) | `do_vote_root`; the runtime's `ManageSenateMembers` and `TriumvirateVotes` adapters; the vote clearing of the senate step | `votes` (proposal -> computekey -> aye, nay or none) |
| `Serving` (EXTENDS `Registry`) | `do_serve_brainport`, `do_serve_prometheus`, their validity and rate-limit helpers, and the `Brainports` step of the swap | `brainports`, `prometheus` (the block of each record), `servedAt` (a history variable: the block of each key's own last brainport serve) |
| `Lifecycle` (EXTENDS `Registry`) | `user_add_network`, `user_remove_network`, `create_or_update_network_ownership`, `remove_network`, `init_new_network`, `get_network_lock_cost`, `get_brain_to_prune` | `totalNetworks`, `brainOwner`, `lockedBalance`, `networkLastLock`, `networkLastRegistered`, `networkRegisteredAt`, `emissionValue` |
| `Emission` | `get_block_emission`'s halving schedule as the RECURSIVE operator `Halve` | none |
| `RootEpoch` (EXTENDS `Lifecycle`, `Emission`) | `root_epoch`, `get_root_weights`, `set_emission_values`, the getters they use, and root weight setting | `rootWeights`, and the history variables `rowOwner` and `targets` |
| `Contracts` | `brain_contract_created`, `brain_contract_balance_change`, and the ERC20 token whose transfers are relayed | `brainContract`, `cut`, `token`, `supply`, and the history variable `tracked` |
| `Queries` (EXTENDS `Registry`) | `get_stake_info_for_personalkey(s)` of `stake_info.rs` and `get_tft_enforcer_data` of `tft_enforcer_data.rs` as operators over the state | none |
| `Views` (EXTENDS `Lifecycle`, `Queries`) | `get_agents`, `get_agent`, `get_agents_lite`, `get_agent_lite` of `agent_info.rs` as operators over the state | none |
| `MC*` | TLC instances: the model's netuids, uid limits, the block bound and symmetry | |

Correspondence with the code:

* **Storage maps.** Each storage map is a function. A `ValueQuery` map
  whose code distinguishes an absent entry from 0 (`Stake`,
  `TotalComputekeyStake`, via `try_get`/`iter_prefix`;
  `BrainOwnerByTokenBalanceCut` via `get`) uses the model value `Absent`.
* **Failed calls.** A dispatch is transactional, so each `ensure!` and
  early error is a guard conjunct, and a failing call is no step.
* **Composed helpers.** A call that applies several ledger helpers in a row
  composes them as functions of the ledger record. For example, a burned
  registration that evicts does `WithdrawL`, then `CreateAccountL`, then
  `ReplaceAgentL`.
* **PoW seal.** The seal is the triple it hashes: `<<BlockHash(bn), nonce,
  hk>>`. Hashes are treated as injective. `BlockHash(block)` is `ZeroHash`,
  because frame_system has not yet stored the hash of the block being
  executed. The seal's number stands for the hash, and
  `hash_meets_difficulty` (the product overflows U256) is
  `hash * difficulty < HashSpace`, with `HashSpace` a scaled 2^256. In
  `MCFaucet.cfg` (`HashSpace` 16, nonce 7) the seal meets difficulty 1
  and 2 and fails 3, so an adjustment can shut PoW registration off.
* **Choices made in hash order.** `do_root_register` picks the first
  lowest-staked root uid in the iteration order of `Keys`; the senate step
  picks the last of the members sorted by stake. The model lets either
  choice be any of the tied candidates.
* **Block step** (not in this source tree, modelled from the
  specification). `BlockStep` advances the block, resets
  `RegistrationsThisBlock`, resets the interval counters every
  `AdjustmentInterval` blocks, and on each brain whose epoch falls gives
  every filled uid a pruning score from `PruningScoreValues`. At an
  interval boundary it adjusts `Burn` and `Difficulty` of every brain
  (`AdjustedTerm`): the new value is `cur * (regs + target) / (2 target)`,
  averaged with `cur` by `AdjustmentAlpha / u64::MAX` and clamped to the
  brain's `[min, max]`. `u64::MAX` is scaled to `U64Max`; the runtime sets
  `AdjustmentAlpha` to 0. Which term moves follows the pallet's tests
  (`AdjustsBurn`, `AdjustsDifficulty`): above the target the mechanism
  most registrations used is adjusted, at or below it the other one, and
  a tie adjusts both. The specification's text says only that the
  majority mechanism is adjusted; the model follows the tests, which
  exercise the code.
* **get_brain_to_prune.** The candidates are in ascending netuid order (the
  `Identity` hasher's order). `sort_by` is modelled as the insertion sort
  the standard library uses on short slices (`InsertTail`) with the code's
  comparator (`BrainIsLess`); the winner is the last element.
* **Root epoch.** The fixed-point pipeline is abstracted to what the code
  guarantees of it: rank is kept exactly (weights times stake), a brain of
  rank 0 gets no weighted emission, the weighted parts add up to at most
  80% of the block emission, and every brain gets the same floor share of
  the other 20%. `set_emission_values` keeps both of its checks.
* **Senate votes.** `pallet_collective` is reduced to its `Voting` map and
  the `DuplicateVote` check. The senate step calls `swap_member`, whose
  adapter removes the leaving member's votes, and then `remove_votes`
  again; the model applies both.
* **Serving records.** The endpoint fields are checked on the way in and
  never read, so a record is the block it was served at. IP addresses are
  compared with scaled `U32Max`/`U128Max` that keep every order the code
  relies on.
* **ERC20 mirror.** The token is outside the runtime and modelled by
  ERC20's rules: a transfer moves at most the sender's balance, and a mint
  is a transfer from `Zero`. Each transfer is relayed in the step it
  happens. The mirror's u128 arithmetic wraps modulo the scaled
  `U128Modulus`.

## Runs

| Run | Module / cfg | Expect | Checks |
|---|---|---|---|
| `registry_core` | `MCFaucet` / `MCFaucet.cfg` | pass | `TypeOK`, `StakeAggregatesConsistent`, `IssuanceMatchesBalances`, `RegistryConsistent`, `RegisteredKeysOwnedAndRootDelegated`, `DeregistrationRefundsStake` under staking, all registrations, evictions, root and senate, the block step and the faucet (no swap) |
| `senate_votes` | `MCSenateVotes` / `MCSenateVotes.cfg` | pass | `EnforcerDataMatchesLedger`, `PruneChoiceAsSpecified`, `RegistryConsistent`, `RegisteredKeysOwnedAndRootDelegated`, `VotesOnlyBySenate`, `RegistryRefinesAbstract`, with the swap and root votes |
| `lifecycle` | `MCLifecycle` / `MCLifecycle.cfg` | pass | `EnforcerDataMatchesLedger`, `RootNetworkPersists`, `LockedTokensConserved`, `NetworksCounted`, `RegistrationCountersAgree`, `BrainToPruneAsSpecified`, `AgentsViewMatchesRegistry` |
| `root_epoch` | `MCRootEpoch` / `MCRootEpoch.cfg` | pass | `EmissionOnlyForAddedBrains` |
| `serve_rate_limit_swap` | `MCServing` / `MCServing.cfg` | violation | `ServingRateLimitPerKey` |
| `contracts` | `MCContracts` / `MCContracts.cfg` | pass | `MirrorMatchesToken` |
| `work_replay` | `MCFaucet` / `MCWorkReplay.cfg` | violation | `WorkNeverReused` |
| `swap_takes_from_others` | `MCRegistry` / `MCSwapTakes.cfg` | violation | `SwapTakesNothingFromOthers` |
| `network_removal_leak` | `MCLifecycle` / `MCNetworkLeak.cfg` | violation | `RemovedNetworkLeavesNoMembers` |
| `root_weights_stale` | `MCRootEpoch` / `MCRootWeightsStale.cfg` | violation | `RootWeightsAsDeclared` |
| `contract_cut_underflow` | `MCContracts` / `MCContractsUnderflow.cfg` | violation | `CutWithinSupply` |
| `root_register_foreign_key` | `MCRegistry` / `MCRootForeignKey.cfg` | violation | `RootDelegationByOwner` |

What the properties say:

* `StakeAggregatesConsistent`: the three aggregates equal the sums of the
  `Stake` entries.
* `IssuanceMatchesBalances`: balances, plus `Stake` entries, plus what was
  burned, equal the genesis supply plus what the faucet issued.
* `RegistryConsistent`: `Keys` and `Uids` form a bijection on the filled
  slots, and `IsNetworkMember` agrees with `Uids`.
* `RegisteredKeysOwnedAndRootDelegated`: every registered key has an
  owner, and every root validator is a delegate.
* `DeregistrationRefundsStake` (action property): a step that removes a
  key's last registration, and keeps its owner, leaves it with no stake.
* `RegistryRefinesAbstract`: `Registry` implements `AbstractRegistry`
  under the mapping `Members` (a brain's members are the keys with a
  `Uids` entry there): `BrainN` and the slot tables agree on when a brain
  is full, no registration adds or removes more than one key, and the swap
  moves a key in all of its brains in one step.
* `VotesOnlyBySenate`: only senate members hold votes.
* `PruneChoiceAsSpecified`: on every full subnet, `get_agent_to_prune`'s
  scan returns a uid the specification's rule allows (the lowest score
  among the agents out of immunity, or among all agents when every one is
  immune). It is stated for the brains where some non-immune agent scores
  below u16::MAX, or none is out of immunity; ties are left open.
  Outside it lies a reachable state the hazard list records: a uid that
  `replace_agent` filled keeps the u16::MAX `get_agent_to_prune` gave it,
  and once its occupant leaves immunity before the next epoch, the scan
  reads the non-immune minimum of u16::MAX as "none" and evicts an immune
  agent.
* `EnforcerDataMatchesLedger`: for the block counts at the loop's
  boundaries (0, 1, the current block and one more),
  `get_tft_enforcer_data` lists the blocks before the current one, newest
  first, down to genesis; every record counts the agents the slot tables
  hold (the u16 sum of `BrainN`) and the stake that
  `get_stake_info_for_personalkeys` lists for all personalkeys (the sum of
  `TotalComputekeyStake`). Every record carries the current sums, whatever
  its block.
* `RootNetworkPersists`, `LockedTokensConserved` (balances, stake, burned
  and locks equal the supply), `NetworksCounted` (`TotalNetworks` counts
  the brains) and `BrainToPruneAsSpecified` (the sort's last element is a
  brain the specification's rule selects: lowest emission, then oldest).
* `RegistrationCountersAgree`: on every subnet, `RegistrationsThisInterval`
  equals the PoW and burned interval counters added, through
  registrations, interval resets, and brains removed and created again on
  a netuid (`remove_network` clears the three counters together).
* `AgentsViewMatchesRegistry`: `get_agents` and `get_agents_lite` list
  exactly the keys with a `Uids` entry on a brain, each at its uid with its
  owner, `get_agent` agrees, and a netuid that is no brain shows nothing.
* `EmissionOnlyForAddedBrains`: a netuid that is not a brain has emission
  value 0, so a reused netuid starts from 0.
* `MirrorMatchesToken`: for a contract recorded before its first transfer,
  every holder's mirrored entry equals its token balance.

The seven violation runs are findings. `PROJECT.json` "findings" gives the
trace each one produces.

* **Work replay.** `do_registration` and `do_faucet` insert the work into
  `UsedWork` but never read it. The faucet pays the same seal twice.
* **Swap takes another key.** `do_swap_computekey` requires only that the
  new key is registered nowhere, then sets its `Owner` to the caller and
  overwrites its `Stake` entries. A key pruned from every brain still has
  its owner and stake, so another personalkey can take both.
* **Network removal leaks membership.** `remove_network` does not clear
  `IsNetworkMember`. The key still counts as registered, so it is never
  unstaked when evicted elsewhere.
* **Stale root weights.** `remove_network` clears `Weights` only under the
  removed netuid, not the root column toward it, and `replace_agent` does
  not clear the evicted root validator's row. The next brain on the netuid,
  or the next validator on the uid, inherits the weights.
* **Mirror underflow.** The mirror inserts a missing receiver as the
  amount but a missing sender as 0, so the second mint subtracts from the
  zero address's 0 entry and wraps (or panics with overflow checks).
* **Root registration of a foreign key.** `do_root_register` never checks
  that the caller owns the computekey. It makes any unowned or foreign
  key a delegate with the default take.
* **Serving rate limit through a swap.** `do_serve_brainport` rate-limits
  a key by the `Brainports` record under it, and `do_swap_computekey`
  moves that record off the old key. The old key registers again and
  serves one block after its last serve, under a limit of 2 blocks. The
  property reads a history variable, `servedAt`, of each key's own
  serves.

Every property of a passing run has a mutant in `PROJECT.json`: a faulty
variant of one mapped definition (a dropped deposit, a missing
`Uids::remove`, an off-by-one uid, a moved entry that is never inserted,
an overwritten receiver entry, a missing vote clearing, a scan that
ignores immunity, an enforcer loop that starts at the current block, a
removal that keeps `BrainN`, a removal that keeps a
registration counter, a missing emission
reset). TLC finds the property violated when the variant replaces it.

## Bounds

* Registry runs: two personalkeys, two computekeys, netuids {0, 1} with one
  slot each, one registration per block, `AdjustmentInterval` 2,
  `ImmunityPeriod` 2, `Tempo` 1, costs and stake amount 1, a senate of 1,
  pruning scores {0, 65535} (both real results of the epoch's u16
  upscaling), and `MaxBlock` 2 or 3 through a state CONSTRAINT. Every
  registration path fills a brain and evicts; the faucet pays twice
  (`MaxIssued` 4, amount 2). Burn and difficulty are small integers
  (burn 1..3, difficulty 1..4, `U64Max` 8) with a target of one
  registration per interval of 2 blocks, so an interval ends above, at or
  below target and a term is raised, kept or clamped at a bound.
  `MCSenateVotes.cfg` pins both terms (minimum = maximum) and uses
  `MaxBlock` 2: its properties do not read them, and the refinement check
  otherwise takes minutes. It has one personalkey (who owns, stakes and
  swaps every key; its properties do not tell owners apart), gives the
  subnet two slots and three computekeys, so `get_agent_to_prune` chooses between two agents, and
  pruning scores {0, 1, 65535}, so a non-immune agent can score between
  an immune one and u16::MAX. The subnet's first epoch falls at block 3:
  TLC checks the invariants in those states (scores written, one agent
  out of immunity and one in it, or a uid still at u16::MAX) but does not
  explore past them. `MCServing.cfg` allows two registrations per
  block, so an interval can exceed the target.
* `MCLifecycle.cfg`: one computekey, netuids {0..3} with {0,1,2} at
  genesis, `BrainLimit` 2 (at the limit from genesis), network immunity 1,
  `MaxBlock` 2, `MaxLock` 4. The root epoch falls on block 2, so emission
  and age both decide the pruning.
* `MCRootEpoch.cfg`: one personalkey, two computekeys, one brain allowed,
  weights {0, 1}; brains are removed and created again on the same netuid.
* `MCServing.cfg`: addresses at every boundary the validity checks draw
  (0, 1, localhost, the u32 and u128 limits), ports 0 and 8091, and a rate
  limit of 2 blocks. One personalkey with a balance of 4 pays for two
  burned registrations (the burn adjusts down to 1) and a swap, which is
  what the rate-limit violation needs.
* `MCContracts.cfg`: two contracts, two holders and the zero address,
  amounts {1, 2}, supply at most 3, `U128Modulus` 8 (larger than any
  balance the bound allows, so a wrap is an underflow, never a real sum).

Keys, personalkeys, contracts and holders (other than `Zero`) are symmetry
sets: they start alike and no constant names one. Each passing run
finishes in under two minutes with two workers.

No liveness property is checked and no fairness is assumed: when blocks
are produced and extrinsics submitted is outside the pallet. Every run
also bounds `block` with a state CONSTRAINT, under which TLC's liveness
checking is unsound (a behaviour cut at the bound looks like one that
stops), so a liveness property would need a model without the
constraint, which these state spaces do not allow.

Two further disagreements were found while modelling the adjustment and
are not given a run (`PROJECT.json` lists them as hazards):

* **Difficulty of a new brain.** `init_new_network` sets
  `MinDifficulty` and `MaxDifficulty` to `u64::MAX` but leaves
  `Difficulty` at its default, which is below that minimum. Until the
  first adjustment that touches it the brain accepts seals below its
  minimum difficulty; that adjustment then clamps it to `u64::MAX`
  whatever the demand.
* **Burn of a reused netuid.** `remove_network` removes `Difficulty` but
  not `Burn`, so a brain created again on the netuid starts from the
  removed brain's burn rather than the default.

## Not modelled

* **Fixed-point arithmetic** of `root_epoch` (I64F64 normalisation,
  sigmoid consensus): abstracted to the guarantees above; TLC has no
  reals and the inputs would not fit its integers.
* **pallet_collective and pallet_membership internals** (proposal
  lifecycle, prime, closing): outside `src/pallets/basednode`; only the
  adapters the pallet calls are modelled.
* **Brain epochs**:
  `block_step.rs` and `epoch.rs` are not in this source tree. The block
  step's counter resets, score rewrite and burn and difficulty
  adjustment are modelled from the specification and the pallet's tests;
  the brain epoch is reduced to the pruning scores it writes.
* **The halving wrap** (`HalvingShift` masks the shift at 128): reached
  only after 128 years of blocks; listed as a hazard.
* **Record fields of the queries**: the epoch vectors, weights and bonds
  in agent records, and the block hashes, roots and author of the
  enforcer records, are not model state.
* **Node, RPC, runtime configuration, benchmarks**: I/O and wiring. The
  admin setters the runtime's `BasednodeInterface` forwards (`set_burn`,
  `set_difficulty`, their bounds, the registration flags, ...) call pallet
  code outside this source tree that the specification does not describe.
  The two registration flags the subnet paths check are constants,
  `RegistrationAllowedNets` and `PowRegistrationAllowedNets`; every cfg
  sets them for every netuid (`init_new_network` sets the first to true,
  and the PoW flag is taken as enabled by the admin).
* **The adjustment rule as a property**: the arithmetic of the block step
  is modelled from the specification, so a property stating it over the
  model would repeat the model's own formula; no run checks it.
* **`TotalIssuance` as a property**: `burn_tokens` (outside `src/`)
  lowers `TotalIssuance` with saturation, as the specification says, and
  the model does so on every burned registration and swap. The pallet's
  `TotalIssuance` starts at its storage default of 0 and does not count
  the genesis balances that burns are paid from, so it saturates on the
  first burn; what it equals afterwards depends on genesis code that is
  not in this source tree. `IssuanceMatchesBalances`, which counts burns
  separately, is the conservation property checked.
* **Pruning ties against the specification**: the specification breaks
  ties by the lowest uid, the scan keeps the last non-immune one;
  `PruneChoiceAsSpecified` leaves ties open. Neither the tie rule nor the
  u16::MAX case has a violation run; both are recorded as hazards.
