----------------------------- MODULE Registry -----------------------------
(***************************************************************************)
(* The peer registry and admission control of the basednode pallet,       *)
(* composed with the staking ledger it writes to:                         *)
(*   uids.rs          append_agent, replace_agent, membership queries      *)
(*   registration.rs  do_burned_registration, do_registration (PoW),       *)
(*                    get_agent_to_prune, do_swap_computekey               *)
(*   root.rs          do_root_register with the senate bookkeeping         *)
(* and the per-block step of the chain (block_step.rs, outside src/),      *)
(* which resets the registration counters and runs the epochs that set     *)
(* the pruning scores.                                                     *)
(*                                                                         *)
(* A brain (subnetwork) is a netuid; netuid 0 is the root network.         *)
(***************************************************************************)
EXTENDS Staking

CONSTANTS
  Nets,                            \* the netuids the model can use, 0 among them
  GenesisNets,                     \* the brains that exist in the initial state
  NoUid,                           \* Uids has no entry for the computekey
  ZeroHash,                        \* the hash frame_system reports for the current block
  MaxAllowedUids,                  \* netuid -> MaxAllowedUids
  MaxRegistrationsPerBlock,        \* MaxRegistrationsPerBlock of every brain
  TargetRegistrationsPerInterval,  \* TargetRegistrationsPerInterval of every brain
  AdjustmentInterval,              \* AdjustmentInterval of every brain
  ImmunityPeriod,                  \* ImmunityPeriod of every brain
  Tempo,                           \* Tempo of every brain
  InitialBurn,                     \* InitialBurn: the Burn of a brain at genesis
  InitialMinBurn,                  \* InitialMinBurn
  InitialMaxBurn,                  \* InitialMaxBurn (MaxBurn is never written)
  InitialDifficulty,               \* InitialDifficulty, also Difficulty's default
  InitialMinDifficulty,            \* InitialMinDifficulty
  InitialMaxDifficulty,            \* InitialMaxDifficulty
  AdjustmentAlpha,                 \* AdjustmentAlpha, a fraction of U64Max
  U64Max,                          \* the model's u64::MAX
  HashSpace,                       \* the model's 2^256: a seal is a number below it
  SwapCost,                        \* burn cost of do_swap_computekey
  Nonces,                          \* the nonces a miner tries
  PruningScoreValues,              \* pruning scores an epoch can assign
  SenateMaxMembers,                \* SenateMaxMembers (runtime)
  DefaultTake,                     \* take given to a root validator (26_214)
  InitialBalance,                  \* free balance of every personalkey at genesis
  RegistrationAllowedNets,         \* netuids whose NetworkRegistrationAllowed is set
  PowRegistrationAllowedNets       \* netuids whose NetworkPowRegistrationAllowed is set

ASSUME 0 \in Nets /\ Nets \subseteq Nat /\ GenesisNets \subseteq Nets
ASSUME MaxAllowedUids \in [Nets -> Nat]
ASSUME SwapCost \in Nat /\ SenateMaxMembers \in Nat \ {0}
ASSUME InitialMinBurn <= InitialBurn /\ InitialBurn <= InitialMaxBurn
ASSUME AdjustmentAlpha \in 0..U64Max /\ TargetRegistrationsPerInterval \in Nat \ {0}
ASSUME Nonces \subseteq 0..(HashSpace - 1)
ASSUME RegistrationAllowedNets \subseteq Nets /\ PowRegistrationAllowedNets \subseteq Nets

U16Max == 65535                   \* u16::MAX
RootNetuid == 0                   \* get_root_netuid
UidRange == 0..(Max({MaxAllowedUids[n] : n \in Nets}) - 1)

VARIABLES
  networksAdded,                \* NetworksAdded
  brainN,                       \* BrainN: netuid -> number of filled slots
  keys,                         \* Keys: netuid -> uid -> computekey
  uids,                         \* Uids: netuid -> computekey -> uid
  isNetworkMember,              \* IsNetworkMember: computekey -> set of netuids
  pruningScore,                 \* PruningScores: netuid -> uid -> score
  blockAtRegistration,          \* BlockAtRegistration: netuid -> uid -> block
  registrationsThisBlock,       \* RegistrationsThisBlock
  registrationsThisInterval,    \* RegistrationsThisInterval
  powRegistrationsThisInterval, \* POWRegistrationsThisInterval
  burnRegistrationsThisInterval,\* BurnRegistrationsThisInterval
  usedWork,                     \* UsedWork: the set of accepted works
  senate,                       \* members of the Senate membership pallet
  burn,                         \* Burn: netuid -> registration burn
  minBurn,                      \* MinBurn: netuid -> lower bound of Burn
  difficulty,                   \* Difficulty: netuid -> PoW difficulty
  minDifficulty,                \* MinDifficulty
  maxDifficulty,                \* MaxDifficulty
  burned                        \* history: tokens destroyed by burn_tokens

(* The registration terms the block step adjusts. *)
admissionTerms == <<burn, minBurn, difficulty, minDifficulty, maxDifficulty>>

registryVars == <<networksAdded, brainN, keys, uids, isNetworkMember,
                  pruningScore, blockAtRegistration, registrationsThisBlock,
                  registrationsThisInterval, powRegistrationsThisInterval,
                  burnRegistrationsThisInterval, usedWork, senate, burned,
                  burn, minBurn, difficulty, minDifficulty, maxDifficulty>>

vars == <<block, stakingVars, registryVars>>

-----------------------------------------------------------------------------
(* Queries of uids.rs. *)

IsRegisteredOn(n, hk) == uids[n][hk] # NoUid

IsComputekeyRegisteredOnAnyNetwork(hk) == isNetworkMember[hk] # {}

InImmunity(n, uid) == block - blockAtRegistration[n][uid] < ImmunityPeriod

(* The four conditions every subnet and root registration checks first;  *)
(* the subnet paths also check their NetworkRegistrationAllowed or        *)
(* NetworkPowRegistrationAllowed flag, which only the admin setters of the *)
(* runtime write (init_new_network sets the first to true).               *)
RegistrationOpen(n, hk) ==
  /\ n \in networksAdded
  /\ registrationsThisBlock[n] < MaxRegistrationsPerBlock
  /\ registrationsThisInterval[n] < TargetRegistrationsPerInterval * 3
  /\ ~IsRegisteredOn(n, hk)

(* Faulty variant of the scan step: the immunity test is dropped. *)
PruneScanStepNoImmunity(n, acc, i) ==
  IF acc.min < pruningScore[n][i] THEN acc
  ELSE [acc EXCEPT !.min = pruningScore[n][i], !.uid = i]

(* get_agent_to_prune: one scan over the uids keeping the lowest score     *)
(* outside and inside the immunity period.  The code's two branches       *)
(* (min_score == score, min_score > score) have the same body, so a scan  *)
(* step fires on min_score >= score and an equal score moves the choice   *)
(* to the later uid.  When min_score is still u16::MAX the immune choice   *)
(* is returned.                                                           *)
PruneScanStep(n, acc, i) ==
  LET s == pruningScore[n][i] IN
  IF acc.min < s THEN acc
  ELSE IF InImmunity(n, i)
       THEN IF acc.minImm > s THEN [acc EXCEPT !.minImm = s, !.uidImm = i]
            ELSE acc
       ELSE [acc EXCEPT !.min = s, !.uid = i]

RECURSIVE PruneScan(_, _, _)
PruneScan(n, acc, i) ==
  IF i >= brainN[n] THEN acc
  ELSE PruneScan(n, PruneScanStep(n, acc, i), i + 1)

GetAgentToPrune(n) ==
  IF brainN[n] = 0 THEN 0
  ELSE LET r == PruneScan(n, [min |-> U16Max, minImm |-> U16Max,
                              uid |-> 0, uidImm |-> 0], 0)
       IN IF r.min = U16Max THEN r.uidImm ELSE r.uid

(* The PoW seal: create_seal_hash hashes the nonce with the hash of the    *)
(* block and the computekey.  Hashes are modelled as injective, so a seal *)
(* is the triple it is computed from.  frame_system stores the hash of a  *)
(* block only once the block is finalized: for the block being executed  *)
(* block_hash returns the zero hash.                                      *)
BlockHash(bn) == IF bn = block THEN ZeroHash ELSE bn
Seal(bn, nonce, hk) == <<BlockHash(bn), nonce, hk>>

(* hash_meets_difficulty: the seal read as a 256-bit number, times the    *)
(* difficulty, must not overflow.  A nonce of the model stands for the    *)
(* number its seal hashes to.                                             *)
SealNumber(work) == work[2]
HashMeetsDifficulty(h, d) == h * d < HashSpace

-----------------------------------------------------------------------------
(* Slot admission.  Each operator gives the new registry state for one    *)
(* brain n, or the whole ledger, so an extrinsic composes them.           *)

(* Faulty variants of the admission helpers below. *)
AppendAgentUidOffByOne(n, hk) ==
  LET u == brainN[n] IN
  /\ brainN' = [brainN EXCEPT ![n] = u + 1]
  /\ keys' = [keys EXCEPT ![n][u] = hk]
  /\ uids' = [uids EXCEPT ![n][hk] = u + 1]
  /\ blockAtRegistration' = [blockAtRegistration EXCEPT ![n][u] = block]
  /\ pruningScore' = [pruningScore EXCEPT ![n][u] = 0]
  /\ isNetworkMember' = [isNetworkMember EXCEPT ![hk] = @ \cup {n}]

ReplaceAgentKeepOldUid(n, u, hk, score) ==
  LET old == keys[n][u] IN
  /\ brainN' = brainN
  /\ keys' = [keys EXCEPT ![n][u] = hk]
  /\ uids' = [uids EXCEPT ![n][hk] = u]
  /\ blockAtRegistration' = [blockAtRegistration EXCEPT ![n][u] = block]
  /\ pruningScore' = [pruningScore EXCEPT ![n][u] = score]
  /\ isNetworkMember' = [isNetworkMember EXCEPT ![old] = @ \ {n},
                                                ![hk] = @ \cup {n}]

ReplaceAgentLBeforeRemoval(L, n, u) ==
  LET old == keys[n][u] IN
  IF isNetworkMember[old] = {} THEN UnstakeAllL(L, old) ELSE L

OwnerAfterCreateNoInsert(ck, hk) == owner

(* append_agent *)
AppendAgent(n, hk) ==
  LET u == brainN[n] IN
  /\ brainN' = [brainN EXCEPT ![n] = u + 1]
  /\ keys' = [keys EXCEPT ![n][u] = hk]
  /\ uids' = [uids EXCEPT ![n][hk] = u]
  /\ blockAtRegistration' = [blockAtRegistration EXCEPT ![n][u] = block]
  /\ pruningScore' = [pruningScore EXCEPT ![n][u] = 0]
  /\ isNetworkMember' = [isNetworkMember EXCEPT ![hk] = @ \cup {n}]

(* replace_agent; the registry part.  score is the pruning score the uid  *)
(* holds afterwards.                                                      *)
ReplaceAgent(n, u, hk, score) ==
  LET old == keys[n][u] IN
  /\ brainN' = brainN
  /\ keys' = [keys EXCEPT ![n][u] = hk]
  /\ uids' = [uids EXCEPT ![n][old] = NoUid, ![n][hk] = u]
  /\ blockAtRegistration' = [blockAtRegistration EXCEPT ![n][u] = block]
  /\ pruningScore' = [pruningScore EXCEPT ![n][u] = score]
  /\ isNetworkMember' = [isNetworkMember EXCEPT ![old] = @ \ {n},
                                                ![hk] = @ \cup {n}]

(* replace_agent; the ledger part: a key registered nowhere else is       *)
(* unstaked.                                                              *)
ReplaceAgentL(L, n, u) ==
  LET old == keys[n][u] IN
  IF isNetworkMember[old] \ {n} = {} THEN UnstakeAllL(L, old) ELSE L

(* The admission shared by the burned and the PoW registration: append    *)
(* while the brain has room, else replace get_agent_to_prune's uid, whose *)
(* score get_agent_to_prune has set to u16::MAX.  L is the ledger after   *)
(* the earlier steps of the extrinsic.                                    *)
SubnetAdmit(n, hk, L) ==
  /\ MaxAllowedUids[n] # 0
  /\ IF brainN[n] < MaxAllowedUids[n]
     THEN AppendAgent(n, hk) /\ LedgerIs(L)
     ELSE LET u == GetAgentToPrune(n) IN
          ReplaceAgent(n, u, hk, U16Max) /\ LedgerIs(ReplaceAgentL(L, n, u))

CountRegistration(n) ==
  /\ registrationsThisBlock' = [registrationsThisBlock EXCEPT ![n] = @ + 1]
  /\ registrationsThisInterval' = [registrationsThisInterval EXCEPT ![n] = @ + 1]

(* burn_tokens (outside src/): the specification has the burned cost      *)
(* destroyed, lowering TotalIssuance; it is lowered with saturation, as  *)
(* the decrease of stake lowers it.                                       *)
BurnTokensL(L, amt) == [L EXCEPT !.issuance = SatSub(@, amt)]

(* Owner after create_account_if_non_existent, and the pairing check that  *)
(* follows it in both subnet registrations.                               *)
OwnerAfterCreate(ck, hk) ==
  IF ComputekeyAccountExists(hk) THEN owner ELSE [owner EXCEPT ![hk] = ck]

-----------------------------------------------------------------------------
(* The registration extrinsics.  A failed ensure! rolls the whole call     *)
(* back, so every check is a conjunct of the guard, even those the code    *)
(* makes after it has written storage.                                    *)

(* do_burned_registration *)
BurnedRegistration(ck, n, hk) ==
  LET L == CreateAccountL(BurnTokensL(WithdrawL(Ledger, ck, burn[n]), burn[n]), ck, hk) IN
  /\ n # RootNetuid
  /\ n \in RegistrationAllowedNets
  /\ RegistrationOpen(n, hk)
  /\ CanWithdraw(ck, burn[n])
  /\ OwnerAfterCreate(ck, hk)[hk] = ck
  /\ owner' = OwnerAfterCreate(ck, hk)
  /\ SubnetAdmit(n, hk, L)
  /\ burned' = burned + burn[n]
  /\ burnRegistrationsThisInterval' = [burnRegistrationsThisInterval EXCEPT ![n] = @ + 1]
  /\ CountRegistration(n)
  /\ UNCHANGED <<block, delegates, lastTxBlock,
                 networksAdded, powRegistrationsThisInterval, usedWork, senate,
                 admissionTerms>>

(* do_registration.  The caller signs with the computekey; the work is the *)
(* seal of a block at most two blocks old and must meet the brain's       *)
(* difficulty.                                                            *)
PowRegistration(hk, ck, n, bn, nonce) ==
  LET L == CreateAccountL(Ledger, ck, hk)
      work == Seal(bn, nonce, hk)
  IN
  /\ n # RootNetuid
  /\ n \in PowRegistrationAllowedNets
  /\ RegistrationOpen(n, hk)
  /\ bn <= block
  /\ block - bn < 3
  /\ HashMeetsDifficulty(SealNumber(work), difficulty[n])
  /\ usedWork' = usedWork \cup {work}
  /\ OwnerAfterCreate(ck, hk)[hk] = ck
  /\ owner' = OwnerAfterCreate(ck, hk)
  /\ SubnetAdmit(n, hk, L)
  /\ powRegistrationsThisInterval' = [powRegistrationsThisInterval EXCEPT ![n] = @ + 1]
  /\ CountRegistration(n)
  /\ UNCHANGED <<block, delegates, lastTxBlock,
                 networksAdded, burnRegistrationsThisInterval, senate, burned,
                 admissionTerms>>

(* The root uids whose computekey has the lowest total stake.  The code   *)
(* keeps the first of them in the iteration order of the Keys map, an     *)
(* order of storage hashes: the model leaves the choice open.             *)
LowestStakeRootUids ==
  LET us == 0..(brainN[RootNetuid] - 1)
      st(u) == TotalStakeForComputekey(keys[RootNetuid][u])
  IN {u \in us : \A v \in us : st(u) <= st(v)}

(* The senate step of do_root_register, over the stakes tcs after the     *)
(* root slot was filled.  pallet_membership's swap_member fails when the  *)
(* key to add is already a member, and add_member when the key is one;   *)
(* either failure rolls the registration back (the action is disabled).   *)
SenateUpdate(hk, tcs) ==
  LET st(k) == Val(tcs[k]) IN
  IF Cardinality(senate) = SenateMaxMembers
  THEN \E last \in {m \in senate : \A o \in senate : st(m) <= st(o)} :
         IF st(last) < st(hk)
         THEN hk \notin senate /\ senate' = (senate \ {last}) \cup {hk}
         ELSE senate' = senate
  ELSE hk \notin senate /\ senate' = senate \cup {hk}

(* do_root_register.  No ownership check: create_account_if_non_existent *)
(* is the only use of the caller.                                         *)
RootRegister(ck, hk) ==
  LET L0 == CreateAccountL(Ledger, ck, hk) IN
  /\ RegistrationOpen(RootNetuid, hk)
  /\ owner' = OwnerAfterCreate(ck, hk)
  /\ IF brainN[RootNetuid] < MaxAllowedUids[RootNetuid]
     THEN /\ AppendAgent(RootNetuid, hk)
          /\ LedgerIs(L0)
          /\ SenateUpdate(hk, L0.tcs)
     ELSE \E u \in LowestStakeRootUids :
            LET L == ReplaceAgentL(L0, RootNetuid, u) IN
            /\ TotalStakeForComputekey(keys[RootNetuid][u])
                 < TotalStakeForComputekey(hk)
            /\ ReplaceAgent(RootNetuid, u, hk, pruningScore[RootNetuid][u])
            /\ LedgerIs(L)
            /\ SenateUpdate(hk, L.tcs)
  /\ delegates' = IF ComputekeyIsDelegate(hk) THEN delegates
                  ELSE [delegates EXCEPT ![hk] = DefaultTake]
  /\ CountRegistration(RootNetuid)
  /\ UNCHANGED <<block, lastTxBlock, networksAdded,
                 powRegistrationsThisInterval, burnRegistrationsThisInterval,
                 usedWork, burned, admissionTerms>>

(* do_swap_computekey.  Every map keyed by the old computekey is moved to *)
(* the new one by insert: an entry the new key already has is overwritten *)
(* (Owner, TotalComputekeyStake, Delegates, Stake).  The LastTxBlock entry *)
(* the code moves is keyed by a computekey and is never read: it is left  *)
(* out.  The Senate is not touched.                                       *)
MovedStake(old, new) ==
  [hk \in Computekeys |->
     IF hk = old THEN [ck \in Personalkeys |-> Absent]
     ELSE IF hk = new
          THEN [ck \in Personalkeys |->
                  IF stake[old][ck] # Absent THEN stake[old][ck] ELSE stake[new][ck]]
          ELSE stake[hk]]

(* Faulty variants of the helpers below: each one is a plausible slip in *)
(* the code it stands for, and a property of the model must reject it.   *)
MoveEntryRemoveOnly(f, old, new, none) ==
  IF f[old] # none THEN [f EXCEPT ![old] = none] ELSE f
MovedKeysUnchanged(old, new) == keys

MoveEntry(f, old, new, none) ==
  IF f[old] # none THEN [f EXCEPT ![old] = none, ![new] = f[old]] ELSE f

(* The Uids and Keys entries of every brain the old key is a member of. *)
MovedUids(old, new) ==
  [n \in Nets |->
     IF n \in isNetworkMember[old] /\ uids[n][old] # NoUid
     THEN [uids[n] EXCEPT ![old] = NoUid, ![new] = uids[n][old]]
     ELSE uids[n]]

MovedKeys(old, new) ==
  [n \in Nets |->
     IF n \in isNetworkMember[old] /\ uids[n][old] # NoUid
     THEN [keys[n] EXCEPT ![uids[n][old]] = new]
     ELSE keys[n]]

SwapComputekey(ck, old, new) ==
  LET nets == isNetworkMember[old] IN
  /\ PersonalkeyOwnsComputekey(ck, old)
  /\ ~ExceedsTxRateLimit(lastTxBlock[ck], block)
  /\ old # new
  /\ ~IsComputekeyRegisteredOnAnyNetwork(new)
  /\ CanWithdraw(ck, SwapCost)
  /\ balance' = [balance EXCEPT ![ck] = @ - SwapCost]
  /\ burned' = burned + SwapCost
  /\ totalIssuance' = BurnTokensL(Ledger, SwapCost).issuance
  /\ owner' = [owner EXCEPT ![old] = NoKey, ![new] = ck]
  /\ totalComputekeyStake' = MoveEntry(totalComputekeyStake, old, new, Absent)
  /\ delegates' = MoveEntry(delegates, old, new, NotDelegate)
  /\ stake' = MovedStake(old, new)
  /\ isNetworkMember' = [isNetworkMember EXCEPT ![old] = {}, ![new] = nets]
  /\ uids' = MovedUids(old, new)
  /\ keys' = MovedKeys(old, new)
  /\ lastTxBlock' = [lastTxBlock EXCEPT ![ck] = block]
  /\ UNCHANGED <<block, totalPersonalkeyStake, totalStake, networksAdded,
                 brainN, pruningScore, blockAtRegistration,
                 registrationsThisBlock, registrationsThisInterval,
                 powRegistrationsThisInterval, burnRegistrationsThisInterval,
                 usedWork, senate, admissionTerms>>

-----------------------------------------------------------------------------
(* The per-block step (block_step.rs, outside src/, modelled from the      *)
(* specification and tests/block_step.rs): the block number advances, the *)
(* per-block counters are reset, once per AdjustmentInterval every brain's *)
(* burn and difficulty are adjusted from the interval's counters, which    *)
(* are then reset, and every subnet whose epoch falls on the new block     *)
(* gets new pruning scores.  The epoch's scores are the emission of each  *)
(* uid scaled so the largest is u16::MAX; the model lets them be any of   *)
(* PruningScoreValues.  Emission is not paid out (the ledger is closed).  *)
BlocksUntilNextEpoch(n, b) == Tempo - ((b + n + 1) % (Tempo + 1))

EpochNets(b) ==
  {n \in networksAdded \ {RootNetuid} : BlocksUntilNextEpoch(n, b) = 0}

(* The adjusted value of a term: current * (regs + target) / (2 target),  *)
(* averaged with the current value by AdjustmentAlpha / u64::MAX and      *)
(* clamped to [lo, hi].  The code computes in I110F18 fixed point and     *)
(* truncates to u64; the model takes the exact quotient, truncated.       *)
AdjustedTerm(current, regs, lo, hi) ==
  LET t == TargetRegistrationsPerInterval
      next == (AdjustmentAlpha * current * (2 * t)
                 + (U64Max - AdjustmentAlpha) * current * (regs + t))
              \div (U64Max * 2 * t)
  IN IF next >= hi THEN hi ELSE IF next <= lo THEN lo ELSE next

(* Which term is adjusted.  Above the target the mechanism most of the   *)
(* interval's registrations used is adjusted (made dearer); at or below  *)
(* it the other one (made cheaper): tests C and D lower the burn when     *)
(* most registrations were PoW and the difficulty when most were burned. *)
(* A tie adjusts both.                                                    *)
AdjustsBurn(n) ==
  IF registrationsThisInterval[n] > TargetRegistrationsPerInterval
  THEN burnRegistrationsThisInterval[n] >= powRegistrationsThisInterval[n]
  ELSE powRegistrationsThisInterval[n] >= burnRegistrationsThisInterval[n]

AdjustsDifficulty(n) ==
  IF registrationsThisInterval[n] > TargetRegistrationsPerInterval
  THEN powRegistrationsThisInterval[n] >= burnRegistrationsThisInterval[n]
  ELSE burnRegistrationsThisInterval[n] >= powRegistrationsThisInterval[n]

AdjustingNets(b) == IF b % AdjustmentInterval = 0 THEN networksAdded ELSE {}

BurnAfterStep(b) ==
  [n \in Nets |->
     IF n \in AdjustingNets(b) /\ AdjustsBurn(n)
     THEN AdjustedTerm(burn[n], registrationsThisInterval[n], minBurn[n], InitialMaxBurn)
     ELSE burn[n]]

DifficultyAfterStep(b) ==
  [n \in Nets |->
     IF n \in AdjustingNets(b) /\ AdjustsDifficulty(n)
     THEN AdjustedTerm(difficulty[n], registrationsThisInterval[n],
                       minDifficulty[n], maxDifficulty[n])
     ELSE difficulty[n]]

ResetIfAdjusting(counter, b) ==
  IF b % AdjustmentInterval = 0 THEN [n \in Nets |-> 0] ELSE counter

BlockStep ==
  LET b == block + 1 IN
  /\ block' = b
  /\ registrationsThisBlock' = [n \in Nets |-> 0]
  /\ registrationsThisInterval' = ResetIfAdjusting(registrationsThisInterval, b)
  /\ powRegistrationsThisInterval' = ResetIfAdjusting(powRegistrationsThisInterval, b)
  /\ burnRegistrationsThisInterval' = ResetIfAdjusting(burnRegistrationsThisInterval, b)
  /\ burn' = BurnAfterStep(b)
  /\ difficulty' = DifficultyAfterStep(b)
  /\ \E scores \in [EpochNets(b) -> [UidRange -> PruningScoreValues]] :
       pruningScore' = [n \in Nets |->
                          IF n \in EpochNets(b)
                          THEN [u \in UidRange |->
                                  IF u < brainN[n] THEN scores[n][u]
                                  ELSE pruningScore[n][u]]
                          ELSE pruningScore[n]]
  /\ UNCHANGED <<stakingVars, networksAdded, brainN, keys, uids,
                 isNetworkMember, blockAtRegistration, usedWork, senate,
                 burned, minBurn, minDifficulty, maxDifficulty>>

-----------------------------------------------------------------------------

Init ==
  /\ block = 1
  /\ owner = [hk \in Computekeys |-> NoKey]
  /\ delegates = [hk \in Computekeys |-> NotDelegate]
  /\ stake = [hk \in Computekeys |-> [ck \in Personalkeys |-> Absent]]
  /\ totalComputekeyStake = [hk \in Computekeys |-> Absent]
  /\ totalPersonalkeyStake = [ck \in Personalkeys |-> 0]
  /\ totalStake = 0
  /\ totalIssuance = 0
  /\ balance = [ck \in Personalkeys |-> InitialBalance]
  /\ lastTxBlock = [ck \in Personalkeys |-> 0]
  /\ networksAdded = GenesisNets
  /\ brainN = [n \in Nets |-> 0]
  /\ keys = [n \in Nets |-> [u \in UidRange |-> NoKey]]
  /\ uids = [n \in Nets |-> [hk \in Computekeys |-> NoUid]]
  /\ isNetworkMember = [hk \in Computekeys |-> {}]
  /\ pruningScore = [n \in Nets |-> [u \in UidRange |-> 0]]
  /\ blockAtRegistration = [n \in Nets |-> [u \in UidRange |-> 0]]
  /\ registrationsThisBlock = [n \in Nets |-> 0]
  /\ registrationsThisInterval = [n \in Nets |-> 0]
  /\ powRegistrationsThisInterval = [n \in Nets |-> 0]
  /\ burnRegistrationsThisInterval = [n \in Nets |-> 0]
  /\ usedWork = {}
  /\ senate = {}
  /\ burned = 0
  /\ burn = [n \in Nets |-> InitialBurn]
  /\ minBurn = [n \in Nets |-> InitialMinBurn]
  /\ difficulty = [n \in Nets |-> InitialDifficulty]
  /\ minDifficulty = [n \in Nets |-> InitialMinDifficulty]
  /\ maxDifficulty = [n \in Nets |-> InitialMaxDifficulty]

(* The extrinsics apart from do_swap_computekey. *)
CoreCalls ==
  \/ StakingNext /\ UNCHANGED registryVars
  \/ \E ck \in Personalkeys, hk \in Computekeys, n \in Nets :
       \/ BurnedRegistration(ck, n, hk)
       \/ \E bn \in 0..(block + 1), nonce \in Nonces :
            PowRegistration(hk, ck, n, bn, nonce)
  \/ \E ck \in Personalkeys, hk \in Computekeys : RootRegister(ck, hk)

Swap == \E ck \in Personalkeys, old, new \in Computekeys : SwapComputekey(ck, old, new)

NextCore == CoreCalls \/ BlockStep

Next == NextCore \/ Swap

SpecCore == Init /\ [][NextCore]_vars
Spec == Init /\ [][Next]_vars

-----------------------------------------------------------------------------
(* Properties. *)

Supply == InitialBalance * Cardinality(Personalkeys)

TypeOK ==
  /\ block \in Nat
  /\ owner \in [Computekeys -> Personalkeys \cup {NoKey}]
  /\ delegates \in [Computekeys -> Takes \cup {DefaultTake, NotDelegate}]
  /\ stake \in [Computekeys -> [Personalkeys -> Nat \cup {Absent}]]
  /\ totalComputekeyStake \in [Computekeys -> Nat \cup {Absent}]
  /\ totalPersonalkeyStake \in [Personalkeys -> Nat]
  /\ totalStake \in Nat /\ totalIssuance \in Nat /\ burned \in Nat
  /\ balance \in [Personalkeys -> Nat]
  /\ lastTxBlock \in [Personalkeys -> Nat]
  /\ networksAdded \subseteq Nets
  /\ brainN \in [Nets -> Nat]
  /\ keys \in [Nets -> [UidRange -> Computekeys \cup {NoKey}]]
  /\ uids \in [Nets -> [Computekeys -> UidRange \cup {NoUid}]]
  /\ isNetworkMember \in [Computekeys -> SUBSET Nets]
  /\ pruningScore \in [Nets -> [UidRange -> PruningScoreValues \cup {0, U16Max}]]
  /\ senate \subseteq Computekeys
  /\ usedWork \subseteq (Nat \cup {ZeroHash}) \X Nonces \X (Computekeys \cup Personalkeys)
  /\ burn \in [Nets -> Nat] /\ minBurn \in [Nets -> Nat]
  /\ difficulty \in [Nets -> Nat]
  /\ minDifficulty \in [Nets -> Nat] /\ maxDifficulty \in [Nets -> Nat]

(* The stake ledger and its three aggregates agree: TotalStake is the sum  *)
(* of every Stake entry, TotalComputekeyStake of a computekey the sum of   *)
(* its row and TotalPersonalkeyStake of a personalkey the sum of its       *)
(* column.  The increase/decrease helpers of staking.rs keep it; every     *)
(* other writer of Stake (registration unstaking, key swap) must too.      *)
StakeOfKey(hk) == MapThenSumSet(LAMBDA ck : StakeOf(hk, ck), Personalkeys)
StakeOfPersonalkey(ck) == MapThenSumSet(LAMBDA hk : StakeOf(hk, ck), Computekeys)

StakeAggregatesConsistent ==
  /\ totalStake = MapThenSumSet(StakeOfKey, Computekeys)
  /\ \A hk \in Computekeys : TotalStakeForComputekey(hk) = StakeOfKey(hk)
  /\ \A ck \in Personalkeys : totalPersonalkeyStake[ck] = StakeOfPersonalkey(ck)

(* The slot tables of every brain are a bijection on the filled uids, and  *)
(* IsNetworkMember agrees with Uids: what append_agent, replace_agent and *)
(* do_swap_computekey write to the four maps stays consistent.            *)
RegistryConsistent ==
  \A n \in Nets :
    /\ \A u \in 0..(brainN[n] - 1) : uids[n][keys[n][u]] = u
    /\ \A hk \in Computekeys :
         /\ uids[n][hk] # NoUid => uids[n][hk] < brainN[n]
         /\ (n \in isNetworkMember[hk]) <=> (uids[n][hk] # NoUid)

(* replace_agent returns the stake of a computekey that loses its last     *)
(* registration to its stakers: a step that deregisters a key everywhere  *)
(* while its owner stays leaves it no stake.                              *)
DeregistrationRefundsStake ==
  [][\A hk \in Computekeys :
       (isNetworkMember[hk] # {} /\ isNetworkMember'[hk] = {}
        /\ owner'[hk] = owner[hk])
         => TotalStakeForComputekey(hk)' = 0]_vars

(* Every root validator is a delegate and every registered computekey    *)
(* has an owning personalkey: do_root_register delegates the key it       *)
(* registers, and do_swap_computekey must carry Owner and Delegates to    *)
(* the new key together with its uids.                                    *)
RegisteredKeysOwnedAndRootDelegated ==
  \A hk \in Computekeys :
    /\ IsComputekeyRegisteredOnAnyNetwork(hk) => ComputekeyAccountExists(hk)
    /\ IsRegisteredOn(RootNetuid, hk) => ComputekeyIsDelegate(hk)

(* The specification: a computekey has one owning personalkey, changed   *)
(* only by an explicit key swap of that key, and stake moves only through *)
(* the paired helpers.  So a key swap by ck moves ck's key and takes       *)
(* nothing from another personalkey: each keeps the computekeys it owns   *)
(* and its stake.  do_swap_computekey checks only that the new key is     *)
(* registered nowhere, then inserts Owner and Stake entries under it.     *)
SwapTakesNothingFromOthers ==
  [][\A ck \in Personalkeys, old, new \in Computekeys :
       SwapComputekey(ck, old, new) =>
         \A o \in Personalkeys \ {ck} :
           /\ \A hk \in Computekeys : owner[hk] = o => owner'[hk] = o
           /\ StakeOfPersonalkey(o)' = StakeOfPersonalkey(o)]_vars

(* do_become_delegate requires the caller to own the computekey, and the  *)
(* take, once set, cannot be changed.  So a root registration that makes  *)
(* a computekey a delegate is a call of its owner (or of the personalkey  *)
(* that creates its account).  do_root_register never checks ownership.   *)
RootDelegationByOwner ==
  [][\A ck \in Personalkeys, hk \in Computekeys :
       RootRegister(ck, hk) /\ ~ComputekeyIsDelegate(hk)
         => owner[hk] \in {NoKey, ck}]_vars

(* The specification's slot admission: the agent evicted from a subnet   *)
(* has the lowest pruning score among the agents out of their immunity    *)
(* period, or, when every agent is immune, among all agents.  A uid that  *)
(* replace_agent filled keeps the u16::MAX get_agent_to_prune gave it     *)
(* until the next epoch, and get_agent_to_prune reads a non-immune       *)
(* minimum of u16::MAX as "none found" and returns its immune choice.   *)
(* The rule is stated for the brains where neither applies: some         *)
(* non-immune agent scores below u16::MAX, or none is out of immunity.   *)
(* Ties are left open (the scan keeps the last non-immune uid, the       *)
(* specification names the first).                                       *)
FilledUids(n) == 0..(brainN[n] - 1)
NonImmuneUids(n) == {u \in FilledUids(n) : ~InImmunity(n, u)}

SpecPruneChoices(n) ==
  LET pool == IF NonImmuneUids(n) # {} THEN NonImmuneUids(n) ELSE FilledUids(n)
  IN {u \in pool : \A v \in pool : pruningScore[n][u] <= pruningScore[n][v]}

PruneChoiceAsSpecified ==
  \A n \in networksAdded \ {RootNetuid} :
    /\ brainN[n] > 0
    /\ \/ NonImmuneUids(n) = {}
       \/ \E u \in NonImmuneUids(n) : pruningScore[n][u] < U16Max
    => GetAgentToPrune(n) \in SpecPruneChoices(n)

(* The registry implements AbstractRegistry: the members of a brain are   *)
(* the keys with a Uids entry there.  Every registration adds one key to  *)
(* one brain with room or evicts exactly one member of a full brain (so   *)
(* BrainN and the slot tables must agree on when a brain is full), and    *)
(* do_swap_computekey renames the key in every brain in the same step.    *)
Members == [n \in Nets |-> {hk \in Computekeys : uids[n][hk] # NoUid}]

AR == INSTANCE AbstractRegistry WITH members <- Members, Cap <- MaxAllowedUids

RegistryRefinesAbstract == AR!Spec

=============================================================================
