----------------------------- MODULE Queries -----------------------------
(***************************************************************************)
(* The ledger queries the runtime API serves besides the agent views:     *)
(*   stake_info.rs         get_stake_info_for_personalkey(s)               *)
(*   tft_enforcer_data.rs  get_tft_enforcer_data                           *)
(* Both read the registry and the stake ledger and write nothing.          *)
(*                                                                         *)
(* Account ids arrive as byte vectors; a vector of the wrong length is     *)
(* NotAnAccount, every other one decodes to a personalkey.  Stake::iter   *)
(* runs in hash order, so a personalkey's stake list is a set.  An         *)
(* enforcer record keeps the fields read from the ledger (block number,    *)
(* validators, validator stakes); the hashes, roots and the author are    *)
(* left out.                                                              *)
(***************************************************************************)
EXTENDS Registry, SequencesExt

NotAnAccount == "byte vector of a length other than 32"

(* The StakeInfo entries of _get_stake_info_for_personalkeys for one      *)
(* personalkey: every Stake entry whose personalkey it is.                *)
StakeInfoFor(ck) ==
  {[computekey |-> hk, personalkey |-> ck, stake |-> stake[hk][ck]] :
     hk \in {h \in Computekeys : stake[h][ck] # Absent}}

(* _get_stake_info_for_personalkeys *)
GetStakeInfoForPersonalkeysL(cks) ==
  IF cks = <<>> THEN <<>>
  ELSE [i \in 1..Len(cks) |-> <<cks[i], StakeInfoFor(cks[i])>>]

(* get_stake_info_for_personalkeys: vectors of the wrong length are       *)
(* skipped, and no valid one gives the empty list.                        *)
GetStakeInfoForPersonalkeys(vecs) ==
  LET cks == SelectSeq(vecs, LAMBDA v : v # NotAnAccount) IN
  IF cks = <<>> THEN <<>> ELSE GetStakeInfoForPersonalkeysL(cks)

(* get_stake_info_for_personalkey *)
GetStakeInfoForPersonalkey(v) ==
  IF v = NotAnAccount THEN {} ELSE GetStakeInfoForPersonalkeysL(<<v>>)[1][2]

(* The two ledger sums get_tft_enforcer_data reads for every record.  The *)
(* call writes nothing, so each iteration reads the same current values:  *)
(* every record carries them, whatever its block.  The u16 sum of BrainN  *)
(* wraps in the release build.                                            *)
TftLedgerReads ==
  [validators |-> MapThenSumSet(LAMBDA n : brainN[n], Nets) % (U16Max + 1),
   validator_stakes |-> MapThenSumSet(LAMBDA hk : Val(totalComputekeyStake[hk]),
                                      Computekeys)]

(* The record get_tft_enforcer_data builds for block bn. *)
TftEnforcerDataBlock(bn, reads) ==
  [block_number |-> bn, validators |-> reads.validators,
   validator_stakes |-> reads.validator_stakes]

RECURSIVE TftBlocks(_, _, _)

TftBlocks(i, count, reads) ==
  IF i > count THEN <<>>
  ELSE LET bn == SatSub(block, i) IN
       <<TftEnforcerDataBlock(bn, reads)>>
         \o (IF bn = 0 THEN <<>> ELSE TftBlocks(i + 1, count, reads))

(* get_tft_enforcer_data; block_count None reads as 10. *)
GetTftEnforcerData(count) == TftBlocks(1, count, TftLedgerReads)

-----------------------------------------------------------------------------
(* Properties. *)

(* What the enforcer reports agrees with the registry and with the stake *)
(* queries: for every block count (0, 1, the current block and one more, *)
(* the boundaries of the loop), the records are the blocks before the  *)
(* current one, newest first, down to genesis (a single record of block 0 *)
(* at genesis); each counts the agents the slot tables hold over all      *)
(* brains, and its stake is what get_stake_info_for_personalkeys lists    *)
(* for a request naming every personalkey once (and one malformed         *)
(* vector), whose entries get_stake_info_for_personalkey repeats.  The    *)
(* BrainN sum must stay equal to the Uids entries through registration,   *)
(* eviction, the key swap and the removal and reuse of netuids, and       *)
(* TotalComputekeyStake equal to the Stake entries.                       *)
ExpectedEnforcerBlocks(count) ==
  IF count = 0 THEN <<>>
  ELSE IF block = 0 THEN <<0>>
  ELSE [i \in 1..Min({count, block}) |-> block - i]

EveryPersonalkeyRequest == <<NotAnAccount>> \o SetToSeq(Personalkeys)

EnforcerDataMatchesLedger ==
  LET R == GetStakeInfoForPersonalkeys(EveryPersonalkeyRequest)
      listed == MapThenSumSet(LAMBDA j : MapThenSumSet(LAMBDA r : r.stake, R[j][2]),
                              DOMAIN R)
      registered == Cardinality({nk \in Nets \X Computekeys : uids[nk[1]][nk[2]] # NoUid})
                      % (U16Max + 1)
  IN
  /\ \A j \in DOMAIN R : R[j][2] = GetStakeInfoForPersonalkey(R[j][1])
  /\ \A count \in {0, 1, block, block + 1} :
       LET D == GetTftEnforcerData(count) IN
       /\ [i \in DOMAIN D |-> D[i].block_number] = ExpectedEnforcerBlocks(count)
       /\ \A i \in DOMAIN D :
            D[i].validators = registered /\ D[i].validator_stakes = listed
====
