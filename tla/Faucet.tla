------------------------------ MODULE Faucet ------------------------------
(***************************************************************************)
(* do_faucet (registration.rs), compiled in with the pow-faucet feature,   *)
(* composed with the registry whose balances and UsedWork it shares.      *)
(* The faucet pays a fixed amount to the personalkey that submits a PoW   *)
(* seal of its own key on a recent block, and raises TotalIssuance.       *)
(* The amount (100_000_000_000 rao) is scaled to FaucetAmount; MaxIssued  *)
(* bounds how much the model lets the faucet pay out.                     *)
(***************************************************************************)
EXTENDS Registry

CONSTANTS
  FaucetAmount,     \* balance_to_add, scaled
  MaxIssued         \* bound on the faucet's total payout

VARIABLE
  issued            \* history: what do_faucet has paid out

faucetVars == <<vars, issued>>

(* TotalIssuance::put(TotalIssuance::get().saturating_add(balance_to_add)); *)
(* the bound keeps it far below u128::MAX.                                *)
IssuedAfterFaucet == totalIssuance + FaucetAmount

(* do_faucet: the block number is at most two blocks old, the work is the *)
(* seal of that block, the nonce and the caller's personalkey (every nonce *)
(* of Nonces meets the difficulty), it is inserted into UsedWork, and the  *)
(* amount is deposited to the caller.                                      *)
DoFaucet(ck, bn, nonce) ==
  /\ bn <= block
  /\ block - bn < 3
  /\ issued + FaucetAmount <= MaxIssued
  /\ usedWork' = usedWork \cup {Seal(bn, nonce, ck)}
  /\ balance' = [balance EXCEPT ![ck] = @ + FaucetAmount]
  /\ totalIssuance' = IssuedAfterFaucet
  /\ issued' = issued + FaucetAmount
  /\ UNCHANGED <<block, owner, delegates, stake, totalComputekeyStake,
                 totalPersonalkeyStake, totalStake, lastTxBlock, networksAdded,
                 brainN, keys, uids, isNetworkMember, pruningScore,
                 blockAtRegistration, registrationsThisBlock,
                 registrationsThisInterval, powRegistrationsThisInterval,
                 burnRegistrationsThisInterval, senate, burned, admissionTerms>>

FaucetInit == Init /\ issued = 0

FaucetNext ==
  \/ NextCore /\ UNCHANGED issued
  \/ \E ck \in Personalkeys, bn \in 0..(block + 1), nonce \in Nonces :
       DoFaucet(ck, bn, nonce)

FaucetSpec == FaucetInit /\ [][FaucetNext]_faucetVars

-----------------------------------------------------------------------------
(* Properties. *)

(* No token is created or lost except by the faucet, which accounts for   *)
(* it in TotalIssuance: the free balances, the Stake entries (what        *)
(* stakers can withdraw) and what burn_tokens destroyed add up to the     *)
(* genesis supply plus what the faucet issued.  The withdraw and deposit  *)
(* around every stake movement, the unstaking of an evicted key, the      *)
(* burns of registration and the faucet's deposit and issuance update    *)
(* must balance, whatever order they interleave in.                      *)
IssuanceMatchesBalances ==
  MapThenSumSet(LAMBDA ck : balance[ck], Personalkeys)
    + MapThenSumSet(StakeOfKey, Computekeys) + burned
    = Supply + issued

(* The replay protection the specification describes for PoW work, and   *)
(* the comment of do_faucet ("Add this as used work"): accepted work is     *)
(* recorded to reject exact reuse, so every PoW registration and every     *)
(* faucet payout comes with a work new to UsedWork.  Both paths insert the *)
(* work and neither reads UsedWork; the PoW seal binds neither the netuid  *)
(* nor, for the current block, the block (its hash reads as zero).        *)
WorkNeverReused ==
  [][(issued' > issued
      \/ \E n \in Nets : powRegistrationsThisInterval'[n] > powRegistrationsThisInterval[n])
       => \E w \in usedWork' : w \notin usedWork]_faucetVars
====
