----------------------------- MODULE Contracts -----------------------------
(***************************************************************************)
(* The brain-linked ERC20 mirror of root.rs: brain_contract_created       *)
(* records a token contract for a brain, and brain_contract_balance_change *)
(* mirrors the token's transfers into BrainOwnerByTokenBalanceCut, both    *)
(* called by the root origin.                                              *)
(*                                                                         *)
(* The token itself lives outside the runtime.  It is modelled by ERC20's *)
(* rules: a transfer moves at most the sender's balance, a mint is a      *)
(* transfer from the zero address Zero and raises the supply.  The root   *)
(* origin relays each transfer in the step it happens, so no transfer is  *)
(* lost or reordered on the way; a transfer the pallet does not know the  *)
(* contract of is still relayed and ignored.  u128 arithmetic wraps       *)
(* modulo U128Modulus, which the model scales down to keep the wrap       *)
(* within reach.                                                          *)
(***************************************************************************)
EXTENDS Naturals

CONSTANTS
  Nets,               \* netuids a contract can be recorded for
  TokenContracts,     \* addresses of ERC20 contracts
  Holders,            \* token holder accounts, Zero among them
  Zero,               \* the zero address, the sender of a mint
  Amounts,            \* transfer amounts
  MaxSupply,          \* bound on a token's total supply
  U128Modulus,        \* 2^128, scaled
  Absent              \* no entry in a storage map

ASSUME Zero \in Holders /\ Amounts \subseteq 1..MaxSupply /\ MaxSupply < U128Modulus

VARIABLES
  brainContract,      \* BrainContract: netuid -> contract or Absent
  cut,                \* BrainOwnerByTokenBalanceCut: contract -> holder -> u128 or Absent
  token,              \* the ERC20 balances: contract -> holder -> amount
  supply,             \* the ERC20 total supply of each contract
  tracked             \* history: the contract was recorded at every transfer so far

contractVars == <<brainContract, cut, token, supply, tracked>>

-----------------------------------------------------------------------------
(* brain_contract_created: set_brain_contract_created is not under src/;  *)
(* it is modelled as the insert its name and event describe.             *)
BrainContractCreated(n, c) ==
  /\ brainContract' = [brainContract EXCEPT ![n] = c]
  /\ UNCHANGED <<cut, token, supply, tracked>>

(* The loop over BrainContract::iter() of brain_contract_balance_change. *)
ContractActivated(c) == \E n \in Nets : brainContract[n] = c

(* The two updates of an activated contract's mirror.  An entry of the   *)
(* sender is reduced (u128 subtraction, wrapping), a missing one is      *)
(* inserted as 0; an entry of the receiver is raised, a missing one is   *)
(* inserted as the amount.                                               *)
FromCut(prev, balance) ==
  IF prev = Absent THEN 0 ELSE (prev - balance) % U128Modulus

(* A faulty variant of ToCut: the receiver's entry is overwritten. *)
ToCutOverwrite(prev, balance) == balance

ToCut(prev, balance) ==
  IF prev = Absent THEN balance ELSE (prev + balance) % U128Modulus

(* brain_contract_balance_change(contract, from, to, balance): the sender *)
(* is written first, so a transfer to oneself reads the written value.   *)
MirroredCut(c, from, to, balance) ==
  LET afterFrom == [cut[c] EXCEPT ![from] = FromCut(cut[c][from], balance)]
  IN  [afterFrom EXCEPT ![to] = ToCut(afterFrom[to], balance)]

BrainContractBalanceChange(c, from, to, balance) ==
  cut' = IF ContractActivated(c)
         THEN [cut EXCEPT ![c] = MirroredCut(c, from, to, balance)]
         ELSE cut

(* An ERC20 transfer (a mint when from is Zero) and its relay. *)
TokenTransfer(c, from, to, amount) ==
  /\ to # Zero
  /\ IF from = Zero THEN supply[c] + amount <= MaxSupply
     ELSE token[c][from] >= amount
  /\ token' = [token EXCEPT ![c][from] = IF from = Zero THEN 0 ELSE @ - amount,
                            ![c][to] = @ + amount]
  /\ supply' = [supply EXCEPT ![c] = IF from = Zero THEN @ + amount ELSE @]
  /\ tracked' = [tracked EXCEPT ![c] = @ /\ ContractActivated(c)]
  /\ BrainContractBalanceChange(c, from, to, amount)
  /\ UNCHANGED brainContract

ContractsInit ==
  /\ brainContract = [n \in Nets |-> Absent]
  /\ cut = [c \in TokenContracts |-> [h \in Holders |-> Absent]]
  /\ token = [c \in TokenContracts |-> [h \in Holders |-> 0]]
  /\ supply = [c \in TokenContracts |-> 0]
  /\ tracked = [c \in TokenContracts |-> TRUE]

ContractsNext ==
  \/ \E n \in Nets, c \in TokenContracts : BrainContractCreated(n, c)
  \/ \E c \in TokenContracts, from, to \in Holders, amount \in Amounts :
       TokenTransfer(c, from, to, amount)

ContractsSpec == ContractsInit /\ [][ContractsNext]_contractVars

-----------------------------------------------------------------------------
(* Properties. *)

(* The mirror follows the token: for a contract recorded for a brain     *)
(* before its first transfer and ever since, every holder's entry in     *)
(* BrainOwnerByTokenBalanceCut is its ERC20 balance.  This needs the      *)
(* receiver's entry to accumulate and a self-transfer to read the sender's *)
(* written entry.                                                         *)
MirrorMatchesToken ==
  \A c \in TokenContracts, h \in Holders \ {Zero} :
    tracked[c] /\ cut[c][h] # Absent => cut[c][h] = token[c][h]

(* An entry of BrainOwnerByTokenBalanceCut mirrors an ERC20 balance (the   *)
(* doc comment of brain_contract_balance_change), so it never exceeds the *)
(* token's total supply; the u128 subtraction previous_from - balance     *)
(* would panic in a build with overflow checks and wraps without them.    *)
CutWithinSupply ==
  \A c \in TokenContracts, h \in Holders :
    cut[c][h] # Absent => cut[c][h] <= supply[c]
====
