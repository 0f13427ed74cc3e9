---------------------------- MODULE SenateVotes ----------------------------
(***************************************************************************)
(* Senate voting: do_vote_root (root.rs) and the runtime's adapters       *)
(* between the pallet, the Senate membership and the Triumvirate          *)
(* collective (ManageSenateMembers, TriumvirateVotes in runtime lib.rs), *)
(* composed with the registry whose root registrations change the senate.*)
(*                                                                         *)
(* The Triumvirate's proposals are a constant set of open motions; a      *)
(* vote is recorded per proposal and computekey as aye (TRUE), nay        *)
(* (FALSE) or none (Absent).  pallet_collective's do_vote refuses a vote  *)
(* equal to the one recorded (DuplicateVote) and records the new one.    *)
(***************************************************************************)
EXTENDS Registry

CONSTANTS
  Proposals             \* open Triumvirate motions

VARIABLE
  votes                 \* Triumvirate Voting: proposal -> computekey -> vote

senateVars == <<vars, votes>>

-----------------------------------------------------------------------------
(* The runtime adapters. *)

(* ManageSenateMembers::is_member *)
IsMember(hk) == hk \in senate

(* TriumvirateVotes::remove_votes: the key's votes on every motion go. *)
RemoveVotes(v, rm) == [p \in Proposals |-> [v[p] EXCEPT ![rm] = Absent]]

(* ManageSenateMembers::swap_member: the leaving member's votes are       *)
(* removed before the membership pallet swaps it out.                    *)
SwapMember(v, rm) == RemoveVotes(v, rm)

(* TriumvirateVotes::add_vote (Triumvirate::do_vote). *)
AddVote(hk, p, approve) ==
  /\ votes[p][hk] # approve
  /\ votes' = [votes EXCEPT ![p][hk] = approve]

-----------------------------------------------------------------------------

(* A faulty variant of the step below: the member swapped out keeps its  *)
(* votes.                                                                *)
VotesAfterSenateStepKept == votes

(* The votes after the senate step of do_root_register: when the senate  *)
(* was full and the lowest member was swapped out, swap_member and the   *)
(* remove_votes call after it both clear that member's votes; add_member *)
(* touches no vote.                                                      *)
VotesAfterSenateStep ==
  IF senate \ senate' = {} THEN votes
  ELSE LET rm == CHOOSE m \in senate \ senate' : TRUE
       IN RemoveVotes(SwapMember(votes, rm), rm)

(* do_vote_root: the caller owns the computekey, the computekey is a     *)
(* senate member, and the collective records the vote.                   *)
VoteRoot(ck, hk, p, approve) ==
  /\ PersonalkeyOwnsComputekey(ck, hk)
  /\ IsMember(hk)
  /\ AddVote(hk, p, approve)
  /\ UNCHANGED vars

SenateInit ==
  /\ Init
  /\ votes = [p \in Proposals |-> [hk \in Computekeys |-> Absent]]

(* Every registry step carries the votes through the senate step: only  *)
(* do_root_register changes the senate, and it then clears the votes of  *)
(* the member it swapped out; every other step keeps the votes.          *)
SenateNext ==
  \/ Next /\ votes' = VotesAfterSenateStep
  \/ \E ck \in Personalkeys, hk \in Computekeys, p \in Proposals, approve \in BOOLEAN :
       VoteRoot(ck, hk, p, approve)

SenateSpec == SenateInit /\ [][SenateNext]_senateVars

-----------------------------------------------------------------------------
(* Properties. *)

(* Only senate members have votes on a Triumvirate motion: a member the   *)
(* senate step of do_root_register swaps out loses its votes (through    *)
(* ManageSenateMembers::swap_member and remove_votes), and do_vote_root   *)
(* refuses a computekey outside the senate.                              *)
VotesOnlyBySenate ==
  \A p \in Proposals, hk \in Computekeys : votes[p][hk] # Absent => IsMember(hk)
====
