------------------------------ MODULE Views ------------------------------
(***************************************************************************)
(* The agent views of agent_info.rs that the runtime API serves to RPC     *)
(* callers (get_agents, get_agent and their lite variants), read over the *)
(* lifecycle whose removals and reuses of netuids they must follow.       *)
(*                                                                         *)
(* An agent record keeps what the model has state for: the computekey,    *)
(* its Owner entry, the uid, the netuid and the Stake entries under the   *)
(* computekey (iter_prefix, so an entry of 0 is listed).  The epoch       *)
(* vectors (rank, trust, emission...), the serving records, weights and   *)
(* bonds are left out; the lite record differs from the full one only in *)
(* weights and bonds, so both project to the same record here.           *)
(***************************************************************************)
EXTENDS Lifecycle, Queries

(* None: the Option of an agent that does not exist. *)
NoAgent == [uid |-> NoUid]

(* get_computekey_for_net_and_uid: Keys::try_get, an error for no entry. *)
GetComputekeyForNetAndUid(n, u) == keys[n][u]

(* The stake list of an agent: every Stake entry under the computekey. *)
AgentStake(hk) == {<<ck, stake[hk][ck]>> : ck \in {c \in Personalkeys : stake[hk][c] # Absent}}

(* get_agent_brain_exists: None when the uid has no key, else the record  *)
(* with Owner::get of the key (a ValueQuery read).                        *)
GetAgentBrainExists(n, u) ==
  LET hk == GetComputekeyForNetAndUid(n, u) IN
  IF hk = NoKey THEN NoAgent
  ELSE [computekey |-> hk, personalkey |-> owner[hk], uid |-> u, netuid |-> n,
        stake |-> AgentStake(hk)]

(* get_agent_lite_brain_exists: the same projection without weights and   *)
(* bonds, which the model does not keep.                                   *)
GetAgentLiteBrainExists(n, u) == GetAgentBrainExists(n, u)

(* The loop of get_agents over 0..BrainN: it stops at the first uid that   *)
(* has no agent ("No more agents").  lite selects get_agents_lite's      *)
(* record.                                                                *)
RECURSIVE AgentsFrom(_, _, _)
AgentsFrom(lite, n, u) ==
  LET a == IF lite THEN GetAgentLiteBrainExists(n, u) ELSE GetAgentBrainExists(n, u) IN
  IF u >= brainN[n] \/ a = NoAgent THEN <<>>
  ELSE <<a>> \o AgentsFrom(lite, n, u + 1)

(* get_agents *)
GetAgents(n) ==
  IF ~IfBrainExist(n) THEN <<>> ELSE AgentsFrom(FALSE, n, 0)

(* get_agents_lite *)
GetAgentsLite(n) ==
  IF ~IfBrainExist(n) THEN <<>> ELSE AgentsFrom(TRUE, n, 0)

(* get_agent and get_agent_lite *)
GetAgent(n, u) == IF ~IfBrainExist(n) THEN NoAgent ELSE GetAgentBrainExists(n, u)

GetAgentLite(n, u) == IF ~IfBrainExist(n) THEN NoAgent ELSE GetAgentLiteBrainExists(n, u)

-----------------------------------------------------------------------------
(* Properties. *)

(* The agent views show the registry as it is: for every netuid, the     *)
(* list get_agents (and get_agents_lite) returns names exactly the keys   *)
(* with a Uids entry there, each at its uid and with its owner, get_agent *)
(* agrees with the list, and a netuid that is no brain shows nothing.     *)
(* The loop's early stop, remove_network's clearing of Keys, Uids and     *)
(* BrainN and the reuse of a netuid by user_add_network must fit together *)
(* for a client to see every agent and no agent of a removed brain.       *)
AgentsViewMatchesRegistry ==
  \A n \in Nets :
    LET A == GetAgents(n)
        members == IF IfBrainExist(n) THEN {hk \in Computekeys : uids[n][hk] # NoUid}
                   ELSE {}
    IN /\ GetAgentsLite(n) = A
       /\ {A[i].computekey : i \in DOMAIN A} = members
       /\ \A i \in DOMAIN A :
            /\ A[i].uid = i - 1
            /\ uids[n][A[i].computekey] = A[i].uid
            /\ A[i].personalkey = owner[A[i].computekey]
            /\ GetAgent(n, i - 1) = A[i]
       /\ \A u \in UidRange : u >= Len(A) => GetAgentLite(n, u) = NoAgent
====
