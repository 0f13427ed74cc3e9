----------------------------- MODULE Serving -----------------------------
(***************************************************************************)
(* Endpoint advertisement of serving.rs, composed with the registry whose  *)
(* membership it checks and whose key swap moves its records:              *)
(*   do_serve_brainport, do_serve_prometheus and their helpers;            *)
(*   the Brainports step of do_swap_computekey (registration.rs).          *)
(*                                                                         *)
(* A record keeps the block it was served at: the endpoint data (ip,      *)
(* port, ip_type, version, protocol, placeholders) is only checked on the *)
(* way in and never read again, so it is left out of the record while    *)
(* the checks on it stay guards.  IP addresses are naturals compared with  *)
(* the constants U32Max and U128Max; TLC's integers are 32 bits wide, so   *)
(* the model gives them smaller values that keep the order of every       *)
(* constant the code compares an address with.                            *)
(***************************************************************************)
EXTENDS Registry

CONSTANTS
  ServingRateLimit,   \* ServingRateLimit of every brain
  IpTypes,            \* ip_type arguments a call may pass (a u8)
  IpAddrs,            \* ip arguments a call may pass (a u128)
  Ports,              \* port arguments a call may pass (a u16)
  U32Max,             \* u32::MAX
  U128Max             \* u128::MAX

Localhost4 == 2130706433          \* 0x7f000001

ASSUME ServingRateLimit \in Nat
ASSUME IpAddrs \subseteq 0..U128Max /\ Localhost4 < U32Max /\ U32Max < U128Max

VARIABLES
  brainports,   \* Brainports: netuid -> computekey -> record or Absent
  prometheus,   \* Prometheus: netuid -> computekey -> record or Absent
  servedAt      \* history: netuid -> computekey -> block of its last
                \* do_serve_brainport there (0: never)

servingVars == <<brainports, prometheus, servedAt>>
allServingVars == <<vars, servingVars>>

-----------------------------------------------------------------------------
(* Helpers of serving.rs. *)

IsValidIpType(t) == t \in {4, 6}

IsValidIpAddress(t, addr) ==
  /\ IsValidIpType(t)
  /\ addr # 0
  /\ t = 4 => addr < U32Max /\ addr # Localhost4
  /\ t = 6 => addr # U128Max /\ addr # 1

(* get_brainport_info / get_prometheus_info: a missing record reads as  *)
(* the default one, whose block is 0.                                    *)
LastServe(rec) == IF rec = Absent THEN 0 ELSE rec

PassesRateLimit(rec) ==
  LET last == LastServe(rec) IN
  ServingRateLimit = 0 \/ last = 0 \/ block - last >= ServingRateLimit

(* validate_brainport_data / validate_prometheus_data. *)
ValidPort(port) == port > 0

(* A serve call by hk on netuid n: the guards in the order of the code,  *)
(* then the insert of the new record.  The caller must be registered on  *)
(* some brain, not on n.                                                 *)
Serve(recs, hk, n, t, ip, port) ==
  /\ IsComputekeyRegisteredOnAnyNetwork(hk)
  /\ IsValidIpType(t)
  /\ IsValidIpAddress(t, ip)
  /\ PassesRateLimit(recs[n][hk])
  /\ ValidPort(port)

ServeBrainport(hk, n, t, ip, port) ==
  /\ Serve(brainports, hk, n, t, ip, port)
  /\ brainports' = [brainports EXCEPT ![n][hk] = block]
  /\ servedAt' = [servedAt EXCEPT ![n][hk] = block]
  /\ UNCHANGED <<vars, prometheus>>

ServePrometheus(hk, n, t, ip, port) ==
  /\ Serve(prometheus, hk, n, t, ip, port)
  /\ prometheus' = [prometheus EXCEPT ![n][hk] = block]
  /\ UNCHANGED <<vars, brainports, servedAt>>

(* The Brainports step of do_swap_computekey: for every brain the old   *)
(* key is a member of, a record it has is moved to the new key.  The    *)
(* Prometheus records are not moved.                                    *)
MovedBrainports(old, new, nets) ==
  [n \in Nets |->
     IF n \in nets /\ brainports[n][old] # Absent
     THEN [brainports[n] EXCEPT ![old] = Absent, ![new] = brainports[n][old]]
     ELSE brainports[n]]

ServingSwap(ck, old, new) ==
  /\ SwapComputekey(ck, old, new)
  /\ brainports' = MovedBrainports(old, new, isNetworkMember[old])
  /\ UNCHANGED <<prometheus, servedAt>>

ServingInit ==
  /\ Init
  /\ brainports = [n \in Nets |-> [hk \in Computekeys |-> Absent]]
  /\ prometheus = [n \in Nets |-> [hk \in Computekeys |-> Absent]]
  /\ servedAt = [n \in Nets |-> [hk \in Computekeys |-> 0]]

ServeCalls ==
  \E hk \in Computekeys, n \in Nets, t \in IpTypes, ip \in IpAddrs, port \in Ports :
    \/ ServeBrainport(hk, n, t, ip, port)
    \/ ServePrometheus(hk, n, t, ip, port)

ServingNext ==
  \/ (\E ck \in Personalkeys, hk \in Computekeys, n \in Nets :
        BurnedRegistration(ck, n, hk)) /\ UNCHANGED servingVars
  \/ BlockStep /\ UNCHANGED servingVars
  \/ \E ck \in Personalkeys, old, new \in Computekeys : ServingSwap(ck, old, new)
  \/ ServeCalls

ServingSpec == ServingInit /\ [][ServingNext]_allServingVars

-----------------------------------------------------------------------------
(* Properties. *)

(* The rate limit of endpoint advertisement (spec.md, Serving): a        *)
(* computekey that has served its brainport on a brain serves it there    *)
(* again only ServingRateLimit blocks later.  do_serve_brainport checks    *)
(* the block of the Brainports record under the caller's key, and          *)
(* do_swap_computekey moves those records: it removes the old key's record *)
(* on every brain the old key is a member of and writes it over any record *)
(* the new key kept from an earlier registration.                         *)
ServingRateLimitPerKey ==
  [][\A n \in Nets, hk \in Computekeys :
       servedAt'[n][hk] # servedAt[n][hk] /\ servedAt[n][hk] # 0
         => servedAt'[n][hk] - servedAt[n][hk] >= ServingRateLimit]_allServingVars
====
