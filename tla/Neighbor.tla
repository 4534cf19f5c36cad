------------------------------- MODULE Neighbor -------------------------------
(***************************************************************************)
(* Neighbor entries and IP next hops: ctc_sai_neighbor.c and the *)
(* SAI_NEXT_HOP_TYPE_IP paths of ctc_sai_next_hop.c. *)
(* *)
(* A neighbor entry and the IP next hop towards the same address share one *)
(* database record, and with it one ARP id and one hardware next hop. The *)
(* record counts its users in ref_cnt; neighbor_exists tells whether the *)
(* neighbor module is one of them. FDB changes on a VLAN or a bridge move *)
(* the hardware adjacency of every record behind it. *)
(* *)
(* Every handler runs under CTC_SAI_DB_LOCK and is one action. The SDK is *)
(* external; the calls named in Faults may fail. The chip is the one that *)
(* takes the adjacency from the ARP id (Duet2, TsingMa); the MPLS and the *)
(* tunnel next hops, and the nh_list they are bound to, are not part of *)
(* this module. *)
(***************************************************************************)
EXTENDS Integers, FiniteSets

CONSTANTS
  VlanRifs, PortRifs, BridgeRifs,  \* router interfaces by type
  Ips, Macs, Ports,
  NoMac,         \* the all-zero MAC of a record no neighbor has filled
  NoPort,        \* no FDB entry, or no port
  NoHw,          \* the hardware table has nothing at this id
  ArpIds, NhIds, \* the ids of the ARP and NEXTHOP pools; 0 is never one
  OneVrf,        \* whether the interfaces share a virtual router
  MacAttrs,      \* whether create_neighbor is given DST_MAC_ADDRESS
  CreateActs,    \* packet actions given to create_neighbor
  SetActs,       \* packet actions set on a live neighbor
  MissActs,      \* packet actions set as an interface's miss action
  HostAttrs,     \* NO_HOST_ROUTE at creation: "absent", "yes" or "no"
  NbAttrs,       \* the attributes set on a live neighbor
  RemoveAllUsed, \* whether remove_all_neighbor_entries is called
  BusyRifRemoved,\* whether an interface is removed while records use it
  HwLearning,    \* SAI_SWITCH flag HW_LEARNING_EN: the chip writes the FDB
  MaxEvents,     \* bound: FDB events the chip has queued
  MaxNeighbors,  \* bound: neighbors counted before create_neighbor stops
  CntWrap,       \* the modulus of neighbor_cnt, 2^32 in the code
  Faults         \* the SDK calls that may fail

Rifs == VlanRifs \cup PortRifs \cup BridgeRifs
Keys == Rifs \X Ips
Rif(k) == k[1]
Ip(k) == k[2]
RouteKeys == Keys \cup Ips
RouteOf(k) == IF OneVrf THEN Ip(k) ELSE k
L2Rifs == VlanRifs \cup BridgeRifs   \* the interfaces that look MACs up

ToCpu == {"TRAP", "COPY"}
Discard == {"DROP", "DENY"}
Supported == ToCpu \cup Discard \cup {"FORWARD", "TRANSIT"}
Acts == Supported \cup {"LOG"}       \* LOG stands for the unsupported ones
FaultPoints == {"add_arp", "update_arp", "add_nh", "update_nh", "host_route"}

ASSUME NeighborAssumption ==
  /\ VlanRifs \cap (PortRifs \cup BridgeRifs) = {} /\ PortRifs \cap BridgeRifs = {}
  /\ IsFiniteSet(Keys) /\ IsFiniteSet(NhIds) /\ NoMac \notin Macs /\ NoPort \notin Ports
  /\ ArpIds \subseteq Nat \ {0} /\ NhIds \subseteq Nat \ {0}
  /\ OneVrf \in BOOLEAN /\ RemoveAllUsed \in BOOLEAN
  /\ BusyRifRemoved \in BOOLEAN /\ HwLearning \in BOOLEAN
  /\ MacAttrs \subseteq BOOLEAN /\ CreateActs \subseteq Acts
  /\ SetActs \subseteq Acts /\ MissActs \subseteq Acts
  /\ HostAttrs \subseteq {"absent", "yes", "no"}
  /\ NbAttrs \subseteq {"mac", "action", "no_host_route"}
  /\ MaxEvents \in Nat /\ MaxNeighbors \in Nat /\ CntWrap \in Nat \ {0}
  /\ MaxNeighbors < CntWrap
  /\ Faults \subseteq FaultPoints

VARIABLES
  nb,          \* the neighbor records of the database, by key
  arpPool,     \* the ARP ids taken
  nhPool,      \* the NEXTHOP ids taken
  nhObj,       \* the IP next hop objects: next hop id -> the key it is for
  hwArp,       \* the SDK's ARP table
  hwNh,        \* the SDK's next hop table
  hostRoute,   \* the SDK's host routes: the next hop id, 0 for none
  rifs,        \* the live router interfaces
  missAct,     \* neighbor_miss_action of each interface
  fdb,         \* the FDB of the VLAN or bridge behind each interface
  events,      \* FDB changes the chip has made and not yet reported
  neighborCnt, \* the switch master's neighbor_cnt
  nexthopCnt,  \* the switch master's nexthop_cnt
  status       \* whether the last call succeeded

dbVars == <<nb, arpPool, nhPool, hwArp, hwNh>>
rifVars == <<rifs, missAct>>
fdbVars == <<fdb, events>>
cntVars == <<neighborCnt, nexthopCnt>>
vars == <<dbVars, nhObj, hostRoute, rifVars, fdbVars, cntVars, status>>

Empty == [in |-> FALSE, exists |-> FALSE, ref |-> 0, arp |-> 0, nh |-> 0,
          noHost |-> FALSE, act |-> "DROP", mac |-> NoMac]
Records == [in : BOOLEAN, exists : BOOLEAN, ref : Nat, arp : ArpIds \cup {0},
            nh : NhIds \cup {0}, noHost : BOOLEAN, act : Acts,
            mac : Macs \cup {NoMac}]
Adjacencies == [mac : Macs \cup {NoMac}, port : Ports \cup Rifs \cup {NoPort},
                cpu : BOOLEAN, drop : BOOLEAN]
ArpTables == [ArpIds -> Adjacencies \cup {NoHw}]
NhTables == [NhIds -> [arp : ArpIds] \cup [misc : Adjacencies] \cup {NoHw}]
NoKey == <<>>

ASSUME NoHwAssumption == NoHw \notin [arp : ArpIds] \cup [misc : Adjacencies]

(* The variables have their types. SDK tables hold adjacencies, or the ARP *)
(* id an ipuc next hop forwards through. *)
TypeOK ==
  /\ nb \in [Keys -> Records]
  /\ arpPool \subseteq ArpIds /\ nhPool \subseteq NhIds
  /\ nhObj \in [NhIds -> Keys \cup {NoKey}]
  /\ hwArp \in ArpTables /\ hwNh \in NhTables
  /\ hostRoute \in [RouteKeys -> NhIds \cup {0}]
  /\ rifs \subseteq Rifs /\ missAct \in [Rifs -> Acts]
  /\ fdb \in [L2Rifs \X Macs -> Ports \cup {NoPort}]
  /\ events \subseteq L2Rifs \X Macs
  /\ neighborCnt \in Nat /\ nexthopCnt \in Int
  /\ status \in {"SUCCESS", "FAILURE"}

-----------------------------------------------------------------------------
(* ctc_sai_db_alloc_id: any free id, 0 when the pool is exhausted. *)
FreeIds(ids, pool) == IF ids \subseteq pool THEN {0} ELSE ids \ pool

(* _ctc_sai_neighbor_lookup_fdb. *)
LookupFdb(tbl, r, mac) == IF mac \in Macs THEN tbl[<<r, mac>>] ELSE NoPort

(* What add_arp_entry tells the SDK: the port of the interface, or the one *)
(* the FDB has; to the CPU on a miss and on TRAP or COPY. *)
ArpParam(tbl, k, e) ==
  LET port == IF Rif(k) \in VlanRifs THEN LookupFdb(tbl, Rif(k), e.mac) ELSE Rif(k)
  IN [mac |-> e.mac, port |-> port,
      cpu |-> port = NoPort \/ e.act \in ToCpu, drop |-> e.act \in Discard]

(* The flex-edit next hop of a bridge interface: the action matters only *)
(* when it is TRAP. *)
MiscParam(tbl, k, e) ==
  LET port == LookupFdb(tbl, Rif(k), e.mac)
      cpu == port = NoPort \/ e.act = "TRAP"
  IN [mac |-> IF cpu THEN NoMac ELSE e.mac, port |-> IF cpu THEN NoPort ELSE port,
      cpu |-> cpu, drop |-> FALSE]

(* The state add_nexthop and remove_nexthop work on: one record and the *)
(* tables. ok is what the helper returns. *)
St(e) == [e |-> e, arp |-> arpPool, nh |-> nhPool, hwArp |-> hwArp,
          hwNh |-> hwNh, ok |-> TRUE]
Fail(s) == [s EXCEPT !.ok = FALSE]
Become(k, s) ==
  /\ nb' = [nb EXCEPT ![k] = s.e]
  /\ arpPool' = s.arp /\ nhPool' = s.nh /\ hwArp' = s.hwArp /\ hwNh' = s.hwNh

\* mutant: error1 frees the id of an update too
AddArpEntryFreesAlways(s, k, a, fault) ==
  LET isAdd == s.e.arp = 0
      named == [s EXCEPT !.e.arp = IF isAdd THEN a ELSE @]
  IN IF isAdd /\ a = 0 THEN Fail(s)
     ELSE IF \/ s.e.act \notin Supported
             \/ fault = (IF isAdd THEN "add_arp" ELSE "update_arp")
          THEN Fail([named EXCEPT !.arp = @ \ {named.e.arp}])
     ELSE [named EXCEPT !.arp = @ \cup {named.e.arp},
                        !.hwArp[named.e.arp] = ArpParam(fdb, k, s.e)]

\* mutant: an exhausted ARP pool is not noticed
AddArpEntryUnchecked(s, k, a, fault) ==
  LET isAdd == s.e.arp = 0
      named == [s EXCEPT !.e.arp = IF isAdd THEN a ELSE @]
  IN IF \/ s.e.act \notin Supported
        \/ fault = (IF isAdd THEN "add_arp" ELSE "update_arp")
     THEN Fail(named) ELSE [named EXCEPT !.arp = @ \cup {named.e.arp}]

(* _ctc_sai_neighbor_add_arp_entry. When the new entry is refused the id *)
(* goes back to the pool and the record still names it. *)
AddArpEntry(s, k, a, fault) ==
  LET isAdd == s.e.arp = 0
      named == [s EXCEPT !.e.arp = IF isAdd THEN a ELSE @]
  IN IF isAdd /\ a = 0 THEN Fail(s)
     ELSE IF \/ s.e.act \notin Supported
             \/ fault = (IF isAdd THEN "add_arp" ELSE "update_arp")
          THEN Fail(named)
     ELSE [named EXCEPT !.arp = @ \cup {named.e.arp},
                        !.hwArp[named.e.arp] = ArpParam(fdb, k, s.e)]

(* _ctc_sai_neighbor_add_ipuc_nexthop. When the new next hop is refused the *)
(* id freed is the record's, still 0: the new id stays allocated. *)
AddIpucNexthop(s, n, fault) ==
  IF s.e.nh = 0
  THEN IF n = 0 THEN Fail(s)
       ELSE IF fault = "add_nh" THEN Fail([s EXCEPT !.nh = @ \cup {n}])
       ELSE [s EXCEPT !.nh = @ \cup {n}, !.e.nh = n,
                      !.hwNh[n] = [arp |-> s.e.arp]]
  ELSE IF fault = "update_nh" THEN Fail(s)
       ELSE [s EXCEPT !.hwNh[s.e.nh] = [arp |-> s.e.arp]]

(* The BRIDGE half of add_nexthop. *)
AddMiscNexthop(s, k, n, fault) ==
  IF s.e.nh = 0
  THEN IF n = 0 \/ fault = "add_nh" THEN Fail(s)
       ELSE [s EXCEPT !.nh = @ \cup {n}, !.e.nh = n,
                      !.hwNh[n] = [misc |-> MiscParam(fdb, k, s.e)]]
  ELSE IF fault = "update_nh" THEN Fail(s)
       ELSE [s EXCEPT !.hwNh[s.e.nh] = [misc |-> MiscParam(fdb, k, s.e)]]

(* _ctc_sai_neighbor_add_nexthop. Its error1 label would remove the ARP *)
(* entry, but is_add is only ever reported when add_arp_entry has failed. *)
AddNexthop(s, k, a, n, fault) ==
  IF Rif(k) \notin rifs THEN Fail(s)
  ELSE IF Rif(k) \in BridgeRifs THEN AddMiscNexthop(s, k, n, fault)
  ELSE LET t == AddArpEntry(s, k, a, fault)
       IN IF t.ok THEN AddIpucNexthop(t, n, fault) ELSE t

(* _ctc_sai_neighbor_remove_nexthop: nothing when the interface is gone. *)
FreeNh(s) ==
  IF s.e.nh = 0 THEN s
  ELSE [s EXCEPT !.nh = @ \ {s.e.nh}, !.hwNh[s.e.nh] = NoHw, !.e.nh = 0]
FreeArp(s) ==
  IF s.e.arp = 0 THEN s
  ELSE [s EXCEPT !.arp = @ \ {s.e.arp}, !.hwArp[s.e.arp] = NoHw, !.e.arp = 0]
\* mutant: the ARP id is not freed with the next hop
RemoveNexthopKeepsArp(s, k) == IF Rif(k) \notin rifs THEN s ELSE FreeNh(s)
RemoveNexthop(s, k) ==
  IF Rif(k) \notin rifs THEN s
  ELSE IF Rif(k) \in BridgeRifs THEN FreeNh(s)
  ELSE FreeArp(FreeNh(s))

(* _ctc_sai_neighbor_build_db on a record that create_neighbor may take. *)
BuildDb(e, byNextHop) ==
  IF e.in THEN [e EXCEPT !.exists = @ \/ ~byNextHop]
  ELSE [Empty EXCEPT !.in = TRUE, !.exists = ~byNextHop]

\* mutant: neighbor_exists stays set when a next hop keeps the record
RemoveDbKeepsExists(e, byNextHop) ==
  IF ~e.in \/ (~e.exists /\ ~byNextHop) THEN e
  ELSE IF e.ref <= 1 THEN Empty ELSE [e EXCEPT !.ref = @ - 1]

(* _ctc_sai_neighbor_remove_db: the last user's record is deleted. *)
RemoveDb(e, byNextHop) ==
  IF ~e.in \/ (~e.exists /\ ~byNextHop) THEN e
  ELSE IF e.ref <= 1 THEN Empty
  ELSE [e EXCEPT !.exists = @ /\ byNextHop, !.ref = @ - 1]
RemovedDb(s, byNextHop) == [s EXCEPT !.e = RemoveDb(s.e, byNextHop)]

Return(ok) == status' = IF ok THEN "SUCCESS" ELSE "FAILURE"

-----------------------------------------------------------------------------
Init ==
  /\ nb = [k \in Keys |-> Empty]
  /\ arpPool = {} /\ nhPool = {}
  /\ nhObj = [n \in NhIds |-> NoKey]
  /\ hwArp = [a \in ArpIds |-> NoHw] /\ hwNh = [n \in NhIds |-> NoHw]
  /\ hostRoute = [i \in RouteKeys |-> 0]
  /\ rifs = Rifs /\ missAct = [r \in Rifs |-> "TRAP"]
  /\ fdb = [x \in L2Rifs \X Macs |-> NoPort] /\ events = {}
  /\ neighborCnt = 0 /\ nexthopCnt = 0
  /\ status = "SUCCESS"

(* The record create_neighbor has when it calls add_nexthop. *)
Filled(e, mac, act) == [BuildDb(e, FALSE) EXCEPT !.mac = mac, !.act = act]

(* ctc_sai_neighbor_create_neighbor. NO_HOST_ROUTE is written only when it *)
(* is given; when it is not and no route is added, the status returned is *)
(* the one of the attribute look-up. *)
CreateExisting(k) ==
  /\ nb[k].exists
  /\ Return(FALSE)
  /\ UNCHANGED <<dbVars, nhObj, hostRoute, rifVars, fdbVars, cntVars>>

CreateWithoutMac(k) ==
  /\ FALSE \in MacAttrs /\ ~nb[k].exists
  /\ Become(k, RemovedDb(St(BuildDb(nb[k], FALSE)), FALSE))
  /\ Return(FALSE)
  /\ UNCHANGED <<nhObj, hostRoute, rifVars, fdbVars, cntVars>>

CreateNeighbor(k, mac, act, host, a, n, fault) ==
  LET s == AddNexthop(St(Filled(nb[k], mac, act)), k, a, n, fault)
      noHost == IF host = "absent" THEN s.e.noHost ELSE host = "yes"
      routed == [s EXCEPT !.e.noHost = noHost]
  IN /\ TRUE \in MacAttrs /\ ~nb[k].exists /\ neighborCnt < MaxNeighbors
     /\ \/ /\ ~s.ok
           /\ Become(k, RemovedDb(s, FALSE))
           /\ Return(FALSE) /\ UNCHANGED <<hostRoute, neighborCnt>>
        \/ /\ s.ok /\ ~noHost /\ fault = "host_route"
           /\ Become(k, RemovedDb(RemoveNexthop(routed, k), FALSE))
           /\ Return(FALSE) /\ UNCHANGED <<hostRoute, neighborCnt>>
        \/ /\ s.ok /\ (noHost \/ fault # "host_route")
           /\ Become(k, [routed EXCEPT !.e.ref = @ + 1])
           /\ hostRoute' = IF noHost THEN hostRoute
                           ELSE [hostRoute EXCEPT ![RouteOf(k)] = s.e.nh]
           /\ neighborCnt' = (neighborCnt + 1) % CntWrap
           /\ Return(~noHost \/ host # "absent")
     /\ UNCHANGED <<nhObj, rifVars, fdbVars, nexthopCnt>>

(* _ctc_sai_neighbor_remove_neighbor on one record. A record that a next *)
(* hop still uses falls back to the miss action and the zero MAC. *)
Orphaned(k) ==
  [nb[k] EXCEPT !.act = IF Rif(k) \in rifs THEN missAct[Rif(k)] ELSE @,
                !.mac = NoMac]
\* mutant: the host route goes only with the last user
DropHostRouteLast(k) == Rif(k) \in rifs /\ ~nb[k].noHost /\ nb[k].ref <= 1
DropHostRoute(k) == Rif(k) \in rifs /\ ~nb[k].noHost
\* mutant: the next hop is removed whoever still uses it
RemoveOneFrees(s, k, a, n, fault) == RemovedDb(RemoveNexthop(s, k), FALSE)
RemoveOne(s, k, a, n, fault) ==
  RemovedDb(IF nb[k].ref <= 1 THEN RemoveNexthop(s, k)
            ELSE AddNexthop([s EXCEPT !.e = Orphaned(k)], k, a, n, fault), FALSE)

RemoveNeighbor(k, a, n, fault) ==
  /\ nb[k].exists
  /\ Become(k, RemoveOne(St(nb[k]), k, a, n, fault))
  /\ hostRoute' = IF DropHostRoute(k) THEN [hostRoute EXCEPT ![RouteOf(k)] = 0]
                  ELSE hostRoute
  /\ neighborCnt' = (neighborCnt - 1) % CntWrap
  /\ Return(TRUE)
  /\ UNCHANGED <<nhObj, rifVars, fdbVars, nexthopCnt>>

\* mutant: the counter goes down although nothing was removed
RemoveMissingCounts(k) ==
  /\ ~nb[k].exists
  /\ Return(FALSE) /\ neighborCnt' = (neighborCnt - 1) % CntWrap
  /\ UNCHANGED <<dbVars, nhObj, hostRoute, rifVars, fdbVars, nexthopCnt>>

RemoveMissing(k) ==
  /\ ~nb[k].exists
  /\ Return(FALSE)
  /\ UNCHANGED <<dbVars, nhObj, hostRoute, rifVars, fdbVars, cntVars>>

(* add_nexthop again on each record of K, f its records and tbl the FDB: *)
(* they have their ids, so only the SDK's tables change. *)
Writable(f, k) ==
  Rif(k) \in rifs /\ (Rif(k) \in BridgeRifs \/ f[k].act \in Supported)
HwArpAfter(f, K, tbl) ==
  LET W == {k \in K : Writable(f, k) /\ Rif(k) \notin BridgeRifs}
      user(x) == CHOOSE k \in W : f[k].arp = x
  IN [x \in ArpIds |-> IF \E k \in W : f[k].arp = x
                       THEN ArpParam(tbl, user(x), f[user(x)]) ELSE hwArp[x]]
HwNhAfter(f, K, tbl) ==
  LET W == {k \in K : Writable(f, k) /\ Rif(k) \in BridgeRifs}
      user(x) == CHOOSE k \in W : f[k].nh = x
  IN [x \in NhIds |-> IF \E k \in W : f[k].nh = x
                      THEN [misc |-> MiscParam(tbl, user(x), f[user(x)])]
                      ELSE hwNh[x]]

(* ctc_sai_neighbor_remove_all_neighbor: the traversal applies *)
(* remove_neighbor to every record and counts each one down, the records *)
(* that only a next hop holds too. *)
RemoveAll ==
  LET dead == {k \in Keys : nb[k].exists /\ nb[k].ref <= 1}
      kept == {k \in Keys : nb[k].exists /\ nb[k].ref > 1}
      freed == {k \in dead : Rif(k) \in rifs}
      arps == {nb[k].arp : k \in {x \in freed : Rif(x) \notin BridgeRifs}}
      nhs == {nb[k].nh : k \in freed}
      left == [k \in Keys |-> IF k \in kept THEN Orphaned(k) ELSE nb[k]]
      arpHw == HwArpAfter(left, kept, fdb)
      nhHw == HwNhAfter(left, kept, fdb)
      gone == {RouteOf(k) : k \in {x \in dead \cup kept : DropHostRoute(x)}}
  IN /\ RemoveAllUsed
     /\ nb' = [k \in Keys |-> IF k \in dead \cup kept
                              THEN RemoveDb(left[k], FALSE) ELSE nb[k]]
     /\ arpPool' = arpPool \ arps /\ nhPool' = nhPool \ nhs
     /\ hwArp' = [x \in ArpIds |-> IF x \in arps THEN NoHw ELSE arpHw[x]]
     /\ hwNh' = [x \in NhIds |-> IF x \in nhs THEN NoHw ELSE nhHw[x]]
     /\ hostRoute' = [x \in RouteKeys |-> IF x \in gone THEN 0 ELSE hostRoute[x]]
     /\ neighborCnt' = (neighborCnt - Cardinality({k \in Keys : nb[k].in})) % CntWrap
     /\ Return(TRUE)
     /\ UNCHANGED <<nhObj, rifVars, fdbVars, nexthopCnt>>

(* _ctc_sai_neighbor_set_attr. The old record comes back when a call fails, *)
(* what the SDK already took stays. *)
SetRecord(k, e, a, n, fault) ==
  LET s == AddNexthop(St(e), k, a, n, fault)
  IN /\ nb[k].exists
     /\ Become(k, IF s.ok THEN s ELSE [s EXCEPT !.e = nb[k]])
     /\ Return(s.ok)
     /\ UNCHANGED <<nhObj, hostRoute, rifVars, fdbVars, cntVars>>
SetMac(k, mac, a, n, fault) ==
  "mac" \in NbAttrs /\ SetRecord(k, [nb[k] EXCEPT !.mac = mac], a, n, fault)
SetAction(k, act, a, n, fault) ==
  "action" \in NbAttrs /\ SetRecord(k, [nb[k] EXCEPT !.act = act], a, n, fault)

SetNoHostRoute(k, on, fault) ==
  LET change == on # nb[k].noHost
      ok == ~change \/ (Rif(k) \in rifs /\ fault # "host_route")
  IN /\ "no_host_route" \in NbAttrs /\ nb[k].exists
     /\ nb' = IF ok THEN [nb EXCEPT ![k].noHost = on] ELSE nb
     /\ hostRoute' = IF ~change \/ ~ok THEN hostRoute
                     ELSE [hostRoute EXCEPT ![RouteOf(k)] = IF on THEN 0 ELSE nb[k].nh]
     /\ Return(ok)
     /\ UNCHANGED <<arpPool, nhPool, hwArp, hwNh, nhObj, rifVars, fdbVars, cntVars>>

-----------------------------------------------------------------------------
(* ctc_sai_neighbor_free_ipuc_nexthop. *)
FreeIpuc(s, k, n) ==
  IF ~s.e.in \/ s.e.nh # n THEN s
  ELSE IF s.e.ref = 1 THEN RemovedDb(RemoveNexthop(s, k), TRUE)
  ELSE [s EXCEPT !.e.ref = @ - 1]

(* The record alloc_ipuc_nexthop has when it calls add_nexthop. *)
Wanted(k) ==
  LET e == BuildDb(nb[k], TRUE)
  IN IF e.ref = 0 /\ Rif(k) \in rifs THEN [e EXCEPT !.act = missAct[Rif(k)]] ELSE e
AllocIpuc(k, a, n, fault) ==
  LET s == AddNexthop(St(Wanted(k)), k, a, n, fault)
  IN IF s.ok THEN [s EXCEPT !.e.ref = @ + 1] ELSE RemovedDb(s, TRUE)

(* ctc_sai_next_hop_create_nh with type IP. The object id is made of the *)
(* hardware next hop id, so a second next hop to the same neighbor is *)
(* refused by the database and its reference given back. *)
CreateNextHop(k, a, n, fault) ==
  LET s == AllocIpuc(k, a, n, fault)
      id == s.e.nh
      fresh == s.ok /\ nhObj[id] = NoKey
  IN /\ Become(k, IF s.ok /\ ~fresh THEN FreeIpuc(s, k, id) ELSE s)
     /\ nhObj' = IF fresh THEN [nhObj EXCEPT ![id] = k] ELSE nhObj
     /\ nexthopCnt' = IF fresh THEN nexthopCnt + 1 ELSE nexthopCnt
     /\ Return(fresh)
     /\ UNCHANGED <<hostRoute, rifVars, fdbVars, neighborCnt>>

\* mutant: the neighbor and its record go with the next hop, whatever ref_cnt says
RemoveNextHopTakesAll(n) ==
  LET k == nhObj[n]
  IN /\ k # NoKey
     /\ Become(k, [RemoveNexthop(St(nb[k]), k) EXCEPT !.e = Empty])
     /\ nhObj' = [nhObj EXCEPT ![n] = NoKey]
     /\ nexthopCnt' = nexthopCnt - 1
     /\ neighborCnt' = neighborCnt - (IF nb[k].exists THEN 1 ELSE 0)
     /\ hostRoute' = [hostRoute EXCEPT ![RouteOf(k)] = 0]
     /\ Return(TRUE)
     /\ UNCHANGED <<rifVars, fdbVars>>

(* ctc_sai_next_hop_remove_nh with type IP: what free_ipuc_nexthop returns *)
(* is ignored. *)
RemoveNextHop(n) ==
  LET k == nhObj[n]
  IN /\ k # NoKey
     /\ Become(k, FreeIpuc(St(nb[k]), k, n))
     /\ nhObj' = [nhObj EXCEPT ![n] = NoKey]
     /\ nexthopCnt' = nexthopCnt - 1
     /\ Return(TRUE)
     /\ UNCHANGED <<hostRoute, rifVars, fdbVars, neighborCnt>>

-----------------------------------------------------------------------------
(* remove_rif does not ask whether neighbors use the interface; a new one *)
(* gets the same object id. *)
RemoveRif(r) ==
  /\ r \in rifs
  /\ BusyRifRemoved \/ \A k \in Keys : Rif(k) = r => ~nb[k].in
  /\ rifs' = rifs \ {r}
  /\ Return(TRUE)
  /\ UNCHANGED <<dbVars, nhObj, hostRoute, missAct, fdbVars, cntVars>>
CreateRif(r) ==
  /\ r \notin rifs
  /\ rifs' = rifs \cup {r} /\ missAct' = [missAct EXCEPT ![r] = "TRAP"]
  /\ Return(TRUE)
  /\ UNCHANGED <<dbVars, nhObj, hostRoute, fdbVars, cntVars>>
SetMissAction(r, act) ==
  /\ r \in rifs
  /\ missAct' = [missAct EXCEPT ![r] = act]
  /\ Return(TRUE)
  /\ UNCHANGED <<dbVars, nhObj, hostRoute, rifs, fdbVars, cntVars>>

\* mutant: FDB changes of a bridge are not followed
BehindVlan(r, mac) ==
  {k \in Keys : nb[k].in /\ Rif(k) = r /\ r \in VlanRifs /\ nb[k].mac = mac}

(* ctc_sai_neighbor_update_arp: the records behind r with that MAC, or with *)
(* a flush every record behind a VLAN or a bridge, look the FDB up again. *)
Behind(r, mac) == {k \in Keys : nb[k].in /\ Rif(k) = r /\ nb[k].mac = mac}
BehindAny == {k \in Keys : nb[k].in /\ Rif(k) \in L2Rifs}
UpdateArp(K, tbl) ==
  /\ hwArp' = HwArpAfter(nb, K, tbl) /\ hwNh' = HwNhAfter(nb, K, tbl)
  /\ UNCHANGED <<nb, arpPool, nhPool>>

(* FDB entries created, changed and removed by the API, and by the learning *)
(* and aging callbacks when the software maintains the table. *)
ChangeFdb(r, mac, port) ==
  /\ fdb[<<r, mac>>] # port
  /\ fdb' = [fdb EXCEPT ![<<r, mac>>] = port]
  /\ UpdateArp(Behind(r, mac), fdb')
  /\ Return(TRUE)
  /\ UNCHANGED <<nhObj, hostRoute, rifVars, events, cntVars>>
FlushFdb(r) ==
  /\ fdb' = [x \in L2Rifs \X Macs |-> IF x[1] = r THEN NoPort ELSE fdb[x]]
  /\ UpdateArp(BehindAny, fdb')
  /\ Return(TRUE)
  /\ UNCHANGED <<nhObj, hostRoute, rifVars, events, cntVars>>

(* With HW_LEARNING_EN the chip changes the table by itself; the callback *)
(* runs later and only has the neighbors look again. *)
HwChangeFdb(r, mac, port) ==
  /\ HwLearning /\ fdb[<<r, mac>>] # port
  /\ <<r, mac>> \in events \/ Cardinality(events) < MaxEvents
  /\ fdb' = [fdb EXCEPT ![<<r, mac>>] = port]
  /\ events' = events \cup {<<r, mac>>}
  /\ UNCHANGED <<dbVars, nhObj, hostRoute, rifVars, cntVars, status>>
FdbEvent(r, mac) ==
  /\ <<r, mac>> \in events
  /\ events' = events \ {<<r, mac>>}
  /\ UpdateArp(Behind(r, mac), fdb)
  /\ UNCHANGED <<nhObj, hostRoute, rifVars, fdb, cntVars, status>>

-----------------------------------------------------------------------------
Failing == Faults \cup {"none"}
RecordNext(k, a, n, fault) ==
  \/ \E mac \in Macs, act \in CreateActs, host \in HostAttrs :
       CreateNeighbor(k, mac, act, host, a, n, fault)
  \/ RemoveNeighbor(k, a, n, fault)
  \/ \E mac \in Macs : SetMac(k, mac, a, n, fault)
  \/ \E act \in SetActs : SetAction(k, act, a, n, fault)
  \/ CreateNextHop(k, a, n, fault)
KeyNext(k) ==
  \/ CreateExisting(k) \/ CreateWithoutMac(k) \/ RemoveMissing(k)
  \/ \E a \in FreeIds(ArpIds, arpPool), n \in FreeIds(NhIds, nhPool),
        fault \in Failing : RecordNext(k, a, n, fault)
  \/ \E on \in BOOLEAN, fault \in Failing : SetNoHostRoute(k, on, fault)
RifNext ==
  \/ \E r \in Rifs : RemoveRif(r) \/ CreateRif(r)
  \/ \E r \in Rifs, act \in MissActs : SetMissAction(r, act)
FdbNext ==
  \/ \E r \in L2Rifs, mac \in Macs, port \in Ports \cup {NoPort} :
       ChangeFdb(r, mac, port) \/ HwChangeFdb(r, mac, port)
  \/ \E r \in L2Rifs : FlushFdb(r)
  \/ \E r \in L2Rifs, mac \in Macs : FdbEvent(r, mac)

Next ==
  \/ \E k \in Keys : KeyNext(k)
  \/ \E n \in NhIds : RemoveNextHop(n)
  \/ RemoveAll \/ RifNext \/ FdbNext

Spec == Init /\ [][Next]_vars

-----------------------------------------------------------------------------
HasNextHop(k) == \E n \in NhIds : nhObj[n] = k

(* A record is in the database exactly while the neighbor module or an IP *)
(* next hop uses it, and ref_cnt counts them: no create, remove, failed *)
(* create or repeated next hop loses or forgets a user. *)
RefExact ==
  \A k \in Keys :
    /\ nb[k].ref = (IF nb[k].exists THEN 1 ELSE 0) + (IF HasNextHop(k) THEN 1 ELSE 0)
    /\ nb[k].in <=> nb[k].ref > 0

(* No two records name the same ARP id or next hop id, and none names an id *)
(* that the pool may hand out again, whatever failed before. *)
IdsUnique ==
  /\ \A k \in Keys : /\ nb[k].arp # 0 => nb[k].arp \in arpPool
                     /\ nb[k].nh # 0 => nb[k].nh \in nhPool
  /\ \A j, k \in Keys : j # k => /\ nb[j].arp = nb[k].arp => nb[j].arp = 0
                                 /\ nb[j].nh = nb[k].nh => nb[j].nh = 0

(* Every ARP and next hop id taken from the pools belongs to a record. *)
PoolsExact ==
  /\ arpPool = {nb[k].arp : k \in Keys} \ {0}
  /\ nhPool = {nb[k].nh : k \in Keys} \ {0}

(* What the hardware does with a packet sent to next hop n. *)
Adjacency(n) ==
  IF hwNh[n] = NoHw THEN NoHw
  ELSE IF "arp" \in DOMAIN hwNh[n] THEN hwArp[hwNh[n].arp] ELSE hwNh[n].misc
AdjacencyOf(k) ==
  IF Rif(k) \in BridgeRifs THEN MiscParam(fdb, k, nb[k]) ELSE ArpParam(fdb, k, nb[k])

(* A packet for a record's next hop goes where the record and the FDB say *)
(* now, unless the FDB event of its MAC is still queued: FDB changes, MAC *)
(* and action changes, and neighbors that come and go under a next hop all *)
(* reach the hardware. *)
AdjacencyFresh ==
  \A k \in Keys : (nb[k].in /\ <<Rif(k), nb[k].mac>> \notin events)
                    => Adjacency(nb[k].nh) = AdjacencyOf(k)

(* A host route is in the hardware exactly for the neighbors that want one, *)
(* and points to the record's present next hop. *)
HostRouteExact ==
  \A k \in Keys : hostRoute[RouteOf(k)] =
                    IF nb[k].exists /\ ~nb[k].noHost THEN nb[k].nh ELSE 0

(* The switch's counters are the numbers of neighbors and of next hops. *)
CountsExact ==
  /\ neighborCnt = Cardinality({k \in Keys : nb[k].exists})
  /\ nexthopCnt = Cardinality({n \in NhIds : nhObj[n] # NoKey})

(* Only its own removal, or remove_all, ends a neighbor: no other handler, *)
(* successful or not, takes it away. *)
NeighborKept ==
  [][\A k \in Keys : (nb[k].exists /\ ~nb'[k].exists) =>
       \/ RemoveAll
       \/ \E a \in ArpIds \cup {0}, n \in NhIds \cup {0}, fault \in Failing :
            RemoveNeighbor(k, a, n, fault)]_vars

(* While a next hop object lives, the record it stands on keeps its *)
(* hardware next hop id: routes through the object are never left on an id *)
(* that is free or somebody else's. *)
NextHopKept ==
  \A n \in NhIds : nhObj[n] # NoKey => nb[nhObj[n]].in /\ nb[nhObj[n]].nh = n

(* saineighbor.h: a failure status is for an error. A create_neighbor that *)
(* reports failure has not created the neighbor. *)
FailedCreateUndone ==
  [][\A k \in Keys : (~nb[k].exists /\ nb'[k].exists) => status' = "SUCCESS"]_vars
=============================================================================
