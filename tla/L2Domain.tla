------------------------------ MODULE L2Domain ------------------------------
(***************************************************************************)
(* The broadcast domains of the switch: VLANs (ctc_sai_vlan.c), 802.1D *)
(* bridges (ctc_sai_bridge.c) and the spanning tree instances they are put *)
(* in (ctc_sai_stp.c), with the unknown packet action the switch object *)
(* sets for all of them (ctc_sai_switch.c). *)
(* *)
(* VLANs and bridges draw their fids from one pool. A VLAN object carries *)
(* the fid, and the 802.1Q id the client gave it; a bridge uses the number *)
(* of its fid as the 802.1Q id as well. Every handler runs under the *)
(* database lock and is one action. The SDK refuses an 802.1Q id that *)
(* exists and a counter when it has none left; its other calls succeed. *)
(***************************************************************************)
EXTENDS Naturals, FiniteSets

CONSTANTS
  Fids,        \* the ids of pool VLAN, numbers from 1 on
  Vids,        \* the 802.1Q ids the client uses
  StpIds,      \* the ids of pool STP; instance 0 always exists
  FloodTypes,  \* unknown unicast, unknown multicast, broadcast
  MissActs,    \* the packet actions the client sets on the switch
  NumStats,    \* counters the SDK can give out
  MaxBinds     \* bound: times VLANs are put in one instance

PacketActions == {"DROP", "FORWARD", "COPY", "COPY_CANCEL", "TRAP", "LOG",
                  "DENY", "TRANSIT"}
FloodControls == {"ALL", "NONE"}     \* the supported ones

ASSUME DomainAssumption ==
  /\ Fids \subseteq Nat \ {0} /\ Vids \subseteq Nat \ {0}
  /\ 1 \in Fids \cap Vids /\ StpIds \subseteq Nat \ {0}
  /\ MissActs \subseteq PacketActions
  /\ NumStats \in Nat \ {0, 1} /\ MaxBinds \in Nat

VARIABLES
  vlanDb,      \* the VLAN objects, by fid
  bridgeDb,    \* the fids of the 802.1D bridge objects
  stpDb,       \* the STP objects: VLANs bound (by 802.1Q id) and their count
  freed,       \* fids whose VLAN object points to freed memory
  fidPool,     \* fids taken
  missAct,     \* p_switch_master->fdb_miss_action
  hwVlan,      \* the SDK's VLANs, by 802.1Q id
  hwFlood,     \* per fid and type: the drop and the copy bit
  hwStp,       \* the instance the SDK has each fid in
  hwStats,     \* counters the SDK has given out
  unapplied    \* <<fid, type>> for which no packet action was ever written

domVars == <<vlanDb, bridgeDb, stpDb, freed, fidPool, missAct, hwVlan, hwFlood,
             hwStp, hwStats, unapplied>>

NoVlan == [vid |-> 0, stp |-> 0, stats |-> FALSE,
           flood |-> [t \in FloodTypes |-> "ALL"]]
NoStp == [live |-> FALSE, bits |-> {}, count |-> 0]
Vlans == {f \in Fids : vlanDb[f].vid # 0}
Quiet == [drop |-> FALSE, copy |-> FALSE]
StatsOf(f) == {<<f, "in">>, <<f, "eg">>}
CanCount(n) == Cardinality(hwStats) + n <= NumStats

(* ctc_sai_vlan_db_init makes VLAN 1; ctc_sai_stp_db_init makes instance 0. *)
DomInit ==
  /\ vlanDb = [f \in Fids |-> IF f = 1 THEN [NoVlan EXCEPT !.vid = 1] ELSE NoVlan]
  /\ bridgeDb = {} /\ freed = {} /\ fidPool = {1}
  /\ stpDb = [s \in StpIds |-> NoStp]
  /\ missAct = [t \in FloodTypes |-> "FORWARD"]
  /\ hwVlan = {1} /\ hwStp = [f \in Fids |-> 0] /\ hwStats = {}
  /\ hwFlood = [f \in Fids |-> [t \in FloodTypes |-> Quiet]]
  /\ unapplied = {1} \X FloodTypes

-----------------------------------------------------------------------------
(* _ctc_sai_vlan_set_unknown_pkt_action: the switch's action decides drop *)
(* and copy, and a VLAN that floods nothing drops what would be forwarded. *)
UnknownPktAction(act, flood) ==
  [drop |-> act \in {"DROP", "TRAP", "DENY"} \/ flood = "NONE",
   copy |-> act \in {"COPY", "TRAP", "LOG"}]

(* ctc_sai_stp_set_instance. Binding writes the chip and counts; unbinding *)
(* only counts. Instance 0 is not counted. *)
Bind(db, vid, s) ==
  IF s = 0 THEN db
  ELSE [db EXCEPT ![s].bits = @ \cup {vid}, ![s].count = @ + 1]
Unbind(db, vid, s) ==
  IF s = 0 THEN db
  ELSE [db EXCEPT ![s].bits = @ \ {vid}, ![s].count = @ - 1]
StpFound(s) == IF s = 0 THEN TRUE ELSE stpDb[s].live
CanBind(s) == IF s = 0 THEN TRUE ELSE stpDb[s].count < MaxBinds

(* ctc_sai_vlan_create_vlan. The id, the chip's VLAN, the two counters, the *)
(* object, then the attributes; flood is the control of each type the call *)
(* gives. MAX_LEARNED_ADDRESSES and LEARN_DISABLE are set before the object *)
(* is in the database, so a call that gives them fails at once (early). A *)
(* refused counter undoes what there is (error1, error2). An instance that *)
(* does not exist ends in error4, which frees everything except the object's *)
(* place in the database. *)
CreateFails(f, vid, early, stats) ==
  vid \in hwVlan \/ early \/ (stats /\ ~CanCount(2)) \/ f \in freed
CreateVlan(f, vid, early, stats, s, flood) ==
  /\ f \notin fidPool
  /\ \/ /\ CreateFails(f, vid, early, stats)
        /\ UNCHANGED domVars
     \/ /\ ~CreateFails(f, vid, early, stats) /\ ~StpFound(s)
        /\ freed' = freed \cup {f}
        /\ UNCHANGED <<vlanDb, bridgeDb, stpDb, fidPool, missAct, hwVlan, hwFlood,
                       hwStp, hwStats, unapplied>>
     \/ /\ ~CreateFails(f, vid, early, stats) /\ StpFound(s)
        /\ CanBind(s)
        /\ vlanDb' = [vlanDb EXCEPT ![f] =
             [vid |-> vid, stp |-> s, stats |-> stats,
              flood |-> [t \in FloodTypes |-> IF t \in DOMAIN flood THEN flood[t] ELSE "ALL"]]]
        /\ stpDb' = Bind(stpDb, vid, s)
        /\ hwStp' = [hwStp EXCEPT ![f] = s]
        /\ fidPool' = fidPool \cup {f} /\ hwVlan' = hwVlan \cup {vid}
        /\ hwStats' = IF stats THEN hwStats \cup StatsOf(f) ELSE hwStats
        /\ hwFlood' = [hwFlood EXCEPT ![f] = [t \in FloodTypes |->
             IF t \in DOMAIN flood THEN UnknownPktAction(missAct[t], flood[t]) ELSE Quiet]]
        /\ unapplied' = unapplied \cup ({f} \X (FloodTypes \ DOMAIN flood))
        /\ UNCHANGED <<bridgeDb, freed, missAct>>

(* ctc_sai_vlan_remove_vlan: counters, id, instance, chip, object. Members *)
(* are not looked for. *)
RemoveVlan(f) ==
  /\ f \in Vlans
  /\ vlanDb' = [vlanDb EXCEPT ![f] = NoVlan]
  /\ stpDb' = Unbind(stpDb, vlanDb[f].vid, vlanDb[f].stp)
  /\ fidPool' = fidPool \ {f} /\ hwVlan' = hwVlan \ {vlanDb[f].vid}
  /\ hwStats' = hwStats \ StatsOf(f)
  /\ unapplied' = unapplied \ ({f} \X FloodTypes)
  /\ UNCHANGED <<bridgeDb, freed, missAct, hwFlood, hwStp>>

(* ctc_sai_vlan_set_info, STP_INSTANCE: the new instance is bound, the old *)
(* one keeps its bit and its count. *)
\* mutant: the old instance is unbound, with the number of the new one stored late
SetVlanStp_both(f, s) ==
  /\ f \in Vlans /\ StpFound(s)
  /\ CanBind(s)
  /\ stpDb' = Unbind(Bind(stpDb, vlanDb[f].vid, s), vlanDb[f].vid, s)
  /\ vlanDb' = [vlanDb EXCEPT ![f].stp = s] /\ hwStp' = [hwStp EXCEPT ![f] = s]
  /\ UNCHANGED <<bridgeDb, freed, fidPool, missAct, hwVlan, hwFlood, hwStats, unapplied>>
SetVlanStp(f, s) ==
  /\ f \in Vlans /\ StpFound(s)
  /\ CanBind(s)
  /\ stpDb' = Bind(stpDb, vlanDb[f].vid, s)
  /\ vlanDb' = [vlanDb EXCEPT ![f].stp = s] /\ hwStp' = [hwStp EXCEPT ![f] = s]
  /\ UNCHANGED <<bridgeDb, freed, fidPool, missAct, hwVlan, hwFlood, hwStats, unapplied>>

(* ctc_sai_vlan_set_info, the three flood controls: (attr - unicast) / step *)
(* is the type. L2MC_GROUP and COMBINED are refused before anything is set. *)
SetVlanFlood(f, t, c) ==
  /\ f \in Vlans /\ c \in FloodControls
  /\ vlanDb' = [vlanDb EXCEPT ![f].flood[t] = c]
  /\ hwFlood' = [hwFlood EXCEPT ![f][t] = UnknownPktAction(missAct[t], c)]
  /\ unapplied' = unapplied \ {<<f, t>>}
  /\ UNCHANGED <<bridgeDb, stpDb, freed, fidPool, missAct, hwVlan, hwStp, hwStats>>

(* ctc_sai_vlan_set_info, CUSTOM_STATS_ENABLE: both counters or none. When *)
(* only one is left, error1 gives it back. *)
SetVlanStats(f, on) ==
  /\ f \in Vlans /\ vlanDb[f].stats # on
  /\ on => CanCount(2)
  /\ vlanDb' = [vlanDb EXCEPT ![f].stats = on]
  /\ hwStats' = IF on THEN hwStats \cup StatsOf(f) ELSE hwStats \ StatsOf(f)
  /\ UNCHANGED <<bridgeDb, stpDb, freed, fidPool, missAct, hwVlan, hwFlood, hwStp, unapplied>>

(* The switch's miss packet action, and the traversal that writes it to all *)
(* VLANs. A freed object in the way is undefined and not modelled. *)
\* mutant: the VLANs' own controls are not looked at
SetMissAction_all(t, a) ==
  /\ freed = {}
  /\ missAct' = [missAct EXCEPT ![t] = a]
  /\ hwFlood' = [f \in Fids |-> IF f \notin Vlans THEN hwFlood[f]
       ELSE [hwFlood[f] EXCEPT ![t] = UnknownPktAction(a, "ALL")]]
  /\ unapplied' = {x \in unapplied : x[2] # t}
  /\ UNCHANGED <<vlanDb, bridgeDb, stpDb, freed, fidPool, hwVlan, hwStp, hwStats>>
SetMissAction(t, a) ==
  /\ freed = {}
  /\ missAct' = [missAct EXCEPT ![t] = a]
  /\ hwFlood' = [f \in Fids |-> IF f \notin Vlans THEN hwFlood[f]
       ELSE [hwFlood[f] EXCEPT ![t] = UnknownPktAction(a, vlanDb[f].flood[t])]]
  /\ unapplied' = {x \in unapplied : x[2] # t}
  /\ UNCHANGED <<vlanDb, bridgeDb, stpDb, freed, fidPool, hwVlan, hwStp, hwStats>>

-----------------------------------------------------------------------------
(* ctc_sai_bridge_create_bridge, type 1D: the fid, and the chip's VLAN of *)
(* the same number; when that exists, roll_back_0. *)
CreateBridge(f) ==
  /\ f \notin fidPool
  /\ IF f \in hwVlan THEN UNCHANGED domVars
     ELSE /\ fidPool' = fidPool \cup {f} /\ hwVlan' = hwVlan \cup {f}
          /\ bridgeDb' = bridgeDb \cup {f}
          /\ hwFlood' = [hwFlood EXCEPT ![f] = [t \in FloodTypes |-> Quiet]]
          /\ UNCHANGED <<vlanDb, stpDb, freed, missAct, hwStp, hwStats, unapplied>>

(* ctc_sai_bridge_remove_bridge, type 1D. Bridge ports are not looked for. *)
RemoveBridge(f) ==
  /\ f \in bridgeDb
  /\ bridgeDb' = bridgeDb \ {f} /\ hwVlan' = hwVlan \ {f} /\ fidPool' = fidPool \ {f}
  /\ UNCHANGED <<vlanDb, stpDb, freed, missAct, hwFlood, hwStp, hwStats, unapplied>>

(* ctc_sai_bridge_set_property, a flood control of the bridge. *)
SetBridgeFlood(f, t, c) ==
  /\ f \in bridgeDb
  /\ hwFlood' = [hwFlood EXCEPT ![f][t].drop = (c = "NONE")]
  /\ UNCHANGED <<vlanDb, bridgeDb, stpDb, freed, fidPool, missAct, hwVlan, hwStp, hwStats,
                 unapplied>>

CreateStp(s) ==
  /\ ~stpDb[s].live
  /\ stpDb' = [stpDb EXCEPT ![s] = [NoStp EXCEPT !.live = TRUE]]
  /\ UNCHANGED <<vlanDb, bridgeDb, freed, fidPool, missAct, hwVlan, hwFlood, hwStp, hwStats,
                 unapplied>>

(* ctc_sai_stp_remove_stp refuses an instance whose count is not zero. *)
RemoveStp(s) ==
  /\ stpDb[s].live /\ stpDb[s].count = 0
  /\ stpDb' = [stpDb EXCEPT ![s] = NoStp]
  /\ UNCHANGED <<vlanDb, bridgeDb, freed, fidPool, missAct, hwVlan, hwFlood, hwStp, hwStats,
                 unapplied>>

DomNext ==
  \/ \E f \in Fids, v \in Vids, early, stats \in BOOLEAN, s \in StpIds \cup {0},
        T \in SUBSET FloodTypes :
       \E flood \in [T -> FloodControls] : CreateVlan(f, v, early, stats, s, flood)
  \/ \E f \in Fids : RemoveVlan(f) \/ CreateBridge(f) \/ RemoveBridge(f)
  \/ \E f \in Fids, s \in StpIds \cup {0} : SetVlanStp(f, s)
  \/ \E f \in Fids, t \in FloodTypes, c \in FloodControls :
       SetVlanFlood(f, t, c) \/ SetBridgeFlood(f, t, c)
  \/ \E f \in Fids, on \in BOOLEAN : SetVlanStats(f, on)
  \/ \E t \in FloodTypes, a \in MissActs : SetMissAction(t, a)
  \/ \E s \in StpIds : CreateStp(s) \/ RemoveStp(s)

DomSpec == DomInit /\ [][DomNext]_domVars

-----------------------------------------------------------------------------
\* the id pool, the chip's VLANs and its counters are exactly those of the objects
IdsOwned ==
  /\ Vlans \cap bridgeDb = {}
  /\ fidPool = Vlans \cup bridgeDb
  /\ hwVlan = {vlanDb[f].vid : f \in Vlans} \cup bridgeDb
  /\ \A f, g \in Vlans : vlanDb[f].vid = vlanDb[g].vid => f = g
  /\ hwStats = UNION {StatsOf(f) : f \in {g \in Vlans : vlanDb[g].stats}}
\* a VLAN's instance exists and is the chip's; remove_stp's count never falls below
\* the number of VLANs of the instance
InstanceKept ==
  /\ \A f \in Vlans : StpFound(vlanDb[f].stp) /\ hwStp[f] = vlanDb[f].stp
  /\ \A s \in StpIds : stpDb[s].count >= Cardinality({f \in Vlans : vlanDb[f].stp = s})

(* Whatever order VLANs and bridges, which share fids and 802.1Q numbers, are *)
(* created, refused and removed in, no fid, VLAN number or counter is lost or *)
(* owned twice; and a VLAN's spanning tree instance exists as long as the *)
(* VLAN is in it, however often VLANs are moved between instances. *)
DomainsExact == IdsOwned /\ InstanceKept

(* What happens to unknown packets of a VLAN follows from the switch's action *)
(* and the VLAN's own control, in whatever order the two were set; the drop *)
(* bit is never left over from an earlier owner of the fid. A type for which *)
(* neither was set since the VLAN was created floods. *)
FloodExact ==
  \A f \in Vlans, t \in FloodTypes :
    hwFlood[f][t] = IF <<f, t>> \in unapplied THEN Quiet
                    ELSE UnknownPktAction(missAct[t], vlanDb[f].flood[t])
=============================================================================
