----------------------------- MODULE L3Interface -----------------------------
(***************************************************************************)
(* Virtual routers and router interfaces: ctc_sai_virtual_router.c and *)
(* ctc_sai_router_interface.c over the object database of ctc_sai_db.c. *)
(* *)
(* Every API handler runs under CTC_SAI_DB_LOCK, so a handler is one *)
(* action, with one exception: create_rif checks its attributes BEFORE it *)
(* takes the lock, so it is the two actions RifAttrCheck and CreateRif. *)
(* The SDK is external. A call of it may fail at the points named in *)
(* Faults, and the handler's goto labels then unwind what it has done. *)
(* *)
(* v4 stands for the attributes handled alike: the V4, V6 and multicast *)
(* states, the MTU and the NAT zone. LOOPBACK stands for MPLS_ROUTER too. *)
(* The ports are physical ones; interfaces on a LAG are not modelled here. *)
(***************************************************************************)
EXTENDS Naturals, FiniteSets

CONSTANTS
  Vrfs,          \* ids of the VRF pool
  L3ifs,         \* ids of the L3IF pool
  Vifs,          \* ids of the VIF pool, numbered from 1 as the L3IF pool is
  StatsIds,      \* statistics ids the SDK can hand out (0 means none)
  Ports, Vlans, Macs,
  DefaultMac,    \* the switch's router MAC
  MaxRouterMac,  \* router MACs one hardware interface can hold
  RifTypes,      \* the interface types the callers create
  VirtualVals,   \* values of SAI_ROUTER_INTERFACE_ATTR_IS_VIRTUAL in use
  StatsAttrs,    \* values of CUSTOM_STATS_STATE at creation, "absent" too
  StatsTypes,    \* bound: the types created with statistics on
  StatsSets,     \* values of CUSTOM_STATS_STATE set later
  RifAttrs,      \* the attributes set on a live interface
  V4Vals,        \* values of ADMIN_V4_STATE set on a virtual router
  VrAttrs,       \* the attributes set on a live virtual router
  MaxPending,    \* bound: create_rif calls between their check and the lock
  Faults         \* the calls that may fail

VifTypes == {"LOOPBACK", "QINQ_PORT"}
L3ifTypes == {"PORT", "VLAN", "SUB_PORT", "BRIDGE"}
FaultPoints == {"malloc", "stats", "phy_if", "scl", "attr", "set_hw"}

ASSUME L3InterfaceAssumption ==
  /\ Vrfs \subseteq Nat \ {0} /\ L3ifs \subseteq Nat \ {0}
  /\ Vifs \subseteq Nat \ {0} /\ StatsIds \subseteq Nat \ {0}
  /\ IsFiniteSet(StatsIds) /\ DefaultMac \in Macs
  /\ MaxRouterMac \in Nat /\ MaxPending \in Nat
  /\ RifTypes \subseteq VifTypes \cup L3ifTypes
  /\ VirtualVals \subseteq BOOLEAN /\ StatsSets \subseteq BOOLEAN
  /\ StatsTypes \subseteq RifTypes /\ V4Vals \subseteq BOOLEAN
  /\ StatsAttrs \subseteq {"absent", "on", "off"}
  /\ RifAttrs \subseteq {"vr", "mac", "v4", "stats"} /\ VrAttrs \subseteq {"v4", "mac"}
  /\ Faults \subseteq FaultPoints

VARIABLES
  vr,        \* the virtual router objects: a function from live VRF ids
  vrfPool,   \* the VRF ids taken from the pool
  rif,       \* the router interface objects: a function from live object ids
  l3ifPool,  \* the ids taken from the L3IF pool
  vifPool,   \* the ids taken from the VIF pool
  hw,        \* the SDK's table of layer-3 interfaces
  stats,     \* the SDK's live statistics ids
  subIfRef,  \* sub_if_ref_cnt of each port
  sclEn,     \* the ports whose SCL hash is PORT_SVLAN
  phyIfEn,   \* the ports in phy_if mode
  pending,   \* create_rif requests past their attribute check, lock not taken
  status     \* whether the last completed call succeeded

vars == <<vr, vrfPool, rif, l3ifPool, vifPool, hw, stats, subIfRef, sclEn,
          phyIfEn, pending, status>>

Vrs == Vrfs \cup {0}   \* 0 is the default virtual router, built at init
Rifs == ((VifTypes \cap RifTypes) \X Vifs) \cup ((L3ifTypes \cap RifTypes) \X L3ifs)
Id(o) == o[2]

(* What identifies an interface to the SDK: two cannot share a key. *)
Key(type, port, vlan) ==
  CASE type = "PORT"     -> <<"phy", port>>
    [] type = "SUB_PORT" -> <<"sub", port, vlan>>
    [] OTHER             -> <<"vlan", vlan>>
Keys == {Key(t, p, v) : t \in L3ifTypes, p \in Ports, v \in Vlans}

(* What create_rif reads: a type without a port or a VLAN always carries *)
(* the same one, and only the types of StatsTypes ask for statistics. *)
Requests ==
  {q \in [type : RifTypes, vr : Vrs, port : Ports, vlan : Vlans,
          virt : VirtualVals, stats : StatsAttrs] :
     /\ q.type \notin {"PORT", "SUB_PORT", "QINQ_PORT"} => q.port = CHOOSE p \in Ports : TRUE
     /\ q.type \notin {"VLAN", "SUB_PORT", "QINQ_PORT"} => q.vlan = CHOOSE v \in Vlans : TRUE
     /\ q.stats = "on" => q.type \in StatsTypes}

RifRecords ==
  [vrf : Vrs, v4 : BOOLEAN, mac : Macs, port : Ports, vlan : Vlans,
   virt : BOOLEAN, actual : L3ifs \cup {0}, statsEn : BOOLEAN,
   ing : StatsIds \cup {0}, egs : StatsIds \cup {0},
   asked : {"absent", "on", "off"}]
HwRecords ==
  [key : Keys, vrf : Vrs, v4 : BOOLEAN, macs : SUBSET Macs,
   ing : StatsIds \cup {0}, egs : StatsIds \cup {0}]

TypeOK ==
  /\ DOMAIN vr \subseteq Vrs
  /\ \A v \in DOMAIN vr : vr[v] \in [v4 : BOOLEAN, mac : Macs]
  /\ vrfPool \subseteq Vrfs
  /\ DOMAIN rif \subseteq Rifs
  /\ \A o \in DOMAIN rif : rif[o] \in RifRecords
  /\ l3ifPool \subseteq L3ifs /\ vifPool \subseteq Vifs
  /\ DOMAIN hw \subseteq L3ifs
  /\ \A i \in DOMAIN hw : hw[i] \in HwRecords
  /\ stats \subseteq StatsIds
  /\ subIfRef \in [Ports -> Nat]
  /\ sclEn \subseteq Ports /\ phyIfEn \subseteq Ports
  /\ pending \subseteq Requests
  /\ status \in {"SUCCESS", "FAILURE"}

-----------------------------------------------------------------------------
(* The part of the state create_rif, remove_rif and set_attr work on, as a *)
(* record: the stages of a handler and its error labels are functions of it.*)
St == [rif |-> rif, l3if |-> l3ifPool, vif |-> vifPool, hw |-> hw,
       stats |-> stats, ref |-> subIfRef, scl |-> sclEn, phy |-> phyIfEn]

Become(s) ==
  /\ rif' = s.rif /\ l3ifPool' = s.l3if /\ vifPool' = s.vif /\ hw' = s.hw
  /\ stats' = s.stats /\ subIfRef' = s.ref /\ sclEn' = s.scl
  /\ phyIfEn' = s.phy

Drop(f, x) == [y \in DOMAIN f \ {x} |-> f[y]]
Put(f, x, v) == [y \in DOMAIN f \cup {x} |-> IF y = x THEN v ELSE f[y]]

(* ctcs_l3if_create and ctcs_l3if_destory. *)
HwCreate(s, i, key) ==
  [s EXCEPT !.hw = Put(@, i, [key |-> key, vrf |-> 0, v4 |-> FALSE,
                              macs |-> {}, ing |-> 0, egs |-> 0])]
HwDestroy(s, i) == [s EXCEPT !.hw = Drop(@, i)]
KeyTaken(s, key) == \E i \in DOMAIN s.hw : s.hw[i].key = key

(* Two statistics ids, ingress then egress, created and written to the *)
(* interface; a write to an interface that does not exist fails, the handler*)
(* then forgets the id it has created. *)
FreeStats(s) == StatsIds \ s.stats
FirstStats(s) == CHOOSE a \in FreeStats(s) : \A b \in FreeStats(s) : a <= b
SecondStats(s) == CHOOSE a \in FreeStats(s) \ {FirstStats(s)} :
                    \A b \in FreeStats(s) \ {FirstStats(s)} : a <= b
CreateStats(s, o, a, b) ==
  LET seen == Id(o) \in DOMAIN s.hw
      t == [s EXCEPT !.stats = @ \cup {a, b},
                     !.rif[o].ing = IF seen THEN a ELSE 0,
                     !.rif[o].egs = IF seen THEN b ELSE 0]
  IN IF seen THEN [t EXCEPT !.hw[Id(o)].ing = a, !.hw[Id(o)].egs = b] ELSE t

(* The properties set_attr_hw writes, and the router MAC that replaces the *)
(* list on the interface. *)
WriteProps(s, o, i) ==
  [s EXCEPT !.hw[i].vrf = s.rif[o].vrf, !.hw[i].v4 = s.rif[o].v4]
WriteMac(s, o, i) == [s EXCEPT !.hw[i].macs = {s.rif[o].mac}]
AppendMac(s, o) ==
  [s EXCEPT !.hw[s.rif[o].actual].macs = @ \cup {s.rif[o].mac}]

(* The end of stats: both ids are destroyed, but the code clears *)
(* ing_statsid twice and leaves egs_statsid as it was. *)
StopStats(s, o, i) ==
  [s EXCEPT !.stats = @ \ {s.rif[o].ing, s.rif[o].egs},
            !.hw[i].ing = 0, !.hw[i].egs = 0, !.rif[o].ing = 0]

(* Only the ingress id can be made: the code forgets it and then destroys 0. *)
LoseStats(s, i, a) == [s EXCEPT !.stats = @ \cup {a}, !.hw[i].ing = 0]

Skipped(s, o) ==
  \/ o[1] = "BRIDGE" /\ Id(o) \notin DOMAIN s.hw
  \/ o[1] = "LOOPBACK"

(* _ctc_sai_router_interface_set_attr_hw, with the write that fails: the *)
(* state it leaves and whether the call succeeded. A QINQ_PORT interface is *)
(* not skipped, and its id is one of the VIF pool. *)
HwFaults == {"none"} \cup (IF "set_hw" \in Faults THEN {"first", "second"} ELSE {})

SetAttrHw(s, o, fault) ==
  LET i == Id(o)
      r == s.rif[o]
      w == WriteProps(s, o, i)
      start == r.statsEn /\ r.ing = 0 /\ r.egs = 0
      stop == ~r.statsEn /\ r.ing # 0 /\ r.egs # 0
      Ok(t) == [s |-> t, ok |-> TRUE]
      Failed(t) == [s |-> t, ok |-> FALSE]
  IN IF Skipped(s, o) THEN Ok(s)
     ELSE IF r.virt
          THEN IF r.actual \in DOMAIN s.hw THEN Ok(AppendMac(s, o)) ELSE Failed(s)
     ELSE IF i \notin DOMAIN s.hw \/ fault = "first" THEN Failed(s)
     ELSE IF fault = "second" THEN Failed([s EXCEPT !.hw[i].vrf = r.vrf])
     ELSE IF start /\ FreeStats(s) = {} THEN Failed(w)
     ELSE IF start /\ Cardinality(FreeStats(s)) < 2 THEN Failed(LoseStats(w, i, FirstStats(s)))
     ELSE IF start
          THEN Ok(WriteMac(CreateStats(w, o, FirstStats(s), SecondStats(s)), o, i))
     ELSE IF stop THEN Ok(WriteMac(StopStats(w, o, i), o, i))
     ELSE Ok(WriteMac(w, o, i))

-----------------------------------------------------------------------------
(* ctc_sai_virtual_router.c *)

(* ctc_sai_virtual_router_create_vr. Only an attribute that is not supported*)
(* ends the creation, which is then undone. *)
CreateVr ==
  /\ \/ /\ vrfPool = Vrfs
        /\ status' = "FAILURE"
        /\ UNCHANGED <<vr, vrfPool>>
     \/ \E v \in Vrfs \ vrfPool :
          /\ v \notin DOMAIN vr
          /\ vr' = Put(vr, v, [v4 |-> TRUE, mac |-> DefaultMac])
          /\ vrfPool' = vrfPool \cup {v}
          /\ status' = "SUCCESS"
     \/ /\ vrfPool # Vrfs /\ Faults \cap {"malloc", "attr"} # {}
        /\ status' = "FAILURE"
        /\ UNCHANGED <<vr, vrfPool>>
  /\ UNCHANGED <<rif, l3ifPool, vifPool, hw, stats, subIfRef, sclEn, phyIfEn,
                 pending>>

(* ctc_sai_virtual_router_remove_vr: interfaces that use it do not stop it. *)
RemoveVr(v) ==
  /\ IF v \in DOMAIN vr
     THEN vr' = Drop(vr, v) /\ vrfPool' = vrfPool \ {v} /\ status' = "SUCCESS"
     ELSE status' = "FAILURE" /\ UNCHANGED <<vr, vrfPool>>
  /\ UNCHANGED <<rif, l3ifPool, vifPool, hw, stats, subIfRef, sclEn, phyIfEn,
                 pending>>

(* ctc_sai_router_interface_traverse_set over the interfaces of a VRF. The *)
(* hardware interface written is the one with the object's number, whatever *)
(* the type of the object. *)
InVrf(v) == {o \in DOMAIN rif : rif[o].vrf = v}
HwOf(objs) == {Id(o) : o \in objs} \cap DOMAIN hw

SetVrV4(v, b) ==
  /\ "v4" \in VrAttrs
  /\ IF v \in DOMAIN vr
     THEN /\ vr' = [vr EXCEPT ![v].v4 = b]
          /\ rif' = [o \in DOMAIN rif |->
                       IF o \in InVrf(v) THEN [rif[o] EXCEPT !.v4 = b] ELSE rif[o]]
          /\ hw' = [i \in DOMAIN hw |->
                      IF i \in HwOf(InVrf(v)) THEN [hw[i] EXCEPT !.v4 = b] ELSE hw[i]]
          /\ status' = "SUCCESS"
     ELSE status' = "FAILURE" /\ UNCHANGED <<vr, rif, hw>>
  /\ UNCHANGED <<vrfPool, l3ifPool, vifPool, stats, subIfRef, sclEn, phyIfEn,
                 pending>>

(* The MAC case: the callback returns the SDK's error, which ends the *)
(* traversal, so the interfaces after the first one without a hardware *)
(* interface may be left out; the handler succeeds all the same. *)
SetVrMac(v, m) ==
  /\ "mac" \in VrAttrs
  /\ IF v \in DOMAIN vr
     THEN \E seen \in SUBSET InVrf(v) :
          /\ \/ seen = InVrf(v)
             \/ \E o \in seen : Id(o) \notin DOMAIN hw
          /\ vr' = [vr EXCEPT ![v].mac = m]
          /\ rif' = [o \in DOMAIN rif |->
                       IF o \in seen THEN [rif[o] EXCEPT !.mac = m] ELSE rif[o]]
          /\ hw' = [i \in DOMAIN hw |->
                      IF i \in HwOf(seen) THEN [hw[i] EXCEPT !.macs = {m}] ELSE hw[i]]
          /\ status' = "SUCCESS"
     ELSE status' = "FAILURE" /\ UNCHANGED <<vr, rif, hw>>
  /\ UNCHANGED <<vrfPool, l3ifPool, vifPool, stats, subIfRef, sclEn, phyIfEn,
                 pending>>

-----------------------------------------------------------------------------
(* ctc_sai_router_interface.c *)

(* _ctc_sai_router_interface_create_attr_check, before the lock is taken. *)
RifAttrCheck(q) ==
  /\ IF q.vr \in DOMAIN vr
     THEN /\ Cardinality(pending) < MaxPending
          /\ pending' = pending \cup {q} /\ status' = status
     ELSE pending' = pending /\ status' = "FAILURE"
  /\ UNCHANGED <<vr, vrfPool, rif, l3ifPool, vifPool, hw, stats, subIfRef,
                 sclEn, phyIfEn>>

(* _ctc_sai_router_interface_build_db. *)
BuildDb(s, o, q) ==
  [s EXCEPT !.rif = Put(@, o,
     [vrf |-> 0, v4 |-> TRUE, mac |-> DefaultMac, port |-> q.port,
      vlan |-> q.vlan, virt |-> q.virt, actual |-> 0, statsEn |-> FALSE,
      ing |-> 0, egs |-> 0, asked |-> q.stats])]

(* It fails without memory, and when the object id is already in the *)
(* database. *)
BuildFails(o) == "malloc" \in Faults \/ o \in DOMAIN rif

(* _ctc_sai_router_interface_remove_db. *)
RemoveDb(s, o) == [s EXCEPT !.rif = Drop(@, o)]

(* Port side of an interface: phy_if mode, or the SCL hash type counted by *)
(* sub_if_ref_cnt, which only the first one sets and the last one clears. *)
PortEnableUncounted(s, o) ==   \* mutant: the count is not taken
  LET p == s.rif[o].port IN
  CASE o[1] = "PORT" -> [s EXCEPT !.phy = @ \cup {p}]
    [] o[1] = "SUB_PORT" -> [s EXCEPT !.scl = @ \cup {p}]
    [] OTHER -> s
PortEnable(s, o) ==
  LET p == s.rif[o].port IN
  CASE o[1] = "PORT" -> [s EXCEPT !.phy = @ \cup {p}]
    [] o[1] = "SUB_PORT" ->
         [s EXCEPT !.ref[p] = @ + 1,
                   !.scl = IF s.ref[p] = 0 THEN @ \cup {p} ELSE @]
    [] OTHER -> s
PortDisableAtOnce(s, o) ==   \* mutant: the first one to go clears the lookup
  LET p == s.rif[o].port IN
  CASE o[1] = "PORT" -> [s EXCEPT !.phy = @ \ {p}]
    [] o[1] = "SUB_PORT" -> [s EXCEPT !.ref[p] = @ - 1, !.scl = @ \ {p}]
    [] OTHER -> s
PortDisable(s, o) ==
  LET p == s.rif[o].port IN
  CASE o[1] = "PORT" -> [s EXCEPT !.phy = @ \ {p}]
    [] o[1] = "SUB_PORT" ->
         [s EXCEPT !.ref[p] = @ - 1,
                   !.scl = IF s.ref[p] = 1 THEN @ \ {p} ELSE @]
    [] OTHER -> s

(* The error labels of create_rif. error1 frees the id in the L3IF pool *)
(* whatever pool it came from. *)
Error1Keeps(s, o) == s       \* mutant: the id is not given back
Error1(s, o) == [s EXCEPT !.l3if = @ \ {Id(o)}]
Error2(s, o) == Error1(RemoveDb(s, o), o)
Error3Keeps(s, o) == Error2(s, o)   \* mutant: the hardware interface stays
Error3(s, o) == Error2(IF s.rif[o].virt \/ o[1] = "BRIDGE" THEN s
                       ELSE HwDestroy(s, Id(o)), o)
Error4Keeps(s, o) == Error3(s, o)   \* mutant: the ingress counter stays
Error4(s, o) == Error3([s EXCEPT !.stats = @ \ {s.rif[o].ing}], o)
Error5(s, o) == Error4([s EXCEPT !.stats = @ \ {s.rif[o].egs}], o)
Error6(s, o) == Error5(IF s.rif[o].virt THEN s ELSE PortDisable(s, o), o)

(* ctc_sai_virtual_router_get_vr_info: the lookup under the lock, and the *)
(* default MAC it gives. *)
VrFoundBefore(v) == TRUE     \* mutant: the check before the lock is trusted
VrFound(v) == v \in DOMAIN vr
VrMac(v) == IF v \in DOMAIN vr THEN vr[v].mac ELSE DefaultMac

(* The attributes of the request, and the VR's MAC as the default. *)
WithAttrs(s, o, q) ==
  [s EXCEPT !.rif[o].vrf = q.vr, !.rif[o].statsEn = (q.stats = "on"),
            !.rif[o].mac = VrMac(q.vr)]

(* LOOPBACK, MPLS_ROUTER and QINQ_PORT: an id of the VIF pool and the object*)
(* in the database, nothing in hardware; the VR is not looked up again. *)
CreateVif(q) ==
  /\ q.type \in VifTypes
  /\ \/ vifPool = Vifs /\ Become(St) /\ status' = "FAILURE"
     \/ \E i \in Vifs \ vifPool :
        LET o == <<q.type, i>>
            s == [St EXCEPT !.vif = @ \cup {i}]
        IN \/ /\ o \notin DOMAIN rif
              /\ Become([BuildDb(s, o, q) EXCEPT !.rif[o].vrf = q.vr])
              /\ status' = "SUCCESS"
           \/ BuildFails(o) /\ Become(Error1(s, o)) /\ status' = "FAILURE"

(* A virtual interface adds its MAC to an interface that exists. With the *)
(* MAC list full the handler unlocks and returns, without its labels. *)
CreateVirtual(q) ==
  /\ q.type \in {"PORT", "VLAN"} /\ q.virt
  /\ \E i \in L3ifs \ l3ifPool :
     LET o == <<q.type, i>>
         s0 == [St EXCEPT !.l3if = @ \cup {i}]
         s == BuildDb(s0, o, q)
         real == {j \in DOMAIN hw : hw[j].key = Key(q.type, q.port, q.vlan)}
     IN \/ BuildFails(o) /\ Become(Error1(s0, o)) /\ status' = "FAILURE"
        \/ /\ o \notin DOMAIN rif /\ real = {}
           /\ Become(Error2(s, o)) /\ status' = "FAILURE"
        \/ \E j \in real :
             /\ o \notin DOMAIN rif
             /\ \/ /\ Cardinality(hw[j].macs) >= MaxRouterMac
                   /\ Become(s) /\ status' = "FAILURE"
                \/ /\ Cardinality(hw[j].macs) < MaxRouterMac
                   /\ \/ /\ ~VrFound(q.vr) \/ "attr" \in Faults \/ q.stats # "absent"
                         /\ Become(Error6(s, o)) /\ status' = "FAILURE"
                      \/ /\ VrFound(q.vr) /\ q.stats = "absent"
                         /\ Become(AppendMac([WithAttrs(s, o, q) EXCEPT !.rif[o].actual = j], o))
                         /\ status' = "SUCCESS"

(* What create_rif returns when its last step has succeeded. *)
CreatedStale == status' = "FAILURE"   \* mutant: that of an absent attribute
Created == status' = "SUCCESS"

(* PORT, VLAN, SUB_PORT and BRIDGE, not virtual. A BRIDGE interface gets its*)
(* hardware interface later, from its bridge port. *)
CreateL3if(q) ==
  /\ q.type \in L3ifTypes /\ ~q.virt
  /\ \E i \in L3ifs \ l3ifPool :
     LET o == <<q.type, i>>
         bridge == q.type = "BRIDGE"
         key == Key(q.type, q.port, q.vlan)
         s0 == [St EXCEPT !.l3if = @ \cup {i}]
         s1 == BuildDb(s0, o, q)
         s2 == IF bridge THEN s1 ELSE HwCreate(s1, i, key)
     IN \/ BuildFails(o) /\ Become(Error1(s0, o)) /\ status' = "FAILURE"
        \/ /\ o \notin DOMAIN rif /\ ~bridge /\ KeyTaken(s0, key)
           /\ Become(Error2(s1, o)) /\ status' = "FAILURE"
        \/ /\ o \notin DOMAIN rif
           /\ bridge \/ ~KeyTaken(s0, key)
           /\ \/ /\ q.stats # "off"
                 /\ FreeStats(s2) = {} \/ "stats" \in Faults
                 /\ Become(Error3(s2, o)) /\ status' = "FAILURE"
              \/ /\ q.stats # "off" /\ FreeStats(s2) # {}
                 /\ Cardinality(FreeStats(s2)) = 1 \/ "stats" \in Faults
                 /\ LET a == FirstStats(s2)   \* the ingress id, then none left
                        t == [s2 EXCEPT !.stats = @ \cup {a},
                                        !.rif[o].ing = IF bridge THEN 0 ELSE a]
                    IN Become(Error4(t, o))
                 /\ status' = "FAILURE"
              \/ LET s3 == IF q.stats = "off" THEN s2
                           ELSE CreateStats(s2, o, FirstStats(s2), SecondStats(s2))
                     s4 == PortEnable(s3, o)
                     half == [s3 EXCEPT !.ref = s4.ref]  \* counted, not enabled
                 IN /\ q.stats = "off" \/ Cardinality(FreeStats(s2)) >= 2
                    /\ \/ /\ \/ q.type = "PORT" /\ "phy_if" \in Faults
                             \/ q.type = "SUB_PORT" /\ "scl" \in Faults /\ s3.ref[q.port] = 0
                          /\ Become(Error5(half, o)) /\ status' = "FAILURE"
                       \/ /\ ~VrFound(q.vr) \/ "attr" \in Faults
                          /\ Become(Error6(s4, o)) /\ status' = "FAILURE"
                       \/ /\ VrFound(q.vr)
                          /\ \E f \in HwFaults :
                             LET out == SetAttrHw(WithAttrs(s4, o, q), o, f)
                             IN IF out.ok THEN Become(out.s) /\ Created
                                ELSE Become(Error6(out.s, o)) /\ status' = "FAILURE"

(* ctc_sai_router_interface_create_rif from the lock on. *)
CreateRif(q) ==
  /\ q \in pending
  /\ pending' = pending \ {q}
  /\ \/ CreateVif(q)
     \/ CreateVirtual(q)
     \/ CreateL3if(q)
     \/ /\ q.type \in L3ifTypes /\ l3ifPool = L3ifs
        /\ Become(St) /\ status' = "FAILURE"
  /\ UNCHANGED <<vr, vrfPool>>

(* The VIF case of remove_rif. *)
FreeVifWrongPool(s, o) == [s EXCEPT !.l3if = @ \ {Id(o)}]   \* mutant
FreeVif(s, o) == [s EXCEPT !.vif = @ \ {Id(o)}]

(* ctc_sai_router_interface_remove_rif. Nothing asks who uses the interface.*)
RemoveRif(o) ==
  /\ LET s == [St EXCEPT !.l3if = @ \ {Id(o)}]
         gone == HwDestroy(PortDisable(s, o), Id(o))
     IN \/ o \notin DOMAIN rif /\ Become(St) /\ status' = "FAILURE"
        \/ /\ o \in DOMAIN rif /\ o[1] = "BRIDGE" /\ Id(o) \in DOMAIN hw
           /\ Become(St) /\ status' = "FAILURE"
        \/ /\ o \in DOMAIN rif /\ o[1] \in VifTypes
           /\ Become(RemoveDb(FreeVif(St, o), o))
           /\ status' = "SUCCESS"
        \/ /\ o \in DOMAIN rif /\ o[1] \in L3ifTypes /\ ~rif[o].virt
           /\ ~(o[1] = "BRIDGE" /\ Id(o) \in DOMAIN hw)
           /\ Become(RemoveDb(IF rif[o].statsEn
                              THEN [gone EXCEPT !.stats = @ \ {rif[o].ing, rif[o].egs}]
                              ELSE gone, o))
           /\ status' = "SUCCESS"
        \/ /\ o \in DOMAIN rif /\ o[1] \in L3ifTypes /\ rif[o].virt
           /\ LET j == rif[o].actual IN
              IF j \in DOMAIN hw /\ rif[o].mac \in hw[j].macs
              THEN /\ Become(RemoveDb([s EXCEPT !.hw[j].macs = @ \ {rif[o].mac}], o))
                   /\ status' = "SUCCESS"
              ELSE Become(s) /\ status' = "FAILURE"
  /\ UNCHANGED <<vr, vrfPool, pending>>

(* ctc_sai_router_interface_set_rif_attr: the object first, then hardware; *)
(* a failing write leaves the object changed. *)
SetRifAttr(o, new) ==
  /\ IF o \in DOMAIN rif
     THEN \E f \in HwFaults :
            LET out == SetAttrHw([St EXCEPT !.rif[o] = new], o, f)
            IN /\ Become(out.s)
               /\ status' = IF out.ok THEN "SUCCESS" ELSE "FAILURE"
     ELSE Become(St) /\ status' = "FAILURE"
  /\ UNCHANGED <<vr, vrfPool, pending>>

(* _ctc_sai_router_interface_set_attr: what one attribute makes of a record.*)
SetAttr(r) ==
  (IF "vr" \in RifAttrs THEN {[r EXCEPT !.vrf = v] : v \in Vrs} ELSE {})
  \cup (IF "mac" \in RifAttrs THEN {[r EXCEPT !.mac = m] : m \in Macs} ELSE {})
  \cup (IF "v4" \in RifAttrs /\ ~r.virt
        THEN {[r EXCEPT !.v4 = b] : b \in BOOLEAN} ELSE {})
  \cup (IF "stats" \in RifAttrs /\ ~r.virt
        THEN {[r EXCEPT !.statsEn = b, !.asked = IF b THEN "on" ELSE "off"]
               : b \in StatsSets} ELSE {})

(* ctc_sai_router_interface_update_bridge_rif, called by the bridge port. *)
UpdateBridgeRif(i, vlan, add) ==
  LET o == <<"BRIDGE", i>>
      key == Key("BRIDGE", 0, vlan)
  IN /\ o \in DOMAIN rif
     /\ IF add
        THEN IF KeyTaken(St, key) \/ i \in DOMAIN hw
             THEN Become(St) /\ status' = "FAILURE"
             ELSE \E f \in HwFaults :
                    LET out == SetAttrHw(HwCreate(St, i, key), o, f)
                    IN IF out.ok THEN Become(out.s) /\ status' = "SUCCESS"
                       ELSE Become(HwDestroy(out.s, i)) /\ status' = "FAILURE"
        ELSE IF i \in DOMAIN hw
             THEN Become(HwDestroy(St, i)) /\ status' = "SUCCESS"
             ELSE Become(St) /\ status' = "FAILURE"
     /\ UNCHANGED <<vr, vrfPool, pending>>

-----------------------------------------------------------------------------
Init ==
  /\ vr = [v \in {0} |-> [v4 |-> TRUE, mac |-> DefaultMac]]
  /\ vrfPool = {} /\ l3ifPool = {} /\ vifPool = {}
  /\ rif = << >> /\ hw = << >>
  /\ stats = {} /\ subIfRef = [p \in Ports |-> 0]
  /\ sclEn = {} /\ phyIfEn = {} /\ pending = {}
  /\ status = "SUCCESS"

Next ==
  \/ CreateVr
  \/ \E v \in Vrs : RemoveVr(v)
  \/ \E v \in Vrs, b \in V4Vals : SetVrV4(v, b)
  \/ \E v \in Vrs, m \in Macs : SetVrMac(v, m)
  \/ \E q \in Requests : RifAttrCheck(q)
  \/ \E q \in pending : CreateRif(q)
  \/ \E o \in Rifs : RemoveRif(o)
  \/ \E o \in DOMAIN rif : \E new \in SetAttr(rif[o]) : SetRifAttr(o, new)
  \/ \E i \in L3ifs, vlan \in Vlans, add \in BOOLEAN : UpdateBridgeRif(i, vlan, add)

Spec == Init /\ [][Next]_vars

-----------------------------------------------------------------------------
OfL3if == {o \in DOMAIN rif : o[1] \in L3ifTypes}
OfVif == {o \in DOMAIN rif : o[1] \in VifTypes}
Real == {o \in OfL3if : ~rif[o].virt}

(* The VRF and VIF pools hold exactly the ids of their live objects, and no *)
(* two interfaces share a VIF id, although the L3IF pool hands out the same *)
(* numbers: remove_rif must pick the pool by the type of the object. *)
VifPoolExact ==
  /\ vrfPool = DOMAIN vr \ {0}
  /\ vifPool = {Id(o) : o \in OfVif} /\ Cardinality(OfVif) = Cardinality(vifPool)

(* Over every sequence of creations, removals and failures the three id *)
(* pools hold exactly the ids of the live objects, and no two objects share *)
(* an id of one pool (ctc_sai_db_alloc_id and ctc_sai_db_free_id calls of *)
(* create_vr, remove_vr, create_rif and remove_rif). *)
PoolsExact ==
  /\ VifPoolExact
  /\ l3ifPool = {Id(o) : o \in OfL3if} /\ Cardinality(OfL3if) = Cardinality(l3ifPool)

(* The hardware interface of every interface that has one carries what the *)
(* object says, and there is no hardware interface without an object: *)
(* set_attr_hw, traverse_set and the labels of create_rif keep the two *)
(* tables together. *)
HwMatchesDb ==
  /\ DOMAIN hw \subseteq {Id(o) : o \in OfL3if}
  /\ \A o \in Real : o[1] # "BRIDGE" => Id(o) \in DOMAIN hw
  /\ \A o \in Real : Id(o) \in DOMAIN hw =>
       LET h == hw[Id(o)] IN
       /\ h.vrf = rif[o].vrf /\ h.v4 = rif[o].v4 /\ h.macs = {rif[o].mac}
       /\ o[1] # "BRIDGE" => h.key = Key(o[1], rif[o].port, rif[o].vlan)

(* Every live statistics id belongs to exactly one interface, and every id *)
(* an interface keeps is live: none leaks on an error path and none is *)
(* destroyed under another interface. *)
StatsExact ==
  /\ stats = (UNION {{rif[o].ing, rif[o].egs} : o \in Real}) \ {0}
  /\ Cardinality(stats) = 2 * Cardinality({o \in Real : rif[o].ing # 0})
  /\ \A o \in Real : rif[o].ing # 0 <=> rif[o].egs # 0

(* While every SCL write succeeds, sub_if_ref_cnt counts the SUB_PORT *)
(* interfaces of a port, its SCL lookup is on exactly while there is one, *)
(* and phy_if mode exactly while there is a PORT interface. *)
PortModeExact ==
  \A p \in Ports :
    LET subs == {o \in Real : o[1] = "SUB_PORT" /\ rif[o].port = p}
    IN /\ subIfRef[p] = Cardinality(subs)
       /\ p \in sclEn <=> subs # {}
       /\ p \in phyIfEn <=> \E o \in Real : o[1] = "PORT" /\ rif[o].port = p

(* The check of the virtual router before the lock can be stale, yet no *)
(* interface comes to life in a virtual router that is gone: create_rif *)
(* looks it up again under the lock. *)
CreatedInLiveVr ==
  [][\A o \in DOMAIN rif' \ DOMAIN rif : rif'[o].vrf \in DOMAIN vr]_vars

(* A create_rif that fails, at whatever call, has undone everything it did. *)
FailedCreateUndone ==
  [][status' # "SUCCESS" /\ Cardinality(pending') < Cardinality(pending) =>
       UNCHANGED <<rif, l3ifPool, vifPool, hw, stats, subIfRef, sclEn, phyIfEn>>]_vars

(* The header gives CUSTOM_STATS_STATE the default true (sairouterinterface *)
(* .h): an interface nobody has switched off counts. *)
StatsDefaultOn ==
  \A o \in Real : rif[o].asked # "off" => rif[o].ing \in stats /\ rif[o].egs \in stats
=============================================================================
