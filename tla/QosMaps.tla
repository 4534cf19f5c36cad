------------------------------ MODULE QosMaps ------------------------------
(* QoS maps (ctc_sai_qosmap.c): the maps of a packet's header to a traffic *)
(* class and to a colour that a port or the switch uses. The chip has a few *)
(* domains, each a table of both kinds, and a port points to one of them; *)
(* domain 0 is the switch's. A port that gets or gives up a map is moved to *)
(* a domain that has its two maps, to one it may extend, or to an empty one. *)
(* The 802.1p and the DSCP maps go through the same code with an array of *)
(* domains each; one of them is modelled. The egress maps use a field of *)
(* their own. A map's list is a value, and 0 the chip's own default. *)
(* The client takes the maps off a port before it removes the port. *)
EXTENDS Naturals, FiniteSets, FiniteSetsExt

CONSTANTS
  MapIds,      \* ids of the maps, from 1 on
  MapLists,    \* the lists of values the client gives, from 1 on
  QosPorts,    \* the ports
  NumDomains   \* QOS_MAP_DOMAIN_NUM_DOT1P, domain 0 included

MapKinds == {"tc", "color"}
Other(kind) == IF kind = "tc" THEN "color" ELSE "tc"
DomainIds == 0 .. NumDomains - 1
ASSUME QosMapAssumption ==
  /\ MapIds \subseteq Nat \ {0} /\ MapLists \subseteq Nat \ {0} /\ NumDomains \in Nat \ {0, 1}
  /\ IsFiniteSet(QosPorts)

VARIABLES
  mapDb,      \* ctc_sai_qos_map_db_t: kind, list and domain_bmp
  portMaps,   \* the two map ids of each port's record
  switchMaps, \* the two map ids of the switch's record
  domDb,      \* qos_domain_dot1p: map id and count, per domain and kind
  hwPortDom,  \* the domain of each port in the chip
  hwDomain    \* the chip's tables
mapVars == <<mapDb, portMaps, switchMaps, domDb, hwPortDom, hwDomain>>

NoMap == [live |-> FALSE, kind |-> "tc", list |-> 0, bmp |-> {}]
NoMaps == [k \in MapKinds |-> 0]
NoDomain == [k \in MapKinds |-> [map |-> 0, ref |-> 0]]
MapInit ==
  /\ mapDb = [m \in MapIds |-> NoMap]
  /\ portMaps = [g \in QosPorts |-> NoMaps] /\ switchMaps = NoMaps
  /\ domDb = [d \in DomainIds |-> NoDomain]
  /\ hwPortDom = [g \in QosPorts |-> 0] /\ hwDomain = [d \in DomainIds |-> NoMaps]

(* create_map_id; remove_map_id refuses a map some domain has. *)
CreateMap(m, kind, list) ==
  /\ ~mapDb[m].live
  /\ mapDb' = [mapDb EXCEPT ![m] = [live |-> TRUE, kind |-> kind, list |-> list, bmp |-> {}]]
  /\ UNCHANGED <<portMaps, switchMaps, domDb, hwPortDom, hwDomain>>
RemoveMap(m) ==
  /\ mapDb[m].live /\ mapDb[m].bmp = {}
  /\ mapDb' = [mapDb EXCEPT ![m] = NoMap]
  /\ UNCHANGED <<portMaps, switchMaps, domDb, hwPortDom, hwDomain>>
(* set_attr: the list is replaced and written to every domain of the bitmap. *)
SetMapList(m, list) ==
  /\ mapDb[m].live /\ mapDb[m].list # list
  /\ mapDb' = [mapDb EXCEPT ![m].list = list]
  /\ hwDomain' = [d \in DomainIds |-> IF d \in mapDb[m].bmp
                    THEN [hwDomain[d] EXCEPT ![mapDb[m].kind] = list] ELSE hwDomain[d]]
  /\ UNCHANGED <<portMaps, switchMaps, domDb, hwPortDom>>

(* _ctc_sai_qos_map_domain_set_map_id: the first user of a domain's table *)
(* writes it, the last one restores the default. *)
DomainSet(st, d, k, m) ==
  IF m = 0 THEN st
  ELSE IF st.dom[d][k].ref > 0 THEN [st EXCEPT !.dom[d][k].ref = @ + 1]
  ELSE [st EXCEPT !.dom[d][k] = [map |-> m, ref |-> 1], !.map[m].bmp = @ \cup {d},
                  !.hw[d][k] = st.map[m].list]
DomainUnset(st, d, k, m) ==
  IF m = 0 \/ st.dom[d][k].ref = 0 \/ st.dom[d][k].map # m THEN st
  ELSE IF st.dom[d][k].ref > 1 THEN [st EXCEPT !.dom[d][k].ref = @ - 1]
  ELSE [st EXCEPT !.dom[d][k] = [map |-> 0, ref |-> 0], !.map[m].bmp = @ \ {d},
                  !.hw[d][k] = 0]

(* _ctc_sai_qos_map_port_alloc_domain, for the maps the port will have: a *)
(* domain with both, one that has only the other kind for one user, or else *)
(* an empty one; and when a map is given up and no domain is left, the one *)
(* the port is alone in. *)
Suits(d, k, want) ==
  LET o == Other(k) IN
  \/ want[k] = domDb[d][k].map /\ domDb[d][k].ref = 1 /\ domDb[d][o].map = 0 /\ want[o] = 0
  \/ want[o] = domDb[d][o].map /\ domDb[d][o].ref = 1 /\ domDb[d][k].map = 0
  \/ want[k] = domDb[d][k].map /\ want[o] = domDb[d][o].map
Alone(d, want) == \E k \in MapKinds : domDb[d][k].ref = 1 /\ domDb[d][k].map = want[k]
AllocDomain(g, k, want, on) ==   \* NumDomains is none
  LET suit == {d \in DomainIds \ {0} : Suits(d, k, want)}
      free == {d \in DomainIds \ {0} : Suits(d, k, NoMaps)}
      old == hwPortDom[g]
  IN IF want = NoMaps THEN 0
     ELSE IF suit # {} THEN Min(suit)
     ELSE IF free # {} THEN Min(free)
     ELSE IF ~on /\ Alone(old, want) THEN old ELSE NumDomains

(* _ctc_sai_port_set_qos_map and ctc_sai_qos_map_port_set_map: the domain is *)
(* chosen, gets the maps, and the old one gives up what the port had there. *)
\* mutant: the kind that does not change stays counted in the old domain
MoveDomain_stay(g, k, m, want, on) ==
  LET new == AllocDomain(g, k, want, on)
      old == hwPortDom[g]
      moved == old # 0 /\ new # old
      st0 == [dom |-> domDb, map |-> mapDb, hw |-> hwDomain]
      st1 == IF ~on /\ new = 0 THEN st0
             ELSE IF moved THEN DomainSet(DomainSet(st0, new, k, want[k]), new, Other(k), want[Other(k)])
             ELSE DomainSet(st0, new, k, want[k])
      st2 == IF ~on /\ old # 0 THEN DomainUnset(st1, old, k, m) ELSE st1
  IN st2
MoveDomain(g, k, m, want, on) ==
  LET new == AllocDomain(g, k, want, on)
      old == hwPortDom[g]
      moved == old # 0 /\ new # old
      o == Other(k)
      st0 == [dom |-> domDb, map |-> mapDb, hw |-> hwDomain]
      st1 == IF ~on /\ new = 0 THEN st0
             ELSE IF moved THEN DomainSet(DomainSet(st0, new, k, want[k]), new, o, want[o])
             ELSE DomainSet(st0, new, k, want[k])
      st2 == IF ~on /\ old # 0 THEN DomainUnset(st1, old, k, m) ELSE st1
  IN IF moved THEN DomainUnset(st2, old, o, want[o]) ELSE st2
PortMove(g, k, m, want, on) ==
  LET st == MoveDomain(g, k, m, want, on)
  IN /\ AllocDomain(g, k, want, on) # NumDomains
     /\ domDb' = st.dom /\ mapDb' = st.map /\ hwDomain' = st.hw
     /\ hwPortDom' = [hwPortDom EXCEPT ![g] = AllocDomain(g, k, want, on)]
     /\ portMaps' = [portMaps EXCEPT ![g] = want]
     /\ UNCHANGED switchMaps
PortSetMap(g, m) ==
  LET k == mapDb[m].kind
  IN /\ mapDb[m].live /\ portMaps[g][k] = 0
     /\ PortMove(g, k, m, [portMaps[g] EXCEPT ![k] = m], TRUE)
PortUnsetMap(g, k) ==
  /\ portMaps[g][k] # 0
  /\ PortMove(g, k, portMaps[g][k], [portMaps[g] EXCEPT ![k] = 0], FALSE)

(* ctc_sai_qos_map_switch_set_map, called by the switch's QoS property: the *)
(* map becomes that of domain 0, which a present one has to leave first. *)
SwitchSetMap(m) ==
  LET k == mapDb[m].kind
      st == DomainSet([dom |-> domDb, map |-> mapDb, hw |-> hwDomain], 0, k, m)
  IN /\ mapDb[m].live /\ switchMaps[k] = 0
     /\ domDb' = st.dom /\ mapDb' = st.map /\ hwDomain' = st.hw
     /\ switchMaps' = [switchMaps EXCEPT ![k] = m]
     /\ UNCHANGED <<portMaps, hwPortDom>>
SwitchUnsetMap(k) ==
  LET st == DomainUnset([dom |-> domDb, map |-> mapDb, hw |-> hwDomain], 0, k, switchMaps[k])
  IN /\ switchMaps[k] # 0
     /\ domDb' = st.dom /\ mapDb' = st.map /\ hwDomain' = st.hw
     /\ switchMaps' = [switchMaps EXCEPT ![k] = 0]
     /\ UNCHANGED <<portMaps, hwPortDom>>

MapNext ==
  \/ \E m \in MapIds, kind \in MapKinds, list \in MapLists : CreateMap(m, kind, list)
  \/ \E m \in MapIds : RemoveMap(m) \/ SwitchSetMap(m)
  \/ \E m \in MapIds, list \in MapLists : SetMapList(m, list)
  \/ \E g \in QosPorts, m \in MapIds : PortSetMap(g, m)
  \/ \E g \in QosPorts, k \in MapKinds : PortUnsetMap(g, k)
  \/ \E k \in MapKinds : SwitchUnsetMap(k)
MapSpec == MapInit /\ [][MapNext]_mapVars

-----------------------------------------------------------------------------
ListOf(m) == IF m = 0 THEN 0 ELSE mapDb[m].list
(* A port's packets are classified by the port's own maps, with their present *)
(* lists, and by the switch's when it has none, whatever other ports have *)
(* done to the domains they share; and no map in use can be removed. *)
ClassifiesByMaps ==
  /\ \A g \in QosPorts :
       LET want == IF portMaps[g] = NoMaps THEN switchMaps ELSE portMaps[g]
       IN \A k \in MapKinds : /\ hwDomain[hwPortDom[g]][k] = ListOf(want[k])
                              /\ want[k] # 0 => mapDb[want[k]].live
  /\ \A m \in MapIds : \A d \in mapDb[m].bmp :
       \/ d = 0 /\ m = switchMaps[mapDb[m].kind]
       \/ \E g \in QosPorts : hwPortDom[g] = d /\ m = portMaps[g][mapDb[m].kind]
=============================================================================
