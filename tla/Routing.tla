------------------------------- MODULE Routing -------------------------------
(***************************************************************************)
(* Next hop groups, routes and the counters they share: *)
(* ctc_sai_next_hop_group.c, ctc_sai_route.c and ctc_sai_counter.c. *)
(* *)
(* A handler runs under CTC_SAI_DB_LOCK and is one action; the bulk route *)
(* calls take the lock per entry and are the single calls in a row. Some *)
(* early returns of create_nh_grp and remove_counter leave the lock taken: *)
(* locked is then TRUE and no handler can run any more. *)
(* *)
(* The SDK is external and may refuse the calls of Faults. The single next *)
(* hops exist throughout; they belong to module Neighbor. orderly is a *)
(* history variable: TRUE until a failure after which the code leaves the *)
(* database and the SDK apart, a counter given to two users, or a group *)
(* removed in use. The class id of a route, the switch-over attribute and *)
(* the reads are not modelled. *)
(***************************************************************************)
EXTENDS Naturals, FiniteSets

CONSTANTS
  IpNextHops, MplsNextHops,  \* the single next hops the SDK has
  GroupIds,      \* ids of the NEXTHOP pool left for groups
  ApsIds,        \* ids of the APS pool
  MemberIds,     \* ids of the NEXTHOP_MEMBER pool
  Counters,      \* ids of the COUNTER pool
  StatsIds,      \* statistics ids of the SDK (0 means none)
  Prefixes,      \* route entries
  GroupTypes,    \* "ECMP" and "PROTECTION"
  Acts,          \* packet actions given to routes
  Drop, ToCpu,   \* CTC_NH_RESERVED_NHID_FOR_DROP and _TOCPU
  NoNh, NoCtr,   \* SAI_NULL_OBJECT_ID
  Faults         \* the calls that may fail

NextHops == IpNextHops \cup MplsNextHops
NeedsNh == {"FORWARD", "COPY"}   \* with TRANSIT and LOG, handled alike
AllActs == NeedsNh \cup {"DROP", "TRAP", "CANCEL"}   \* DENY is a DROP
FaultPoints == {"ipuc", "nh", "aps", "db_add"}
CounterTypes == {"MAX", "ROUTE", "ECMP"}

ASSUME RoutingAssumption ==
  /\ IpNextHops \cap MplsNextHops = {}
  /\ IsFiniteSet(MemberIds) /\ IsFiniteSet(Prefixes)
  /\ GroupIds \subseteq Nat \ {0} /\ ApsIds \subseteq Nat \ {0}
  /\ MemberIds \subseteq Nat \ {0} /\ StatsIds \subseteq Nat \ {0}
  /\ NextHops \cap GroupIds = {}
  /\ Drop # ToCpu /\ {Drop, ToCpu} \cap (NextHops \cup GroupIds) = {}
  /\ NoNh \notin NextHops /\ NoCtr \notin Counters
  /\ GroupTypes \subseteq {"ECMP", "PROTECTION"} /\ Acts \subseteq AllActs
  /\ Faults \subseteq FaultPoints

VARIABLES
  ctr,        \* the counter objects
  stats,      \* the SDK's live statistics ids
  grp,        \* the group objects, by next hop id
  nhPool, apsPool, memPool,   \* the ids taken
  mem,        \* the member objects
  hwNh,       \* what the SDK has at a group's next hop id
  hwMem,      \* an ECMP group's members in the SDK, with multiplicity
  hwAps,      \* the APS groups of the SDK
  route,      \* the route records
  hwRoute,    \* the SDK's routes
  routeCnt,   \* route_cnt of the switch
  locked,     \* a handler has returned with the lock taken
  orderly

grpVars == <<grp, nhPool, apsPool, hwNh, hwAps>>
memVars == <<mem, memPool, hwMem>>
routeVars == <<route, hwRoute, routeCnt>>
ctrVars == <<ctr, stats>>
vars == <<ctrVars, grpVars, memVars, routeVars, locked, orderly>>

(* The object id of a group holds its type and APS id besides the next hop *)
(* id; members and routes keep it after the group is gone. *)
Oids == [type : {"ECMP", "PROTECTION"}, aps : ApsIds \cup {0}, id : GroupIds]
Oid(g) == [type |-> grp[g].type, aps |-> grp[g].aps, id |-> g]
GroupFound(o) == grp[o.id].in /\ Oid(o.id) = o

(* What a route points to: a group, a next hop, a port or interface of the *)
(* switch itself, or nothing. *)
NoTarget == <<"none">>
Me == <<"me">>
Targets == {NoTarget, Me} \cup {<<"nh", n>> : n \in NextHops}
             \cup {<<"grp", o>> : o \in Oids}
NoCounter == [in |-> FALSE, type |-> "MAX", sid |-> 0]
NoGroup == [in |-> FALSE, type |-> "ECMP", aps |-> 0, w |-> NoNh, p |-> NoNh,
            ctr |-> NoCtr]
NoRoute == [in |-> FALSE, act |-> "DROP", to |-> NoTarget, ctr |-> NoCtr]
NoHw == [in |-> FALSE, nh |-> Drop, cpu |-> FALSE, sid |-> 0]
NoMember == [in |-> FALSE, grp |-> [type |-> "ECMP", aps |-> 0, id |-> 0],
             nh |-> NoNh, working |-> FALSE]

TypeOK ==
  /\ ctr \in [Counters -> [in : BOOLEAN, type : CounterTypes, sid : StatsIds \cup {0}]]
  /\ stats \subseteq StatsIds
  /\ grp \in [GroupIds -> [in : BOOLEAN, type : {"ECMP", "PROTECTION"},
                           aps : ApsIds \cup {0}, w : NextHops \cup {NoNh},
                           p : NextHops \cup {NoNh}, ctr : Counters \cup {NoCtr}]]
  /\ nhPool \subseteq GroupIds /\ apsPool \subseteq ApsIds /\ memPool \subseteq MemberIds
  /\ mem \in [MemberIds -> [in : BOOLEAN, grp : Oids, nh : NextHops, working : BOOLEAN]
                             \cup {NoMember}]
  /\ hwNh \in [GroupIds -> {"none", "ecmp", "ipuc", "mpls"}]
  /\ hwMem \in [GroupIds -> [NextHops -> Nat]] /\ hwAps \subseteq ApsIds
  /\ route \in [Prefixes -> [in : BOOLEAN, act : AllActs, to : Targets,
                             ctr : Counters \cup {NoCtr}]]
  /\ hwRoute \in [Prefixes -> [in : BOOLEAN, cpu : BOOLEAN, sid : StatsIds \cup {0},
                               nh : NextHops \cup GroupIds \cup {Drop, ToCpu}]]
  /\ routeCnt \in Nat /\ locked \in BOOLEAN /\ orderly \in BOOLEAN

Init ==
  /\ ctr = [c \in Counters |-> NoCounter] /\ stats = {}
  /\ grp = [g \in GroupIds |-> NoGroup] /\ hwNh = [g \in GroupIds |-> "none"]
  /\ nhPool = {} /\ apsPool = {} /\ memPool = {}
  /\ mem = [m \in MemberIds |-> NoMember]
  /\ hwMem = [g \in GroupIds |-> [n \in NextHops |-> 0]] /\ hwAps = {}
  /\ route = [r \in Prefixes |-> NoRoute] /\ hwRoute = [r \in Prefixes |-> NoHw]
  /\ routeCnt = 0 /\ locked = FALSE /\ orderly = TRUE

(* ctc_sai_db_alloc_id: any free id, 0 when the pool is exhausted. *)
FreeIds(ids, pool) == IF ids \subseteq pool THEN {0} ELSE ids \ pool

-----------------------------------------------------------------------------
(* ctc_sai_counter.c *)

(* The counters and statistics a handler works on, and whether the helper *)
(* returned success. *)
Cs == [ctr |-> ctr, stats |-> stats, ok |-> TRUE]
Refuse(s) == [s EXCEPT !.ok = FALSE]
CtrBecome(s) == ctr' = s.ctr /\ stats' = s.stats

(* ctc_sai_counter_id_create: the statistics id a counter already has is *)
(* overwritten. *)
CounterIdCreate(s, c, type, sid) ==
  IF ~s.ctr[c].in \/ sid = 0 THEN Refuse(s)
  ELSE [s EXCEPT !.stats = @ \cup {sid}, !.ctr[c].sid = sid, !.ctr[c].type = type]

\* mutant: the counter's type is not reset
CounterIdRemoveKeepsType(s, c) ==
  IF c = NoCtr THEN s
  ELSE IF ~s.ctr[c].in \/ s.ctr[c].sid \notin s.stats THEN Refuse(s)
  ELSE [s EXCEPT !.stats = @ \ {s.ctr[c].sid}, !.ctr[c].sid = 0]

(* ctc_sai_counter_id_remove. The SDK refuses to destroy an id it does not *)
(* have. *)
CounterIdRemove(s, c) ==
  IF c = NoCtr THEN s
  ELSE IF ~s.ctr[c].in \/ s.ctr[c].sid \notin s.stats THEN Refuse(s)
  ELSE [s EXCEPT !.stats = @ \ {s.ctr[c].sid}, !.ctr[c].sid = 0, !.ctr[c].type = "MAX"]

UsersOf(c) == {r \in Prefixes : route[r].in /\ route[r].ctr = c}
GroupUsersOf(c) == {g \in GroupIds : grp[g].in /\ grp[g].ctr = c}

(* A counter the callers may give to a new user without sharing it. *)
Spare(c) ==
  c = NoCtr \/ (ctr[c].in /\ ctr[c].type = "MAX" /\ UsersOf(c) = {} /\ GroupUsersOf(c) = {})

CreateCounter(c) ==
  /\ ~locked /\ ~ctr[c].in
  /\ ctr' = [ctr EXCEPT ![c] = [NoCounter EXCEPT !.in = TRUE]]
  /\ UNCHANGED <<stats, grpVars, memVars, routeVars, locked, orderly>>

(* ctc_sai_counter_remove_counter: the two refusals return with the lock. *)
RemoveCounter(c) ==
  /\ ~locked
  /\ IF ctr[c].in /\ ctr[c].type = "MAX"
     THEN ctr' = [ctr EXCEPT ![c] = NoCounter] /\ UNCHANGED locked
     ELSE locked' = TRUE /\ UNCHANGED ctr
  /\ UNCHANGED <<stats, grpVars, memVars, routeVars, orderly>>

-----------------------------------------------------------------------------
(* ctc_sai_route.c *)

(* _ctc_sai_route_mapping_ipuc_action: what it does to the counter. It is *)
(* called to add a route, to change it and once more to remove it. *)
MapCounter(s, x, sid) ==
  IF x.act = "CANCEL" THEN Refuse(s)
  ELSE IF x.ctr = NoCtr THEN s
  ELSE IF ~s.ctr[x.ctr].in THEN Refuse(s)
  ELSE IF s.ctr[x.ctr].type = "MAX" THEN CounterIdCreate(s, x.ctr, "ROUTE", sid)
  ELSE IF s.ctr[x.ctr].type = "ROUTE" THEN s
  ELSE Refuse(s)

(* The same function: the next hop, the copy to the CPU and the statistics. *)
MapEntry(s, x) ==
  [in |-> TRUE,
   nh |-> CASE x.act \notin NeedsNh \/ x.to = NoTarget -> Drop
            [] x.act \in NeedsNh /\ x.to = Me -> ToCpu
            [] x.act \in NeedsNh /\ x.to[1] = "nh" -> x.to[2]
            [] x.act \in NeedsNh /\ x.to[1] = "grp" -> x.to[2].id,
   cpu |-> x.act \in {"COPY", "TRAP"},
   sid |-> IF x.ctr = NoCtr THEN 0 ELSE s.ctr[x.ctr].sid]

(* ctcs_ipuc_add takes a next hop the SDK has. *)
IpucTakes(e) == e.nh \in GroupIds => hwNh[e.nh] # "none"

(* The targets a caller can name: next hops, itself, groups created so far. *)
Known == {NoTarget, Me} \cup {<<"nh", n>> : n \in NextHops}
           \cup {<<"grp", Oid(g)>> : g \in {h \in GroupIds : grp[h].in}}

(* ctc_sai_route_create_route. A counter the mapping created stays a ROUTE *)
(* counter when the route is refused. *)
CreateRoute(r, x, sid) ==
  LET s == MapCounter(Cs, x, sid)
      e == MapEntry(s, x)
  IN /\ ~locked /\ ~route[r].in
     /\ x.act \in NeedsNh => x.to # NoTarget
     /\ CtrBecome(s)
     /\ \/ /\ s.ok /\ IpucTakes(e)
           /\ route' = [route EXCEPT ![r] = x] /\ hwRoute' = [hwRoute EXCEPT ![r] = e]
           /\ routeCnt' = routeCnt + 1
           /\ orderly' = (orderly /\ Spare(x.ctr))
        \/ /\ s.ok => ~IpucTakes(e) \/ {"ipuc", "db_add"} \cap Faults # {}
           /\ orderly' = (orderly /\ Spare(x.ctr) /\ ~(s.ok /\ IpucTakes(e)))
           /\ UNCHANGED routeVars
     /\ UNCHANGED <<grpVars, memVars, locked>>

\* mutant: route_cnt counted down without looking at the status
RemoveRouteCountsAlways(r, sid) ==
  LET s == MapCounter(Cs, route[r], sid)
      t == CounterIdRemove(s, route[r].ctr)
  IN /\ ~locked /\ route[r].in /\ routeCnt' = routeCnt - 1
     /\ \/ /\ s.ok /\ hwRoute[r].in
           /\ CtrBecome(t)
           /\ hwRoute' = [hwRoute EXCEPT ![r] = NoHw]
           /\ route' = IF t.ok THEN [route EXCEPT ![r] = NoRoute] ELSE route
           /\ UNCHANGED orderly
        \/ /\ s.ok /\ hwRoute[r].in => "ipuc" \in Faults
           /\ CtrBecome(s)
           /\ orderly' = (orderly /\ ~(s.ok /\ hwRoute[r].in))
           /\ UNCHANGED <<route, hwRoute>>
     /\ UNCHANGED <<grpVars, memVars, locked>>

(* ctc_sai_route_remove_route: the SDK's route goes first, and the record *)
(* stays when the counter then cannot be removed. *)
RemoveRoute(r, sid) ==
  LET s == MapCounter(Cs, route[r], sid)
      t == CounterIdRemove(s, route[r].ctr)
  IN /\ ~locked /\ route[r].in
     /\ \/ /\ s.ok /\ hwRoute[r].in
           /\ CtrBecome(t)
           /\ hwRoute' = [hwRoute EXCEPT ![r] = NoHw]
           /\ IF t.ok
              THEN route' = [route EXCEPT ![r] = NoRoute] /\ routeCnt' = routeCnt - 1
              ELSE UNCHANGED <<route, routeCnt>>
           /\ UNCHANGED orderly
        \/ /\ s.ok /\ hwRoute[r].in => "ipuc" \in Faults
           /\ CtrBecome(s)
           /\ orderly' = (orderly /\ ~(s.ok /\ hwRoute[r].in))
           /\ UNCHANGED routeVars
     /\ UNCHANGED <<grpVars, memVars, locked>>

\* mutant: the old counter removed last, and also when it is the new one
SetRouteRemovesLast(r, y, sid) ==
  LET x == route[r]
      s == MapCounter(Cs, y, sid)
      e == MapEntry(s, y)
  IN /\ ~locked /\ x.in /\ hwRoute[r].in
     /\ s.ok /\ IpucTakes(e)
     /\ CtrBecome(CounterIdRemove(s, x.ctr))
     /\ route' = [route EXCEPT ![r] = y] /\ hwRoute' = [hwRoute EXCEPT ![r] = e]
     /\ orderly' = (orderly /\ (x.ctr # y.ctr => Spare(y.ctr)))
     /\ UNCHANGED <<grpVars, memVars, locked, routeCnt>>

(* _ctc_sai_route_set_attr: y is the record with one attribute changed. A *)
(* counter that is replaced is removed before anything else can fail: when *)
(* it does, the record still names a counter that no longer counts. *)
SetRoute(r, y, sid) ==
  LET x == route[r]
      s == IF x.ctr # y.ctr THEN CounterIdRemove(Cs, x.ctr) ELSE Cs
      t == IF s.ok THEN MapCounter(s, y, sid) ELSE s
      e == MapEntry(t, y)
      spare == x.ctr # y.ctr => Spare(y.ctr)
  IN /\ ~locked /\ x.in /\ hwRoute[r].in
     /\ CtrBecome(t)
     /\ \/ /\ t.ok /\ IpucTakes(e)
           /\ route' = [route EXCEPT ![r] = y] /\ hwRoute' = [hwRoute EXCEPT ![r] = e]
           /\ orderly' = (orderly /\ spare)
        \/ /\ t.ok => ~IpucTakes(e) \/ "ipuc" \in Faults
           /\ orderly' = (orderly /\ spare /\ x.ctr \in {y.ctr, NoCtr})
           /\ UNCHANGED <<route, hwRoute>>
     /\ UNCHANGED <<grpVars, memVars, locked, routeCnt>>

-----------------------------------------------------------------------------
(* ctc_sai_next_hop_group.c *)

(* ctc_sai_next_hop_group_create_nh_grp, an ECMP group: when the counter is *)
(* refused the handler returns at once, with the lock and the id. *)
CreateEcmp(g, c, sid) ==
  LET s == IF c = NoCtr THEN Cs ELSE CounterIdCreate(Cs, c, "ECMP", sid)
  IN /\ ~locked /\ g \notin nhPool
     /\ \/ /\ ~s.ok
           /\ nhPool' = nhPool \cup {g} /\ locked' = TRUE /\ orderly' = FALSE
           /\ UNCHANGED <<ctrVars, grp, hwNh>>
        \/ /\ s.ok /\ hwNh[g] = "none"
           /\ CtrBecome(s)
           /\ nhPool' = nhPool \cup {g}
           /\ grp' = [grp EXCEPT ![g] = [NoGroup EXCEPT !.in = TRUE, !.ctr = c]]
           /\ hwNh' = [hwNh EXCEPT ![g] = "ecmp"]
           /\ orderly' = (orderly /\ Spare(c))
           /\ UNCHANGED locked
        \/ /\ s.ok /\ (hwNh[g] # "none" \/ {"nh", "db_add"} \cap Faults # {})
           /\ CtrBecome(CounterIdRemove(s, c))
           /\ orderly' = (orderly /\ Spare(c))
           /\ UNCHANGED <<nhPool, grp, hwNh, locked>>
     /\ UNCHANGED <<memVars, routeVars, apsPool, hwAps>>

(* The same handler, a protection group: two ids, and a counter that is *)
(* only remembered. Without an APS id, or with a refused add, nothing stays.*)
CreateProtection(g, a, c) ==
  /\ ~locked /\ g \notin nhPool /\ a \notin apsPool
  /\ nhPool' = nhPool \cup {g} /\ apsPool' = apsPool \cup {a}
  /\ grp' = [grp EXCEPT ![g] = [NoGroup EXCEPT !.in = TRUE, !.type = "PROTECTION",
                                               !.aps = a, !.ctr = c]]
  /\ orderly' = (orderly /\ Spare(c))
  /\ UNCHANGED <<ctrVars, hwNh, hwAps, memVars, routeVars, locked>>

InUse(g) ==
  \/ \E m \in MemberIds : mem[m].in /\ mem[m].grp = Oid(g)
  \/ \E r \in Prefixes : route[r].in /\ route[r].to = <<"grp", Oid(g)>>

(* ctc_sai_next_hop_group_remove_nh_grp looks at neither members nor *)
(* routes. The SDK's group goes first: when its counter cannot be removed, *)
(* the object stays for good. *)
RemoveEcmp(g) ==
  LET s == CounterIdRemove(Cs, grp[g].ctr)
  IN /\ ~locked /\ grp[g].in /\ grp[g].type = "ECMP" /\ hwNh[g] = "ecmp"
     /\ hwNh' = [hwNh EXCEPT ![g] = "none"]
     /\ hwMem' = [hwMem EXCEPT ![g] = [n \in NextHops |-> 0]]
     /\ CtrBecome(s)
     /\ IF s.ok
        THEN grp' = [grp EXCEPT ![g] = NoGroup] /\ nhPool' = nhPool \ {g}
        ELSE UNCHANGED <<grp, nhPool>>
     /\ orderly' = (orderly /\ ~InUse(g))
     /\ UNCHANGED <<mem, memPool, routeVars, apsPool, hwAps, locked>>

(* Only an IP next hop is removed: an MPLS one stays in the SDK. *)
IpucRemoved(g) == IF hwNh[g] = "ipuc" THEN [hwNh EXCEPT ![g] = "none"] ELSE hwNh

\* mutant: the APS id is not given back
RemoveProtectionKeepsAps(g) ==
  /\ ~locked /\ grp[g].in /\ grp[g].type = "PROTECTION"
  /\ hwNh' = IpucRemoved(g) /\ hwAps' = hwAps \ {grp[g].aps}
  /\ nhPool' = nhPool \ {g} /\ grp' = [grp EXCEPT ![g] = NoGroup]
  /\ orderly' = (orderly /\ ~InUse(g))
  /\ UNCHANGED <<ctrVars, apsPool, memVars, routeVars, locked>>

RemoveProtection(g) ==
  /\ ~locked /\ grp[g].in /\ grp[g].type = "PROTECTION"
  /\ hwNh' = IpucRemoved(g) /\ hwAps' = hwAps \ {grp[g].aps}
  /\ apsPool' = apsPool \ {grp[g].aps} /\ nhPool' = nhPool \ {g}
  /\ grp' = [grp EXCEPT ![g] = NoGroup]
  /\ orderly' = (orderly /\ ~InUse(g))
  /\ UNCHANGED <<ctrVars, memVars, routeVars, locked>>

Member(o, n, working) == [in |-> TRUE, grp |-> o, nh |-> n, working |-> working]

(* _ctc_sai_next_hop_group_create_member of an ECMP group: refused or added *)
(* (a refused database add takes the member out of the SDK again). *)
CreateEcmpMember(m, g, n) ==
  /\ ~locked /\ m \notin memPool /\ grp[g].in /\ grp[g].type = "ECMP"
  /\ hwNh[g] = "ecmp"
  /\ hwMem' = [hwMem EXCEPT ![g][n] = @ + 1]
  /\ memPool' = memPool \cup {m}
  /\ mem' = [mem EXCEPT ![m] = Member(Oid(g), n, FALSE)]
  /\ UNCHANGED <<ctrVars, grpVars, routeVars, locked, orderly>>

Kind(n) == IF n \in MplsNextHops THEN "mpls" ELSE "ipuc"

(* _ctc_sai_next_hop_group_create_aps_nh succeeds: two paths of one kind, *)
(* no APS group and no next hop yet. *)
ApsPossible(g, w, p) ==
  Kind(w) = Kind(p) /\ grp[g].aps \notin hwAps /\ hwNh[g] = "none"

(* _ctc_sai_next_hop_group_create_member of a protection group. The *)
(* hardware is set up when both paths are there. When the database add is *)
(* refused it is taken down again, but the group keeps the paths. *)
CreatePath(m, g, n, working) ==
  LET w == IF working THEN n ELSE grp[g].w
      p == IF working THEN grp[g].p ELSE n
      both == w # NoNh /\ p # NoNh
  IN /\ ~locked /\ m \notin memPool /\ grp[g].in /\ grp[g].type = "PROTECTION"
     /\ both => ApsPossible(g, w, p)
     /\ grp' = [grp EXCEPT ![g].w = w, ![g].p = p]
     /\ \/ /\ memPool' = memPool \cup {m}
           /\ mem' = [mem EXCEPT ![m] = Member(Oid(g), n, working)]
           /\ hwNh' = IF both THEN [hwNh EXCEPT ![g] = Kind(w)] ELSE hwNh
           /\ hwAps' = IF both THEN hwAps \cup {grp[g].aps} ELSE hwAps
           /\ UNCHANGED orderly
        \/ /\ "db_add" \in Faults
           /\ hwNh' = IF both /\ Kind(w) = "mpls" THEN [hwNh EXCEPT ![g] = "mpls"] ELSE hwNh
           /\ orderly' = FALSE
           /\ UNCHANGED <<mem, memPool, hwAps>>
     /\ UNCHANGED <<ctrVars, routeVars, nhPool, apsPool, hwMem, locked>>

\* mutant: every entry of the next hop is taken out of the group
RemoveEcmpMemberAll(m) ==
  LET g == mem[m].grp.id
  IN /\ ~locked /\ mem[m].in /\ GroupFound(mem[m].grp) /\ mem[m].grp.type = "ECMP"
     /\ hwMem' = [hwMem EXCEPT ![g][mem[m].nh] = 0]
     /\ mem' = [mem EXCEPT ![m] = NoMember] /\ memPool' = memPool \ {m}
     /\ UNCHANGED <<ctrVars, grpVars, routeVars, locked, orderly>>

(* _ctc_sai_next_hop_group_remove_member. The group is looked up by the *)
(* object id the member kept: a member that outlives its group stays, and *)
(* belongs to the next group with that object id. *)
RemoveEcmpMember(m) ==
  LET g == mem[m].grp.id
  IN /\ ~locked /\ mem[m].in /\ GroupFound(mem[m].grp) /\ mem[m].grp.type = "ECMP"
     /\ hwMem' = IF hwMem[g][mem[m].nh] = 0 THEN hwMem
                 ELSE [hwMem EXCEPT ![g][mem[m].nh] = @ - 1]
     /\ mem' = [mem EXCEPT ![m] = NoMember] /\ memPool' = memPool \ {m}
     /\ UNCHANGED <<ctrVars, grpVars, routeVars, locked, orderly>>

\* mutant: the APS group stays when the protection path goes last
RemovePathKeepsAps(m) ==
  LET g == mem[m].grp.id
      old == IF mem[m].working THEN grp[g].w ELSE grp[g].p
      left == IF mem[m].working THEN grp[g].p ELSE grp[g].w
  IN /\ ~locked /\ mem[m].in /\ GroupFound(mem[m].grp) /\ mem[m].grp.type = "PROTECTION"
     /\ grp' = IF mem[m].working THEN [grp EXCEPT ![g].w = NoNh]
               ELSE [grp EXCEPT ![g].p = NoNh]
     /\ hwNh' = IF left = NoNh /\ Kind(old) = "ipuc" THEN IpucRemoved(g) ELSE hwNh
     /\ hwAps' = IF left = NoNh /\ mem[m].working THEN hwAps \ {grp[g].aps} ELSE hwAps
     /\ mem' = [mem EXCEPT ![m] = NoMember] /\ memPool' = memPool \ {m}
     /\ UNCHANGED <<ctrVars, nhPool, apsPool, hwMem, routeVars, locked, orderly>>

(* A path taken away: the hardware goes with the last of the two, the MPLS *)
(* next hop never (_ctc_sai_next_hop_group_remove_aps_nh). *)
RemovePath(m) ==
  LET g == mem[m].grp.id
      old == IF mem[m].working THEN grp[g].w ELSE grp[g].p
      left == IF mem[m].working THEN grp[g].p ELSE grp[g].w
  IN /\ ~locked /\ mem[m].in /\ GroupFound(mem[m].grp) /\ mem[m].grp.type = "PROTECTION"
     /\ grp' = IF mem[m].working THEN [grp EXCEPT ![g].w = NoNh]
               ELSE [grp EXCEPT ![g].p = NoNh]
     /\ hwNh' = IF left = NoNh /\ Kind(old) = "ipuc" THEN IpucRemoved(g) ELSE hwNh
     /\ hwAps' = IF left = NoNh THEN hwAps \ {grp[g].aps} ELSE hwAps
     /\ mem' = [mem EXCEPT ![m] = NoMember] /\ memPool' = memPool \ {m}
     /\ UNCHANGED <<ctrVars, nhPool, apsPool, hwMem, routeVars, locked, orderly>>

-----------------------------------------------------------------------------
Ctrs == Counters \cup {NoCtr}
NewSid == FreeIds(StatsIds, stats)   \* ctcs_stats_create_statsid
Changed(x) ==
  {[x EXCEPT !.act = a] : a \in Acts} \cup {[x EXCEPT !.to = t] : t \in Known}
    \cup {[x EXCEPT !.ctr = c] : c \in Ctrs}

RouteNext ==
  \E r \in Prefixes, sid \in NewSid :
    \/ \E a \in Acts, t \in Known, c \in Ctrs :
         CreateRoute(r, [in |-> TRUE, act |-> a, to |-> t, ctr |-> c], sid)
    \/ RemoveRoute(r, sid)
    \/ \E y \in Changed(route[r]) : SetRoute(r, y, sid)

GroupNext ==
  \E g \in GroupIds :
    \/ \E c \in Ctrs, sid \in NewSid : "ECMP" \in GroupTypes /\ CreateEcmp(g, c, sid)
    \/ \E c \in Ctrs, a \in ApsIds : "PROTECTION" \in GroupTypes /\ CreateProtection(g, a, c)
    \/ RemoveEcmp(g)
    \/ RemoveProtection(g)

MemberNext ==
  \E m \in MemberIds :
    \/ \E g \in GroupIds, n \in NextHops : CreateEcmpMember(m, g, n)
    \/ \E g \in GroupIds, n \in NextHops, b \in BOOLEAN : CreatePath(m, g, n, b)
    \/ RemoveEcmpMember(m)
    \/ RemovePath(m)

Next ==
  \/ \E c \in Counters : CreateCounter(c) \/ RemoveCounter(c)
  \/ RouteNext
  \/ GroupNext
  \/ MemberNext

Spec == Init /\ [][Next]_vars

-----------------------------------------------------------------------------
(* What makes routes, groups and counters correct. *)

(* A route the SDK forwards by is the one recorded, with a live statistics *)
(* id of the counter recorded and, through an ECMP group, with that group: *)
(* create, set and remove of routes, counters and groups keep them together *)
(* (route_cnt counts them). *)
RouteHwExact ==
  orderly =>
    /\ routeCnt = Cardinality({r \in Prefixes : route[r].in})
    /\ \A r \in Prefixes :
         LET x == route[r] IN
         IF ~x.in THEN ~hwRoute[r].in
         ELSE /\ hwRoute[r] = MapEntry(Cs, x)
              /\ x.ctr # NoCtr => ctr[x.ctr].type = "ROUTE" /\ hwRoute[r].sid \in stats
              /\ x.to[1] = "grp" /\ x.to[2].type = "ECMP" =>
                   GroupFound(x.to[2]) /\ hwNh[x.to[2].id] = "ecmp"

(* The SDK balances over an ECMP group's members, each as often as it was *)
(* added, also after members of a same next hop come and go. *)
EcmpExact ==
  orderly =>
    \A g \in GroupIds : \A n \in NextHops :
      hwMem[g][n] = Cardinality({m \in MemberIds :
                      mem[m].in /\ mem[m].nh = n /\ grp[g].in /\ grp[g].type = "ECMP"
                        /\ mem[m].grp = Oid(g)})

(* A path of a protection group belongs to a member in that role; with both *)
(* paths the APS group is in the SDK, and without any it is not. *)
ProtectionBacked ==
  orderly =>
    \A g \in GroupIds :
      LET path(n, working) == n = NoNh \/ \E m \in MemberIds : mem[m] = Member(Oid(g), n, working)
      IN grp[g].in /\ grp[g].type = "PROTECTION" =>
           /\ path(grp[g].w, TRUE) /\ path(grp[g].p, FALSE)
           /\ NoNh \notin {grp[g].w, grp[g].p} =>
                grp[g].aps \in hwAps /\ hwNh[g] = Kind(grp[g].w)
           /\ grp[g].w = NoNh /\ grp[g].p = NoNh => grp[g].aps \notin hwAps

(* Whatever fails, an id is taken exactly while an object has it, unless a *)
(* handler left the lock taken half-way; APS groups are those of groups. *)
PoolsExact ==
  /\ ~locked => nhPool = {g \in GroupIds : grp[g].in}
  /\ apsPool = {grp[g].aps : g \in {h \in GroupIds : grp[h].in}} \ {0}
  /\ memPool = {m \in MemberIds : mem[m].in}
  /\ hwAps \subseteq apsPool
  /\ \A g, h \in GroupIds : grp[g].in /\ grp[h].in /\ grp[g].aps = grp[h].aps => g = h \/ grp[g].aps = 0

(* Whoever shares a counter, a counter in use has a live statistics id of *)
(* its own, and counters given to one user each leak none. *)
StatsOwned ==
  LET used == {c \in Counters : ctr[c].type # "MAX"}
  IN /\ \A c \in used : ctr[c].in /\ ctr[c].sid \in stats
     /\ \A c, d \in used : ctr[c].sid = ctr[d].sid => c = d
     /\ orderly => stats = {ctr[c].sid : c \in used}

(* saicounter.h: remove_counter and every other call returns a status. A *)
(* call can only return when the database lock is free, and *)
(* ctc_sai_counter_remove_counter keeps it when it refuses. *)
CallReturns == ~locked
=============================================================================
