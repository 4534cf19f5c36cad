---------------------------- MODULE RoutingProofs ----------------------------
(***************************************************************************)
(* Safety theorems about Routing, for every set of next hops, routes, *)
(* groups, members and counters, whatever the callers share and whatever *)
(* the SDK refuses. The argument: RoutingInv is inductive. Its parts about *)
(* types, statistics and pools hold always; those about routes, members *)
(* and paths while orderly does, and they need to know that a counter has *)
(* one user then and that no member or route outlives its group. *)
(***************************************************************************)
EXTENDS Routing, FiniteSetTheorems, TLAPS

(* The counters and statistics a handler works on. *)
CtrRecords == [in : BOOLEAN, type : CounterTypes, sid : StatsIds \cup {0}]
CsSet == [ctr : [Counters -> CtrRecords], stats : SUBSET StatsIds, ok : BOOLEAN]

(* A counter that counts exists and has a statistics id of its own, one *)
(* that does not has none. *)
Counting(s) == {c \in Counters : s.ctr[c].type # "MAX"}
CsOwned(s) ==
  /\ \A c \in Counters : IF s.ctr[c].type = "MAX" THEN s.ctr[c].sid = 0
                         ELSE s.ctr[c].in /\ s.ctr[c].sid \in s.stats
  /\ \A c, d \in Counting(s) : s.ctr[c].sid = s.ctr[d].sid => c = d
CsTight(s) == s.stats = {s.ctr[c].sid : c \in Counting(s)}
StatsInv == CsOwned(Cs) /\ (orderly => CsTight(Cs))

(* PROTECTION groups alone have APS ids. *)
PoolInv ==
  /\ PoolsExact
  /\ \A g \in GroupIds : grp[g].in => (grp[g].aps = 0 <=> grp[g].type = "ECMP")

(* A counter has one user; it counts for a route or an ECMP group, and a *)
(* protection group only remembers it. An ECMP group is in the SDK. *)
UsersInv ==
  /\ \A q, r \in Prefixes : route[q].in /\ route[r].in /\ route[q].ctr = route[r].ctr
                              => q = r \/ route[r].ctr = NoCtr
  /\ \A g, h \in GroupIds : grp[g].in /\ grp[h].in /\ grp[g].ctr = grp[h].ctr
                              => g = h \/ grp[h].ctr = NoCtr
  /\ \A r \in Prefixes, g \in GroupIds : route[r].in /\ grp[g].in /\ route[r].ctr = grp[g].ctr
                              => route[r].ctr = NoCtr
  /\ \A g \in GroupIds : grp[g].in /\ grp[g].type = "ECMP" =>
       /\ hwNh[g] = "ecmp"
       /\ grp[g].ctr # NoCtr => ctr[grp[g].ctr].type = "ECMP"

(* Routes, members and paths against given groups G, members M, counters C *)
(* and SDK tables H (next hops) and A (APS groups). *)
OidIn(G, g) == [type |-> G[g].type, aps |-> G[g].aps, id |-> g]
FoundIn(G, o) == G[o.id].in /\ OidIn(G, o.id) = o
EntryFor(C, x) == MapEntry([ctr |-> C], x)
RouteOk(x, h, C, G, H) ==
  IF ~x.in THEN ~h.in
  ELSE /\ h = EntryFor(C, x)
       /\ x.ctr # NoCtr => C[x.ctr].type = "ROUTE"
       /\ x.to[1] = "grp" /\ x.to[2].type = "ECMP" =>
            FoundIn(G, x.to[2]) /\ H[x.to[2].id] = "ecmp"
EcmpMembers(G, M, g, n) ==
  {m \in MemberIds : M[m].in /\ M[m].nh = n /\ G[g].in /\ G[g].type = "ECMP"
                       /\ M[m].grp = OidIn(G, g)}
PathOf(G, M, g, n, working) ==
  n = NoNh \/ \E m \in MemberIds : M[m] = Member(OidIn(G, g), n, working)
PathsOk(G, M, H, A, g) ==
  G[g].in /\ G[g].type = "PROTECTION" =>
    /\ PathOf(G, M, g, G[g].w, TRUE) /\ PathOf(G, M, g, G[g].p, FALSE)
    /\ NoNh \notin {G[g].w, G[g].p} => G[g].aps \in A /\ H[g] = Kind(G[g].w)
    /\ G[g].w = NoNh /\ G[g].p = NoNh => G[g].aps \notin A

Routes == {r \in Prefixes : route[r].in}
RouteInv ==
  /\ routeCnt = Cardinality(Routes)
  /\ orderly =>
       UsersInv /\ \A r \in Prefixes : RouteOk(route[r], hwRoute[r], ctr, grp, hwNh)

(* No member outlives its group. *)
MemberInv ==
  orderly =>
    /\ \A g \in GroupIds : \A n \in NextHops :
         hwMem[g][n] = Cardinality(EcmpMembers(grp, mem, g, n))
    /\ \A m \in MemberIds : mem[m].in => FoundIn(grp, mem[m].grp)
PathInv == orderly => \A g \in GroupIds : PathsOk(grp, mem, hwNh, hwAps, g)

RoutingInv == TypeOK /\ StatsInv /\ PoolInv /\ RouteInv /\ MemberInv /\ PathInv

-----------------------------------------------------------------------------
(* The helpers of ctc_sai_counter.c keep the statistics owned, whoever *)
(* calls them, and give or take the statistics id of one counter. *)
Turned(s, t, c) ==
  /\ t \in CsSet /\ CsOwned(t)
  /\ \A d \in Counters : d # c => t.ctr[d] = s.ctr[d]
  /\ ~t.ok => t.ctr = s.ctr /\ t.stats = s.stats

(* ctc_sai_counter_id_create with an id the SDK has just handed out. *)
IdCreated(s, t, c, type, sid) ==
  /\ Turned(s, t, c)
  /\ t.ok => t.ctr[c].type = type /\ t.ctr[c].sid = sid /\ t.stats = s.stats \cup {sid}
  /\ (s.ctr[c].type = "MAX" /\ CsTight(s)) => CsTight(t)
(* ctc_sai_counter_id_create, from either failure to the id it takes. *)
LEMMA IdCreateFact ==
  ASSUME NEW s \in CsSet, s.ok = TRUE, CsOwned(s), NEW c \in Counters,
         NEW type \in {"ROUTE", "ECMP"}, NEW sid \in StatsIds \cup {0}, sid \notin s.stats
  PROVE  IdCreated(s, CounterIdCreate(s, c, type, sid), c, type, sid)
PROOF
<1> DEFINE t == CounterIdCreate(s, c, type, sid)
<1>1. CASE ~s.ctr[c].in \/ sid = 0
  <2>1. t = Refuse(s)
    BY <1>1 DEF CounterIdCreate
  <2> HIDE DEF t
  <2>2. t \in CsSet /\ t.ctr = s.ctr /\ t.stats = s.stats /\ t.ok = FALSE
    BY <2>1 DEF Refuse, CsSet
  <2> QED BY <2>2 DEF Turned, CsOwned, CsTight, Counting, IdCreated, t
<1>2. CASE s.ctr[c].in /\ sid # 0
  <2> DEFINE v == [s.ctr[c] EXCEPT !.sid = sid, !.type = type]
  <2>1. s.ctr[c] \in CtrRecords /\ s.ctr \in [Counters -> CtrRecords]
    BY DEF CsSet
  <2>2. v \in CtrRecords /\ v.in = s.ctr[c].in /\ v.sid = sid /\ v.type = type
    BY <2>1 DEF CtrRecords, CounterTypes
  <2>3. /\ t.ctr = [s.ctr EXCEPT ![c] = v] /\ t.stats = s.stats \cup {sid} /\ t.ok = TRUE
        /\ t \in CsSet
    BY <1>2, <2>1, <2>2 DEF CounterIdCreate, CsSet
  <2> HIDE DEF v, t
  <2>4. t.ctr[c] = v /\ \A d \in Counters : d # c => t.ctr[d] = s.ctr[d]
    BY <2>1, <2>3
  <2>5. type # "MAX" /\ s.stats \subseteq StatsIds
    BY DEF CsSet
  <2>6. CsOwned(t)
    <3>1. \A d \in Counters : IF t.ctr[d].type = "MAX" THEN t.ctr[d].sid = 0
                             ELSE t.ctr[d].in /\ t.ctr[d].sid \in t.stats
      BY <1>2, <2>2, <2>3, <2>4, <2>5 DEF CsOwned
    <3>2. \A d \in Counting(t) : d # c => d \in Counting(s) /\ t.ctr[d].sid \in s.stats
      BY <2>4 DEF CsOwned, Counting
    <3>3. \A d \in Counting(t) : d # c => t.ctr[d].sid # t.ctr[c].sid
      BY <2>2, <2>4, <3>2
    <3>4. \A d, e \in Counting(t) : t.ctr[d].sid = t.ctr[e].sid => d = e
      <4> SUFFICES ASSUME NEW d \in Counting(t), NEW e \in Counting(t),
                          t.ctr[d].sid = t.ctr[e].sid, d # e
                   PROVE  FALSE
        OBVIOUS
      <4>1. d # c /\ e # c
        BY <3>3
      <4>2. d \in Counting(s) /\ e \in Counting(s) /\ d \in Counters /\ e \in Counters
        BY <3>2, <4>1 DEF Counting
      <4>3. s.ctr[d].sid = s.ctr[e].sid
        BY <2>4, <4>1, <4>2
      <4> QED BY <4>2, <4>3 DEF CsOwned
    <3> QED BY <3>1, <3>4 DEF CsOwned
  <2>7. (s.ctr[c].type = "MAX" /\ CsTight(s)) => CsTight(t)
    <3> SUFFICES ASSUME s.ctr[c].type = "MAX", CsTight(s) PROVE CsTight(t)
      OBVIOUS
    <3>1. Counting(t) = Counting(s) \cup {c} /\ c \notin Counting(s)
      BY <2>2, <2>4, <2>5 DEF Counting
    <3>2. \A d \in Counting(s) : t.ctr[d].sid = s.ctr[d].sid
      BY <2>4, <3>1 DEF Counting
    <3> QED BY <2>2, <2>3, <2>4, <3>1, <3>2 DEF CsTight
  <2> QED BY <1>2, <2>2, <2>3, <2>4, <2>6, <2>7 DEF Turned, IdCreated, t
<1> QED BY <1>1, <1>2

(* ctc_sai_counter_id_remove fails for a counter that does not count. *)
IdRemoved(s, t, c) ==
  /\ Turned(s, t, c)
  /\ c = NoCtr => t = s
  /\ c # NoCtr => (t.ok <=> s.ctr[c].type # "MAX")
  /\ (c # NoCtr /\ t.ok) => t.ctr[c].type = "MAX" /\ t.stats = s.stats \ {s.ctr[c].sid}
  /\ CsTight(s) => CsTight(t)
(* ctc_sai_counter_id_remove gives the id back. *)
LEMMA IdRemoveFact ==
  ASSUME NEW s \in CsSet, s.ok = TRUE, CsOwned(s), NEW c \in Counters \cup {NoCtr}
  PROVE  IdRemoved(s, CounterIdRemove(s, c), c)
PROOF
<1> DEFINE t == CounterIdRemove(s, c)
<1> SUFFICES IdRemoved(s, t, c)
  OBVIOUS
<1>1. CASE c = NoCtr
  BY <1>1 DEF CounterIdRemove, Turned, IdRemoved
<1>2. CASE c # NoCtr /\ s.ctr[c].type = "MAX"
  <2>1. s.ctr[c].sid = 0 /\ s.stats \subseteq StatsIds
    BY <1>2 DEF CsOwned, CsSet
  <2>2. t = Refuse(s)
    BY <1>2, <2>1, RoutingAssumption DEF CounterIdRemove
  <2> HIDE DEF t
  <2>3. t \in CsSet /\ t.ctr = s.ctr /\ t.stats = s.stats /\ t.ok = FALSE
    BY <2>2 DEF Refuse, CsSet
  <2> QED BY <1>2, <2>3 DEF Turned, CsOwned, CsTight, Counting, IdRemoved
<1>3. CASE c # NoCtr /\ s.ctr[c].type # "MAX"
  <2> DEFINE v == [s.ctr[c] EXCEPT !.sid = 0, !.type = "MAX"]
  <2>1. /\ s.ctr[c] \in CtrRecords /\ s.ctr \in [Counters -> CtrRecords] /\ c \in Counters
        /\ s.ctr[c].in = TRUE /\ s.ctr[c].sid \in s.stats
    BY <1>3 DEF CsSet, CtrRecords, CsOwned
  <2>2. v \in CtrRecords /\ v.in = TRUE /\ v.sid = 0 /\ v.type = "MAX"
    BY <2>1 DEF CtrRecords, CounterTypes
  <2>3. /\ t.ctr = [s.ctr EXCEPT ![c] = v] /\ t.stats = s.stats \ {s.ctr[c].sid}
        /\ t.ok = TRUE /\ t \in CsSet
    BY <1>3, <2>1, <2>2 DEF CounterIdRemove, CsSet
  <2> HIDE DEF v, t
  <2>4. t.ctr[c] = v /\ \A d \in Counters : d # c => t.ctr[d] = s.ctr[d]
    BY <2>1, <2>3
  <2>5. Counting(t) = Counting(s) \ {c} /\ c \in Counting(s)
    BY <1>3, <2>1, <2>2, <2>4 DEF Counting
  <2>6. \A d \in Counting(t) : /\ t.ctr[d].sid = s.ctr[d].sid /\ t.ctr[d].in = s.ctr[d].in
                               /\ t.ctr[d].sid # s.ctr[c].sid
    BY <2>4, <2>5 DEF CsOwned, Counting
  <2>7. CsOwned(t)
    <3>1. \A d \in Counting(t) : t.ctr[d].in /\ t.ctr[d].sid \in t.stats
      BY <2>3, <2>5, <2>6 DEF CsOwned, Counting
    <3>2. \A d \in Counters : t.ctr[d].type = "MAX" => t.ctr[d].sid = 0
      BY <2>2, <2>4 DEF CsOwned
    <3>3. \A d, e \in Counting(t) : t.ctr[d].sid = t.ctr[e].sid => d = e
      BY <2>5, <2>6 DEF CsOwned
    <3> QED BY <3>1, <3>2, <3>3 DEF CsOwned, Counting
  <2>8. CsTight(s) => CsTight(t)
    BY <2>3, <2>5, <2>6 DEF CsTight
  <2> QED BY <1>3, <2>2, <2>3, <2>4, <2>7, <2>8 DEF Turned, IdRemoved
<1> QED BY <1>1, <1>2, <1>3

(* _ctc_sai_route_mapping_ipuc_action: on success the counter counts for *)
(* routes, and one that did already is not touched. *)
Mapped(s, t, c) ==
  /\ Turned(s, t, c)
  /\ c = NoCtr => t.ctr = s.ctr /\ t.stats = s.stats
  /\ (c # NoCtr /\ t.ok) => t.ctr[c].type = "ROUTE"
  /\ (c # NoCtr /\ s.ctr[c].type # "MAX") => t.ctr = s.ctr /\ t.stats = s.stats
  /\ CsTight(s) => CsTight(t)
(* The counter of a route: its id is created on first use. *)
LEMMA MapCounterFact ==
  ASSUME NEW s \in CsSet, s.ok = TRUE, CsOwned(s), NEW x, x.ctr \in Counters \cup {NoCtr},
         NEW sid \in StatsIds \cup {0}, sid \notin s.stats
  PROVE  Mapped(s, MapCounter(s, x, sid), x.ctr)
PROOF
<1> DEFINE t == MapCounter(s, x, sid)
           c == x.ctr
<1> SUFFICES Mapped(s, t, c)
  OBVIOUS
<1>1. ASSUME t = Refuse(s) PROVE Mapped(s, t, c)
  <2> HIDE DEF t
  <2>1. t \in CsSet /\ t.ctr = s.ctr /\ t.stats = s.stats /\ t.ok = FALSE
    BY <1>1 DEF Refuse, CsSet
  <2> QED BY <2>1 DEF Turned, CsOwned, CsTight, Counting, Mapped
<1>2. CASE x.act = "CANCEL" \/ (c # NoCtr /\ ~s.ctr[c].in)
  BY <1>1, <1>2 DEF MapCounter
<1>3. CASE x.act # "CANCEL" /\ c = NoCtr
  BY <1>3 DEF MapCounter, Turned, Mapped
<1>4. CASE x.act # "CANCEL" /\ c # NoCtr /\ s.ctr[c].in /\ s.ctr[c].type = "MAX"
  <2>1. t = CounterIdCreate(s, c, "ROUTE", sid) /\ c \in Counters
    BY <1>4 DEF MapCounter
  <2>2. IdCreated(s, CounterIdCreate(s, c, "ROUTE", sid), c, "ROUTE", sid)
    BY <2>1, IdCreateFact
  <2> HIDE DEF t
  <2>3. IdCreated(s, t, c, "ROUTE", sid)
    BY <2>1, <2>2
  <2> QED BY <1>4, <2>3 DEF IdCreated, Mapped
<1>5. CASE x.act # "CANCEL" /\ c # NoCtr /\ s.ctr[c].in /\ s.ctr[c].type = "ROUTE"
  <2>1. t = s
    BY <1>5 DEF MapCounter
  <2> HIDE DEF t
  <2> QED BY <1>5, <2>1 DEF Turned, Mapped
<1>6. CASE x.act # "CANCEL" /\ c # NoCtr /\ s.ctr[c].in /\ s.ctr[c].type \notin {"MAX", "ROUTE"}
  BY <1>1, <1>6 DEF MapCounter
<1> QED BY <1>2, <1>3, <1>4, <1>5, <1>6

-----------------------------------------------------------------------------
(* The types, by component. *)
GroupRecords == [in : BOOLEAN, type : {"ECMP", "PROTECTION"}, aps : ApsIds \cup {0},
                 w : NextHops \cup {NoNh}, p : NextHops \cup {NoNh},
                 ctr : Counters \cup {NoCtr}]
MemberRecords == [in : BOOLEAN, grp : Oids, nh : NextHops, working : BOOLEAN] \cup {NoMember}
RouteRecords == [in : BOOLEAN, act : AllActs, to : Targets, ctr : Counters \cup {NoCtr}]
HwRecords == [in : BOOLEAN, cpu : BOOLEAN, sid : StatsIds \cup {0},
              nh : NextHops \cup GroupIds \cup {Drop, ToCpu}]
CtrTyped == ctr \in [Counters -> CtrRecords] /\ stats \subseteq StatsIds
GrpTyped ==
  /\ grp \in [GroupIds -> GroupRecords] /\ nhPool \subseteq GroupIds /\ apsPool \subseteq ApsIds
  /\ hwNh \in [GroupIds -> {"none", "ecmp", "ipuc", "mpls"}] /\ hwAps \subseteq ApsIds
MemTyped ==
  /\ mem \in [MemberIds -> MemberRecords] /\ memPool \subseteq MemberIds
  /\ hwMem \in [GroupIds -> [NextHops -> Nat]]
RouteTyped ==
  /\ route \in [Prefixes -> RouteRecords] /\ hwRoute \in [Prefixes -> HwRecords]
  /\ routeCnt \in Nat
FlagsTyped == locked \in BOOLEAN /\ orderly \in BOOLEAN
(* TypeOK by variable. *)
LEMMA TypeSplit == TypeOK <=> CtrTyped /\ GrpTyped /\ MemTyped /\ RouteTyped /\ FlagsTyped
BY DEF TypeOK, CtrTyped, GrpTyped, MemTyped, RouteTyped, FlagsTyped, GroupRecords,
       MemberRecords, RouteRecords, HwRecords, CtrRecords

(* The same, of the state after a step. *)
LEMMA TypeAfter ==
  ASSUME CtrTyped', GrpTyped', MemTyped', RouteTyped', FlagsTyped'
  PROVE  TypeOK'
BY DEF TypeOK, CtrTyped, GrpTyped, MemTyped, RouteTyped, FlagsTyped, GroupRecords,
       MemberRecords, RouteRecords, HwRecords, CtrRecords

(* What a handler that calls the counter helpers starts from and leaves. *)
LEMMA CsFact ==
  ASSUME CtrTyped
  PROVE  Cs \in CsSet /\ Cs.ok = TRUE /\ Cs.ctr = ctr /\ Cs.stats = stats
BY DEF Cs, CsSet, CtrTyped

(* What a helper made of the counters becomes the state. *)
LEMMA CsAfter ==
  ASSUME NEW s \in CsSet, CtrBecome(s), CsOwned(s), (orderly' => CsTight(s))
  PROVE  CtrTyped' /\ StatsInv' /\ ctr' = s.ctr /\ stats' = s.stats
PROOF
<1>1. ctr' = s.ctr /\ stats' = s.stats /\ (Cs.ctr)' = s.ctr /\ (Cs.stats)' = s.stats
  BY DEF CtrBecome, Cs
<1>2. CtrTyped'
  BY <1>1 DEF CtrTyped, CsSet
<1>3. CsOwned(Cs)' /\ (orderly' => CsTight(Cs)')
  BY <1>1 DEF CsOwned, CsTight, Counting
<1> QED BY <1>1, <1>2, <1>3 DEF StatsInv

(* A new statistics id is free. *)
LEMMA SidFact ==
  ASSUME CtrTyped, NEW sid \in NewSid
  PROVE  sid \in StatsIds \cup {0} /\ sid \notin stats
PROOF
<1>1. 0 \notin StatsIds
  BY RoutingAssumption
<1> QED BY <1>1 DEF NewSid, FreeIds, CtrTyped

(* Object ids. *)
LEMMA OidFact ==
  ASSUME GrpTyped, NEW g \in GroupIds
  PROVE  /\ Oid(g) \in Oids /\ Oid(g).id = g /\ Oid(g).type = grp[g].type
         /\ Oid(g).aps = grp[g].aps
         /\ \A h \in GroupIds : Oid(g) = Oid(h) => g = h
         /\ grp[g] \in GroupRecords
BY DEF GrpTyped, GroupRecords, Oid, Oids

(* What a caller can name and what the SDK is told about it. *)
LEMMA KnownFact ==
  ASSUME GrpTyped, NEW t \in Known
  PROVE  /\ t \in Targets
         /\ t[1] = "grp" => \E g \in GroupIds : grp[g].in /\ t = <<"grp", Oid(g)>>
PROOF
<1>1. CASE t \in {<<"grp", Oid(g)>> : g \in {h \in GroupIds : grp[h].in}}
  <2>1. PICK g \in GroupIds : grp[g].in /\ t = <<"grp", Oid(g)>>
    BY <1>1
  <2>2. Oid(g) \in Oids
    BY OidFact
  <2> QED BY <2>1, <2>2 DEF Targets
<1>2. CASE t \in {<<"nh", n>> : n \in NextHops}
  <2>1. PICK n \in NextHops : t = <<"nh", n>>
    BY <1>2
  <2> QED BY <2>1 DEF Targets
<1>3. CASE t = NoTarget \/ t = Me
  BY <1>3 DEF NoTarget, Me, Targets
<1> QED BY <1>1, <1>2, <1>3 DEF Known

(* What a route becomes in the SDK. *)
LEMMA MapEntryTyped ==
  ASSUME NEW s \in CsSet, NEW x \in RouteRecords
  PROVE  MapEntry(s, x) \in HwRecords /\ MapEntry(s, x).in = TRUE
PROOF
<1> DEFINE nh == CASE x.act \notin NeedsNh \/ x.to = NoTarget -> Drop
                   [] x.act \in NeedsNh /\ x.to = Me -> ToCpu
                   [] x.act \in NeedsNh /\ x.to[1] = "nh" -> x.to[2]
                   [] x.act \in NeedsNh /\ x.to[1] = "grp" -> x.to[2].id
           sid == IF x.ctr = NoCtr THEN 0 ELSE s.ctr[x.ctr].sid
<1>1. x.to \in Targets /\ x.ctr \in Counters \cup {NoCtr}
  BY DEF RouteRecords
<1>2. nh \in NextHops \cup GroupIds \cup {Drop, ToCpu}
  <2>1. CASE x.to = NoTarget
    BY <2>1 DEF NoTarget, Me
  <2>2. CASE x.to = Me
    BY <2>2 DEF NoTarget, Me
  <2>3. CASE x.to \in {<<"nh", n>> : n \in NextHops}
    <3>1. PICK n \in NextHops : x.to = <<"nh", n>>
      BY <2>3
    <3>2. x.to[1] = "nh" /\ x.to[2] = n /\ x.to # NoTarget /\ x.to # Me
      BY <3>1 DEF NoTarget, Me
    <3> QED BY <3>2
  <2>4. CASE x.to \in {<<"grp", o>> : o \in Oids}
    <3>1. PICK o \in Oids : x.to = <<"grp", o>>
      BY <2>4
    <3>2. x.to[1] = "grp" /\ x.to[2] = o /\ x.to # NoTarget /\ x.to # Me
      BY <3>1 DEF NoTarget, Me
    <3>3. o.id \in GroupIds
      BY DEF Oids
    <3> QED BY <3>2, <3>3
  <2> QED BY <1>1, <2>1, <2>2, <2>3, <2>4 DEF Targets
<1>3. sid \in StatsIds \cup {0}
  BY <1>1 DEF CsSet, CtrRecords
<1> HIDE DEF nh, sid
<1>4. MapEntry(s, x) = [in |-> TRUE, nh |-> nh, cpu |-> x.act \in {"COPY", "TRAP"}, sid |-> sid]
  BY DEF MapEntry, nh, sid
<1> QED BY <1>2, <1>3, <1>4 DEF HwRecords

-----------------------------------------------------------------------------
(* What leaves each part of the invariant alone. *)
SameGroup(g) ==
  /\ grp'[g].in = grp[g].in /\ grp'[g].type = grp[g].type /\ grp'[g].aps = grp[g].aps
  /\ grp'[g].ctr = grp[g].ctr
GroupsKept == \A g \in GroupIds : SameGroup(g)
MembersKept == UNCHANGED <<mem, memPool, hwMem>>
CountersKept == UNCHANGED <<ctr, stats>>
RoutesKept == UNCHANGED <<route, hwRoute, routeCnt>>
Calmer == orderly' => orderly

(* A step that leaves the counters alone keeps StatsInv ... *)
LEMMA StatsFrame == ASSUME StatsInv, CountersKept, Calmer PROVE StatsInv'
BY DEF StatsInv, CountersKept, Calmer, CsOwned, CsTight, Counting, Cs

(* ... one that leaves groups and pools alone PoolInv ... *)
LEMMA PoolFrame ==
  ASSUME PoolInv, GroupsKept, UNCHANGED <<nhPool, apsPool, hwAps, memPool, mem>>,
         ~locked' => ~locked
  PROVE  PoolInv'
PROOF
<1>1. \A g \in GroupIds : grp'[g].in = grp[g].in /\ grp'[g].aps = grp[g].aps
                          /\ grp'[g].type = grp[g].type
  BY DEF GroupsKept, SameGroup
<1>2. {g \in GroupIds : grp'[g].in} = {g \in GroupIds : grp[g].in}
  BY <1>1
<1>3. {grp'[g].aps : g \in {h \in GroupIds : grp'[h].in}}
        = {grp[g].aps : g \in {h \in GroupIds : grp[h].in}}
  BY <1>1, <1>2
<1> QED BY <1>1, <1>2, <1>3 DEF PoolInv, PoolsExact

(* ... one that leaves groups and members alone MemberInv ... *)
LEMMA MemberFrame ==
  ASSUME MemberInv, Calmer, GroupsKept, MembersKept, TypeOK
  PROVE  MemberInv'
PROOF
<1>1. \A g \in GroupIds : OidIn(grp', g) = OidIn(grp, g)
  BY DEF GroupsKept, SameGroup, OidIn
<1>2. \A g \in GroupIds : \A n \in NextHops : EcmpMembers(grp', mem', g, n) = EcmpMembers(grp, mem, g, n)
  BY <1>1 DEF EcmpMembers, GroupsKept, SameGroup, MembersKept
<1>3. \A m \in MemberIds : mem[m].in => mem[m].grp.id \in GroupIds
  BY DEF TypeOK, NoMember, Oids
<1>4. ASSUME NEW m \in MemberIds, mem[m].in, FoundIn(grp, mem[m].grp)
      PROVE  FoundIn(grp', mem[m].grp)
  BY <1>1, <1>3, <1>4 DEF FoundIn, GroupsKept, SameGroup
<1> QED BY <1>2, <1>4 DEF MembersKept, MemberInv, Calmer

(* ... and one that leaves paths and members alone PathInv. *)
LEMMA PathFrame ==
  ASSUME PathInv, Calmer, GroupsKept, mem' = mem, hwAps' = hwAps,
         \A g \in GroupIds : grp[g].in /\ grp[g].type = "PROTECTION" =>
           grp'[g].w = grp[g].w /\ grp'[g].p = grp[g].p /\ hwNh'[g] = hwNh[g]
  PROVE  PathInv'
PROOF
<1>1. ASSUME NEW g \in GroupIds, PathsOk(grp, mem, hwNh, hwAps, g)
      PROVE  PathsOk(grp', mem', hwNh', hwAps', g)
  <2> SUFFICES ASSUME grp[g].in, grp[g].type = "PROTECTION" PROVE PathsOk(grp', mem', hwNh', hwAps', g)
    BY DEF PathsOk, GroupsKept, SameGroup
  <2>1. OidIn(grp', g) = OidIn(grp, g) /\ grp'[g].aps = grp[g].aps
    BY DEF GroupsKept, SameGroup, OidIn
  <2> QED BY <1>1, <2>1 DEF PathsOk, PathOf
<1> QED BY <1>1 DEF PathInv, Calmer

(* Nothing happens to the counters in use. *)
UsedCounters ==
  {route[r].ctr : r \in Routes} \cup
  {grp[g].ctr : g \in {h \in GroupIds : grp[h].in /\ grp[h].type = "ECMP"}}

(* A route is right as long as its counter and its group stay. *)
LEMMA RouteOkFrame ==
  ASSUME NEW x \in RouteRecords, NEW h, NEW C, NEW D, NEW G, NEW F, NEW H, NEW I,
         RouteOk(x, h, C, G, H), x.in /\ x.ctr # NoCtr => D[x.ctr] = C[x.ctr],
         \A g \in GroupIds : x.in /\ G[g].in /\ G[g].type = "ECMP"
                                  /\ x.to = <<"grp", OidIn(G, g)>> =>
           /\ F[g].in /\ F[g].type = "ECMP" /\ F[g].aps = G[g].aps
           /\ H[g] = "ecmp" => I[g] = "ecmp"
  PROVE  RouteOk(x, h, D, F, I)
PROOF
<1>1. CASE ~x.in
  BY <1>1 DEF RouteOk
<1>2. CASE x.in
  <2>1. EntryFor(D, x) = EntryFor(C, x)
    BY <1>2 DEF EntryFor, MapEntry
  <2>2. ASSUME x.to[1] = "grp", x.to[2].type = "ECMP"
        PROVE  FoundIn(F, x.to[2]) /\ I[x.to[2].id] = "ecmp"
    <3>1. FoundIn(G, x.to[2]) /\ H[x.to[2].id] = "ecmp"
      BY <1>2, <2>2 DEF RouteOk
    <3>2. PICK o \in Oids : x.to = <<"grp", o>>
      BY <2>2 DEF RouteRecords, Targets, NoTarget, Me
    <3>3. x.to[2] = o /\ o.id \in GroupIds /\ o.type = "ECMP" /\ OidIn(G, o.id) = o
      BY <2>2, <3>1, <3>2 DEF Oids, FoundIn
    <3>4. G[o.id].in /\ G[o.id].type = "ECMP"
      BY <3>1, <3>3 DEF FoundIn, OidIn
    <3> QED BY <1>2, <3>1, <3>2, <3>3, <3>4 DEF FoundIn, OidIn
  <2> QED BY <1>2, <2>1, <2>2 DEF RouteOk
<1> QED BY <1>1, <1>2

(* A step that leaves the routes alone keeps them right. *)
LEMMA RouteFrame ==
  ASSUME TypeOK, RouteInv, Calmer, GroupsKept, RoutesKept,
         orderly' => \A c \in UsedCounters \ {NoCtr} : ctr'[c] = ctr[c],
         \A g \in GroupIds : grp[g].in /\ grp[g].type = "ECMP" => hwNh'[g] = hwNh[g]
  PROVE  RouteInv'
PROOF
<1>1. routeCnt' = Cardinality(Routes')
  BY DEF RouteInv, RoutesKept, Routes
<1>2. ASSUME orderly, orderly' PROVE UsersInv'
  <2>1. \A g \in GroupIds : grp'[g].in /\ grp'[g].type = "ECMP" =>
          /\ hwNh'[g] = "ecmp"
          /\ grp'[g].ctr # NoCtr => ctr'[grp'[g].ctr].type = "ECMP"
    BY <1>2 DEF RouteInv, UsersInv, GroupsKept, SameGroup, UsedCounters
  <2>2. \A g \in GroupIds : grp'[g].in = grp[g].in /\ grp'[g].ctr = grp[g].ctr
    BY DEF GroupsKept, SameGroup
  <2> QED BY <1>2, <2>1, <2>2 DEF UsersInv, RouteInv, RoutesKept
<1>3. ASSUME orderly, orderly', NEW r \in Prefixes
      PROVE  RouteOk(route'[r], hwRoute'[r], ctr', grp', hwNh')
  <2>1. /\ route'[r] = route[r] /\ hwRoute'[r] = hwRoute[r] /\ route[r] \in RouteRecords
        /\ RouteOk(route[r], hwRoute[r], ctr, grp, hwNh)
    BY <1>3, TypeSplit DEF RoutesKept, RouteInv, RouteTyped
  <2>2. route[r].in /\ route[r].ctr # NoCtr => ctr'[route[r].ctr] = ctr[route[r].ctr]
    BY <1>3 DEF UsedCounters, Routes
  <2> QED BY <2>1, <2>2, RouteOkFrame DEF GroupsKept, SameGroup
<1> QED BY <1>1, <1>2, <1>3 DEF RouteInv, Calmer

(* Counters in use count, each for its kind of user. *)
LEMMA UsedFact ==
  ASSUME RouteTyped, GrpTyped, RouteInv, orderly
  PROVE  /\ \A c \in UsedCounters \ {NoCtr} : c \in Counters /\ ctr[c].type # "MAX"
         /\ \A r \in Routes : route[r].ctr # NoCtr => route[r].ctr \in Counters
                                                    /\ ctr[route[r].ctr].type = "ROUTE"
PROOF
<1>1. UsersInv /\ \A r \in Prefixes : RouteOk(route[r], hwRoute[r], ctr, grp, hwNh)
  BY DEF RouteInv
<1>2. \A r \in Routes : route[r].ctr # NoCtr => route[r].ctr \in Counters
                                               /\ ctr[route[r].ctr].type = "ROUTE"
  BY <1>1 DEF RouteOk, Routes, RouteTyped, RouteRecords
<1>3. \A g \in GroupIds : grp[g].ctr \in Counters \cup {NoCtr}
  BY DEF GrpTyped, GroupRecords
<1> QED BY <1>1, <1>2, <1>3 DEF UsedCounters, UsersInv

-----------------------------------------------------------------------------
(* create_counter and remove_counter touch only counters that do not count. *)
LEMMA CounterKeeps ==
  ASSUME RoutingInv, NEW c \in Counters, CreateCounter(c) \/ RemoveCounter(c)
  PROVE  RoutingInv'
PROOF
<1>1. /\ CtrTyped /\ GrpTyped /\ MemTyped /\ RouteTyped /\ FlagsTyped /\ ctr[c] \in CtrRecords
      /\ StatsInv /\ PoolInv /\ RouteInv /\ MemberInv /\ PathInv
  BY TypeSplit DEF RoutingInv, CtrTyped
<1>2. /\ UNCHANGED <<stats, grp, nhPool, apsPool, hwNh, hwAps, mem, memPool, hwMem>>
      /\ UNCHANGED <<route, hwRoute, routeCnt, orderly>>
      /\ ~locked' => ~locked
      /\ locked' \in BOOLEAN
  BY <1>1 DEF CreateCounter, RemoveCounter, grpVars, memVars, routeVars, FlagsTyped
<1>3. PICK v \in CtrRecords : /\ v.type = "MAX" /\ v.sid = 0 /\ ctr[c].type = "MAX"
                              /\ ctr' = [ctr EXCEPT ![c] = v]
      \/ ctr' = ctr
  <2>1. CASE ctr' = ctr
    BY <1>1, <2>1
  <2>2. CASE ctr' # ctr /\ CreateCounter(c)
    <3> DEFINE v == [NoCounter EXCEPT !.in = TRUE]
    <3>1. v \in CtrRecords /\ v.type = "MAX" /\ v.sid = 0
      BY DEF NoCounter, CtrRecords, CounterTypes
    <3>2. ctr[c].type = "MAX"
      BY <1>1, <2>2 DEF CreateCounter, StatsInv, CsOwned, Cs
    <3>3. ctr' = [ctr EXCEPT ![c] = v]
      BY <2>2 DEF CreateCounter
    <3> QED BY <3>1, <3>2, <3>3
  <2>3. CASE ctr' # ctr /\ RemoveCounter(c)
    <3>1. NoCounter \in CtrRecords /\ NoCounter.type = "MAX" /\ NoCounter.sid = 0
      BY DEF NoCounter, CtrRecords, CounterTypes
    <3>2. ctr[c].type = "MAX" /\ ctr' = [ctr EXCEPT ![c] = NoCounter]
      BY <2>3 DEF RemoveCounter
    <3> QED BY <3>1, <3>2
  <2> QED BY <2>1, <2>2, <2>3
<1>4. /\ CtrTyped' /\ \A d \in Counters : ctr[d].type # "MAX" => ctr'[d] = ctr[d]
      /\ \A d \in Counters : ctr'[d] = ctr[d] \/ (ctr'[d].type = "MAX" /\ ctr'[d].sid = 0)
  BY <1>1, <1>2, <1>3 DEF CtrTyped
<1>5. StatsInv'
  <2>1. \A d \in Counters : ctr'[d].type # "MAX" <=> ctr[d].type # "MAX"
    BY <1>1, <1>2, <1>3, <1>4 DEF CtrTyped
  <2>2. Counting(Cs)' = Counting(Cs) /\ \A d \in Counting(Cs) : ctr'[d] = ctr[d]
    BY <1>4, <2>1 DEF Counting, Cs
  <2>3. CsOwned(Cs)'
    BY <1>1, <1>2, <1>4, <2>2 DEF CsOwned, StatsInv, Cs, Counting
  <2>4. CsTight(Cs) => CsTight(Cs)'
    BY <1>2, <2>2 DEF CsTight, Cs
  <2> QED BY <1>1, <1>2, <2>3, <2>4 DEF StatsInv
<1>6. Calmer /\ GroupsKept /\ MembersKept /\ RoutesKept
  BY <1>2 DEF Calmer, GroupsKept, SameGroup, MembersKept, RoutesKept
<1>7. ASSUME orderly' PROVE \A d \in UsedCounters \ {NoCtr} : ctr'[d] = ctr[d]
  BY <1>1, <1>2, <1>4, <1>7, UsedFact
<1>8. PoolInv' /\ MemberInv' /\ PathInv'
  BY <1>1, <1>2, <1>6, TypeSplit, PoolFrame, MemberFrame, PathFrame
<1>9. RouteInv'
  BY <1>1, <1>2, <1>6, <1>7, TypeSplit, RouteFrame
<1>10. TypeOK'
  <2>1. GrpTyped' /\ MemTyped' /\ RouteTyped' /\ FlagsTyped'
    BY <1>1, <1>2 DEF GrpTyped, MemTyped, RouteTyped, FlagsTyped
  <2> QED BY <1>4, <2>1, TypeAfter
<1> QED BY <1>5, <1>8, <1>9, <1>10 DEF RoutingInv

-----------------------------------------------------------------------------
(* The handlers of ctc_sai_route.c leave groups and members alone. *)
LEMMA RouteRest ==
  ASSUME RoutingInv, UNCHANGED <<grpVars, memVars, locked>>, Calmer, orderly' \in BOOLEAN,
         CtrTyped', StatsInv', RouteTyped', RouteInv'
  PROVE  RoutingInv'
PROOF
<1>1. /\ UNCHANGED <<grp, nhPool, apsPool, hwNh, hwAps, mem, memPool, hwMem, locked>>
      /\ GroupsKept /\ MembersKept
  BY DEF grpVars, memVars, GroupsKept, SameGroup, MembersKept
<1>2. PoolInv' /\ MemberInv' /\ PathInv'
  BY <1>1, PoolFrame, MemberFrame, PathFrame DEF RoutingInv
<1>3. GrpTyped' /\ MemTyped' /\ FlagsTyped'
  BY <1>1, TypeSplit DEF RoutingInv, GrpTyped, MemTyped, FlagsTyped
<1> QED BY <1>2, <1>3, TypeAfter DEF RoutingInv

(* A counter nobody but route r uses. *)
Mine(c, r) ==
  /\ \A q \in Prefixes \ {r} : route[q].in => route[q].ctr # c
  /\ \A g \in GroupIds : grp[g].in => grp[g].ctr # c
(* A counter without a user may be given to any route. *)
LEMMA SpareMine == ASSUME NEW c, Spare(c), NEW r PROVE c = NoCtr \/ Mine(c, r)
BY DEF Spare, Mine, UsersOf, GroupUsersOf
(* The counter of a route is its own. *)
LEMMA UserMine ==
  ASSUME UsersInv, NEW r \in Prefixes, route[r].in
  PROVE  route[r].ctr = NoCtr \/ Mine(route[r].ctr, r)
BY DEF UsersInv, Mine

(* One route is written, and only counters of its own turn. *)
LEMMA RouteBecomes ==
  ASSUME TypeOK, RouteInv, NEW r \in Prefixes, NEW y, NEW h,
         route' = [route EXCEPT ![r] = y], hwRoute' = [hwRoute EXCEPT ![r] = h],
         UNCHANGED <<grp, hwNh>>, Calmer, routeCnt' = Cardinality(Routes'),
         orderly' => RouteOk(y, h, ctr', grp, hwNh),
         NEW K, orderly' => \A c \in K : Mine(c, r),
         \A d \in Counters \ K : ctr'[d] = ctr[d],
         y.in => y.ctr = NoCtr \/ y.ctr \in K
  PROVE  RouteInv'
PROOF
<1> SUFFICES ASSUME orderly, orderly'
             PROVE  /\ UsersInv'
                    /\ \A q \in Prefixes : RouteOk(route'[q], hwRoute'[q], ctr', grp', hwNh')
  BY DEF RouteInv, Calmer
<1>1. /\ UsersInv /\ \A q \in Prefixes : RouteOk(route[q], hwRoute[q], ctr, grp, hwNh)
      /\ route \in [Prefixes -> RouteRecords] /\ hwRoute \in [Prefixes -> HwRecords]
      /\ grp \in [GroupIds -> GroupRecords]
  BY TypeSplit DEF RouteInv, RouteTyped, GrpTyped
<1>2. /\ route'[r] = y /\ hwRoute'[r] = h
      /\ \A q \in Prefixes : q # r => route'[q] = route[q] /\ hwRoute'[q] = hwRoute[q]
  BY <1>1
<1>3. \A q \in Prefixes \ {r} : route[q].in /\ route[q].ctr # NoCtr =>
                                ctr'[route[q].ctr] = ctr[route[q].ctr]
  BY <1>1 DEF Mine, RouteRecords
<1>4. \A g \in GroupIds : grp[g].in /\ grp[g].ctr # NoCtr => ctr'[grp[g].ctr] = ctr[grp[g].ctr]
  BY <1>1 DEF Mine, GroupRecords
<1>5. ASSUME NEW q \in Prefixes
      PROVE  RouteOk(route'[q], hwRoute'[q], ctr', grp', hwNh')
  <2>1. CASE q = r
    BY <1>2, <2>1
  <2>2. CASE q # r
    <3>1. RouteOk(route[q], hwRoute[q], ctr, grp, hwNh) /\ route[q] \in RouteRecords
      BY <1>1
    <3>2. route[q].in /\ route[q].ctr # NoCtr => ctr'[route[q].ctr] = ctr[route[q].ctr]
      BY <1>3, <2>2
    <3>3. RouteOk(route[q], hwRoute[q], ctr', grp, hwNh)
      BY <3>1, <3>2, RouteOkFrame
    <3> QED BY <1>2, <2>2, <3>3
  <2> QED BY <2>1, <2>2
<1>6. UsersInv'
  <2>1. ASSUME NEW q \in Prefixes, NEW s \in Prefixes, route'[q].in, route'[s].in,
               route'[q].ctr = route'[s].ctr, route'[s].ctr # NoCtr
        PROVE  q = s
    <3>1. CASE q # r /\ s # r
      BY <1>1, <1>2, <2>1, <3>1 DEF UsersInv
    <3>2. CASE q = r /\ s # r
      BY <1>2, <2>1, <3>2 DEF Mine
    <3>3. CASE q # r /\ s = r
      BY <1>2, <2>1, <3>3 DEF Mine
    <3> QED BY <3>1, <3>2, <3>3
  <2>2. ASSUME NEW q \in Prefixes, NEW g \in GroupIds, route'[q].in, grp[g].in,
               route'[q].ctr = grp[g].ctr
        PROVE  route'[q].ctr = NoCtr
    BY <1>1, <1>2, <2>2 DEF UsersInv, Mine
  <2> QED BY <1>1, <1>4, <2>1, <2>2 DEF UsersInv
<1> QED BY <1>5, <1>6

(* A route may point to any target a caller can name. *)
TargetOk(t) ==
  t[1] = "grp" /\ t[2].type = "ECMP" => FoundIn(grp, t[2]) /\ hwNh[t[2].id] = "ecmp"
(* What a caller can name is a next hop or a live group. *)
LEMMA KnownOk ==
  ASSUME GrpTyped, UsersInv, NEW t \in Known
  PROVE  TargetOk(t)
PROOF
<1> SUFFICES ASSUME t[1] = "grp", t[2].type = "ECMP"
             PROVE  FoundIn(grp, t[2]) /\ hwNh[t[2].id] = "ecmp"
  BY DEF TargetOk
<1>1. PICK g \in GroupIds : grp[g].in /\ t = <<"grp", Oid(g)>>
  BY KnownFact
<1>2. t[2] = Oid(g) /\ Oid(g) = OidIn(grp, g) /\ Oid(g).id = g /\ grp[g].type = "ECMP"
  BY <1>1 DEF Oid, OidIn
<1> QED BY <1>1, <1>2 DEF UsersInv, FoundIn

(* The entry written for a route is the one its record asks for. *)
LEMMA MappedOk ==
  ASSUME NEW s \in CsSet, NEW x, x.in = TRUE, TargetOk(x.to),
         x.ctr # NoCtr => s.ctr[x.ctr].type = "ROUTE"
  PROVE  RouteOk(x, MapEntry(s, x), s.ctr, grp, hwNh)
PROOF
<1>1. MapEntry(s, x) = EntryFor(s.ctr, x)
  BY DEF MapEntry, EntryFor
<1> QED BY <1>1 DEF RouteOk, TargetOk

(* What the parts of the invariant say, for the handlers below. *)
LEMMA Parts ==
  ASSUME RoutingInv
  PROVE  /\ TypeOK /\ CtrTyped /\ GrpTyped /\ MemTyped /\ RouteTyped /\ FlagsTyped
         /\ StatsInv /\ PoolInv /\ RouteInv /\ MemberInv /\ PathInv
         /\ Cs \in CsSet /\ Cs.ok = TRUE /\ Cs.ctr = ctr /\ Cs.stats = stats /\ CsOwned(Cs)
         /\ orderly => CsTight(Cs) /\ UsersInv
BY TypeSplit, CsFact DEF RoutingInv, StatsInv, RouteInv

(* create_route, accepted or refused. *)
LEMMA CreateRouteKeeps ==
  ASSUME RoutingInv, NEW r \in Prefixes, NEW sid \in NewSid, NEW x \in RouteRecords,
         x.in = TRUE, x.to \in Known, CreateRoute(r, x, sid)
  PROVE  RoutingInv'
PROOF
<1> DEFINE s == MapCounter(Cs, x, sid)
           e == MapEntry(s, x)
           K == {x.ctr} \ {NoCtr}
<1>1. /\ TypeOK /\ CtrTyped /\ GrpTyped /\ RouteTyped /\ FlagsTyped /\ StatsInv /\ RouteInv
      /\ Cs \in CsSet /\ Cs.ok = TRUE /\ Cs.ctr = ctr /\ Cs.stats = stats /\ CsOwned(Cs)
      /\ orderly => CsTight(Cs) /\ UsersInv
  BY Parts
<1>2. x.ctr \in Counters \cup {NoCtr} /\ sid \in StatsIds \cup {0} /\ sid \notin stats
  BY <1>1, SidFact DEF RouteRecords
<1>3. Mapped(Cs, s, x.ctr)
  BY <1>1, <1>2, MapCounterFact
<1>4. /\ s \in CsSet /\ CsOwned(s) /\ (CsTight(Cs) => CsTight(s))
      /\ \A d \in Counters \ K : s.ctr[d] = ctr[d]
      /\ (x.ctr # NoCtr /\ s.ok) => s.ctr[x.ctr].type = "ROUTE"
  BY <1>1, <1>2, <1>3 DEF Mapped, Turned
<1>5. /\ UNCHANGED <<grpVars, memVars, locked>> /\ CtrBecome(s) /\ ~route[r].in
      /\ orderly' => orderly /\ Spare(x.ctr)
      /\ orderly' \in BOOLEAN
      /\ \/ /\ s.ok /\ route' = [route EXCEPT ![r] = x] /\ hwRoute' = [hwRoute EXCEPT ![r] = e]
            /\ routeCnt' = routeCnt + 1
         \/ UNCHANGED routeVars
  BY <1>1 DEF CreateRoute, FlagsTyped
<1>6. CtrTyped' /\ StatsInv' /\ ctr' = s.ctr
  BY <1>1, <1>4, <1>5, CsAfter
<1>7. e \in HwRecords
  BY <1>4, MapEntryTyped
<1>8. orderly' => \A c \in K : Mine(c, r)
  BY <1>5, SpareMine
<1>9. UNCHANGED <<grp, hwNh>> /\ Calmer
  BY <1>5 DEF grpVars, Calmer
<1> HIDE DEF s, e
<1>10. CASE s.ok /\ route' = [route EXCEPT ![r] = x] /\ hwRoute' = [hwRoute EXCEPT ![r] = e]
            /\ routeCnt' = routeCnt + 1
  <2>1. RouteTyped' /\ routeCnt' = Cardinality(Routes')
    <3>1. Routes' = Routes \cup {r} /\ r \notin Routes
      BY <1>1, <1>5, <1>10 DEF Routes, RouteTyped
    <3>2. IsFiniteSet(Routes) /\ Cardinality(Routes) \in Nat /\ routeCnt = Cardinality(Routes)
      BY <1>1, FS_Subset, FS_CardinalityType, RoutingAssumption DEF Routes, RouteInv
    <3>3. routeCnt' = Cardinality(Routes')
      BY <1>10, <3>1, <3>2, FS_AddElement
    <3> QED BY <1>1, <1>7, <1>10, <3>2, <3>3 DEF RouteTyped
  <2>2. orderly' => RouteOk(x, e, ctr', grp, hwNh)
    BY <1>1, <1>4, <1>5, <1>6, <1>10, KnownOk, MappedOk DEF e
  <2>3. RouteInv'
    BY <1>1, <1>4, <1>6, <1>8, <1>9, <1>10, <2>1, <2>2, RouteBecomes
  <2> QED BY <1>5, <1>6, <1>9, <2>1, <2>3, RouteRest
<1>11. CASE UNCHANGED routeVars
  <2>1. RouteTyped' /\ RoutesKept /\ GroupsKept
    BY <1>1, <1>9, <1>11 DEF RouteTyped, RoutesKept, routeVars, GroupsKept, SameGroup
  <2>2. ASSUME orderly' PROVE \A c \in UsedCounters \ {NoCtr} : ctr'[c] = ctr[c]
    <3>1. \A c \in UsedCounters \ {NoCtr} : c \in Counters /\ c \notin K
      BY <1>1, <1>5, <2>2, UsedFact DEF Spare, UsedCounters, UsersOf, GroupUsersOf, Routes
    <3> QED BY <1>4, <1>6, <3>1
  <2>3. RouteInv'
    BY <1>1, <1>9, <2>1, <2>2, RouteFrame
  <2> QED BY <1>5, <1>6, <1>9, <2>1, <2>3, RouteRest
<1> QED BY <1>5, <1>10, <1>11

(* remove_route: a counter that counts for the route can be removed, so the *)
(* record goes with the SDK's route. *)
LEMMA RemoveRouteKeeps ==
  ASSUME RoutingInv, NEW r \in Prefixes, NEW sid \in NewSid, RemoveRoute(r, sid)
  PROVE  RoutingInv'
PROOF
<1> DEFINE x == route[r]
           s == MapCounter(Cs, x, sid)
           t == CounterIdRemove(s, x.ctr)
           K == {x.ctr} \ {NoCtr}
<1>1. /\ TypeOK /\ CtrTyped /\ GrpTyped /\ RouteTyped /\ FlagsTyped /\ StatsInv /\ RouteInv
      /\ Cs \in CsSet /\ Cs.ok = TRUE /\ Cs.ctr = ctr /\ Cs.stats = stats /\ CsOwned(Cs)
      /\ orderly => CsTight(Cs) /\ UsersInv
  BY Parts
<1>2. /\ x \in RouteRecords /\ x.ctr \in Counters \cup {NoCtr}
      /\ sid \in StatsIds \cup {0} /\ sid \notin stats
  BY <1>1, SidFact DEF RouteTyped, RouteRecords
<1>3. Mapped(Cs, s, x.ctr)
  BY <1>1, <1>2, MapCounterFact
<1>4. /\ s \in CsSet /\ CsOwned(s) /\ (CsTight(Cs) => CsTight(s))
      /\ \A d \in Counters \ K : s.ctr[d] = ctr[d]
      /\ (x.ctr # NoCtr /\ s.ok) => s.ctr[x.ctr].type = "ROUTE"
      /\ ~s.ok => s.ctr = ctr
      /\ s.ok \in BOOLEAN
  BY <1>1, <1>2, <1>3 DEF Mapped, Turned, CsSet
<1>5. s.ok => IdRemoved(s, t, x.ctr)
  BY <1>2, <1>4, IdRemoveFact
<1>6. s.ok => /\ t.ok /\ t \in CsSet /\ CsOwned(t) /\ (CsTight(Cs) => CsTight(t))
              /\ \A d \in Counters \ K : t.ctr[d] = ctr[d]
  <2> HIDE DEF s, t
  <2>1. CASE x.ctr = NoCtr
    BY <1>4, <1>5, <2>1 DEF IdRemoved, Turned
  <2>2. CASE x.ctr # NoCtr
    BY <1>4, <1>5, <2>2 DEF IdRemoved, Turned
  <2> QED BY <2>1, <2>2
<1>7. /\ UNCHANGED <<grpVars, memVars, locked>> /\ x.in
      /\ \/ /\ s.ok /\ CtrBecome(t) /\ hwRoute' = [hwRoute EXCEPT ![r] = NoHw]
            /\ route' = [route EXCEPT ![r] = NoRoute] /\ routeCnt' = routeCnt - 1
            /\ orderly' = orderly
         \/ /\ CtrBecome(s) /\ UNCHANGED routeVars
            /\ orderly' = (orderly /\ ~(s.ok /\ hwRoute[r].in))
  BY <1>6 DEF RemoveRoute
<1>8. UNCHANGED <<grp, hwNh>>
  BY <1>7 DEF grpVars
<1> HIDE DEF s, t
<1>9. CASE /\ s.ok /\ CtrBecome(t) /\ hwRoute' = [hwRoute EXCEPT ![r] = NoHw]
           /\ route' = [route EXCEPT ![r] = NoRoute] /\ routeCnt' = routeCnt - 1
           /\ orderly' = orderly
  <2>1. CtrTyped' /\ StatsInv' /\ ctr' = t.ctr
    BY <1>1, <1>6, <1>9, CsAfter
  <2>2. Calmer /\ orderly' \in BOOLEAN
    BY <1>1, <1>9 DEF Calmer, FlagsTyped
  <2>3. orderly' => \A c \in K : Mine(c, r)
    BY <1>1, <1>7, <1>9, UserMine
  <2>4. NoRoute \in RouteRecords /\ NoRoute.in = FALSE /\ NoHw \in HwRecords /\ NoHw.in = FALSE
    BY DEF NoRoute, RouteRecords, AllActs, Targets, NoHw, HwRecords
  <2>5. RouteTyped' /\ routeCnt' = Cardinality(Routes')
    <3>1. Routes' = Routes \ {r} /\ r \in Routes
      BY <1>1, <1>7, <1>9, <2>4 DEF Routes, RouteTyped
    <3>2. IsFiniteSet(Routes) /\ Cardinality(Routes) \in Nat /\ routeCnt = Cardinality(Routes)
      BY <1>1, FS_Subset, FS_CardinalityType, RoutingAssumption DEF Routes, RouteInv
    <3>3. routeCnt' = Cardinality(Routes') /\ IsFiniteSet(Routes')
      BY <1>9, <3>1, <3>2, FS_RemoveElement
    <3>4. routeCnt' \in Nat
      BY <3>3, FS_CardinalityType
    <3> QED BY <1>1, <1>9, <2>4, <3>3, <3>4 DEF RouteTyped
  <2>6. RouteOk(NoRoute, NoHw, ctr', grp, hwNh)
    BY <2>4 DEF RouteOk
  <2>7. RouteInv'
    BY <1>1, <1>6, <1>8, <1>9, <2>1, <2>2, <2>3, <2>4, <2>5, <2>6, RouteBecomes
  <2> QED BY <1>7, <2>1, <2>2, <2>5, <2>7, RouteRest
<1>10. CASE /\ CtrBecome(s) /\ UNCHANGED routeVars
            /\ orderly' = (orderly /\ ~(s.ok /\ hwRoute[r].in))
  <2>1. Calmer /\ orderly' \in BOOLEAN
    BY <1>1, <1>10 DEF Calmer, FlagsTyped
  <2>2. CtrTyped' /\ StatsInv' /\ ctr' = s.ctr
    BY <1>1, <1>4, <1>10, CsAfter
  <2>3. RouteTyped' /\ RoutesKept /\ GroupsKept
    BY <1>1, <1>8, <1>10 DEF RouteTyped, RoutesKept, routeVars, GroupsKept, SameGroup
  <2>4. ASSUME orderly' PROVE ctr' = ctr
    <3>1. RouteOk(x, hwRoute[r], ctr, grp, hwNh) /\ ~(s.ok /\ hwRoute[r].in)
      BY <1>1, <1>10, <2>4 DEF RouteInv
    <3>2. hwRoute[r].in = TRUE
      BY <1>7, <3>1 DEF RouteOk, EntryFor, MapEntry
    <3> QED BY <1>4, <2>2, <3>1, <3>2
  <2>5. RouteInv'
    BY <1>1, <1>8, <2>1, <2>3, <2>4, RouteFrame
  <2> QED BY <1>7, <2>1, <2>2, <2>3, <2>5, RouteRest
<1> QED BY <1>7, <1>9, <1>10

(* set_route_entry_attribute: the old counter is removed before the new one *)
(* is mapped, and both are the route's own while every counter has one user.*)
LEMMA SetRouteKeeps ==
  ASSUME RoutingInv, NEW r \in Prefixes, NEW sid \in NewSid, NEW y \in RouteRecords,
         y.in = route[r].in, y.to = route[r].to \/ y.to \in Known, SetRoute(r, y, sid)
  PROVE  RoutingInv'
PROOF
<1> DEFINE x == route[r]
           s == IF x.ctr # y.ctr THEN CounterIdRemove(Cs, x.ctr) ELSE Cs
           t == IF s.ok THEN MapCounter(s, y, sid) ELSE s
           e == MapEntry(t, y)
           K == {x.ctr, y.ctr} \ {NoCtr}
<1>1. /\ TypeOK /\ CtrTyped /\ GrpTyped /\ RouteTyped /\ FlagsTyped /\ StatsInv /\ RouteInv
      /\ Cs \in CsSet /\ Cs.ok = TRUE /\ Cs.ctr = ctr /\ Cs.stats = stats /\ CsOwned(Cs)
      /\ orderly => CsTight(Cs) /\ UsersInv
  BY Parts
<1>2. /\ x \in RouteRecords /\ x.ctr \in Counters \cup {NoCtr} /\ y.ctr \in Counters \cup {NoCtr}
      /\ sid \in StatsIds \cup {0} /\ sid \notin stats
  BY <1>1, SidFact DEF RouteTyped, RouteRecords
<1>3. /\ s \in CsSet /\ CsOwned(s) /\ (CsTight(Cs) => CsTight(s)) /\ s.ok \in BOOLEAN
      /\ \A d \in Counters \ K : s.ctr[d] = ctr[d]
      /\ sid \notin s.stats
      /\ (x.ctr = y.ctr \/ x.ctr = NoCtr) => s = Cs
  <2>1. CASE x.ctr = y.ctr
    BY <1>1, <1>2, <2>1 DEF CsSet
  <2>2. CASE x.ctr # y.ctr
    <3> DEFINE u == CounterIdRemove(Cs, x.ctr)
    <3>1. s = u /\ IdRemoved(Cs, u, x.ctr)
      BY <1>1, <1>2, <2>2, IdRemoveFact
    <3> HIDE DEF s, u
    <3>2. u.stats \subseteq stats
      BY <1>1, <3>1 DEF IdRemoved, Turned
    <3> QED BY <1>1, <1>2, <2>2, <3>1, <3>2 DEF IdRemoved, Turned, CsSet
  <2> QED BY <2>1, <2>2
<1>4. s.ok => Mapped(s, t, y.ctr)
  BY <1>2, <1>3, MapCounterFact
<1>5. ~s.ok => t = s
  OBVIOUS
<1> HIDE DEF s, t, e
<1>6. /\ t \in CsSet /\ CsOwned(t) /\ (CsTight(Cs) => CsTight(t))
      /\ \A d \in Counters \ K : t.ctr[d] = ctr[d]
      /\ (t.ok /\ y.ctr # NoCtr) => t.ctr[y.ctr].type = "ROUTE"
  <2>1. CASE s.ok
    BY <1>3, <1>4, <2>1 DEF Mapped, Turned
  <2>2. CASE ~s.ok
    BY <1>3, <1>5, <2>2
  <2> QED BY <2>1, <2>2
<1>7. /\ UNCHANGED <<grpVars, memVars, locked, routeCnt>> /\ x.in /\ CtrBecome(t)
      /\ \/ /\ t.ok /\ route' = [route EXCEPT ![r] = y] /\ hwRoute' = [hwRoute EXCEPT ![r] = e]
            /\ orderly' = (orderly /\ (x.ctr # y.ctr => Spare(y.ctr)))
         \/ /\ orderly' = (orderly /\ (x.ctr # y.ctr => Spare(y.ctr)) /\ x.ctr \in {y.ctr, NoCtr})
            /\ UNCHANGED <<route, hwRoute>>
  BY DEF SetRoute, s, t, e
<1>8. /\ orderly' \in BOOLEAN /\ Calmer /\ (orderly' /\ x.ctr # y.ctr => Spare(y.ctr))
      /\ UNCHANGED <<grp, hwNh>> /\ UNCHANGED <<grpVars, memVars, locked>>
  BY <1>1, <1>7 DEF FlagsTyped, Calmer, grpVars
<1>9. CtrTyped' /\ StatsInv' /\ ctr' = t.ctr
  BY <1>1, <1>6, <1>7, <1>8, CsAfter DEF Calmer
<1>10. CASE t.ok /\ route' = [route EXCEPT ![r] = y] /\ hwRoute' = [hwRoute EXCEPT ![r] = e]
  <2>1. ASSUME orderly' PROVE \A c \in K : Mine(c, r)
    <3>1. x.ctr = NoCtr \/ Mine(x.ctr, r)
      BY <1>1, <1>7, <1>8, <2>1, UserMine DEF Calmer
    <3>2. y.ctr = x.ctr \/ y.ctr = NoCtr \/ Mine(y.ctr, r)
      BY <1>8, <2>1, SpareMine
    <3> QED BY <3>1, <3>2
  <2>2. e \in HwRecords
    BY <1>6, MapEntryTyped DEF e
  <2>3. RouteTyped' /\ routeCnt' = Cardinality(Routes')
    <3>1. Routes' = Routes
      BY <1>1, <1>10 DEF Routes, RouteTyped
    <3> QED BY <1>1, <1>7, <1>10, <2>2, <3>1 DEF RouteTyped, RouteInv
  <2>4. ASSUME orderly' PROVE RouteOk(y, e, ctr', grp, hwNh)
    <3>1. UsersInv /\ RouteOk(x, hwRoute[r], ctr, grp, hwNh)
      BY <1>1, <1>8, <2>4 DEF Calmer, RouteInv
    <3>2. TargetOk(x.to)
      BY <1>7, <3>1 DEF RouteOk, TargetOk
    <3>3. TargetOk(y.to) /\ y.in = TRUE
      BY <1>1, <1>2, <1>7, <3>1, <3>2, KnownOk DEF RouteRecords
    <3> QED BY <1>6, <1>9, <1>10, <3>3, MappedOk DEF e
  <2>5. \A d \in Counters \ K : ctr'[d] = ctr[d]
    BY <1>6, <1>9
  <2>6. RouteInv'
    BY <1>1, <1>2, <1>8, <1>10, <2>1, <2>3, <2>4, <2>5, RouteBecomes
  <2> QED BY <1>8, <1>9, <2>3, <2>6, RouteRest
<1>11. CASE /\ orderly' => x.ctr \in {y.ctr, NoCtr}
            /\ UNCHANGED <<route, hwRoute>>
  <2>1. RouteTyped' /\ RoutesKept /\ GroupsKept
    BY <1>1, <1>7, <1>8, <1>11 DEF RouteTyped, RoutesKept, GroupsKept, SameGroup
  <2>2. ASSUME orderly' PROVE \A c \in UsedCounters \ {NoCtr} : ctr'[c] = ctr[c]
    <3>1. orderly /\ s = Cs
      BY <1>3, <1>8, <1>11, <2>2 DEF Calmer
    <3>2. Mapped(Cs, t, y.ctr)
      BY <1>1, <1>4, <3>1
    <3>3. CASE x.ctr = y.ctr
      <4>1. y.ctr # NoCtr => ctr[y.ctr].type = "ROUTE"
        BY <1>1, <1>7, <3>1, <3>3, UsedFact DEF Routes
      <4> QED BY <1>1, <1>9, <3>2, <4>1 DEF Mapped
    <3>4. CASE x.ctr # y.ctr
      <4>1. x.ctr = NoCtr /\ Spare(y.ctr)
        BY <1>8, <1>11, <2>2, <3>4
      <4>2. \A c \in UsedCounters \ {NoCtr} : c \in Counters /\ c # y.ctr
        BY <1>1, <3>1, <4>1, UsedFact DEF Spare, UsedCounters, UsersOf, GroupUsersOf, Routes
      <4> QED BY <1>6, <1>9, <4>1, <4>2
    <3> QED BY <3>3, <3>4
  <2>3. RouteInv'
    BY <1>1, <1>8, <2>1, <2>2, RouteFrame
  <2> QED BY <1>8, <1>9, <2>1, <2>3, RouteRest
<1> QED BY <1>7, <1>10, <1>11

-----------------------------------------------------------------------------
(* What a handler that writes one group leaves alone, when no member and no *)
(* route points to the group and no other user has its counter. *)
Alone(c, g) ==
  /\ \A r \in Prefixes : route[r].in => route[r].ctr # c
  /\ \A h \in GroupIds \ {g} : grp[h].in => grp[h].ctr # c
NotPointedTo(g) ==
  /\ \A m \in MemberIds : mem[m].in => mem[m].grp.id # g
  /\ grp[g].in => \A r \in Prefixes : route[r].in => route[r].to # <<"grp", Oid(g)>>
(* No route leads to a group that is not there or not in use. *)
LEMMA UnusedFact ==
  ASSUME RoutingInv, orderly, NEW g \in GroupIds, ~grp[g].in \/ ~InUse(g)
  PROVE  NotPointedTo(g)
PROOF
<1>1. ASSUME NEW m \in MemberIds, mem[m].in, mem[m].grp.id = g PROVE FALSE
  <2>1. FoundIn(grp, mem[m].grp)
    BY <1>1 DEF RoutingInv, MemberInv
  <2>2. grp[g].in /\ mem[m].grp = Oid(g)
    BY <1>1, <2>1 DEF FoundIn, OidIn, Oid
  <2> QED BY <1>1, <2>2 DEF InUse
<1> QED BY <1>1 DEF NotPointedTo, InUse

(* A change of one group that no route leads to keeps the routes. *)
LEMMA GroupRoutes ==
  ASSUME TypeOK, RouteInv, NEW g \in GroupIds, NEW v \in GroupRecords,
         grp' = [grp EXCEPT ![g] = v], RoutesKept, Calmer,
         orderly' => NotPointedTo(g) /\ (v.in => v.ctr = NoCtr \/ Alone(v.ctr, g)),
         orderly' /\ v.in /\ v.type = "ECMP" =>
           hwNh'[g] = "ecmp" /\ (v.ctr # NoCtr => ctr'[v.ctr].type = "ECMP"),
         \A h \in GroupIds \ {g} : hwNh'[h] = hwNh[h],
         NEW K, orderly' => \A c \in K : Alone(c, g),
         \A d \in Counters \ K : ctr'[d] = ctr[d]
  PROVE  RouteInv'
PROOF
<1>1. routeCnt' = Cardinality(Routes')
  BY DEF RouteInv, RoutesKept, Routes
<1> SUFFICES ASSUME orderly, orderly'
             PROVE  /\ UsersInv'
                    /\ \A q \in Prefixes : RouteOk(route'[q], hwRoute'[q], ctr', grp', hwNh')
  BY <1>1 DEF RouteInv, Calmer
<1>2. /\ UsersInv /\ \A q \in Prefixes : RouteOk(route[q], hwRoute[q], ctr, grp, hwNh)
      /\ route \in [Prefixes -> RouteRecords] /\ grp \in [GroupIds -> GroupRecords]
  BY TypeSplit DEF RouteInv, RouteTyped, GrpTyped
<1>3. grp'[g] = v /\ \A h \in GroupIds \ {g} : grp'[h] = grp[h]
  BY <1>2
<1>4. UNCHANGED <<route, hwRoute>>
  BY DEF RoutesKept
<1>5. \A q \in Prefixes : route[q].in /\ route[q].ctr # NoCtr =>
                          ctr'[route[q].ctr] = ctr[route[q].ctr]
  BY <1>2 DEF Alone, RouteRecords
<1>6. \A h \in GroupIds \ {g} : grp[h].in /\ grp[h].ctr # NoCtr =>
                                ctr'[grp[h].ctr] = ctr[grp[h].ctr]
  BY <1>2 DEF Alone, GroupRecords
<1>7. ASSUME NEW q \in Prefixes
      PROVE  RouteOk(route'[q], hwRoute'[q], ctr', grp', hwNh')
  <2>1. RouteOk(route[q], hwRoute[q], ctr, grp, hwNh) /\ route[q] \in RouteRecords
    BY <1>2
  <2>2. ASSUME NEW h \in GroupIds, route[q].in, grp[h].in, grp[h].type = "ECMP",
               route[q].to = <<"grp", OidIn(grp, h)>>
        PROVE  /\ grp'[h].in /\ grp'[h].type = "ECMP" /\ grp'[h].aps = grp[h].aps
               /\ hwNh[h] = "ecmp" => hwNh'[h] = "ecmp"
    <3>1. h # g
      BY <2>2 DEF NotPointedTo, Oid, OidIn
    <3> QED BY <1>3, <2>2, <3>1
  <2>3. route[q].in /\ route[q].ctr # NoCtr => ctr'[route[q].ctr] = ctr[route[q].ctr]
    BY <1>5
  <2>4. RouteOk(route[q], hwRoute[q], ctr', grp', hwNh')
    <3> DEFINE x == route[q]
    <3>1. \A h \in GroupIds : x.in /\ grp[h].in /\ grp[h].type = "ECMP"
                                   /\ x.to = <<"grp", OidIn(grp, h)>> =>
            /\ grp'[h].in /\ grp'[h].type = "ECMP" /\ grp'[h].aps = grp[h].aps
            /\ hwNh[h] = "ecmp" => hwNh'[h] = "ecmp"
      BY <2>2
    <3>2. /\ RouteOk(x, hwRoute[q], ctr, grp, hwNh) /\ x \in RouteRecords
          /\ x.in /\ x.ctr # NoCtr => ctr'[x.ctr] = ctr[x.ctr]
      BY <2>1, <2>3
    <3> HIDE DEF x
    <3>3. RouteOk(x, hwRoute[q], ctr', grp', hwNh')
      BY ONLY <3>1, <3>2, RouteOkFrame
    <3> QED BY <3>3 DEF x
  <2> QED BY <1>4, <2>4
<1>8. UsersInv'
  <2>1. ASSUME NEW f \in GroupIds, NEW h \in GroupIds, grp'[f].in, grp'[h].in,
               grp'[f].ctr = grp'[h].ctr, grp'[h].ctr # NoCtr
        PROVE  f = h
    <3>1. CASE f # g /\ h # g
      BY <1>2, <1>3, <2>1, <3>1 DEF UsersInv
    <3>2. CASE f = g /\ h # g
      BY <1>3, <2>1, <3>2 DEF Alone
    <3>3. CASE f # g /\ h = g
      BY <1>3, <2>1, <3>3 DEF Alone
    <3> QED BY <3>1, <3>2, <3>3
  <2>2. ASSUME NEW q \in Prefixes, NEW h \in GroupIds, route[q].in, grp'[h].in,
               route[q].ctr = grp'[h].ctr
        PROVE  route[q].ctr = NoCtr
    BY <1>2, <1>3, <2>2 DEF UsersInv, Alone
  <2>3. ASSUME NEW h \in GroupIds, grp'[h].in, grp'[h].type = "ECMP"
        PROVE  hwNh'[h] = "ecmp" /\ (grp'[h].ctr # NoCtr => ctr'[grp'[h].ctr].type = "ECMP")
    BY <1>2, <1>3, <1>6, <2>3 DEF UsersInv
  <2> QED BY <1>2, <1>4, <2>1, <2>2, <2>3 DEF UsersInv
<1> QED BY <1>7, <1>8

(* The members of the other groups do not notice, and a group nobody points *)
(* to has none. *)
LEMMA GroupMembers ==
  ASSUME TypeOK, MemberInv, NEW g \in GroupIds, NEW v \in GroupRecords,
         grp' = [grp EXCEPT ![g] = v], UNCHANGED mem, Calmer, orderly' => NotPointedTo(g),
         \A h \in GroupIds \ {g} : hwMem'[h] = hwMem[h],
         hwMem'[g] = hwMem[g] \/ hwMem'[g] = [n \in NextHops |-> 0]
  PROVE  MemberInv'
PROOF
<1> SUFFICES ASSUME orderly, orderly'
             PROVE  /\ \A h \in GroupIds : \A n \in NextHops :
                         hwMem'[h][n] = Cardinality(EcmpMembers(grp', mem', h, n))
                    /\ \A m \in MemberIds : mem'[m].in => FoundIn(grp', mem'[m].grp)
  BY DEF MemberInv, Calmer
<1>1. /\ \A h \in GroupIds : \A n \in NextHops :
           hwMem[h][n] = Cardinality(EcmpMembers(grp, mem, h, n))
      /\ \A m \in MemberIds : mem[m].in => FoundIn(grp, mem[m].grp)
      /\ \A m \in MemberIds : mem[m].in => mem[m].grp.id # g
      /\ mem' = mem
  BY DEF MemberInv, NotPointedTo
<1>2. grp'[g] = v /\ \A h \in GroupIds \ {g} : grp'[h] = grp[h]
  BY TypeSplit DEF GrpTyped
<1>3. \A m \in MemberIds : mem[m].in => mem[m].grp.id \in GroupIds
  BY TypeSplit DEF MemTyped, MemberRecords, NoMember, Oids
<1>4. ASSUME NEW m \in MemberIds, mem[m].in PROVE FoundIn(grp', mem[m].grp)
  BY <1>1, <1>2, <1>3, <1>4 DEF FoundIn, OidIn
<1>5. ASSUME NEW h \in GroupIds, NEW n \in NextHops
      PROVE  hwMem'[h][n] = Cardinality(EcmpMembers(grp', mem, h, n))
  <2>1. CASE h # g
    <3>1. EcmpMembers(grp', mem, h, n) = EcmpMembers(grp, mem, h, n)
      BY <1>2, <2>1 DEF EcmpMembers, OidIn
    <3> QED BY <1>1, <2>1, <3>1
  <2>2. CASE h = g
    <3>1. EcmpMembers(grp', mem, g, n) = {} /\ EcmpMembers(grp, mem, g, n) = {}
      BY <1>1 DEF EcmpMembers, OidIn
    <3>2. hwMem[g][n] = 0
      BY <1>1, <3>1, FS_EmptySet
    <3> QED BY <2>2, <3>1, <3>2, FS_EmptySet
  <2> QED BY <2>1, <2>2
<1> QED BY <1>1, <1>4, <1>5

(* The paths of the other groups keep their members and their hardware. *)
LEMMA GroupPaths ==
  ASSUME TypeOK, PathInv, NEW g \in GroupIds, NEW v \in GroupRecords,
         grp' = [grp EXCEPT ![g] = v], Calmer,
         \A m \in MemberIds : mem[m].in => mem'[m] = mem[m] \/ mem[m].grp.id = g,
         \A h \in GroupIds \ {g} : hwNh'[h] = hwNh[h],
         \A h \in GroupIds \ {g} : grp[h].in /\ grp[h].type = "PROTECTION" =>
           (grp[h].aps \in hwAps' <=> grp[h].aps \in hwAps),
         orderly' => PathsOk(grp', mem', hwNh', hwAps', g)
  PROVE  PathInv'
PROOF
<1> SUFFICES ASSUME orderly, orderly', NEW h \in GroupIds, h # g
             PROVE  PathsOk(grp', mem', hwNh', hwAps', h)
  BY DEF PathInv, Calmer
<1>1. PathsOk(grp, mem, hwNh, hwAps, h) /\ grp'[h] = grp[h] /\ OidIn(grp', h) = OidIn(grp, h)
  BY TypeSplit DEF PathInv, GrpTyped, OidIn
<1>2. ASSUME NEW n, NEW working \in BOOLEAN, PathOf(grp, mem, h, n, working)
      PROVE  PathOf(grp', mem', h, n, working)
  <2>1. CASE n = NoNh
    BY <2>1 DEF PathOf
  <2>2. CASE n # NoNh
    <3>1. PICK m \in MemberIds : mem[m] = Member(OidIn(grp, h), n, working)
      BY <1>2, <2>2 DEF PathOf
    <3>2. mem[m].in /\ mem[m].grp.id = h
      BY <3>1 DEF Member, OidIn
    <3>3. mem'[m] = mem[m]
      BY <3>2
    <3> QED BY <1>1, <3>1, <3>3 DEF PathOf
  <2> QED BY <2>1, <2>2
<1> QED BY <1>1, <1>2 DEF PathsOk

(* Ids are taken for a new group and given back with it. *)
LEMMA PoolsTaken ==
  ASSUME TypeOK, PoolInv, NEW g \in GroupIds, NEW v \in GroupRecords, ~locked, ~locked',
         g \notin nhPool, v.in, v.aps = 0 <=> v.type = "ECMP", v.aps \notin apsPool,
         grp' = [grp EXCEPT ![g] = v], nhPool' = nhPool \cup {g},
         apsPool' = apsPool \cup ({v.aps} \ {0}),
         UNCHANGED <<hwAps, memPool, mem>>
  PROVE  PoolInv' /\ ~grp[g].in
PROOF
<1>1. grp \in [GroupIds -> GroupRecords]
  BY TypeSplit DEF GrpTyped
<1>2. grp'[g] = v /\ \A h \in GroupIds \ {g} : grp'[h] = grp[h]
  BY <1>1
<1>3. ~grp[g].in
  BY DEF PoolInv, PoolsExact
<1>4. {h \in GroupIds : grp'[h].in} = {h \in GroupIds : grp[h].in} \cup {g}
  BY <1>2
<1>5. {grp'[h].aps : h \in {k \in GroupIds : grp'[k].in}}
        = {grp[h].aps : h \in {k \in GroupIds : grp[k].in}} \cup {v.aps}
  BY <1>2, <1>3
<1>6. \A h \in GroupIds : grp[h].in => grp[h].aps \in apsPool \cup {0}
  BY DEF PoolInv, PoolsExact
<1>7. \A f, h \in GroupIds : grp'[f].in /\ grp'[h].in /\ grp'[f].aps = grp'[h].aps =>
                             f = h \/ grp'[f].aps = 0
  BY <1>2, <1>6 DEF PoolInv, PoolsExact
<1>8. PoolsExact'
  BY <1>4, <1>5, <1>7 DEF PoolInv, PoolsExact
<1> QED BY <1>2, <1>3, <1>8 DEF PoolInv

(* A group removed gives its ids back. *)
LEMMA PoolsGiven ==
  ASSUME TypeOK, PoolInv, NEW g \in GroupIds, ~locked, ~locked', grp[g].in,
         grp' = [grp EXCEPT ![g] = NoGroup], nhPool' = nhPool \ {g},
         apsPool' = apsPool \ {grp[g].aps}, hwAps' = hwAps \ {grp[g].aps},
         UNCHANGED <<memPool, mem>>
  PROVE  PoolInv'
PROOF
<1>1. grp \in [GroupIds -> GroupRecords] /\ 0 \notin ApsIds /\ apsPool \subseteq ApsIds
  BY TypeSplit, RoutingAssumption DEF GrpTyped
<1>2. grp'[g].in = FALSE /\ \A h \in GroupIds \ {g} : grp'[h] = grp[h]
  BY <1>1 DEF NoGroup
<1>3. {h \in GroupIds : grp'[h].in} = {h \in GroupIds : grp[h].in} \ {g}
  BY <1>2
<1>4. \A h \in GroupIds \ {g} : grp[h].in => grp[h].aps # grp[g].aps \/ grp[g].aps = 0
  BY DEF PoolInv, PoolsExact
<1>5. {grp'[h].aps : h \in {k \in GroupIds : grp'[k].in}} \ {0} = apsPool \ {grp[g].aps}
  <2>1. {grp'[h].aps : h \in {k \in GroupIds : grp'[k].in}}
          = {grp[h].aps : h \in {k \in GroupIds : grp[k].in} \ {g}}
    BY <1>2, <1>3
  <2> QED BY <1>4, <2>1 DEF PoolInv, PoolsExact
<1>6. \A f, h \in GroupIds : grp'[f].in /\ grp'[h].in /\ grp'[f].aps = grp'[h].aps =>
                             f = h \/ grp'[f].aps = 0
  BY <1>2 DEF PoolInv, PoolsExact
<1>7. PoolsExact'
  BY <1>3, <1>5, <1>6 DEF PoolInv, PoolsExact
<1> QED BY <1>2, <1>7 DEF PoolInv

(* A counter that is spare has no user, so its new group is the first one. *)
LEMMA SpareAlone ==
  ASSUME RoutingInv, NEW c, Spare(c), NEW g
  PROVE  /\ c = NoCtr \/ (Alone(c, g) /\ ctr[c].type = "MAX")
         /\ c # NoCtr => c \notin UsedCounters
PROOF
<1>1. c = NoCtr \/ (Alone(c, g) /\ ctr[c].type = "MAX")
  BY DEF Spare, Alone, UsersOf, GroupUsersOf
<1>2. c # NoCtr => c \notin UsedCounters
  BY DEF Spare, UsersOf, GroupUsersOf, UsedCounters, Routes
<1> QED BY <1>1, <1>2

(* create_next_hop_group of an ECMP group: refused for its counter, added, *)
(* or refused by the SDK, which takes the statistics back. *)
LEMMA CreateEcmpKeeps ==
  ASSUME RoutingInv, NEW g \in GroupIds, NEW c \in Ctrs, NEW sid \in NewSid,
         CreateEcmp(g, c, sid)
  PROVE  RoutingInv'
PROOF
<1> DEFINE s == IF c = NoCtr THEN Cs ELSE CounterIdCreate(Cs, c, "ECMP", sid)
           t == CounterIdRemove(s, c)
           v == [NoGroup EXCEPT !.in = TRUE, !.ctr = c]
<1>1. /\ TypeOK /\ CtrTyped /\ GrpTyped /\ MemTyped /\ RouteTyped /\ FlagsTyped
      /\ StatsInv /\ PoolInv /\ RouteInv /\ MemberInv /\ PathInv
      /\ Cs \in CsSet /\ Cs.ok = TRUE /\ Cs.ctr = ctr /\ Cs.stats = stats /\ CsOwned(Cs)
      /\ orderly => CsTight(Cs) /\ UsersInv
  BY Parts
<1>2. c \in Counters \cup {NoCtr} /\ sid \in StatsIds \cup {0} /\ sid \notin stats
  BY <1>1, SidFact DEF Ctrs
<1>3. /\ s \in CsSet /\ CsOwned(s)
      /\ (c = NoCtr \/ ctr[c].type = "MAX") /\ CsTight(Cs) => CsTight(s)
      /\ \A d \in Counters \ ({c} \ {NoCtr}) : s.ctr[d] = ctr[d]
      /\ (c # NoCtr /\ s.ok) => s.ctr[c].type = "ECMP"
  <2>1. CASE c = NoCtr
    BY <1>1, <2>1
  <2>2. CASE c # NoCtr
    <3>1. IdCreated(Cs, s, c, "ECMP", sid)
      BY <1>1, <1>2, <2>2, IdCreateFact
    <3> HIDE DEF s
    <3> QED BY <1>1, <2>2, <3>1 DEF IdCreated, Turned
  <2> QED BY <2>1, <2>2
<1>4. s.ok => /\ t \in CsSet /\ CsOwned(t) /\ (CsTight(s) => CsTight(t))
              /\ \A d \in Counters \ ({c} \ {NoCtr}) : t.ctr[d] = s.ctr[d]
  <2> SUFFICES ASSUME s.ok PROVE /\ t \in CsSet /\ CsOwned(t) /\ (CsTight(s) => CsTight(t))
                                 /\ \A d \in Counters \ ({c} \ {NoCtr}) : t.ctr[d] = s.ctr[d]
    OBVIOUS
  <2>1. s.ok = TRUE
    BY <1>3 DEF CsSet
  <2> HIDE DEF s
  <2>2. IdRemoved(s, t, c)
    BY <1>2, <1>3, <2>1, IdRemoveFact
  <2> HIDE DEF t
  <2> QED BY <2>2 DEF IdRemoved, Turned
<1>5. v \in GroupRecords /\ v.in /\ v.type = "ECMP" /\ v.aps = 0 /\ v.ctr = c
  BY <1>2 DEF NoGroup, GroupRecords
<1> HIDE DEF s, t, v
<1>6. /\ ~locked /\ g \notin nhPool
      /\ UNCHANGED <<mem, memPool, hwMem, route, hwRoute, routeCnt, apsPool, hwAps>>
  BY DEF CreateEcmp, memVars, routeVars
<1>7. \/ /\ locked' = TRUE /\ orderly' = FALSE /\ nhPool' = nhPool \cup {g}
         /\ UNCHANGED <<ctr, stats, grp, hwNh>>
      \/ /\ s.ok /\ CtrBecome(s) /\ nhPool' = nhPool \cup {g}
         /\ grp' = [grp EXCEPT ![g] = v] /\ hwNh' = [hwNh EXCEPT ![g] = "ecmp"]
         /\ orderly' = (orderly /\ Spare(c)) /\ locked' = locked
      \/ /\ s.ok /\ CtrBecome(t)
         /\ orderly' = (orderly /\ Spare(c))
         /\ UNCHANGED <<nhPool, grp, hwNh, locked>>
  BY DEF CreateEcmp, ctrVars, s, t, v
<1>8. MemTyped' /\ RouteTyped' /\ RoutesKept /\ MembersKept
  BY <1>1, <1>6 DEF MemTyped, RouteTyped, RoutesKept, MembersKept
<1>9. CASE /\ locked' = TRUE /\ orderly' = FALSE /\ nhPool' = nhPool \cup {g}
           /\ UNCHANGED <<ctr, stats, grp, hwNh>>
  <2>1. Calmer /\ GroupsKept /\ CountersKept
    BY <1>9 DEF Calmer, GroupsKept, SameGroup, CountersKept
  <2>2. PoolInv'
    BY <1>1, <1>6, <1>9 DEF PoolInv, PoolsExact
  <2>3. StatsInv' /\ RouteInv' /\ MemberInv' /\ PathInv'
    BY <1>1, <1>6, <1>8, <1>9, <2>1, StatsFrame, RouteFrame, MemberFrame, PathFrame
  <2>4. TypeOK'
    <3>1. CtrTyped' /\ GrpTyped' /\ FlagsTyped'
      BY <1>1, <1>6, <1>9 DEF CtrTyped, GrpTyped, FlagsTyped
    <3> QED BY <1>8, <3>1, TypeAfter
  <2> QED BY <2>2, <2>3, <2>4 DEF RoutingInv
<1>10. CASE /\ s.ok /\ CtrBecome(s) /\ nhPool' = nhPool \cup {g}
            /\ grp' = [grp EXCEPT ![g] = v] /\ hwNh' = [hwNh EXCEPT ![g] = "ecmp"]
            /\ orderly' = (orderly /\ Spare(c)) /\ locked' = locked
  <2>1. Calmer /\ orderly' \in BOOLEAN
    BY <1>1, <1>10 DEF Calmer, FlagsTyped
  <2>2. orderly' => c = NoCtr \/ (Alone(c, g) /\ ctr[c].type = "MAX")
    BY <1>10, SpareAlone
  <2>3. CtrTyped' /\ StatsInv' /\ ctr' = s.ctr
    BY <1>1, <1>3, <1>10, <2>1, <2>2, CsAfter DEF Calmer
  <2>4. 0 \notin apsPool
    BY <1>1, RoutingAssumption DEF GrpTyped
  <2>5. PoolInv' /\ ~grp[g].in
    BY <1>1, <1>5, <1>6, <1>10, <2>4, PoolsTaken
  <2>6. orderly' => NotPointedTo(g)
    BY <1>10, <2>5, UnusedFact
  <2>7. hwNh'[g] = "ecmp" /\ \A h \in GroupIds \ {g} : hwNh'[h] = hwNh[h]
    BY <1>1, <1>10 DEF GrpTyped
  <2>8. RouteInv'
    <3> DEFINE K == {c} \ {NoCtr}
    <3>1. /\ orderly' => \A d \in K : Alone(d, g)
          /\ \A d \in Counters \ K : ctr'[d] = ctr[d]
          /\ c # NoCtr => ctr'[c].type = "ECMP"
      BY <1>3, <1>10, <2>2, <2>3
    <3> HIDE DEF K
    <3> QED BY <1>1, <1>5, <1>8, <1>10, <2>1, <2>2, <2>6, <2>7, <3>1, GroupRoutes
  <2>9. MemberInv'
    BY <1>1, <1>5, <1>6, <1>10, <2>1, <2>6, GroupMembers
  <2>10. PathInv'
    <3>1. PathsOk(grp', mem', hwNh', hwAps', g)
      BY <1>1, <1>5, <1>10 DEF PathsOk, GrpTyped
    <3> QED BY <1>1, <1>5, <1>6, <1>10, <2>1, <2>7, <3>1, GroupPaths
  <2>11. TypeOK'
    <3>1. GrpTyped' /\ FlagsTyped'
      BY <1>1, <1>5, <1>6, <1>10, <2>1 DEF GrpTyped, FlagsTyped
    <3> QED BY <1>8, <2>3, <3>1, TypeAfter
  <2> QED BY <2>3, <2>5, <2>8, <2>9, <2>10, <2>11 DEF RoutingInv
<1>11. CASE /\ s.ok /\ CtrBecome(t)
            /\ orderly' = (orderly /\ Spare(c))
            /\ UNCHANGED <<nhPool, grp, hwNh, locked>>
  <2>1. Calmer /\ orderly' \in BOOLEAN /\ GroupsKept
    BY <1>1, <1>11 DEF Calmer, FlagsTyped, GroupsKept, SameGroup
  <2>2. orderly' => c = NoCtr \/ (ctr[c].type = "MAX" /\ c \notin UsedCounters)
    BY <1>11, SpareAlone
  <2>3. CtrTyped' /\ StatsInv' /\ ctr' = t.ctr
    BY <1>1, <1>3, <1>4, <1>11, <2>1, <2>2, CsAfter DEF Calmer
  <2>4. ASSUME orderly' PROVE \A d \in UsedCounters \ {NoCtr} : ctr'[d] = ctr[d]
    <3>1. \A d \in UsedCounters \ {NoCtr} : d \in Counters \ ({c} \ {NoCtr})
      BY <1>1, <2>1, <2>2, <2>4, UsedFact DEF Calmer
    <3> QED BY <1>3, <1>4, <1>11, <2>3, <3>1
  <2>5. PoolInv' /\ RouteInv' /\ MemberInv' /\ PathInv'
    BY <1>1, <1>6, <1>8, <1>11, <2>1, <2>4, PoolFrame, RouteFrame, MemberFrame, PathFrame
  <2>6. TypeOK'
    <3>1. GrpTyped' /\ FlagsTyped'
      BY <1>1, <1>6, <1>11, <2>1 DEF GrpTyped, FlagsTyped
    <3> QED BY <1>8, <2>3, <3>1, TypeAfter
  <2> QED BY <2>3, <2>5, <2>6 DEF RoutingInv
<1> QED BY <1>7, <1>9, <1>10, <1>11

(* create_next_hop_group of a protection group: two ids and no hardware; no *)
(* other group has the APS id and no APS group of the SDK has it. *)
LEMMA CreateProtectionKeeps ==
  ASSUME RoutingInv, NEW g \in GroupIds, NEW a \in ApsIds, NEW c \in Ctrs,
         CreateProtection(g, a, c)
  PROVE  RoutingInv'
PROOF
<1> DEFINE v == [NoGroup EXCEPT !.in = TRUE, !.type = "PROTECTION", !.aps = a, !.ctr = c]
<1>1. /\ TypeOK /\ CtrTyped /\ GrpTyped /\ MemTyped /\ RouteTyped /\ FlagsTyped
      /\ StatsInv /\ PoolInv /\ RouteInv /\ MemberInv /\ PathInv
  BY Parts
<1>2. /\ v \in GroupRecords /\ v.in /\ v.type = "PROTECTION" /\ v.aps = a /\ v.ctr = c
      /\ v.w = NoNh /\ v.p = NoNh
  BY DEF NoGroup, GroupRecords, Ctrs
<1> HIDE DEF v
<1>3. /\ ~locked /\ ~locked' /\ locked' = locked /\ g \notin nhPool /\ a \notin apsPool
      /\ nhPool' = nhPool \cup {g} /\ apsPool' = apsPool \cup {a}
      /\ grp' = [grp EXCEPT ![g] = v] /\ orderly' = (orderly /\ Spare(c))
      /\ UNCHANGED <<mem, memPool, hwMem, route, hwRoute, routeCnt, hwNh, hwAps, ctr, stats>>
  BY DEF CreateProtection, memVars, routeVars, ctrVars, v
<1>4. /\ CtrTyped' /\ MemTyped' /\ RouteTyped' /\ RoutesKept /\ CountersKept
      /\ Calmer /\ orderly' \in BOOLEAN
  BY <1>1, <1>3 DEF CtrTyped, MemTyped, RouteTyped, RoutesKept, CountersKept, Calmer, FlagsTyped
<1>5. orderly' => c = NoCtr \/ Alone(c, g)
  BY <1>3, SpareAlone
<1>6. PoolInv' /\ ~grp[g].in
  <2>1. a # 0 /\ {v.aps} \ {0} = {a}
    BY <1>2, RoutingAssumption
  <2>2. v.aps = 0 <=> v.type = "ECMP"
    BY <1>2, <2>1
  <2> QED BY <1>1, <1>2, <1>3, <2>1, <2>2, PoolsTaken
<1>7. orderly' => NotPointedTo(g)
  BY <1>3, <1>6, UnusedFact
<1>8. RouteInv'
  <2> DEFINE K == {}
  <2>1. /\ orderly' => \A d \in K : Alone(d, g)
        /\ \A d \in Counters \ K : ctr'[d] = ctr[d]
    BY <1>3
  <2> HIDE DEF K
  <2> QED BY <1>1, <1>2, <1>3, <1>4, <1>5, <1>7, <2>1, GroupRoutes
<1>9. MemberInv'
  BY <1>1, <1>2, <1>3, <1>4, <1>7, GroupMembers
<1>10. PathInv'
  <2>1. grp'[g] = v /\ a \notin hwAps
    BY <1>1, <1>3 DEF GrpTyped, PoolInv, PoolsExact
  <2>2. PathsOk(grp', mem', hwNh', hwAps', g)
    <3>1. grp'[g].w = NoNh /\ grp'[g].p = NoNh /\ grp'[g].aps \notin hwAps'
      BY <1>2, <1>3, <2>1
    <3> QED BY <3>1 DEF PathsOk, PathOf
  <2> QED BY <1>1, <1>2, <1>3, <1>4, <2>2, GroupPaths
<1>11. TypeOK'
  <2>1. GrpTyped' /\ FlagsTyped'
    BY <1>1, <1>2, <1>3, <1>4 DEF GrpTyped, FlagsTyped
  <2> QED BY <1>4, <2>1, TypeAfter
<1> QED BY <1>1, <1>4, <1>6, <1>8, <1>9, <1>10, <1>11, StatsFrame DEF RoutingInv

(* remove_next_hop_group of an ECMP group: its counter counts for it, so it *)
(* can be removed and the object goes; the object that stays, stays only *)
(* when the counter had two users. *)
LEMMA RemoveEcmpKeeps ==
  ASSUME RoutingInv, NEW g \in GroupIds, RemoveEcmp(g)
  PROVE  RoutingInv'
PROOF
<1> DEFINE c == grp[g].ctr
           s == CounterIdRemove(Cs, c)
           none == [n \in NextHops |-> 0]
<1>1. /\ TypeOK /\ CtrTyped /\ GrpTyped /\ MemTyped /\ RouteTyped /\ FlagsTyped
      /\ StatsInv /\ PoolInv /\ RouteInv /\ MemberInv /\ PathInv
      /\ Cs \in CsSet /\ Cs.ok = TRUE /\ Cs.ctr = ctr /\ Cs.stats = stats /\ CsOwned(Cs)
      /\ orderly => CsTight(Cs) /\ UsersInv
  BY Parts
<1>2. c \in Counters \cup {NoCtr} /\ grp[g] \in GroupRecords
  BY <1>1 DEF GrpTyped, GroupRecords
<1>3. IdRemoved(Cs, s, c)
  BY <1>1, <1>2, IdRemoveFact
<1> HIDE DEF s
<1>4. /\ s \in CsSet /\ CsOwned(s) /\ (CsTight(Cs) => CsTight(s))
      /\ \A d \in Counters \ ({c} \ {NoCtr}) : s.ctr[d] = ctr[d]
      /\ s.ok \/ (c # NoCtr /\ ctr[c].type = "MAX")
  BY <1>1, <1>3 DEF IdRemoved, Turned
<1>5. /\ ~locked /\ ~locked' /\ locked' = locked
      /\ grp[g].in /\ grp[g].type = "ECMP" /\ hwNh' = [hwNh EXCEPT ![g] = "none"]
      /\ hwMem' = [hwMem EXCEPT ![g] = none] /\ CtrBecome(s)
      /\ orderly' = (orderly /\ ~InUse(g))
      /\ UNCHANGED <<mem, memPool, route, hwRoute, routeCnt, apsPool, hwAps>>
      /\ \/ s.ok /\ grp' = [grp EXCEPT ![g] = NoGroup] /\ nhPool' = nhPool \ {g}
         \/ ~s.ok /\ UNCHANGED <<grp, nhPool>>
  BY DEF RemoveEcmp, routeVars, s
<1>6. /\ Calmer /\ orderly' \in BOOLEAN /\ RouteTyped' /\ RoutesKept
      /\ hwMem'[g] = none /\ none \in [NextHops -> Nat]
      /\ \A h \in GroupIds \ {g} : hwMem'[h] = hwMem[h] /\ hwNh'[h] = hwNh[h]
  BY <1>1, <1>5 DEF Calmer, FlagsTyped, RouteTyped, RoutesKept, MemTyped, GrpTyped
<1>7. MemTyped' /\ hwNh' \in [GroupIds -> {"none", "ecmp", "ipuc", "mpls"}]
  BY <1>1, <1>5, <1>6 DEF MemTyped, GrpTyped
<1>8. CtrTyped' /\ StatsInv' /\ ctr' = s.ctr
  BY <1>1, <1>4, <1>5, <1>6, CsAfter DEF Calmer
<1>9. orderly' => NotPointedTo(g) /\ s.ok /\ \A d \in {c} \ {NoCtr} : Alone(d, g)
  <2> SUFFICES ASSUME orderly' PROVE NotPointedTo(g) /\ s.ok /\ (c = NoCtr \/ Alone(c, g))
    OBVIOUS
  <2>1. orderly /\ UsersInv /\ ~InUse(g)
    BY <1>1, <1>5
  <2>2. NotPointedTo(g)
    BY <2>1, UnusedFact
  <2>3. c = NoCtr \/ Alone(c, g)
    BY <1>5, <2>1 DEF UsersInv, Alone
  <2>4. c # NoCtr => ctr[c].type = "ECMP"
    BY <1>5, <2>1 DEF UsersInv
  <2> QED BY <1>4, <2>2, <2>3, <2>4
<1> HIDE DEF none
<1>10. CASE s.ok /\ grp' = [grp EXCEPT ![g] = NoGroup] /\ nhPool' = nhPool \ {g}
  <2>1. NoGroup \in GroupRecords /\ NoGroup.in = FALSE
    BY DEF NoGroup, GroupRecords
  <2>2. PoolInv'
    <3>1. apsPool \ {grp[g].aps} = apsPool /\ hwAps \ {grp[g].aps} = hwAps
      BY <1>1, <1>5, RoutingAssumption DEF PoolInv, GrpTyped
    <3> QED BY <1>1, <1>5, <1>10, <3>1, PoolsGiven
  <2>3. RouteInv'
    <3> DEFINE K == {c} \ {NoCtr}
    <3>1. /\ orderly' => \A d \in K : Alone(d, g)
          /\ \A d \in Counters \ K : ctr'[d] = ctr[d]
      BY <1>4, <1>8, <1>9
    <3> HIDE DEF K
    <3> QED BY <1>1, <1>6, <1>9, <1>10, <2>1, <3>1, GroupRoutes
  <2>4. MemberInv'
    BY <1>1, <1>5, <1>6, <1>9, <1>10, <2>1, GroupMembers DEF none
  <2>5. PathInv'
    <3>1. PathsOk(grp', mem', hwNh', hwAps', g)
      BY <1>1, <1>10, <2>1 DEF PathsOk, GrpTyped
    <3> QED BY <1>1, <1>5, <1>6, <1>10, <2>1, <3>1, GroupPaths
  <2>6. TypeOK'
    <3>1. GrpTyped' /\ FlagsTyped'
      BY <1>1, <1>5, <1>6, <1>7, <1>10, <2>1 DEF GrpTyped, FlagsTyped
    <3> QED BY <1>6, <1>7, <1>8, <3>1, TypeAfter
  <2> QED BY <1>8, <2>2, <2>3, <2>4, <2>5, <2>6 DEF RoutingInv
<1>11. CASE ~s.ok /\ UNCHANGED <<grp, nhPool>>
  <2>1. ~orderly' /\ GroupsKept
    BY <1>9, <1>11 DEF GroupsKept, SameGroup
  <2>2. RouteInv' /\ MemberInv' /\ PathInv'
    BY <1>1, <1>5, <2>1 DEF RouteInv, MemberInv, PathInv, Routes
  <2>3. PoolInv'
    BY <1>1, <1>5, <1>11, <2>1, PoolFrame
  <2>4. TypeOK'
    <3>1. GrpTyped' /\ FlagsTyped'
      BY <1>1, <1>5, <1>6, <1>7, <1>11 DEF GrpTyped, FlagsTyped
    <3> QED BY <1>6, <1>7, <1>8, <3>1, TypeAfter
  <2> QED BY <1>8, <2>2, <2>3, <2>4 DEF RoutingInv
<1> QED BY <1>5, <1>10, <1>11

(* remove_next_hop_group of a protection group gives back both its ids, and *)
(* its APS group is nobody else's. *)
LEMMA RemoveProtectionKeeps ==
  ASSUME RoutingInv, NEW g \in GroupIds, RemoveProtection(g)
  PROVE  RoutingInv'
PROOF
<1>1. /\ TypeOK /\ CtrTyped /\ GrpTyped /\ MemTyped /\ RouteTyped /\ FlagsTyped
      /\ StatsInv /\ PoolInv /\ RouteInv /\ MemberInv /\ PathInv
  BY Parts
<1>2. /\ ~locked /\ ~locked' /\ locked' = locked
      /\ grp[g].in /\ grp[g].type = "PROTECTION" /\ hwNh' = IpucRemoved(g)
      /\ hwAps' = hwAps \ {grp[g].aps} /\ apsPool' = apsPool \ {grp[g].aps}
      /\ nhPool' = nhPool \ {g} /\ grp' = [grp EXCEPT ![g] = NoGroup]
      /\ orderly' = (orderly /\ ~InUse(g))
      /\ UNCHANGED <<mem, memPool, hwMem, route, hwRoute, routeCnt, ctr, stats>>
  BY DEF RemoveProtection, memVars, routeVars, ctrVars
<1>3. NoGroup \in GroupRecords /\ NoGroup.in = FALSE
  BY DEF NoGroup, GroupRecords
<1>4. /\ hwNh' \in [GroupIds -> {"none", "ecmp", "ipuc", "mpls"}]
      /\ \A h \in GroupIds \ {g} : hwNh'[h] = hwNh[h]
  BY <1>1, <1>2 DEF IpucRemoved, GrpTyped
<1>5. /\ CtrTyped' /\ MemTyped' /\ RouteTyped' /\ RoutesKept /\ CountersKept
      /\ Calmer /\ orderly' \in BOOLEAN
  BY <1>1, <1>2 DEF CtrTyped, MemTyped, RouteTyped, RoutesKept, CountersKept, Calmer, FlagsTyped
<1>6. orderly' => NotPointedTo(g)
  BY <1>2, UnusedFact
<1>7. PoolInv'
  BY <1>1, <1>2, PoolsGiven
<1>8. RouteInv'
  <2> DEFINE K == {}
  <2>1. /\ orderly' => \A d \in K : Alone(d, g)
        /\ \A d \in Counters \ K : ctr'[d] = ctr[d]
    BY <1>2
  <2> HIDE DEF K
  <2> QED BY <1>1, <1>2, <1>3, <1>4, <1>5, <1>6, <2>1, GroupRoutes
<1>9. MemberInv'
  BY <1>1, <1>2, <1>3, <1>5, <1>6, GroupMembers
<1>10. PathInv'
  <2>1. PathsOk(grp', mem', hwNh', hwAps', g)
    BY <1>1, <1>2, <1>3 DEF PathsOk, GrpTyped
  <2>2. \A h \in GroupIds \ {g} : grp[h].in /\ grp[h].type = "PROTECTION" =>
          (grp[h].aps \in hwAps' <=> grp[h].aps \in hwAps)
    BY <1>1, <1>2 DEF PoolInv, PoolsExact
  <2> QED BY <1>1, <1>2, <1>3, <1>4, <1>5, <2>1, <2>2, GroupPaths
<1>11. TypeOK'
  <2>1. GrpTyped' /\ FlagsTyped'
    BY <1>1, <1>2, <1>3, <1>4, <1>5 DEF GrpTyped, FlagsTyped
  <2> QED BY <1>5, <2>1, TypeAfter
<1> QED BY <1>1, <1>5, <1>7, <1>8, <1>9, <1>10, <1>11, StatsFrame DEF RoutingInv

-----------------------------------------------------------------------------
(* The handlers of a member: the pool of member ids follows. *)
LEMMA MemberIdTaken ==
  ASSUME TypeOK, PoolInv, GroupsKept, NEW m \in MemberIds, NEW v, v.in = TRUE,
         mem' = [mem EXCEPT ![m] = v], memPool' = memPool \cup {m},
         UNCHANGED <<nhPool, apsPool, locked>>, hwAps' \subseteq apsPool
  PROVE  PoolInv'
PROOF
<1>1. {k \in MemberIds : mem'[k].in} = {k \in MemberIds : mem[k].in} \cup {m}
  BY TypeSplit DEF MemTyped
<1>2. \A g \in GroupIds : grp'[g].in = grp[g].in /\ grp'[g].aps = grp[g].aps
                          /\ grp'[g].type = grp[g].type
  BY DEF GroupsKept, SameGroup
<1>3. {g \in GroupIds : grp'[g].in} = {g \in GroupIds : grp[g].in}
  BY <1>2
<1>4. {grp'[g].aps : g \in {h \in GroupIds : grp'[h].in}}
        = {grp[g].aps : g \in {h \in GroupIds : grp[h].in}}
  BY <1>2, <1>3
<1> QED BY <1>1, <1>2, <1>3, <1>4 DEF PoolInv, PoolsExact

(* The id goes back with the member. *)
LEMMA MemberIdGiven ==
  ASSUME TypeOK, PoolInv, GroupsKept, NEW m \in MemberIds, NEW v, v.in = FALSE,
         mem' = [mem EXCEPT ![m] = v], memPool' = memPool \ {m},
         UNCHANGED <<nhPool, apsPool, locked>>, hwAps' \subseteq apsPool
  PROVE  PoolInv'
PROOF
<1>1. {k \in MemberIds : mem'[k].in} = {k \in MemberIds : mem[k].in} \ {m}
  BY TypeSplit DEF MemTyped
<1>2. \A g \in GroupIds : grp'[g].in = grp[g].in /\ grp'[g].aps = grp[g].aps
                          /\ grp'[g].type = grp[g].type
  BY DEF GroupsKept, SameGroup
<1>3. {g \in GroupIds : grp'[g].in} = {g \in GroupIds : grp[g].in}
  BY <1>2
<1>4. {grp'[g].aps : g \in {h \in GroupIds : grp'[h].in}}
        = {grp[g].aps : g \in {h \in GroupIds : grp[h].in}}
  BY <1>2, <1>3
<1> QED BY <1>1, <1>2, <1>3, <1>4 DEF PoolInv, PoolsExact

(* No handler of a member touches routes, counters or an ECMP group. *)
LEMMA MemberRest ==
  ASSUME TypeOK, StatsInv, RouteInv, GroupsKept, Calmer,
         UNCHANGED <<ctr, stats, route, hwRoute, routeCnt>>,
         \A g \in GroupIds : grp[g].in /\ grp[g].type = "ECMP" => hwNh'[g] = hwNh[g]
  PROVE  StatsInv' /\ RouteInv'
PROOF
<1>1. CountersKept /\ RoutesKept
  BY DEF CountersKept, RoutesKept
<1> QED BY <1>1, StatsFrame, RouteFrame

(* The member record a handler looks its group up with. *)
LEMMA MemberFound ==
  ASSUME TypeOK, NEW m \in MemberIds, mem[m].in, GroupFound(mem[m].grp)
  PROVE  /\ mem[m].grp.id \in GroupIds /\ mem[m].nh \in NextHops /\ mem[m].working \in BOOLEAN
         /\ grp[mem[m].grp.id].in /\ mem[m].grp = OidIn(grp, mem[m].grp.id)
         /\ grp[mem[m].grp.id].type = mem[m].grp.type
PROOF
<1>1. mem[m].grp \in Oids /\ mem[m].nh \in NextHops /\ mem[m].working \in BOOLEAN
  BY TypeSplit DEF MemTyped, MemberRecords, NoMember
<1>2. mem[m].grp.id \in GroupIds
  BY <1>1 DEF Oids
<1> QED BY <1>1, <1>2 DEF GroupFound, Oid, OidIn

(* create_next_hop_group_member of an ECMP group: one more member there and *)
(* once more in the SDK. *)
LEMMA CreateEcmpMemberKeeps ==
  ASSUME RoutingInv, NEW m \in MemberIds, NEW g \in GroupIds, NEW n \in NextHops,
         CreateEcmpMember(m, g, n)
  PROVE  RoutingInv'
PROOF
<1> DEFINE v == Member(Oid(g), n, FALSE)
<1>1. /\ TypeOK /\ CtrTyped /\ GrpTyped /\ MemTyped /\ RouteTyped /\ FlagsTyped
      /\ StatsInv /\ PoolInv /\ RouteInv /\ MemberInv /\ PathInv
  BY Parts
<1>2. /\ v \in MemberRecords /\ v.in = TRUE /\ v.grp = Oid(g) /\ v.nh = n
      /\ Oid(g) = OidIn(grp, g) /\ Oid(g).id = g
  BY <1>1, OidFact DEF Member, MemberRecords, Oid, OidIn
<1> HIDE DEF v
<1>3. /\ grp[g].in /\ grp[g].type = "ECMP" /\ m \notin memPool
      /\ hwMem' = [hwMem EXCEPT ![g][n] = @ + 1]
      /\ memPool' = memPool \cup {m} /\ mem' = [mem EXCEPT ![m] = v]
      /\ UNCHANGED <<ctr, stats, grp, nhPool, apsPool, hwNh, hwAps>>
      /\ UNCHANGED <<route, hwRoute, routeCnt, locked, orderly>>
  BY DEF CreateEcmpMember, ctrVars, grpVars, routeVars, v
<1>4. GroupsKept /\ Calmer /\ ~mem[m].in
  BY <1>1, <1>3 DEF GroupsKept, SameGroup, Calmer, PoolInv, PoolsExact
<1>5. /\ mem'[m] = v /\ \A k \in MemberIds \ {m} : mem'[k] = mem[k]
      /\ MemTyped' /\ hwMem'[g][n] = hwMem[g][n] + 1
      /\ \A h \in GroupIds : \A k \in NextHops : h # g \/ k # n => hwMem'[h][k] = hwMem[h][k]
  BY <1>1, <1>2, <1>3 DEF MemTyped
<1>6. MemberInv'
  <2> SUFFICES ASSUME orderly, orderly'
               PROVE  /\ \A h \in GroupIds : \A k \in NextHops :
                           hwMem'[h][k] = Cardinality(EcmpMembers(grp', mem', h, k))
                      /\ \A k \in MemberIds : mem'[k].in => FoundIn(grp', mem'[k].grp)
    BY <1>4 DEF MemberInv, Calmer
  <2>1. /\ \A h \in GroupIds : \A k \in NextHops :
             hwMem[h][k] = Cardinality(EcmpMembers(grp, mem, h, k))
        /\ \A k \in MemberIds : mem[k].in => FoundIn(grp, mem[k].grp)
    BY <1>1 DEF MemberInv
  <2>2. FoundIn(grp, v.grp)
    BY <1>2, <1>3 DEF FoundIn
  <2>3. ASSUME NEW h \in GroupIds, NEW k \in NextHops, h # g \/ k # n
        PROVE  EcmpMembers(grp', mem', h, k) = EcmpMembers(grp, mem, h, k)
    <3>1. v.grp # OidIn(grp, h) \/ v.nh # k
      BY <1>2, <2>3 DEF OidIn
    <3> QED BY <1>3, <1>4, <1>5, <3>1 DEF EcmpMembers
  <2>4. /\ EcmpMembers(grp', mem', g, n) = EcmpMembers(grp, mem, g, n) \cup {m}
        /\ m \notin EcmpMembers(grp, mem, g, n)
    BY <1>2, <1>3, <1>4, <1>5 DEF EcmpMembers
  <2>5. /\ IsFiniteSet(EcmpMembers(grp, mem, g, n))
        /\ Cardinality(EcmpMembers(grp, mem, g, n)) \in Nat
    BY FS_Subset, FS_CardinalityType, RoutingAssumption DEF EcmpMembers
  <2>6. hwMem'[g][n] = Cardinality(EcmpMembers(grp', mem', g, n))
    BY <1>5, <2>1, <2>4, <2>5, FS_AddElement
  <2>7. ASSUME NEW h \in GroupIds, NEW k \in NextHops
        PROVE  hwMem'[h][k] = Cardinality(EcmpMembers(grp', mem', h, k))
    <3>1. CASE h = g /\ k = n
      BY <2>6, <3>1
    <3>2. CASE h # g \/ k # n
      BY <1>5, <2>1, <2>3, <3>2
    <3> QED BY <3>1, <3>2
  <2>8. ASSUME NEW k \in MemberIds, mem'[k].in PROVE FoundIn(grp', mem'[k].grp)
    BY <1>3, <1>5, <2>1, <2>2, <2>8
  <2> QED BY <2>7, <2>8
<1>7. PoolInv'
  BY <1>1, <1>2, <1>3, <1>4, MemberIdTaken DEF PoolInv, PoolsExact
<1>8. PathInv'
  <2>1. grp' = [grp EXCEPT ![g] = grp[g]] /\ grp[g] \in GroupRecords
    BY <1>1, <1>3 DEF GrpTyped
  <2>2. PathsOk(grp', mem', hwNh', hwAps', g)
    BY <1>3 DEF PathsOk
  <2>3. \A k \in MemberIds : mem[k].in => mem'[k] = mem[k] \/ mem[k].grp.id = g
    BY <1>4, <1>5
  <2> QED BY <1>1, <1>3, <1>4, <2>1, <2>2, <2>3, GroupPaths
<1>9. TypeOK'
  <2>1. CtrTyped' /\ GrpTyped' /\ RouteTyped' /\ FlagsTyped'
    BY <1>1, <1>3 DEF CtrTyped, GrpTyped, RouteTyped, FlagsTyped
  <2> QED BY <1>5, <2>1, TypeAfter
<1> QED BY <1>1, <1>3, <1>4, <1>6, <1>7, <1>8, <1>9, MemberRest DEF RoutingInv

(* remove_next_hop_group_member of an ECMP group. *)
LEMMA RemoveEcmpMemberKeeps ==
  ASSUME RoutingInv, NEW m \in MemberIds, RemoveEcmpMember(m)
  PROVE  RoutingInv'
PROOF
<1> DEFINE g == mem[m].grp.id
           n == mem[m].nh
<1>1. /\ TypeOK /\ CtrTyped /\ GrpTyped /\ MemTyped /\ RouteTyped /\ FlagsTyped
      /\ StatsInv /\ PoolInv /\ RouteInv /\ MemberInv /\ PathInv
  BY Parts
<1>2. /\ mem[m].in /\ GroupFound(mem[m].grp) /\ mem[m].grp.type = "ECMP"
      /\ hwMem' = IF hwMem[g][n] = 0 THEN hwMem ELSE [hwMem EXCEPT ![g][n] = @ - 1]
      /\ mem' = [mem EXCEPT ![m] = NoMember] /\ memPool' = memPool \ {m}
      /\ UNCHANGED <<ctr, stats, grp, nhPool, apsPool, hwNh, hwAps>>
      /\ UNCHANGED <<route, hwRoute, routeCnt, locked, orderly>>
  BY DEF RemoveEcmpMember, ctrVars, grpVars, routeVars
<1>3. /\ g \in GroupIds /\ n \in NextHops /\ grp[g].in /\ mem[m].grp = OidIn(grp, g)
      /\ grp[g].type = "ECMP"
  BY <1>1, <1>2, MemberFound
<1>4. GroupsKept /\ Calmer /\ NoMember.in = FALSE /\ NoMember \in MemberRecords
  BY <1>2 DEF GroupsKept, SameGroup, Calmer, NoMember, MemberRecords
<1>5. /\ mem'[m] = NoMember /\ \A k \in MemberIds \ {m} : mem'[k] = mem[k]
      /\ mem' \in [MemberIds -> MemberRecords] /\ memPool' \subseteq MemberIds
  BY <1>1, <1>2, <1>4 DEF MemTyped
<1>6. /\ hwMem' \in [GroupIds -> [NextHops -> Nat]]
      /\ hwMem[g][n] # 0 => hwMem'[g][n] = hwMem[g][n] - 1
      /\ \A h \in GroupIds : \A k \in NextHops : h # g \/ k # n => hwMem'[h][k] = hwMem[h][k]
  <2>1. hwMem \in [GroupIds -> [NextHops -> Nat]]
    BY <1>1 DEF MemTyped
  <2> HIDE DEF g, n
  <2>2. hwMem[g] \in [NextHops -> Nat] /\ hwMem[g][n] \in Nat
    BY <1>3, <2>1
  <2>3. CASE hwMem[g][n] = 0
    BY <1>2, <2>1, <2>3
  <2>4. CASE hwMem[g][n] # 0
    <3>1. hwMem[g][n] - 1 \in Nat /\ hwMem' = [hwMem EXCEPT ![g][n] = hwMem[g][n] - 1]
      BY <1>2, <2>2, <2>4
    <3> QED BY <1>3, <2>1, <2>2, <2>4, <3>1
  <2> QED BY <2>3, <2>4
<1> HIDE DEF g, n
<1>7. MemberInv'
  <2> SUFFICES ASSUME orderly, orderly'
               PROVE  /\ \A h \in GroupIds : \A k \in NextHops :
                           hwMem'[h][k] = Cardinality(EcmpMembers(grp', mem', h, k))
                      /\ \A k \in MemberIds : mem'[k].in => FoundIn(grp', mem'[k].grp)
    BY <1>4 DEF MemberInv, Calmer
  <2>1. /\ \A h \in GroupIds : \A k \in NextHops :
             hwMem[h][k] = Cardinality(EcmpMembers(grp, mem, h, k))
        /\ \A k \in MemberIds : mem[k].in => FoundIn(grp, mem[k].grp)
    BY <1>1 DEF MemberInv
  <2>2. ASSUME NEW h \in GroupIds, NEW k \in NextHops, h # g \/ k # n
        PROVE  EcmpMembers(grp', mem', h, k) = EcmpMembers(grp, mem, h, k)
    <3>1. mem[m].grp # OidIn(grp, h) \/ mem[m].nh # k
      BY <1>3, <2>2 DEF OidIn, n
    <3> QED BY <1>2, <1>4, <1>5, <3>1 DEF EcmpMembers
  <2>3. /\ EcmpMembers(grp', mem', g, n) = EcmpMembers(grp, mem, g, n) \ {m}
        /\ m \in EcmpMembers(grp, mem, g, n)
    BY <1>2, <1>3, <1>4, <1>5 DEF EcmpMembers, n
  <2>4. /\ IsFiniteSet(EcmpMembers(grp, mem, g, n))
        /\ Cardinality(EcmpMembers(grp, mem, g, n)) \in Nat
    BY FS_Subset, FS_CardinalityType, RoutingAssumption DEF EcmpMembers
  <2>5. /\ Cardinality(EcmpMembers(grp, mem, g, n)) # 0
        /\ Cardinality(EcmpMembers(grp', mem', g, n)) = Cardinality(EcmpMembers(grp, mem, g, n)) - 1
    BY <2>3, <2>4, FS_EmptySet, FS_RemoveElement
  <2>6. hwMem'[g][n] = Cardinality(EcmpMembers(grp', mem', g, n))
    BY <1>3, <1>6, <2>1, <2>5
  <2>7. ASSUME NEW h \in GroupIds, NEW k \in NextHops
        PROVE  hwMem'[h][k] = Cardinality(EcmpMembers(grp', mem', h, k))
    <3>1. CASE h = g /\ k = n
      BY <2>6, <3>1
    <3>2. CASE h # g \/ k # n
      BY <1>6, <2>1, <2>2, <3>2
    <3> QED BY <3>1, <3>2
  <2>8. ASSUME NEW k \in MemberIds, mem'[k].in PROVE FoundIn(grp', mem'[k].grp)
    BY <1>2, <1>4, <1>5, <2>1, <2>8
  <2> QED BY <2>7, <2>8
<1>8. PoolInv'
  BY <1>1, <1>2, <1>4, MemberIdGiven DEF PoolInv, PoolsExact
<1>9. PathInv'
  <2>1. grp' = [grp EXCEPT ![g] = grp[g]] /\ grp[g] \in GroupRecords
    BY <1>1, <1>2, <1>3 DEF GrpTyped
  <2>2. PathsOk(grp', mem', hwNh', hwAps', g)
    BY <1>2, <1>3 DEF PathsOk
  <2>3. \A k \in MemberIds : mem[k].in => mem'[k] = mem[k] \/ mem[k].grp.id = g
    BY <1>5 DEF g
  <2> QED BY <1>1, <1>2, <1>3, <1>4, <2>1, <2>2, <2>3, GroupPaths
<1>10. TypeOK'
  <2>1. CtrTyped' /\ GrpTyped' /\ RouteTyped' /\ FlagsTyped' /\ MemTyped'
    BY <1>1, <1>2, <1>5, <1>6 DEF CtrTyped, GrpTyped, RouteTyped, FlagsTyped, MemTyped
  <2> QED BY <2>1, TypeAfter
<1> QED BY <1>1, <1>2, <1>4, <1>7, <1>8, <1>9, <1>10, MemberRest DEF RoutingInv

(* A path of a protection group is no member of an ECMP group. *)
LEMMA PathMember ==
  ASSUME TypeOK, MemberInv, Calmer, GroupsKept, NEW m \in MemberIds, NEW v \in MemberRecords,
         mem' = [mem EXCEPT ![m] = v], hwMem' = hwMem,
         mem[m].in => mem[m].grp.type = "PROTECTION",
         v.in => v.grp.type = "PROTECTION" /\ FoundIn(grp, v.grp)
  PROVE  MemberInv'
PROOF
<1> SUFFICES ASSUME orderly, orderly'
             PROVE  /\ \A h \in GroupIds : \A k \in NextHops :
                         hwMem'[h][k] = Cardinality(EcmpMembers(grp', mem', h, k))
                    /\ \A k \in MemberIds : mem'[k].in => FoundIn(grp', mem'[k].grp)
  BY DEF MemberInv, Calmer
<1>1. /\ \A h \in GroupIds : \A k \in NextHops :
           hwMem[h][k] = Cardinality(EcmpMembers(grp, mem, h, k))
      /\ \A k \in MemberIds : mem[k].in => FoundIn(grp, mem[k].grp)
  BY DEF MemberInv
<1>2. /\ mem'[m] = v /\ \A k \in MemberIds \ {m} : mem'[k] = mem[k]
      /\ mem' \in [MemberIds -> MemberRecords]
  BY TypeSplit DEF MemTyped
<1>3. \A h \in GroupIds : OidIn(grp', h) = OidIn(grp, h) /\ grp'[h].in = grp[h].in
                          /\ grp'[h].type = grp[h].type
  BY DEF GroupsKept, SameGroup, OidIn
<1>4. ASSUME NEW h \in GroupIds, NEW n \in NextHops
      PROVE  hwMem'[h][n] = Cardinality(EcmpMembers(grp', mem', h, n))
  <2>1. ASSUME grp[h].type = "ECMP" PROVE ~(mem[m].in /\ mem[m].grp = OidIn(grp, h))
                                         /\ ~(v.in /\ v.grp = OidIn(grp, h))
    BY <2>1 DEF OidIn
  <2>2. EcmpMembers(grp', mem', h, n) = EcmpMembers(grp, mem, h, n)
    BY <1>2, <1>3, <2>1 DEF EcmpMembers
  <2> QED BY <1>1, <2>2
<1>5. ASSUME NEW k \in MemberIds, mem'[k].in PROVE FoundIn(grp', mem'[k].grp)
  <2>1. FoundIn(grp, mem'[k].grp)
    BY <1>1, <1>2, <1>5
  <2>2. mem'[k].grp.id \in GroupIds
    BY <1>2, <1>5 DEF MemberRecords, NoMember, Oids
  <2> QED BY <1>3, <2>1, <2>2 DEF FoundIn
<1> QED BY <1>4, <1>5

(* create_next_hop_group_member of a protection group. With both paths the *)
(* hardware is set up; a refused database add is the end of orderliness. *)
LEMMA CreatePathKeeps ==
  ASSUME RoutingInv, NEW m \in MemberIds, NEW g \in GroupIds, NEW n \in NextHops,
         NEW working \in BOOLEAN, CreatePath(m, g, n, working)
  PROVE  RoutingInv'
PROOF
<1> DEFINE v == Member(Oid(g), n, working)
           w == IF working THEN n ELSE grp[g].w
           p == IF working THEN grp[g].p ELSE n
           both == w # NoNh /\ p # NoNh
           u == [grp[g] EXCEPT !.w = w, !.p = p]
<1>1. /\ TypeOK /\ CtrTyped /\ GrpTyped /\ MemTyped /\ RouteTyped /\ FlagsTyped
      /\ StatsInv /\ PoolInv /\ RouteInv /\ MemberInv /\ PathInv
  BY Parts
<1>2. /\ v \in MemberRecords /\ v.in = TRUE /\ v.grp = Oid(g) /\ v.nh = n
      /\ Oid(g) = OidIn(grp, g) /\ Oid(g).id = g /\ Oid(g).type = grp[g].type
  BY <1>1, OidFact DEF Member, MemberRecords, Oid, OidIn
<1>3. /\ w \in NextHops \cup {NoNh} /\ p \in NextHops \cup {NoNh} /\ grp[g] \in GroupRecords
      /\ n # NoNh
  BY <1>1, RoutingAssumption DEF GrpTyped, GroupRecords
<1>4. /\ u \in GroupRecords /\ u.in = grp[g].in /\ u.type = grp[g].type /\ u.aps = grp[g].aps
      /\ u.ctr = grp[g].ctr /\ u.w = w /\ u.p = p
  BY <1>3 DEF GroupRecords
<1>5. /\ grp[g].in /\ grp[g].type = "PROTECTION" /\ m \notin memPool
      /\ grp' = [grp EXCEPT ![g].w = w, ![g].p = p]
      /\ UNCHANGED <<ctr, stats, route, hwRoute, routeCnt, nhPool, apsPool, hwMem, locked>>
      /\ \/ /\ memPool' = memPool \cup {m} /\ mem' = [mem EXCEPT ![m] = v]
            /\ hwNh' = IF both THEN [hwNh EXCEPT ![g] = Kind(w)] ELSE hwNh
            /\ hwAps' = IF both THEN hwAps \cup {grp[g].aps} ELSE hwAps
            /\ orderly' = orderly
         \/ /\ hwNh' = IF both /\ Kind(w) = "mpls" THEN [hwNh EXCEPT ![g] = "mpls"] ELSE hwNh
            /\ orderly' = FALSE
            /\ UNCHANGED <<mem, memPool, hwAps>>
  BY DEF CreatePath, ctrVars, routeVars
<1>6. grp' = [grp EXCEPT ![g] = u]
  BY <1>1, <1>5 DEF GrpTyped
<1> HIDE DEF u, v
<1>7. grp'[g] = u /\ \A h \in GroupIds \ {g} : grp'[h] = grp[h]
  BY <1>1, <1>6 DEF GrpTyped
<1>8. GroupsKept /\ Calmer /\ ~mem[m].in /\ grp[g].aps \in apsPool
  <2>1. grp[g].aps # 0 /\ grp[g].aps \in apsPool
    BY <1>1, <1>5 DEF PoolInv, PoolsExact
  <2>2. ~mem[m].in
    BY <1>1, <1>5 DEF PoolInv, PoolsExact
  <2>3. GroupsKept
    <3>1. SameGroup(g)
      BY <1>4, <1>7 DEF SameGroup
    <3>2. \A h \in GroupIds \ {g} : SameGroup(h)
      BY <1>7 DEF SameGroup
    <3> QED BY <3>1, <3>2 DEF GroupsKept
  <2>4. Calmer
    <3> HIDE DEF w, p, both
    <3> QED BY <1>5 DEF Calmer
  <2> QED BY <2>1, <2>2, <2>3, <2>4
<1>9. Kind(w) \in {"mpls", "ipuc"}
  BY DEF Kind
<1>10. /\ hwNh' \in [GroupIds -> {"none", "ecmp", "ipuc", "mpls"}]
       /\ \A h \in GroupIds \ {g} : hwNh'[h] = hwNh[h]
       /\ hwAps' \subseteq apsPool /\ apsPool \subseteq ApsIds
  <2> HIDE DEF w, both
  <2> QED BY <1>1, <1>5, <1>8, <1>9 DEF GrpTyped, PoolInv, PoolsExact
<1>11. CtrTyped' /\ RouteTyped' /\ GrpTyped' /\ FlagsTyped'
  <2>1. CtrTyped' /\ RouteTyped' /\ FlagsTyped'
    BY <1>1, <1>5 DEF CtrTyped, RouteTyped, FlagsTyped
  <2>2. GrpTyped'
    <3>1. grp' \in [GroupIds -> GroupRecords]
      BY <1>1, <1>4, <1>6 DEF GrpTyped
    <3>2. nhPool' \subseteq GroupIds /\ apsPool' \subseteq ApsIds
      BY <1>1, <1>5 DEF GrpTyped
    <3> QED BY <1>10, <3>1, <3>2 DEF GrpTyped
  <2> QED BY <2>1, <2>2
<1>12. StatsInv' /\ RouteInv'
  BY <1>1, <1>5, <1>8, <1>10, MemberRest
<1>13. CASE /\ memPool' = memPool \cup {m} /\ mem' = [mem EXCEPT ![m] = v]
            /\ hwNh' = IF both THEN [hwNh EXCEPT ![g] = Kind(w)] ELSE hwNh
            /\ hwAps' = IF both THEN hwAps \cup {grp[g].aps} ELSE hwAps
            /\ orderly' = orderly
  <2>1. mem'[m] = v /\ \A k \in MemberIds \ {m} : mem'[k] = mem[k]
    BY <1>1, <1>13 DEF MemTyped
  <2>2. MemTyped'
    BY <1>1, <1>2, <1>5, <1>13 DEF MemTyped
  <2>3. PoolInv'
    BY <1>1, <1>2, <1>5, <1>8, <1>10, <1>13, MemberIdTaken
  <2>4. MemberInv'
    <3>1. FoundIn(grp, v.grp) /\ v.grp.type = "PROTECTION"
      BY <1>2, <1>5 DEF FoundIn
    <3> QED BY <1>1, <1>2, <1>5, <1>8, <1>13, <3>1, PathMember
  <2>5. PathInv'
    <3>1. ASSUME orderly' PROVE PathsOk(grp', mem', hwNh', hwAps', g)
      <4>1. PathsOk(grp, mem, hwNh, hwAps, g)
        BY <1>1, <1>8, <3>1 DEF PathInv, Calmer
      <4>2. OidIn(grp', g) = OidIn(grp, g)
        BY <1>4, <1>7 DEF OidIn
      <4>3. ASSUME NEW k, NEW b \in BOOLEAN, PathOf(grp, mem, g, k, b)
            PROVE  PathOf(grp', mem', g, k, b)
        <5>1. CASE k = NoNh
          BY <5>1 DEF PathOf
        <5>2. CASE k # NoNh
          <6>1. PICK l \in MemberIds : mem[l] = Member(OidIn(grp, g), k, b)
            BY <4>3, <5>2 DEF PathOf
          <6>2. l # m
            BY <1>8, <6>1 DEF Member
          <6> QED BY <2>1, <4>2, <6>1, <6>2 DEF PathOf
        <5> QED BY <5>1, <5>2
      <4>4. PathOf(grp', mem', g, n, working)
        BY <1>2, <2>1, <4>2 DEF PathOf, v
      <4>5. PathOf(grp', mem', g, w, TRUE) /\ PathOf(grp', mem', g, p, FALSE)
        BY <1>5, <4>1, <4>3, <4>4 DEF PathsOk
      <4>6. both => u.aps \in hwAps' /\ hwNh'[g] = Kind(u.w)
        BY <1>1, <1>4, <1>13 DEF GrpTyped
      <4>7. NoNh \notin {u.w, u.p} => both
        BY <1>4
      <4>8. ~(u.w = NoNh /\ u.p = NoNh)
        BY <1>3, <1>4
      <4> HIDE DEF w, p, both
      <4> QED BY <1>4, <1>7, <4>5, <4>6, <4>7, <4>8 DEF PathsOk
    <3>2. \A k \in MemberIds : mem[k].in => mem'[k] = mem[k] \/ mem[k].grp.id = g
      BY <1>8, <2>1
    <3>3. \A h \in GroupIds \ {g} : grp[h].in /\ grp[h].type = "PROTECTION" =>
            (grp[h].aps \in hwAps' <=> grp[h].aps \in hwAps)
      <4>1. \A h \in GroupIds \ {g} : grp[h].in /\ grp[h].type = "PROTECTION" =>
              grp[h].aps # grp[g].aps
        BY <1>1, <1>5 DEF PoolInv, PoolsExact
      <4> QED BY <1>13, <4>1
    <3> QED BY <1>1, <1>4, <1>6, <1>8, <1>10, <3>1, <3>2, <3>3, GroupPaths
  <2> QED BY <1>11, <1>12, <2>2, <2>3, <2>4, <2>5, TypeAfter DEF RoutingInv
<1>14. CASE orderly' = FALSE /\ UNCHANGED <<mem, memPool, hwAps>>
  <2>1. PoolInv' /\ MemberInv' /\ PathInv'
    BY <1>1, <1>5, <1>8, <1>14, PoolFrame DEF MemberInv, PathInv
  <2>2. MemTyped'
    BY <1>1, <1>5, <1>14 DEF MemTyped
  <2> QED BY <1>11, <1>12, <2>1, <2>2, TypeAfter DEF RoutingInv
<1> QED BY <1>5, <1>13, <1>14

(* remove_next_hop_group_member of a protection group: the APS group goes *)
(* with the last path. *)
LEMMA RemovePathKeeps ==
  ASSUME RoutingInv, NEW m \in MemberIds, RemovePath(m)
  PROVE  RoutingInv'
PROOF
<1> DEFINE g == mem[m].grp.id
           working == mem[m].working
           u == IF working THEN [grp[g] EXCEPT !.w = NoNh] ELSE [grp[g] EXCEPT !.p = NoNh]
           left == IF working THEN grp[g].p ELSE grp[g].w
           old == IF working THEN grp[g].w ELSE grp[g].p
<1>1. /\ TypeOK /\ CtrTyped /\ GrpTyped /\ MemTyped /\ RouteTyped /\ FlagsTyped
      /\ StatsInv /\ PoolInv /\ RouteInv /\ MemberInv /\ PathInv
  BY Parts
<1>2. /\ mem[m].in /\ GroupFound(mem[m].grp) /\ mem[m].grp.type = "PROTECTION"
      /\ grp' = IF working THEN [grp EXCEPT ![g].w = NoNh] ELSE [grp EXCEPT ![g].p = NoNh]
      /\ hwNh' = IF left = NoNh /\ Kind(old) = "ipuc" THEN IpucRemoved(g) ELSE hwNh
      /\ hwAps' = IF left = NoNh THEN hwAps \ {grp[g].aps} ELSE hwAps
      /\ mem' = [mem EXCEPT ![m] = NoMember] /\ memPool' = memPool \ {m}
      /\ UNCHANGED <<ctr, stats, route, hwRoute, routeCnt>>
      /\ UNCHANGED <<nhPool, apsPool, hwMem, locked, orderly>>
  BY DEF RemovePath, ctrVars, routeVars
<1>3. /\ g \in GroupIds /\ grp[g].in /\ mem[m].grp = OidIn(grp, g) /\ working \in BOOLEAN
      /\ grp[g].type = "PROTECTION" /\ grp[g] \in GroupRecords
  BY <1>1, <1>2, MemberFound DEF GrpTyped
<1>4. /\ u \in GroupRecords /\ u.in = grp[g].in /\ u.type = grp[g].type /\ u.aps = grp[g].aps
      /\ u.ctr = grp[g].ctr
      /\ u.w = (IF working THEN NoNh ELSE grp[g].w) /\ u.p = (IF working THEN grp[g].p ELSE NoNh)
  BY <1>3 DEF GroupRecords
<1>5. grp' = [grp EXCEPT ![g] = u]
  BY <1>1, <1>2, <1>3 DEF GrpTyped
<1> HIDE DEF u, old
<1>6. grp'[g] = u /\ \A h \in GroupIds \ {g} : grp'[h] = grp[h]
  BY <1>1, <1>3, <1>5 DEF GrpTyped
<1>7. NoMember.in = FALSE /\ NoMember \in MemberRecords
  BY DEF NoMember, MemberRecords
<1>8. GroupsKept
  <2>1. SameGroup(g)
    BY <1>4, <1>6 DEF SameGroup
  <2>2. \A h \in GroupIds \ {g} : SameGroup(h)
    BY <1>6 DEF SameGroup
  <2> QED BY <2>1, <2>2 DEF GroupsKept
<1>9. Calmer /\ hwAps' \subseteq apsPool
  <2>1. Calmer
    BY <1>2 DEF Calmer
  <2>2. hwAps' \subseteq hwAps /\ hwAps \subseteq apsPool
    BY <1>1, <1>2 DEF PoolInv, PoolsExact
  <2> QED BY <2>1, <2>2
<1>10. /\ hwNh' \in [GroupIds -> {"none", "ecmp", "ipuc", "mpls"}]
       /\ \A h \in GroupIds \ {g} : hwNh'[h] = hwNh[h]
  BY <1>1, <1>2, <1>3 DEF IpucRemoved, GrpTyped
<1>11. /\ mem'[m] = NoMember /\ \A k \in MemberIds \ {m} : mem'[k] = mem[k]
  BY <1>1, <1>2 DEF MemTyped
<1>12. TypeOK'
  <2>1. CtrTyped' /\ RouteTyped' /\ FlagsTyped'
    BY <1>1, <1>2 DEF CtrTyped, RouteTyped, FlagsTyped
  <2>2. GrpTyped'
    <3>1. grp' \in [GroupIds -> GroupRecords]
      BY <1>1, <1>4, <1>5 DEF GrpTyped
    <3>2. nhPool' \subseteq GroupIds /\ apsPool' \subseteq ApsIds /\ hwAps' \subseteq ApsIds
      BY <1>1, <1>2, <1>9 DEF GrpTyped
    <3> QED BY <1>10, <3>1, <3>2 DEF GrpTyped
  <2>3. MemTyped'
    BY <1>1, <1>2, <1>7 DEF MemTyped
  <2> QED BY <2>1, <2>2, <2>3, TypeAfter
<1>13. StatsInv' /\ RouteInv'
  BY <1>1, <1>2, <1>3, <1>8, <1>9, <1>10, MemberRest
<1>14. PoolInv'
  BY <1>1, <1>2, <1>7, <1>8, <1>9, MemberIdGiven
<1>15. MemberInv'
  BY <1>1, <1>2, <1>7, <1>8, <1>9, PathMember
<1>16. PathInv'
  <2>1. ASSUME orderly' PROVE PathsOk(grp', mem', hwNh', hwAps', g)
    <3>1. PathsOk(grp, mem, hwNh, hwAps, g)
      BY <1>1, <1>3, <1>9, <2>1 DEF PathInv, Calmer
    <3>2. OidIn(grp', g) = OidIn(grp, g)
      BY <1>4, <1>6 DEF OidIn
    <3>3. ASSUME NEW k, NEW b \in BOOLEAN, b # working, PathOf(grp, mem, g, k, b)
          PROVE  PathOf(grp', mem', g, k, b)
      <4>1. CASE k = NoNh
        BY <4>1 DEF PathOf
      <4>2. CASE k # NoNh
        <5>1. PICK l \in MemberIds : mem[l] = Member(OidIn(grp, g), k, b)
          BY <3>3, <4>2 DEF PathOf
        <5>2. l # m
          BY <3>3, <5>1 DEF Member
        <5> QED BY <1>11, <3>2, <5>1, <5>2 DEF PathOf
      <4> QED BY <4>1, <4>2
    <3>4. PathOf(grp', mem', g, NoNh, TRUE) /\ PathOf(grp', mem', g, NoNh, FALSE)
      BY DEF PathOf
    <3>5. PathOf(grp, mem, g, grp[g].w, TRUE) /\ PathOf(grp, mem, g, grp[g].p, FALSE)
      BY <1>3, <3>1 DEF PathsOk
    <3>6. CASE working = TRUE
      <4>1. u.w = NoNh /\ u.p = grp[g].p /\ left = grp[g].p
        BY <1>4, <3>6
      <4>2. u.p = NoNh => u.aps \notin hwAps'
        BY <1>2, <1>4, <4>1
      <4>3. PathOf(grp', mem', g, u.p, FALSE)
        BY <3>3, <3>5, <3>6, <4>1
      <4> QED BY <1>6, <3>4, <4>1, <4>2, <4>3 DEF PathsOk
    <3>7. CASE working = FALSE
      <4>1. u.p = NoNh /\ u.w = grp[g].w /\ left = grp[g].w
        BY <1>4, <3>7
      <4>2. u.w = NoNh => u.aps \notin hwAps'
        BY <1>2, <1>4, <4>1
      <4>3. PathOf(grp', mem', g, u.w, TRUE)
        BY <3>3, <3>5, <3>7, <4>1
      <4> QED BY <1>6, <3>4, <4>1, <4>2, <4>3 DEF PathsOk
    <3> QED BY <1>3, <3>6, <3>7
  <2>2. \A k \in MemberIds : mem[k].in => mem'[k] = mem[k] \/ mem[k].grp.id = g
    BY <1>11
  <2>3. \A h \in GroupIds \ {g} : grp[h].in /\ grp[h].type = "PROTECTION" =>
          (grp[h].aps \in hwAps' <=> grp[h].aps \in hwAps)
    <3>1. \A h \in GroupIds \ {g} : grp[h].in /\ grp[h].type = "PROTECTION" =>
            grp[h].aps # grp[g].aps
      BY <1>1, <1>3 DEF PoolInv, PoolsExact
    <3> QED BY <1>2, <3>1
  <2> QED BY <1>1, <1>3, <1>4, <1>5, <1>9, <1>10, <2>1, <2>2, <2>3, GroupPaths
<1> QED BY <1>12, <1>13, <1>14, <1>15, <1>16 DEF RoutingInv

-----------------------------------------------------------------------------
(* The invariant holds at first, and every call keeps it. *)
LEMMA InitRouting == Init => RoutingInv
PROOF
<1> SUFFICES ASSUME Init PROVE RoutingInv
  OBVIOUS
<1>1. /\ NoCounter \in CtrRecords /\ NoCounter.type = "MAX" /\ NoCounter.sid = 0
      /\ NoGroup \in GroupRecords /\ NoGroup.in = FALSE
      /\ NoRoute \in RouteRecords /\ NoRoute.in = FALSE
      /\ NoHw \in HwRecords /\ NoHw.in = FALSE
      /\ NoMember \in MemberRecords /\ NoMember.in = FALSE
  BY DEF NoCounter, CtrRecords, CounterTypes, NoGroup, GroupRecords, NoRoute, RouteRecords,
         AllActs, Targets, NoHw, HwRecords, NoMember, MemberRecords
<1>2. CtrTyped /\ GrpTyped /\ MemTyped /\ RouteTyped /\ FlagsTyped
  BY <1>1 DEF Init, CtrTyped, GrpTyped, MemTyped, RouteTyped, FlagsTyped
<1>3. TypeOK
  BY <1>2, TypeSplit
<1>4. StatsInv
  <2>1. Counting(Cs) = {} /\ \A c \in Counters : ctr[c].type = "MAX" /\ ctr[c].sid = 0
    BY <1>1 DEF Init, Counting, Cs
  <2> QED BY <2>1 DEF StatsInv, CsOwned, CsTight, Cs, Init
<1>5. PoolInv
  <2>1. /\ {g \in GroupIds : grp[g].in} = {} /\ {m \in MemberIds : mem[m].in} = {}
        /\ \A g \in GroupIds : ~grp[g].in
    BY <1>1 DEF Init
  <2> QED BY <2>1 DEF PoolInv, PoolsExact, Init
<1>6. RouteInv
  <2>1. Routes = {} /\ \A r \in Prefixes : ~route[r].in /\ ~hwRoute[r].in
    BY <1>1 DEF Init, Routes
  <2>2. \A g \in GroupIds : ~grp[g].in
    BY <1>1 DEF Init
  <2> QED BY <2>1, <2>2, FS_EmptySet DEF RouteInv, UsersInv, RouteOk, Init
<1>7. MemberInv
  <2>1. \A m \in MemberIds : ~mem[m].in
    BY <1>1 DEF Init
  <2>2. \A g \in GroupIds : \A n \in NextHops : EcmpMembers(grp, mem, g, n) = {} /\ hwMem[g][n] = 0
    BY <2>1 DEF EcmpMembers, Init
  <2> QED BY <2>1, <2>2, FS_EmptySet DEF MemberInv
<1>8. PathInv
  BY <1>1 DEF PathInv, PathsOk, Init
<1> QED BY <1>3, <1>4, <1>5, <1>6, <1>7, <1>8 DEF RoutingInv

(* A route record with one attribute changed to a value a caller can give. *)
LEMMA ChangedFact ==
  ASSUME GrpTyped, NEW x \in RouteRecords, NEW y \in Changed(x)
  PROVE  y \in RouteRecords /\ y.in = x.in /\ (y.to = x.to \/ y.to \in Known)
PROOF
<1>1. CASE \E a \in Acts : y = [x EXCEPT !.act = a]
  BY <1>1, RoutingAssumption DEF RouteRecords
<1>2. CASE \E t \in Known : y = [x EXCEPT !.to = t]
  <2>1. PICK t \in Known : y = [x EXCEPT !.to = t]
    BY <1>2
  <2>2. t \in Targets
    BY KnownFact
  <2> QED BY <2>1, <2>2 DEF RouteRecords
<1>3. CASE \E c \in Ctrs : y = [x EXCEPT !.ctr = c]
  BY <1>3 DEF RouteRecords, Ctrs
<1> QED BY <1>1, <1>2, <1>3 DEF Changed

(* Every step keeps the invariant. *)
LEMMA NextRouting == RoutingInv /\ [Next]_vars => RoutingInv'
PROOF
<1> SUFFICES ASSUME RoutingInv, [Next]_vars PROVE RoutingInv'
  OBVIOUS
<1>1. ASSUME NEW c \in Counters, CreateCounter(c) \/ RemoveCounter(c) PROVE RoutingInv'
  BY <1>1, CounterKeeps
<1>2. CASE RouteNext
  <2>1. PICK r \in Prefixes, sid \in NewSid :
          \/ \E a \in Acts, t \in Known, c \in Ctrs :
               CreateRoute(r, [in |-> TRUE, act |-> a, to |-> t, ctr |-> c], sid)
          \/ RemoveRoute(r, sid)
          \/ \E y \in Changed(route[r]) : SetRoute(r, y, sid)
    BY <1>2 DEF RouteNext
  <2>2. ASSUME NEW a \in Acts, NEW t \in Known, NEW c \in Ctrs,
               CreateRoute(r, [in |-> TRUE, act |-> a, to |-> t, ctr |-> c], sid)
        PROVE  RoutingInv'
    <3> DEFINE x == [in |-> TRUE, act |-> a, to |-> t, ctr |-> c]
    <3>1. t \in Targets /\ a \in AllActs /\ c \in Counters \cup {NoCtr}
      BY KnownFact, TypeSplit, RoutingAssumption DEF RoutingInv, Ctrs
    <3>2. x \in RouteRecords /\ x.in = TRUE /\ x.to \in Known
      BY <3>1 DEF RouteRecords
    <3>3. CreateRoute(r, x, sid)
      BY <2>2
    <3> HIDE DEF x
    <3> QED BY <3>2, <3>3, CreateRouteKeeps
  <2>3. ASSUME RemoveRoute(r, sid) PROVE RoutingInv'
    BY <2>3, RemoveRouteKeeps
  <2>4. ASSUME NEW y \in Changed(route[r]), SetRoute(r, y, sid) PROVE RoutingInv'
    <3>1. route[r] \in RouteRecords /\ GrpTyped
      BY TypeSplit DEF RoutingInv, RouteTyped
    <3>2. y \in RouteRecords /\ y.in = route[r].in /\ (y.to = route[r].to \/ y.to \in Known)
      BY <3>1, ChangedFact
    <3> QED BY <2>4, <3>2, SetRouteKeeps
  <2> QED BY <2>1, <2>2, <2>3, <2>4
<1>3. CASE GroupNext
  BY <1>3, CreateEcmpKeeps, CreateProtectionKeeps, RemoveEcmpKeeps, RemoveProtectionKeeps
     DEF GroupNext
<1>4. CASE MemberNext
  BY <1>4, CreateEcmpMemberKeeps, CreatePathKeeps, RemoveEcmpMemberKeeps, RemovePathKeeps
     DEF MemberNext
<1>5. CASE UNCHANGED vars
  <2>1. /\ UNCHANGED <<ctr, stats, grp, nhPool, apsPool, hwNh, hwAps, mem, memPool, hwMem>>
        /\ UNCHANGED <<route, hwRoute, routeCnt, locked, orderly>>
    BY <1>5 DEF vars, ctrVars, grpVars, memVars, routeVars
  <2>2. Calmer /\ GroupsKept /\ MembersKept /\ RoutesKept /\ CountersKept
    BY <2>1 DEF Calmer, GroupsKept, SameGroup, MembersKept, RoutesKept, CountersKept
  <2>3. /\ TypeOK /\ CtrTyped /\ GrpTyped /\ MemTyped /\ RouteTyped /\ FlagsTyped
        /\ StatsInv /\ PoolInv /\ RouteInv /\ MemberInv /\ PathInv
    BY Parts
  <2>4. StatsInv' /\ PoolInv' /\ RouteInv' /\ MemberInv' /\ PathInv'
    BY <2>1, <2>2, <2>3, StatsFrame, PoolFrame, RouteFrame, MemberFrame, PathFrame
  <2>5. CtrTyped' /\ GrpTyped' /\ MemTyped' /\ RouteTyped' /\ FlagsTyped'
    BY <2>1, <2>3 DEF CtrTyped, GrpTyped, MemTyped, RouteTyped, FlagsTyped
  <2> QED BY <2>4, <2>5, TypeAfter DEF RoutingInv
<1> QED BY <1>1, <1>2, <1>3, <1>4, <1>5 DEF Next

(* The invariant holds of every run of the module. *)
LEMMA RoutingInvariant == Spec => []RoutingInv
PROOF
<1>1. Init => RoutingInv
  BY InitRouting
<1>2. RoutingInv /\ [Next]_vars => RoutingInv'
  BY NextRouting
<1> QED BY <1>1, <1>2, PTL DEF Spec

-----------------------------------------------------------------------------
(* What it says of the properties the runs check. *)

(* Every handler of the three modules writes records of the declared shape, *)
(* and the counters it decrements never pass zero. *)
THEOREM RoutingTypeCorrect == Spec => []TypeOK
PROOF
<1>1. RoutingInv => TypeOK
  BY DEF RoutingInv
<1> QED BY <1>1, RoutingInvariant, PTL

(* Whoever shares a counter and whatever the SDK refuses, a counter in use *)
(* owns its statistics id; while callers do not share, no id leaks. *)
THEOREM StatsAreOwned == Spec => []StatsOwned
PROOF
<1>1. RoutingInv => StatsOwned
  BY DEF RoutingInv, StatsInv, CsOwned, CsTight, Counting, Cs, StatsOwned
<1> QED BY <1>1, RoutingInvariant, PTL

(* The id pools of groups, APS groups and members are those of the objects, *)
(* whatever fails, up to the return of create_nh_grp that keeps the lock. *)
THEOREM RoutingPoolsExact == Spec => []PoolsExact
PROOF
<1>1. RoutingInv => PoolsExact
  BY DEF RoutingInv, PoolInv
<1> QED BY <1>1, RoutingInvariant, PTL

(* Create, set and remove of routes, groups and counters keep the SDK's *)
(* routes, their statistics and route_cnt those of the database. *)
THEOREM RoutesAreExact == Spec => []RouteHwExact
PROOF
<1>1. ASSUME RoutingInv, orderly, NEW r \in Prefixes, route[r].in
      PROVE  LET x == route[r]
             IN  /\ hwRoute[r] = MapEntry(Cs, x)
                 /\ x.ctr # NoCtr => ctr[x.ctr].type = "ROUTE" /\ hwRoute[r].sid \in stats
                 /\ x.to[1] = "grp" /\ x.to[2].type = "ECMP" =>
                      GroupFound(x.to[2]) /\ hwNh[x.to[2].id] = "ecmp"
  <2> DEFINE x == route[r]
  <2>1. /\ RouteOk(x, hwRoute[r], ctr, grp, hwNh) /\ x.in /\ CsOwned(Cs) /\ Cs.ctr = ctr
        /\ Cs.stats = stats /\ x \in RouteRecords
    BY <1>1, Parts DEF RouteInv, RouteTyped
  <2>2. /\ hwRoute[r] = EntryFor(ctr, x) /\ (x.ctr # NoCtr => ctr[x.ctr].type = "ROUTE")
        /\ x.to[1] = "grp" /\ x.to[2].type = "ECMP" =>
             FoundIn(grp, x.to[2]) /\ hwNh[x.to[2].id] = "ecmp"
    BY <2>1 DEF RouteOk
  <2>3. MapEntry(Cs, x) = EntryFor(ctr, x)
    BY <2>1 DEF MapEntry, EntryFor
  <2>4. ASSUME x.ctr # NoCtr PROVE hwRoute[r].sid \in stats
    <3>1. x.ctr \in Counters /\ ctr[x.ctr].sid \in stats
      BY <2>1, <2>2, <2>4 DEF CsOwned, RouteRecords
    <3>2. EntryFor(ctr, x).sid = ctr[x.ctr].sid
      BY <2>4 DEF EntryFor, MapEntry
    <3> QED BY <2>2, <3>1, <3>2
  <2>5. \A o : FoundIn(grp, o) => GroupFound(o)
    BY DEF FoundIn, GroupFound, OidIn, Oid
  <2> QED BY <2>2, <2>3, <2>4, <2>5
<1>2. ASSUME RoutingInv, orderly, NEW r \in Prefixes, ~route[r].in PROVE ~hwRoute[r].in
  BY <1>2 DEF RoutingInv, RouteInv, RouteOk
<1>3. RoutingInv => routeCnt = Cardinality({r \in Prefixes : route[r].in})
  BY DEF RoutingInv, RouteInv, Routes
<1>4. RoutingInv => RouteHwExact
  BY <1>1, <1>2, <1>3 DEF RouteHwExact
<1> QED BY <1>4, RoutingInvariant, PTL

(* The SDK balances over exactly the members of an ECMP group, also when *)
(* members of one next hop come and go. *)
THEOREM EcmpIsExact == Spec => []EcmpExact
PROOF
<1>1. ASSUME RoutingInv, orderly, NEW g \in GroupIds, NEW n \in NextHops
      PROVE  hwMem[g][n] = Cardinality({m \in MemberIds :
               mem[m].in /\ mem[m].nh = n /\ grp[g].in /\ grp[g].type = "ECMP"
                 /\ mem[m].grp = Oid(g)})
  BY <1>1 DEF RoutingInv, MemberInv, EcmpMembers, Oid, OidIn
<1>2. RoutingInv => EcmpExact
  BY <1>1 DEF EcmpExact
<1> QED BY <1>2, RoutingInvariant, PTL

(* A protection group's paths are those of its members, and its APS group *)
(* is in the SDK with both and gone with the last. *)
THEOREM ProtectionIsBacked == Spec => []ProtectionBacked
PROOF
<1>1. RoutingInv => ProtectionBacked
  BY DEF RoutingInv, PathInv, PathsOk, PathOf, ProtectionBacked, Oid, OidIn
<1> QED BY <1>1, RoutingInvariant, PTL
=============================================================================
