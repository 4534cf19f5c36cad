---------------------------- MODULE NeighborProofs ----------------------------
(***************************************************************************)
(* Safety theorems about Neighbor, for every set of interfaces, addresses *)
(* and ids, every SDK failure, and interfaces removed under their *)
(* neighbors. The argument: IdsInv is inductive. Every handler writes one *)
(* record and what it writes Fits the other records (BecomeFits); the one *)
(* that writes many, remove_all, gives back only ids of records that go. *)
(***************************************************************************)
EXTENDS Neighbor, FiniteSetTheorems, TLAPS

(* The state records of add_nexthop and remove_nexthop. *)
Sts == [e : Records, arp : SUBSET ArpIds, nh : SUBSET NhIds,
        hwArp : ArpTables, hwNh : NhTables, ok : BOOLEAN]

(* What add_nexthop may do: allocate the ids offered, and nothing else to *)
(* the record. *)
SameUsers(e, f) == f.in = e.in /\ f.exists = e.exists /\ f.ref = e.ref
ArpAdded(s, t, a) ==
  /\ t \in Sts /\ SameUsers(s.e, t.e) /\ t.e.act = s.e.act
  /\ t.nh = s.nh /\ t.e.nh = s.e.nh /\ s.arp \subseteq t.arp
  /\ s.e.arp # 0 => t.e.arp = s.e.arp
  /\ s.e.arp = 0 => t.e.arp \in {0, a}
  /\ t.ok => t.e.arp # 0 /\ t.e.arp \in t.arp
NhAdded(s, t, n) ==
  /\ t \in Sts /\ SameUsers(s.e, t.e) /\ t.e.act = s.e.act
  /\ t.arp = s.arp /\ t.e.arp = s.e.arp /\ s.nh \subseteq t.nh
  /\ s.e.nh # 0 => t.e.nh = s.e.nh
  /\ s.e.nh = 0 => t.e.nh \in {0, n}
  /\ t.ok => t.e.nh # 0 /\ (t.e.nh # s.e.nh => t.e.nh \in t.nh)
Added(s, t, k, a, n) ==
  /\ t \in Sts /\ SameUsers(s.e, t.e) /\ t.e.act = s.e.act
  /\ s.arp \subseteq t.arp /\ s.nh \subseteq t.nh
  /\ s.e.arp # 0 => t.e.arp = s.e.arp
  /\ s.e.arp = 0 => t.e.arp \in {0, a}
  /\ Rif(k) \in BridgeRifs => t.e.arp = s.e.arp
  /\ s.e.nh # 0 => t.e.nh = s.e.nh
  /\ s.e.nh = 0 => t.e.nh \in {0, n}
  /\ t.ok => /\ t.e.nh # 0 /\ (Rif(k) \notin BridgeRifs => t.e.arp # 0)
             /\ t.e.arp # s.e.arp => t.e.arp \in t.arp
             /\ t.e.nh # s.e.nh => t.e.nh \in t.nh

-----------------------------------------------------------------------------
(* FreeIds offers an id that is not taken, or 0. *)
LEMMA FreeIdsFact ==
  ASSUME NEW ids, NEW pool, NEW i \in FreeIds(ids, pool)
  PROVE  i = 0 \/ (i \in ids /\ i \notin pool)
BY DEF FreeIds

(* The adjacencies written to the SDK have the type of its tables. *)
LEMMA ParamTypes ==
  ASSUME NEW tbl \in [L2Rifs \X Macs -> Ports \cup {NoPort}], NEW k \in Keys,
         NEW e \in Records
  PROVE  /\ Rif(k) \notin BridgeRifs => ArpParam(tbl, k, e) \in Adjacencies
         /\ Rif(k) \in BridgeRifs => MiscParam(tbl, k, e) \in Adjacencies
PROOF
<1>1. Rif(k) \in Rifs
  BY DEF Keys, Rif
<1>2. e.mac \in Macs \cup {NoMac}
  BY DEF Records
<1>3. ASSUME Rif(k) \in L2Rifs PROVE LookupFdb(tbl, Rif(k), e.mac) \in Ports \cup {NoPort}
  BY <1>2, <1>3 DEF LookupFdb
<1>4. ASSUME Rif(k) \notin BridgeRifs PROVE ArpParam(tbl, k, e) \in Adjacencies
  BY <1>1, <1>2, <1>3, <1>4 DEF ArpParam, Adjacencies, L2Rifs
<1>5. ASSUME Rif(k) \in BridgeRifs PROVE MiscParam(tbl, k, e) \in Adjacencies
  BY <1>1, <1>2, <1>3, <1>5 DEF MiscParam, Adjacencies, L2Rifs
<1> QED BY <1>4, <1>5

(* add_arp_entry names the ARP id offered and keeps the rest. *)
LEMMA AddArpFact ==
  ASSUME fdb \in [L2Rifs \X Macs -> Ports \cup {NoPort}], NEW k \in Keys,
         Rif(k) \notin BridgeRifs,
         NEW s \in Sts, s.ok = TRUE, NEW a \in ArpIds \cup {0}, NEW fault
  PROVE  ArpAdded(s, AddArpEntry(s, k, a, fault), a)
PROOF
<1> DEFINE t == AddArpEntry(s, k, a, fault)
           named == [s EXCEPT !.e.arp = IF s.e.arp = 0 THEN a ELSE @]
<1> SUFFICES ArpAdded(s, t, a)
  OBVIOUS
<1>1. CASE s.e.arp = 0 /\ a = 0
  BY <1>1 DEF AddArpEntry, Fail, Sts, SameUsers, ArpAdded
<1>2. CASE ~(s.e.arp = 0 /\ a = 0)
  <2>1. /\ named \in Sts /\ SameUsers(s.e, named.e) /\ named.e.act = s.e.act
        /\ named.e.nh = s.e.nh /\ named.arp = s.arp /\ named.nh = s.nh
        /\ named.ok = TRUE
        /\ named.e.arp = (IF s.e.arp = 0 THEN a ELSE s.e.arp)
    BY DEF Sts, SameUsers, Records
  <2>2. named.e.arp \in ArpIds
    BY <1>2, <2>1 DEF Sts, Records
  <2>3. \/ t = Fail(named)
        \/ t = [named EXCEPT !.arp = @ \cup {named.e.arp},
                             !.hwArp[named.e.arp] = ArpParam(fdb, k, s.e)]
    BY <1>2 DEF AddArpEntry
  <2> HIDE DEF named, t
  <2>4. CASE t = Fail(named)
    BY <1>2, <2>1, <2>2, <2>4 DEF Fail, Sts, SameUsers, ArpAdded
  <2>5. CASE t = [named EXCEPT !.arp = @ \cup {named.e.arp},
                               !.hwArp[named.e.arp] = ArpParam(fdb, k, s.e)]
    <3>1. ArpParam(fdb, k, s.e) \in Adjacencies
      BY ParamTypes DEF Sts
    <3> DEFINE v == ArpParam(fdb, k, s.e)
               x == named.e.arp
               table == [named.hwArp EXCEPT ![x] = v]
    <3>2. table \in ArpTables
      BY <2>1, <2>2, <3>1 DEF Sts, ArpTables
    <3> HIDE DEF v, x
    <3>3. t = [named EXCEPT !.arp = @ \cup {x}, !.hwArp[x] = v]
      BY <2>5 DEF x, v
    <3>4. t.hwArp = table /\ t.arp = named.arp \cup {x} /\ t.e = named.e
          /\ t.nh = named.nh /\ t.ok = named.ok /\ t.hwNh = named.hwNh
          /\ t = [e |-> t.e, arp |-> t.arp, nh |-> t.nh, hwArp |-> t.hwArp,
                  hwNh |-> t.hwNh, ok |-> t.ok]
      BY <2>1, <3>3 DEF Sts
    <3> HIDE DEF table
    <3>5. t \in Sts
      BY <2>1, <2>2, <3>2, <3>4 DEF Sts, x
    <3> QED
      BY <1>2, <2>1, <2>2, <3>4, <3>5, NeighborAssumption
      DEF SameUsers, ArpAdded, x
  <2> QED BY <2>3, <2>4, <2>5
<1> QED BY <1>1, <1>2

(* add_ipuc_nexthop takes the next hop id offered and keeps the rest. *)
LEMMA AddIpucFact ==
  ASSUME NEW s \in Sts, s.ok = TRUE, s.e.arp \in ArpIds,
         NEW n \in NhIds \cup {0}, NEW fault
  PROVE  NhAdded(s, AddIpucNexthop(s, n, fault), n)
PROOF
<1>1. CASE s.e.nh = 0
  BY <1>1 DEF AddIpucNexthop, Fail, Sts, SameUsers, Records, NhTables, NhAdded
<1>2. CASE s.e.nh # 0
  BY <1>2 DEF AddIpucNexthop, Fail, Sts, SameUsers, Records, NhTables, NhAdded
<1> QED BY <1>1, <1>2

(* The bridge half does the same without an ARP id. *)
LEMMA AddMiscFact ==
  ASSUME fdb \in [L2Rifs \X Macs -> Ports \cup {NoPort}], NEW k \in Keys,
         Rif(k) \in BridgeRifs,
         NEW s \in Sts, s.ok = TRUE, NEW n \in NhIds \cup {0}, NEW fault
  PROVE  NhAdded(s, AddMiscNexthop(s, k, n, fault), n)
PROOF
<1>1. MiscParam(fdb, k, s.e) \in Adjacencies
  BY ParamTypes DEF Sts
<1>2. CASE s.e.nh = 0
  BY <1>1, <1>2 DEF AddMiscNexthop, Fail, Sts, SameUsers, Records, NhTables, NhAdded
<1>3. CASE s.e.nh # 0
  BY <1>1, <1>3 DEF AddMiscNexthop, Fail, Sts, SameUsers, Records, NhTables, NhAdded
<1> QED BY <1>2, <1>3

(* add_nexthop on any record of any interface. *)
LEMMA AddNexthopFact ==
  ASSUME fdb \in [L2Rifs \X Macs -> Ports \cup {NoPort}], NEW k \in Keys,
         NEW s \in Sts, s.ok = TRUE,
         NEW a \in ArpIds \cup {0}, NEW n \in NhIds \cup {0}, NEW fault
  PROVE  Added(s, AddNexthop(s, k, a, n, fault), k, a, n)
PROOF
<1> DEFINE t == AddNexthop(s, k, a, n, fault)
<1> SUFFICES Added(s, t, k, a, n)
  OBVIOUS
<1>1. CASE Rif(k) \notin rifs
  BY <1>1 DEF AddNexthop, Fail, Sts, SameUsers, Added
<1>2. CASE Rif(k) \in rifs /\ Rif(k) \in BridgeRifs
  <2>1. t = AddMiscNexthop(s, k, n, fault)
    BY <1>2 DEF AddNexthop
  <2>2. NhAdded(s, t, n)
    BY <1>2, <2>1, AddMiscFact
  <2> HIDE DEF t
  <2> QED BY <1>2, <2>2 DEF Added, NhAdded
<1>3. CASE Rif(k) \in rifs /\ Rif(k) \notin BridgeRifs
  <2> DEFINE u == AddArpEntry(s, k, a, fault)
  <2>1. t = IF u.ok THEN AddIpucNexthop(u, n, fault) ELSE u
    BY <1>3 DEF AddNexthop
  <2>2. ArpAdded(s, u, a)
    BY <1>3, AddArpFact
  <2> HIDE DEF u, t
  <2>3. CASE ~u.ok
    BY <1>3, <2>1, <2>2, <2>3 DEF Added, ArpAdded
  <2>4. CASE u.ok
    <3>1. u.ok = TRUE /\ u.e.arp \in ArpIds /\ u \in Sts
      BY <2>2, <2>4 DEF Sts, Records, ArpAdded
    <3>2. NhAdded(u, t, n)
      BY <2>1, <2>4, <3>1, AddIpucFact
    <3> QED BY <1>3, <2>2, <2>4, <3>2 DEF Added, SameUsers, ArpAdded, NhAdded
  <2> QED BY <2>3, <2>4
<1> QED BY <1>1, <1>2, <1>3

(* What remove_nexthop may do: give back the ids of the record. *)
Removed(s, t) ==
  /\ t \in Sts /\ SameUsers(s.e, t.e) /\ t.ok = s.ok
  /\ t.arp \subseteq s.arp /\ s.arp \ {s.e.arp} \subseteq t.arp
  /\ t.nh \subseteq s.nh /\ s.nh \ {s.e.nh} \subseteq t.nh

(* Giving the ARP id back touches nothing else. *)
LEMMA FreeArpFact ==
  ASSUME NEW s \in Sts
  PROVE  /\ FreeArp(s) \in Sts /\ SameUsers(s.e, FreeArp(s).e) /\ FreeArp(s).ok = s.ok
         /\ FreeArp(s).arp \subseteq s.arp /\ s.arp \ {s.e.arp} \subseteq FreeArp(s).arp
         /\ FreeArp(s).nh = s.nh
BY DEF FreeArp, Sts, SameUsers, Records, ArpTables

(* Nor does giving back the next hop id. *)
LEMMA FreeNhFact ==
  ASSUME NEW s \in Sts
  PROVE  /\ FreeNh(s) \in Sts /\ SameUsers(s.e, FreeNh(s).e) /\ FreeNh(s).ok = s.ok
         /\ FreeNh(s).nh \subseteq s.nh /\ s.nh \ {s.e.nh} \subseteq FreeNh(s).nh
         /\ FreeNh(s).arp = s.arp /\ FreeNh(s).e.arp = s.e.arp
BY DEF FreeNh, Sts, SameUsers, Records, NhTables

(* remove_nexthop on any record of any interface. *)
LEMMA RemoveNexthopFact ==
  ASSUME NEW s \in Sts, NEW k
  PROVE  Removed(s, RemoveNexthop(s, k))
PROOF
<1> DEFINE u == FreeNh(s)
<1>1. RemoveNexthop(s, k) \in {s, u, FreeArp(u)}
  BY DEF RemoveNexthop
<1>2. /\ u \in Sts /\ SameUsers(s.e, u.e) /\ u.ok = s.ok
      /\ u.arp = s.arp /\ u.e.arp = s.e.arp
      /\ u.nh \subseteq s.nh /\ s.nh \ {s.e.nh} \subseteq u.nh
  BY FreeNhFact
<1> HIDE DEF u
<1>3. /\ FreeArp(u) \in Sts /\ SameUsers(u.e, FreeArp(u).e) /\ FreeArp(u).ok = u.ok
      /\ FreeArp(u).arp \subseteq u.arp /\ u.arp \ {u.e.arp} \subseteq FreeArp(u).arp
      /\ FreeArp(u).nh = u.nh
  BY <1>2, FreeArpFact
<1>4. Removed(s, s) /\ Removed(s, u) /\ Removed(s, FreeArp(u))
  BY <1>2, <1>3 DEF Removed, SameUsers
<1> QED BY <1>1, <1>4

-----------------------------------------------------------------------------
(* The inductive invariant of IdsAreUnique. A record in the database has *)
(* its ids, one that is not is blank; ref_cnt is 1, or 2 when both modules *)
(* use the record. The last part is what makes a failed create delete the *)
(* record instead of keeping it with the id it has given back. *)
RecordInv ==
  \A k \in Keys : IF nb[k].in
                  THEN nb[k].nh # 0 /\ (Rif(k) \notin BridgeRifs => nb[k].arp # 0)
                  ELSE nb[k] = Empty
UsedBy(k, e, obj) ==
  e.in => /\ e.exists \/ obj[e.nh] = k
          /\ e.ref = 1 \/ (e.ref = 2 /\ e.exists /\ obj[e.nh] = k)
UserInv == \A k \in Keys : UsedBy(k, nb[k], nhObj)
IdsInv == TypeOK /\ IdsUnique /\ RecordInv /\ UserInv

(* A new state of record k that keeps IdsUnique and RecordInv. *)
PoolsKeep(k, s) ==
  arpPool \ {nb[k].arp} \subseteq s.arp /\ nhPool \ {nb[k].nh} \subseteq s.nh
IdsOk(k, s) ==
  /\ s.e.arp # 0 => s.e.arp \in s.arp /\ (s.e.arp = nb[k].arp \/ s.e.arp \notin arpPool)
  /\ s.e.nh # 0 => s.e.nh \in s.nh /\ (s.e.nh = nb[k].nh \/ s.e.nh \notin nhPool)
Fits(k, s) ==
  /\ s \in Sts /\ PoolsKeep(k, s) /\ IdsOk(k, s)
  /\ IF s.e.in THEN s.e.nh # 0 /\ (Rif(k) \notin BridgeRifs => s.e.arp # 0)
     ELSE s.e = Empty

(* The typing of what Become writes, and of the rest. *)
DbTyped == /\ nb \in [Keys -> Records] /\ arpPool \subseteq ArpIds
           /\ nhPool \subseteq NhIds /\ hwArp \in ArpTables /\ hwNh \in NhTables
RestTyped ==
  /\ nhObj \in [NhIds -> Keys \cup {NoKey}]
  /\ hostRoute \in [RouteKeys -> NhIds \cup {0}]
  /\ rifs \subseteq Rifs /\ missAct \in [Rifs -> Acts]
  /\ fdb \in [L2Rifs \X Macs -> Ports \cup {NoPort}]
  /\ events \subseteq L2Rifs \X Macs
  /\ neighborCnt \in Nat /\ nexthopCnt \in Int
  /\ status \in {"SUCCESS", "FAILURE"}

(* The types of the records, and of all else. *)
LEMMA TypeSplit == TypeOK <=> DbTyped /\ RestTyped
BY DEF TypeOK, DbTyped, RestTyped

(* The blank record has its type. *)
LEMMA EmptyTyped == Empty \in Records
BY DEF Empty, Records, Acts, Supported, Discard

(* Writing a state that fits keeps the ids apart. *)
LEMMA BecomeFits ==
  ASSUME IdsInv, NEW k \in Keys, NEW s, Fits(k, s), Become(k, s)
  PROVE  DbTyped' /\ IdsUnique' /\ RecordInv'
PROOF
<1>1. DbTyped'
  BY DEF IdsInv, TypeOK, Fits, Become, DbTyped, Sts
<1>2. nb'[k] = s.e /\ \A j \in Keys : j # k => nb'[j] = nb[j]
  BY DEF IdsInv, TypeOK, Become
<1>3. RecordInv'
  BY <1>2 DEF IdsInv, RecordInv, Fits
<1>4. IdsUnique'
  <2>1. arpPool' = s.arp /\ nhPool' = s.nh
    BY DEF Become
  <2>2. ASSUME NEW j \in Keys
        PROVE  /\ nb'[j].arp # 0 => nb'[j].arp \in arpPool'
               /\ nb'[j].nh # 0 => nb'[j].nh \in nhPool'
    <3>1. CASE j = k
      BY <1>2, <2>1, <3>1 DEF Fits, IdsOk
    <3>2. CASE j # k
      BY <1>2, <2>1, <3>2 DEF Fits, PoolsKeep, IdsInv, IdsUnique
    <3> QED BY <3>1, <3>2
  <2>3. ASSUME NEW i \in Keys, NEW j \in Keys, i # j
        PROVE  /\ nb'[i].arp = nb'[j].arp => nb'[i].arp = 0
               /\ nb'[i].nh = nb'[j].nh => nb'[i].nh = 0
    <3>1. CASE i # k /\ j # k
      BY <1>2, <2>3, <3>1 DEF IdsInv, IdsUnique
    <3>2. CASE i = k
      BY <1>2, <2>3, <3>2 DEF Fits, IdsOk, IdsInv, IdsUnique
    <3>3. CASE j = k
      BY <1>2, <2>3, <3>3 DEF Fits, IdsOk, IdsInv, IdsUnique
    <3> QED BY <3>1, <3>2, <3>3
  <2> QED BY <2>2, <2>3 DEF IdsUnique
<1> QED BY <1>1, <1>3, <1>4

(* ... and the users of the record, when the others keep theirs. *)
LEMMA BecomeUsed ==
  ASSUME IdsInv, NEW k \in Keys, NEW s, Become(k, s), UsedBy(k, s.e, nhObj'),
         \A j \in Keys : (j # k /\ nhObj[nb[j].nh] = j) => nhObj'[nb[j].nh] = j
  PROVE  UserInv'
PROOF
<1>1. nb'[k] = s.e /\ \A j \in Keys : j # k => nb'[j] = nb[j]
  BY DEF IdsInv, TypeOK, Become
<1> QED BY <1>1 DEF IdsInv, UserInv, UsedBy

(* A blank record fits when the pools lose no id but its own. *)
LEMMA BlankFits ==
  ASSUME NEW k, NEW s \in Sts, PoolsKeep(k, s), s.e = Empty
  PROVE  Fits(k, s)
BY DEF Fits, IdsOk, Empty

(* An empty record has no user to name. *)
LEMMA BlankUsed == ASSUME NEW k, NEW obj PROVE UsedBy(k, Empty, obj)
BY DEF UsedBy, Empty

(* add_nexthop on a record of the database, or on a new one. *)
Tried(k, e, t) ==
  /\ t \in Sts /\ SameUsers(e, t.e) /\ t.e.act = e.act
  /\ arpPool \subseteq t.arp /\ nhPool \subseteq t.nh
  /\ (t.ok \/ nb[k].in) => /\ IdsOk(k, t) /\ t.e.nh # 0
                           /\ Rif(k) \notin BridgeRifs => t.e.arp # 0
  /\ nb[k].in => t.e.arp = nb[k].arp /\ t.e.nh = nb[k].nh

(* The state a handler starts from, with the record it has prepared. *)
Start(k, s) ==
  /\ s \in Sts /\ s.ok = TRUE /\ s.arp = arpPool /\ s.nh = nhPool
  /\ s.e.arp = nb[k].arp /\ s.e.nh = nb[k].nh

(* A handler starts from the state, whatever record it has built. *)
LEMMA StartFact ==
  ASSUME IdsInv, NEW k, NEW e \in Records, e.arp = nb[k].arp, e.nh = nb[k].nh
  PROVE  Start(k, St(e)) /\ St(e).e = e
BY DEF Start, St, Sts, IdsInv, TypeOK

(* add_nexthop from the start: it succeeds or leaves what was there. *)
LEMMA TriedFact ==
  ASSUME IdsInv, NEW k \in Keys, NEW s, Start(k, s),
         NEW a \in FreeIds(ArpIds, arpPool), NEW n \in FreeIds(NhIds, nhPool),
         NEW fault
  PROVE  Tried(k, s.e, AddNexthop(s, k, a, n, fault))
PROOF
<1> DEFINE t == AddNexthop(s, k, a, n, fault)
<1> SUFFICES Tried(k, s.e, t)
  OBVIOUS
<1>1. s \in Sts /\ s.ok = TRUE /\ s.arp = arpPool /\ s.nh = nhPool
      /\ s.e.arp = nb[k].arp /\ s.e.nh = nb[k].nh
  BY DEF Start
<1>2. a \in ArpIds \cup {0} /\ n \in NhIds \cup {0} /\ a \notin arpPool /\ n \notin nhPool
  BY FreeIdsFact, NeighborAssumption DEF IdsInv, TypeOK
<1>3. fdb \in [L2Rifs \X Macs -> Ports \cup {NoPort}]
  BY DEF IdsInv, TypeOK
<1>4. Added(s, t, k, a, n)
  BY <1>1, <1>2, <1>3, AddNexthopFact
<1> HIDE DEF t
<1>5. /\ nb[k].arp # 0 => nb[k].arp \in arpPool
      /\ nb[k].nh # 0 => nb[k].nh \in nhPool
      /\ nb[k].in => nb[k].nh # 0 /\ (Rif(k) \notin BridgeRifs => nb[k].arp # 0)
  BY DEF IdsInv, IdsUnique, RecordInv
<1>6. nb[k].in => t.e.arp = nb[k].arp /\ t.e.nh = nb[k].nh
  BY <1>1, <1>4, <1>5 DEF Added
<1>7. (t.ok \/ nb[k].in) => /\ IdsOk(k, t) /\ t.e.nh # 0
                            /\ Rif(k) \notin BridgeRifs => t.e.arp # 0
  BY <1>1, <1>2, <1>4, <1>5, <1>6 DEF Added, IdsOk
<1> QED BY <1>1, <1>4, <1>6, <1>7 DEF Added, Tried

(* The whole invariant after a handler that writes one record. *)
LEMMA BecomeIds ==
  ASSUME IdsInv, NEW k \in Keys, NEW s, Become(k, s), Fits(k, s),
         UsedBy(k, s.e, nhObj'), RestTyped',
         \A j \in Keys : (j # k /\ nhObj[nb[j].nh] = j) => nhObj'[nb[j].nh] = j
  PROVE  IdsInv'
PROOF
<1>1. DbTyped' /\ IdsUnique' /\ RecordInv'
  BY BecomeFits
<1>2. UserInv'
  BY BecomeUsed
<1>3. TypeOK'
  BY <1>1 DEF TypeOK, DbTyped, RestTyped
<1> QED BY <1>1, <1>2, <1>3 DEF IdsInv

(* The record create_neighbor works on: the one of a next hop or a new one. *)
FilledOk(k, f, act) ==
  /\ f \in Records /\ f.arp = nb[k].arp /\ f.nh = nb[k].nh /\ f.act = act
  /\ f.in = TRUE /\ f.exists = TRUE /\ f.ref = nb[k].ref
  /\ nb[k].in => nb[k].ref = 1 /\ nhObj[nb[k].nh] = k
  /\ ~nb[k].in => nb[k].ref = 0

(* A record build_db makes is filled as create_neighbor fills it. *)
LEMMA BuildFact ==
  ASSUME IdsInv, NEW k \in Keys, ~nb[k].exists
  PROVE  FilledOk(k, BuildDb(nb[k], FALSE), BuildDb(nb[k], FALSE).act)
PROOF
<1>1. nb[k] \in Records /\ UsedBy(k, nb[k], nhObj) /\ (~nb[k].in => nb[k] = Empty)
  BY DEF IdsInv, TypeOK, RecordInv, UserInv
<1>2. CASE nb[k].in
  <2>1. (nb[k].exists \/ ~FALSE) = TRUE
    OBVIOUS
  <2>2. BuildDb(nb[k], FALSE) = [nb[k] EXCEPT !.exists = TRUE]
    BY <1>1, <1>2, <2>1 DEF BuildDb
  <2>3. nb[k].ref = 1 /\ nhObj[nb[k].nh] = k /\ nb[k].in = TRUE
    BY <1>1, <1>2 DEF UsedBy, Records
  <2> QED BY <1>1, <2>2, <2>3 DEF Records, FilledOk
<1>3. CASE ~nb[k].in
  <2>1. BuildDb(nb[k], FALSE) = [Empty EXCEPT !.in = TRUE, !.exists = TRUE]
    BY <1>3, (~FALSE) = TRUE DEF BuildDb
  <2>2. nb[k] = Empty /\ Empty.ref = 0 /\ Empty.arp = 0 /\ Empty.nh = 0
    BY <1>1, <1>3 DEF Empty
  <2> QED BY <1>3, <2>1, <2>2, EmptyTyped DEF Records, FilledOk
<1> QED BY <1>2, <1>3

(* create_neighbor fills a record that holds nothing yet. *)
LEMMA FilledFact ==
  ASSUME IdsInv, NEW k \in Keys, ~nb[k].exists, NEW mac \in Macs, NEW act \in Acts
  PROVE  FilledOk(k, Filled(nb[k], mac, act), act)
PROOF
<1> DEFINE f == BuildDb(nb[k], FALSE)
<1>1. FilledOk(k, f, f.act)
  BY BuildFact
<1>2. Filled(nb[k], mac, act) = [f EXCEPT !.mac = mac, !.act = act]
  BY DEF Filled
<1> HIDE DEF f
<1> QED BY <1>1, <1>2 DEF FilledOk, Records

(* Deleting the record after a failed call, with or without its ids. *)
LEMMA DeleteFits ==
  ASSUME NEW k, NEW t \in Sts, arpPool \subseteq t.arp, nhPool \subseteq t.nh
  PROVE  /\ Fits(k, [t EXCEPT !.e = Empty])
         /\ IdsOk(k, t) => Fits(k, [RemoveNexthop(t, k) EXCEPT !.e = Empty])
PROOF
<1>1. [t EXCEPT !.e = Empty] \in Sts /\ [t EXCEPT !.e = Empty].e = Empty
      /\ [t EXCEPT !.e = Empty].arp = t.arp /\ [t EXCEPT !.e = Empty].nh = t.nh
  BY EmptyTyped DEF Sts
<1>2. Fits(k, [t EXCEPT !.e = Empty])
  BY <1>1, BlankFits DEF PoolsKeep
<1>3. ASSUME IdsOk(k, t) PROVE Fits(k, [RemoveNexthop(t, k) EXCEPT !.e = Empty])
  <2> DEFINE r == RemoveNexthop(t, k)
  <2>1. Removed(t, r)
    BY RemoveNexthopFact
  <2> HIDE DEF r
  <2>2. [r EXCEPT !.e = Empty] \in Sts /\ [r EXCEPT !.e = Empty].e = Empty
        /\ [r EXCEPT !.e = Empty].arp = r.arp /\ [r EXCEPT !.e = Empty].nh = r.nh
    BY <2>1, EmptyTyped DEF Removed, Sts
  <2>3. PoolsKeep(k, [r EXCEPT !.e = Empty])
    BY <1>3, <2>1, <2>2, NeighborAssumption DEF Removed, PoolsKeep, IdsOk, Sts, Records
  <2>4. Fits(k, [r EXCEPT !.e = Empty])
    BY <2>2, <2>3, BlankFits
  <2> QED BY <2>4 DEF r
<1> QED BY <1>2, <1>3

(* Every route key has its type. *)
LEMMA RouteTyped == ASSUME NEW k \in Keys PROVE RouteOf(k) \in RouteKeys
BY DEF RouteOf, RouteKeys, Keys, Ip

-----------------------------------------------------------------------------
(* The counter stays a natural number. *)
LEMMA WrapTyped == ASSUME NEW i \in Int PROVE i % CntWrap \in Nat
BY NeighborAssumption

(* create_neighbor: a call that fails deletes the record, a next hop's too; *)
(* one that succeeds adds the neighbor to its users. *)
LEMMA CreateNeighborIds ==
  ASSUME IdsInv, NEW k \in Keys, NEW mac \in Macs, NEW act \in CreateActs,
         NEW host \in HostAttrs, NEW a \in FreeIds(ArpIds, arpPool),
         NEW n \in FreeIds(NhIds, nhPool), NEW fault,
         CreateNeighbor(k, mac, act, host, a, n, fault)
  PROVE  IdsInv'
PROOF
<1> DEFINE e == Filled(nb[k], mac, act)
           s == AddNexthop(St(e), k, a, n, fault)
           noHost == IF host = "absent" THEN s.e.noHost ELSE host = "yes"
           routed == [s EXCEPT !.e.noHost = noHost]
           added == [routed EXCEPT !.e.ref = @ + 1]
<1>1. ~nb[k].exists /\ act \in Acts
  BY NeighborAssumption DEF CreateNeighbor
<1>2. FilledOk(k, e, act)
  BY <1>1, FilledFact
<1>3. Tried(k, e, s)
  <2> HIDE DEF e
  <2>1. Start(k, St(e)) /\ St(e).e = e
    BY <1>2, StartFact DEF FilledOk
  <2>2. Tried(k, St(e).e, s)
    BY <2>1, TriedFact
  <2> QED BY <2>1, <2>2
<1>4. \/ ~s.ok /\ Become(k, RemovedDb(s, FALSE)) /\ hostRoute' = hostRoute
         /\ neighborCnt' = neighborCnt
      \/ s.ok /\ Become(k, RemovedDb(RemoveNexthop(routed, k), FALSE))
         /\ hostRoute' = hostRoute /\ neighborCnt' = neighborCnt
      \/ s.ok /\ Become(k, added)
         /\ hostRoute' = (IF noHost THEN hostRoute
                          ELSE [hostRoute EXCEPT ![RouteOf(k)] = s.e.nh])
         /\ neighborCnt' = (neighborCnt + 1) % CntWrap
  BY DEF CreateNeighbor
<1>5. nhObj' = nhObj /\ rifs' = rifs /\ missAct' = missAct /\ fdb' = fdb
      /\ events' = events /\ nexthopCnt' = nexthopCnt
      /\ status' \in {"SUCCESS", "FAILURE"}
  BY DEF CreateNeighbor, Return, rifVars, fdbVars
<1> HIDE DEF e, s
<1>6. s \in Sts /\ s.e \in Records /\ s.e.in = TRUE /\ s.e.exists = TRUE
      /\ s.e.ref = nb[k].ref /\ s.e.ref \in {0, 1}
      /\ arpPool \subseteq s.arp /\ nhPool \subseteq s.nh
  BY <1>2, <1>3 DEF Tried, SameUsers, Sts, FilledOk
<1>7. noHost \in BOOLEAN
  BY <1>6 DEF Records
<1> HIDE DEF noHost
<1>8. /\ routed \in Sts /\ SameUsers(s.e, routed.e) /\ routed.ok = s.ok
      /\ routed.arp = s.arp /\ routed.nh = s.nh
      /\ routed.e.arp = s.e.arp /\ routed.e.nh = s.e.nh
  BY <1>6, <1>7 DEF Sts, Records, SameUsers
<1> HIDE DEF routed
<1>9. hostRoute' \in [RouteKeys -> NhIds \cup {0}] /\ neighborCnt' \in Nat
  <2>1. neighborCnt \in Nat /\ (neighborCnt + 1) % CntWrap \in Nat
    BY WrapTyped DEF IdsInv, TypeOK
  <2>2. [hostRoute EXCEPT ![RouteOf(k)] = s.e.nh] \in [RouteKeys -> NhIds \cup {0}]
    BY <1>6, RouteTyped DEF IdsInv, TypeOK, Records
  <2> QED BY <1>4, <2>1, <2>2 DEF IdsInv, TypeOK
<1>10. RestTyped'
  BY <1>5, <1>9 DEF IdsInv, TypeOK, RestTyped
<1>11. CASE ~s.ok /\ Become(k, RemovedDb(s, FALSE))
  <2>1. RemovedDb(s, FALSE) = [s EXCEPT !.e = Empty]
    BY <1>6 DEF RemovedDb, RemoveDb
  <2>2. Fits(k, [s EXCEPT !.e = Empty]) /\ [s EXCEPT !.e = Empty].e = Empty
    BY <1>6, DeleteFits DEF Sts
  <2>3. Become(k, [s EXCEPT !.e = Empty]) /\ UsedBy(k, [s EXCEPT !.e = Empty].e, nhObj')
    BY <1>11, <2>1, <2>2, BlankUsed
  <2> QED BY <1>5, <1>10, <2>2, <2>3, BecomeIds
<1>12. CASE s.ok /\ Become(k, RemovedDb(RemoveNexthop(routed, k), FALSE))
  <2> DEFINE r == RemoveNexthop(routed, k)
  <2>1. Removed(routed, r)
    BY <1>8, RemoveNexthopFact
  <2>2. IdsOk(k, routed)
    BY <1>3, <1>8, <1>12 DEF Tried, IdsOk
  <2>3. Fits(k, [r EXCEPT !.e = Empty])
    BY <1>6, <1>8, <2>2, DeleteFits
  <2> HIDE DEF r
  <2>4. r.e.in = TRUE /\ r.e.exists = TRUE /\ r.e.ref <= 1 /\ r \in Sts
    BY <1>6, <1>8, <2>1 DEF Removed, SameUsers
  <2>5. RemovedDb(r, FALSE) = [r EXCEPT !.e = Empty] /\ [r EXCEPT !.e = Empty].e = Empty
    BY <2>4 DEF RemovedDb, RemoveDb, Sts
  <2>6. Become(k, [r EXCEPT !.e = Empty]) /\ UsedBy(k, [r EXCEPT !.e = Empty].e, nhObj')
    BY <1>12, <2>5, BlankUsed DEF r
  <2> QED BY <1>5, <1>10, <2>3, <2>6, BecomeIds
<1>13. CASE s.ok /\ Become(k, added)
  <2>1. /\ added \in Sts /\ added.arp = s.arp /\ added.nh = s.nh
        /\ added.e.arp = s.e.arp /\ added.e.nh = s.e.nh /\ added.e.in = TRUE
        /\ added.e.exists = TRUE /\ added.e.ref = nb[k].ref + 1
    BY <1>6, <1>8 DEF Sts, Records, SameUsers
  <2> HIDE DEF added
  <2>2. Fits(k, added)
    BY <1>3, <1>13, <2>1 DEF Tried, Fits, IdsOk, PoolsKeep
  <2>3. UsedBy(k, added.e, nhObj')
    BY <1>2, <1>3, <1>5, <2>1 DEF Tried, UsedBy, FilledOk
  <2> QED BY <1>5, <1>10, <1>13, <2>2, <2>3, BecomeIds
<1> QED BY <1>4, <1>11, <1>12, <1>13

(* create_neighbor without a MAC deletes the record it finds. *)
LEMMA CreateWithoutMacIds ==
  ASSUME IdsInv, NEW k \in Keys, CreateWithoutMac(k)
  PROVE  IdsInv'
PROOF
<1> DEFINE e == BuildDb(nb[k], FALSE)
           s == St(e)
<1>1. FilledOk(k, e, e.act) /\ Become(k, RemovedDb(s, FALSE))
  BY BuildFact DEF CreateWithoutMac
<1> HIDE DEF e
<1>2. s \in Sts /\ s.e = e /\ s.arp = arpPool /\ s.nh = nhPool
  BY <1>1 DEF St, Sts, IdsInv, TypeOK, FilledOk
<1> HIDE DEF s
<1>3. e.ref \in {0, 1} /\ e.in = TRUE /\ e.exists = TRUE
  BY <1>1 DEF FilledOk
<1>4. RemovedDb(s, FALSE) = [s EXCEPT !.e = Empty]
  BY <1>2, <1>3 DEF RemovedDb, RemoveDb
<1>5. Fits(k, [s EXCEPT !.e = Empty]) /\ [s EXCEPT !.e = Empty].e = Empty
  BY <1>2, DeleteFits DEF Sts
<1>6. nhObj' = nhObj /\ RestTyped'
  BY DEF CreateWithoutMac, Return, rifVars, fdbVars, cntVars, IdsInv, TypeOK, RestTyped
<1>7. Become(k, [s EXCEPT !.e = Empty]) /\ UsedBy(k, [s EXCEPT !.e = Empty].e, nhObj')
  BY <1>1, <1>4, <1>5, BlankUsed
<1> QED BY <1>5, <1>6, <1>7, BecomeIds

(* The record a removed neighbor leaves keeps its ids and users. *)
OrphanedOk(k, o) ==
  o \in Records /\ o.arp = nb[k].arp /\ o.nh = nb[k].nh /\ SameUsers(nb[k], o)
(* What remove_neighbor leaves when a next hop still uses the record. *)
LEMMA OrphanedFact ==
  ASSUME IdsInv, NEW k \in Keys
  PROVE  OrphanedOk(k, Orphaned(k))
PROOF
<1>1. nb[k] \in Records /\ missAct \in [Rifs -> Acts] /\ Rif(k) \in Rifs
  BY DEF IdsInv, TypeOK, Keys, Rif
<1> DEFINE act == IF Rif(k) \in rifs THEN missAct[Rif(k)] ELSE nb[k].act
<1>2. act \in Acts
  BY <1>1 DEF Records
<1>3. Orphaned(k) = [nb[k] EXCEPT !.act = act, !.mac = NoMac]
  BY <1>1 DEF Orphaned, Records
<1> HIDE DEF act
<1> QED BY <1>1, <1>2, <1>3 DEF OrphanedOk, SameUsers, Records

(* remove_neighbor leaves a record that a next hop uses to the next hop. *)
LEMMA RemoveNeighborIds ==
  ASSUME IdsInv, NEW k \in Keys, NEW a \in FreeIds(ArpIds, arpPool),
         NEW n \in FreeIds(NhIds, nhPool), NEW fault, RemoveNeighbor(k, a, n, fault)
  PROVE  IdsInv'
PROOF
<1>1. /\ nb[k] \in Records /\ nb[k].exists = TRUE /\ nb[k].in = TRUE
      /\ UsedBy(k, nb[k], nhObj) /\ nb[k].ref \in {1, 2}
  BY DEF RemoveNeighbor, IdsInv, TypeOK, RecordInv, UserInv, UsedBy, Empty, Records
<1>2. nhObj' = nhObj /\ rifs' = rifs /\ missAct' = missAct /\ fdb' = fdb
      /\ events' = events /\ nexthopCnt' = nexthopCnt
      /\ status' \in {"SUCCESS", "FAILURE"}
  BY DEF RemoveNeighbor, Return, rifVars, fdbVars
<1>3. hostRoute' \in [RouteKeys -> NhIds \cup {0}]
  BY RouteTyped DEF RemoveNeighbor, IdsInv, TypeOK
<1>4. neighborCnt' \in Nat
  BY WrapTyped DEF RemoveNeighbor, IdsInv, TypeOK
<1>5. RestTyped'
  BY <1>2, <1>3, <1>4 DEF IdsInv, TypeOK, RestTyped
<1> DEFINE s == St(nb[k])
<1>6. /\ s \in Sts /\ s.e = nb[k] /\ s.arp = arpPool /\ s.nh = nhPool
      /\ s.ok = TRUE /\ IdsOk(k, s)
  BY <1>1 DEF St, Sts, IdsInv, TypeOK, IdsUnique, IdsOk
<1>7. Become(k, RemoveOne(s, k, a, n, fault))
  BY DEF RemoveNeighbor
<1>8. CASE nb[k].ref = 1
  <2> DEFINE r == RemoveNexthop(s, k)
  <2> HIDE DEF s
  <2>1. Removed(s, r) /\ Fits(k, [r EXCEPT !.e = Empty])
    BY <1>6, RemoveNexthopFact, DeleteFits
  <2>2. RemoveOne(s, k, a, n, fault) = RemovedDb(r, FALSE)
    BY <1>8 DEF RemoveOne
  <2> HIDE DEF r
  <2>3. r.e.in = TRUE /\ r.e.exists = TRUE /\ r.e.ref = 1 /\ r \in Sts
    BY <1>1, <1>6, <1>8, <2>1 DEF Removed, SameUsers
  <2>4. RemovedDb(r, FALSE) = [r EXCEPT !.e = Empty] /\ [r EXCEPT !.e = Empty].e = Empty
    BY <2>3 DEF RemovedDb, RemoveDb, Sts
  <2>5. Become(k, [r EXCEPT !.e = Empty]) /\ UsedBy(k, [r EXCEPT !.e = Empty].e, nhObj')
    BY <1>7, <2>2, <2>4, BlankUsed
  <2> QED BY <1>2, <1>5, <2>1, <2>5, BecomeIds
<1>9. CASE nb[k].ref = 2
  <2> DEFINE o == Orphaned(k)
             v == [s EXCEPT !.e = o]
             t == AddNexthop(v, k, a, n, fault)
             u == RemovedDb(t, FALSE)
  <2>1. /\ o \in Records /\ o.arp = nb[k].arp /\ o.nh = nb[k].nh /\ o.in = TRUE
        /\ o.exists = TRUE /\ o.ref = 2
    BY <1>1, <1>9, OrphanedFact DEF OrphanedOk, SameUsers
  <2> HIDE DEF s
  <2>2. RemoveOne(s, k, a, n, fault) = u
    BY <1>9, ~(2 <= 1) DEF RemoveOne
  <2> HIDE DEF o
  <2>3. Start(k, v) /\ v.e = o
    BY <1>6, <2>1 DEF Start, Sts
  <2> HIDE DEF v
  <2>4. Tried(k, o, t)
    BY <2>3, TriedFact
  <2> HIDE DEF t
  <2>5. t \in Sts /\ t.e.in = TRUE /\ t.e.exists = TRUE /\ t.e.ref = 2
    BY <2>1, <2>4 DEF Tried, SameUsers
  <2>6. (t.e.exists /\ FALSE) = FALSE /\ ~(2 <= 1) /\ 2 - 1 = 1
    OBVIOUS
  <2>7. u = [t EXCEPT !.e = [t.e EXCEPT !.exists = FALSE, !.ref = 1]]
    BY <2>5, <2>6 DEF RemovedDb, RemoveDb
  <2> HIDE DEF u
  <2>8. /\ u \in Sts /\ u.arp = t.arp /\ u.nh = t.nh /\ u.e.arp = t.e.arp
        /\ u.e.nh = t.e.nh /\ u.e.in = TRUE /\ u.e.exists = FALSE /\ u.e.ref = 1
    BY <2>5, <2>7 DEF Sts, Records
  <2>9. Fits(k, u)
    BY <1>1, <2>4, <2>8 DEF Tried, Fits, IdsOk, PoolsKeep
  <2>10. UsedBy(k, u.e, nhObj')
    BY <1>1, <1>2, <1>9, <2>4, <2>8 DEF Tried, UsedBy
  <2> QED BY <1>2, <1>5, <1>7, <2>2, <2>9, <2>10, BecomeIds
<1> QED BY <1>1, <1>8, <1>9

(* set_neighbor_attribute writes the record back, new or old. *)
LEMMA SetRecordIds ==
  ASSUME IdsInv, NEW k \in Keys, NEW e, OrphanedOk(k, e),
         NEW a \in FreeIds(ArpIds, arpPool), NEW n \in FreeIds(NhIds, nhPool),
         NEW fault, SetRecord(k, e, a, n, fault)
  PROVE  IdsInv'
PROOF
<1> DEFINE s == AddNexthop(St(e), k, a, n, fault)
           w == IF s.ok THEN s ELSE [s EXCEPT !.e = nb[k]]
<1>1. /\ nb[k] \in Records /\ nb[k].in = TRUE /\ UsedBy(k, nb[k], nhObj)
  BY DEF SetRecord, IdsInv, TypeOK, RecordInv, UserInv, Empty, Records
<1>2. nhObj' = nhObj /\ RestTyped' /\ Become(k, w)
  BY DEF SetRecord, Return, rifVars, fdbVars, cntVars, IdsInv, TypeOK, RestTyped
<1>3. Start(k, St(e)) /\ St(e).e = e
  BY StartFact DEF OrphanedOk
<1>4. Tried(k, e, s)
  BY <1>3, TriedFact
<1> HIDE DEF s
<1>5. /\ w \in Sts /\ w.arp = s.arp /\ w.nh = s.nh
      /\ w.e.arp = nb[k].arp /\ w.e.nh = nb[k].nh /\ SameUsers(nb[k], w.e)
  BY <1>1, <1>4 DEF Tried, Sts, SameUsers, OrphanedOk
<1> HIDE DEF w
<1>6. Fits(k, w)
  BY <1>1, <1>4, <1>5 DEF Tried, Fits, IdsOk, PoolsKeep, SameUsers
<1>7. UsedBy(k, w.e, nhObj')
  BY <1>1, <1>2, <1>5 DEF UsedBy, SameUsers
<1> QED BY <1>2, <1>6, <1>7, BecomeIds

(* set_neighbor_attribute, the MAC. *)
LEMMA SetMacIds ==
  ASSUME IdsInv, NEW k \in Keys, NEW mac \in Macs,
         NEW a \in FreeIds(ArpIds, arpPool), NEW n \in FreeIds(NhIds, nhPool),
         NEW fault, SetMac(k, mac, a, n, fault)
  PROVE  IdsInv'
PROOF
<1> DEFINE e == [nb[k] EXCEPT !.mac = mac]
<1>1. OrphanedOk(k, e)
  BY DEF IdsInv, TypeOK, OrphanedOk, SameUsers, Records
<1>2. SetRecord(k, e, a, n, fault)
  BY DEF SetMac
<1> HIDE DEF e
<1> QED BY <1>1, <1>2, SetRecordIds

(* set_neighbor_attribute, the packet action. *)
LEMMA SetActionIds ==
  ASSUME IdsInv, NEW k \in Keys, NEW act \in SetActs,
         NEW a \in FreeIds(ArpIds, arpPool), NEW n \in FreeIds(NhIds, nhPool),
         NEW fault, SetAction(k, act, a, n, fault)
  PROVE  IdsInv'
PROOF
<1> DEFINE e == [nb[k] EXCEPT !.act = act]
<1>1. OrphanedOk(k, e)
  <2>1. act \in Acts
    BY NeighborAssumption
  <2> QED BY <2>1 DEF IdsInv, TypeOK, OrphanedOk, SameUsers, Records
<1>2. SetRecord(k, e, a, n, fault)
  BY DEF SetAction
<1> HIDE DEF e
<1> QED BY <1>1, <1>2, SetRecordIds

(* NO_HOST_ROUTE touches neither ids nor users. *)
LEMMA SetNoHostRouteIds ==
  ASSUME IdsInv, NEW k \in Keys, NEW on \in BOOLEAN, NEW fault,
         SetNoHostRoute(k, on, fault)
  PROVE  IdsInv'
PROOF
<1>1. nb \in [Keys -> Records] /\ nb[k] \in Records
  BY DEF IdsInv, TypeOK
<1>2. nb' = nb \/ nb' = [nb EXCEPT ![k] = [nb[k] EXCEPT !.noHost = on]]
  BY <1>1 DEF SetNoHostRoute
<1>3. [nb[k] EXCEPT !.noHost = on] \in Records
  BY <1>1 DEF Records
<1>4. nb' \in [Keys -> Records]
  BY <1>1, <1>2, <1>3
<1>5. \A j \in Keys : /\ SameUsers(nb[j], nb'[j]) /\ nb'[j].arp = nb[j].arp
                      /\ nb'[j].nh = nb[j].nh
  BY <1>1, <1>2 DEF SameUsers, Records
<1>6. nb[k].exists /\ nb[k].in
  BY DEF SetNoHostRoute, IdsInv, RecordInv, Empty
<1>7. \A j \in Keys : ~nb[j].in => nb'[j] = nb[j]
  BY <1>1, <1>2, <1>6
<1>8. nhObj' = nhObj /\ arpPool' = arpPool /\ nhPool' = nhPool
  BY DEF SetNoHostRoute
<1>9. hostRoute' \in [RouteKeys -> NhIds \cup {0}]
  BY <1>1, RouteTyped DEF SetNoHostRoute, IdsInv, TypeOK, Records
<1>10. TypeOK'
  BY <1>4, <1>9 DEF SetNoHostRoute, Return, rifVars, fdbVars, cntVars, IdsInv, TypeOK
<1>11. IdsUnique'
  BY <1>5, <1>8 DEF IdsInv, IdsUnique
<1>12. ASSUME NEW j \in Keys
       PROVE  IF nb'[j].in
              THEN nb'[j].nh # 0 /\ (Rif(j) \notin BridgeRifs => nb'[j].arp # 0)
              ELSE nb'[j] = Empty
  BY <1>1, <1>4, <1>5, <1>7 DEF IdsInv, RecordInv, SameUsers
<1>13. UserInv'
  BY <1>5, <1>8 DEF IdsInv, UserInv, UsedBy, SameUsers
<1> QED BY <1>10, <1>11, <1>12, <1>13 DEF IdsInv, RecordInv

(* The key of no record is none of the records'. *)
LEMMA NoKeyFact == NoKey \notin Keys
BY DEF NoKey, Keys

(* The record create_next_hop works on: the one it finds or a new one. *)
WantedOk(k, w) ==
  /\ w \in Records /\ w.arp = nb[k].arp /\ w.nh = nb[k].nh /\ w.in = TRUE
  /\ w.exists = nb[k].exists /\ w.ref = nb[k].ref
  /\ nb[k].in => nb[k].ref \in {1, 2}
  /\ ~nb[k].in => nb[k].ref = 0 /\ nb[k].exists = FALSE

(* What create_next_hop makes of the record it finds or builds. *)
LEMMA WantedFact ==
  ASSUME IdsInv, NEW k \in Keys
  PROVE  WantedOk(k, Wanted(k))
PROOF
<1>1. /\ nb[k] \in Records /\ UsedBy(k, nb[k], nhObj) /\ (~nb[k].in => nb[k] = Empty)
      /\ (Rif(k) \in rifs => missAct[Rif(k)] \in Acts)
  BY DEF IdsInv, TypeOK, RecordInv, UserInv
<1> DEFINE b == BuildDb(nb[k], TRUE)
<1>2. WantedOk(k, b)
  <2>1. CASE nb[k].in
    <3>1. (nb[k].exists \/ ~TRUE) = nb[k].exists /\ nb[k].in = TRUE
      BY <1>1, <2>1 DEF Records
    <3>2. b = [nb[k] EXCEPT !.exists = nb[k].exists]
      BY <1>1, <2>1, <3>1 DEF BuildDb
    <3> HIDE DEF b
    <3> QED BY <1>1, <2>1, <3>1, <3>2 DEF WantedOk, Records, UsedBy
  <2>2. CASE ~nb[k].in
    <3>1. b = [Empty EXCEPT !.in = TRUE, !.exists = FALSE]
      BY <2>2, (~TRUE) = FALSE DEF BuildDb
    <3>2. nb[k] = Empty /\ Empty.ref = 0 /\ Empty.arp = 0 /\ Empty.nh = 0
          /\ Empty.exists = FALSE
      BY <1>1, <2>2 DEF Empty
    <3> HIDE DEF b
    <3> QED BY <2>2, <3>1, <3>2, EmptyTyped DEF WantedOk, Records
  <2> QED BY <2>1, <2>2
<1>3. \/ Wanted(k) = b
      \/ Rif(k) \in rifs /\ Wanted(k) = [b EXCEPT !.act = missAct[Rif(k)]]
  BY DEF Wanted
<1> HIDE DEF b
<1> QED BY <1>1, <1>2, <1>3 DEF WantedOk, Records

(* free_ipuc_nexthop on a record of the database. *)
LEMMA FreeIpucLast ==
  ASSUME NEW s, s.e.in = TRUE, s.e.ref = 1, NEW k
  PROVE  FreeIpuc(s, k, s.e.nh) = RemovedDb(RemoveNexthop(s, k), TRUE)
BY DEF FreeIpuc
(* free_ipuc with a user left only lowers ref_cnt. *)
LEMMA FreeIpucMore ==
  ASSUME NEW s, s.e.in = TRUE, s.e.ref # 1, NEW k
  PROVE  FreeIpuc(s, k, s.e.nh) = [s EXCEPT !.e.ref = @ - 1]
BY DEF FreeIpuc

(* create_next_hop: an id given to a second next hop, or a failed call, *)
(* gives the reference back. *)
LEMMA CreateNextHopIds ==
  ASSUME IdsInv, NEW k \in Keys, NEW a \in FreeIds(ArpIds, arpPool),
         NEW n \in FreeIds(NhIds, nhPool), NEW fault, CreateNextHop(k, a, n, fault)
  PROVE  IdsInv'
PROOF
<1> DEFINE w == Wanted(k)
           t == AddNexthop(St(w), k, a, n, fault)
           s == AllocIpuc(k, a, n, fault)
           fresh == s.ok /\ nhObj[s.e.nh] = NoKey
           z == IF s.ok /\ ~fresh THEN FreeIpuc(s, k, s.e.nh) ELSE s
<1>1. /\ Become(k, z)
      /\ nhObj' = IF fresh THEN [nhObj EXCEPT ![s.e.nh] = k] ELSE nhObj
      /\ nexthopCnt' = IF fresh THEN nexthopCnt + 1 ELSE nexthopCnt
  BY DEF CreateNextHop
<1>2. hostRoute' = hostRoute /\ rifs' = rifs /\ missAct' = missAct /\ fdb' = fdb
      /\ events' = events /\ neighborCnt' = neighborCnt
      /\ status' \in {"SUCCESS", "FAILURE"}
  BY DEF CreateNextHop, Return, rifVars, fdbVars
<1>3. s = IF t.ok THEN [t EXCEPT !.e.ref = @ + 1] ELSE RemovedDb(t, TRUE)
  BY DEF AllocIpuc
<1>4. WantedOk(k, w)
  BY WantedFact
<1> HIDE DEF w
<1>5. Tried(k, w, t)
  <2>1. Start(k, St(w)) /\ St(w).e = w
    BY <1>4, StartFact DEF WantedOk
  <2> QED BY <2>1, TriedFact
<1>6. UsedBy(k, nb[k], nhObj) /\ nb[k] \in Records /\ nhObj \in [NhIds -> Keys \cup {NoKey}]
  BY DEF IdsInv, UserInv, TypeOK
<1> HIDE DEF t, s
<1>7. t \in Sts /\ t.e.in = TRUE /\ t.e.exists = nb[k].exists /\ t.e.ref = nb[k].ref
      /\ nb[k].ref \in {0, 1, 2} /\ arpPool \subseteq t.arp /\ nhPool \subseteq t.nh
  BY <1>4, <1>5 DEF WantedOk, Tried, SameUsers
<1>8. CASE ~t.ok /\ nb[k].ref # 2
  <2>1. s = [t EXCEPT !.e = Empty] /\ s.ok = t.ok /\ s.e = Empty
    BY <1>3, <1>7, <1>8 DEF RemovedDb, RemoveDb, Sts
  <2>2. Fits(k, s)
    BY <1>7, <2>1, DeleteFits
  <2>3. z = s /\ nhObj' = nhObj /\ nexthopCnt' = nexthopCnt
    BY <1>1, <1>8, <2>1
  <2>4. RestTyped'
    BY <1>2, <2>3 DEF RestTyped, IdsInv, TypeOK
  <2>5. UsedBy(k, s.e, nhObj') /\ Become(k, s)
    BY <1>1, <2>1, <2>3, BlankUsed
  <2> QED BY <2>2, <2>3, <2>4, <2>5, BecomeIds
<1>9. CASE ~t.ok /\ nb[k].ref = 2
  <2>1. nb[k].in /\ nb[k].exists = TRUE
    BY <1>4, <1>6, <1>9 DEF WantedOk, UsedBy, Records
  <2>2. (t.e.exists /\ TRUE) = TRUE /\ ~(2 <= 1) /\ 2 - 1 = 1
    BY <1>7, <2>1
  <2>3. s = [t EXCEPT !.e = [t.e EXCEPT !.exists = TRUE, !.ref = 1]]
    BY <1>3, <1>7, <1>9, <2>2 DEF RemovedDb, RemoveDb
  <2>4. /\ s \in Sts /\ s.arp = t.arp /\ s.nh = t.nh /\ s.e.arp = t.e.arp /\ s.ok = t.ok
        /\ s.e.nh = t.e.nh /\ s.e.in = TRUE /\ s.e.exists = TRUE /\ s.e.ref = 1
    BY <1>7, <2>3 DEF Sts, Records
  <2>5. z = s /\ nhObj' = nhObj /\ nexthopCnt' = nexthopCnt
    BY <1>1, <1>9, <2>4
  <2>6. Fits(k, s)
    BY <1>5, <2>1, <2>4 DEF Tried, Fits, IdsOk, PoolsKeep
  <2>7. RestTyped'
    BY <1>2, <2>5 DEF RestTyped, IdsInv, TypeOK
  <2>8. UsedBy(k, s.e, nhObj') /\ Become(k, s)
    BY <1>1, <2>4, <2>5 DEF UsedBy
  <2> QED BY <2>5, <2>6, <2>7, <2>8, BecomeIds
<1>10. CASE t.ok
  <2>1. s = [t EXCEPT !.e.ref = @ + 1]
    BY <1>3, <1>10
  <2>2. /\ s \in Sts /\ s.arp = t.arp /\ s.nh = t.nh /\ s.e.arp = t.e.arp /\ s.ok = TRUE
        /\ s.e.nh = t.e.nh /\ s.e.in = TRUE /\ s.e.exists = nb[k].exists
        /\ s.e.ref = nb[k].ref + 1
    BY <1>7, <1>10, <2>1 DEF Sts, Records
  <2>3. /\ IdsOk(k, s) /\ Fits(k, s) /\ s.e.nh \in NhIds
        /\ nb[k].in => s.e.nh = nb[k].nh
    BY <1>5, <1>10, <2>2 DEF Tried, Fits, IdsOk, PoolsKeep, Sts, Records
  <2>4. CASE fresh
    <3>1. z = s /\ nhObj' = [nhObj EXCEPT ![s.e.nh] = k] /\ nexthopCnt' = nexthopCnt + 1
      BY <1>1, <2>4
    <3>2. nhObj'[s.e.nh] = k /\ nhObj' \in [NhIds -> Keys \cup {NoKey}]
      BY <1>6, <2>3, <3>1
    <3>3. nb[k].ref # 2 /\ (nb[k].ref = 1 => nb[k].exists = TRUE)
      BY <1>4, <1>6, <2>3, <2>4, NoKeyFact DEF UsedBy, WantedOk, Records
    <3>4. UsedBy(k, s.e, nhObj')
      BY <1>7, <2>2, <3>2, <3>3 DEF UsedBy
    <3>5. RestTyped'
      BY <1>2, <3>1, <3>2 DEF RestTyped, IdsInv, TypeOK
    <3>6. \A j \in Keys : (j # k /\ nhObj[nb[j].nh] = j) => nhObj'[nb[j].nh] = j
      BY <1>6, <2>3, <2>4, <3>1, NoKeyFact
    <3> QED BY <1>1, <2>3, <3>1, <3>4, <3>5, <3>6, BecomeIds
  <2>5. CASE ~fresh
    <3>1. z = FreeIpuc(s, k, s.e.nh) /\ nhObj' = nhObj /\ nexthopCnt' = nexthopCnt
      BY <1>1, <2>2, <2>5
    <3>2. RestTyped'
      BY <1>2, <3>1 DEF RestTyped, IdsInv, TypeOK
    <3> HIDE DEF fresh, z
    <3>3. CASE nb[k].ref = 0
      <4> DEFINE r == RemoveNexthop(s, k)
      <4>1. z = RemovedDb(r, TRUE)
        <5>1. s.e.in = TRUE /\ s.e.ref = 1
          BY <2>2, <3>3
        <5> QED BY <3>1, <5>1, FreeIpucLast
      <4>2. Removed(s, r) /\ Fits(k, [r EXCEPT !.e = Empty])
        BY <1>7, <2>2, <2>3, RemoveNexthopFact, DeleteFits
      <4> HIDE DEF r
      <4>3. r \in Sts /\ r.e.in = TRUE /\ r.e.ref = 1
        BY <2>2, <3>3, <4>2 DEF Removed, SameUsers
      <4>4. z = [r EXCEPT !.e = Empty] /\ z.e = Empty
        BY <4>1, <4>3 DEF RemovedDb, RemoveDb, Sts
      <4>5. UsedBy(k, z.e, nhObj')
        BY <4>4, BlankUsed
      <4> QED BY <1>1, <3>1, <3>2, <4>2, <4>4, <4>5, BecomeIds
    <3>4. CASE nb[k].ref # 0
      <4>1. z = [s EXCEPT !.e.ref = @ - 1]
        <5>1. s.e.in = TRUE /\ s.e.ref # 1
          BY <1>7, <2>2, <3>4
        <5> QED BY <3>1, <5>1, FreeIpucMore
      <4>2. /\ z \in Sts /\ z.arp = s.arp /\ z.nh = s.nh /\ z.e.arp = s.e.arp
            /\ z.e.nh = s.e.nh /\ z.e.in = TRUE /\ z.e.exists = nb[k].exists
            /\ z.e.ref = nb[k].ref
        <5>1. s.e.ref - 1 = nb[k].ref /\ nb[k].ref \in Nat
          BY <1>7, <2>2
        <5>2. z = [s EXCEPT !.e = [s.e EXCEPT !.ref = nb[k].ref]]
          BY <2>2, <4>1, <5>1 DEF Sts, Records
        <5> QED BY <2>2, <5>1, <5>2 DEF Sts, Records
      <4>3. Fits(k, z)
        BY <2>2, <2>3, <4>2 DEF Fits, IdsOk, PoolsKeep
      <4>4. nb[k].in /\ UsedBy(k, z.e, nhObj')
        BY <1>4, <1>6, <2>3, <3>1, <3>4, <4>2 DEF UsedBy, WantedOk
      <4> QED BY <1>1, <3>1, <3>2, <4>3, <4>4, BecomeIds
    <3> QED BY <3>3, <3>4
  <2> QED BY <2>4, <2>5
<1> QED BY <1>8, <1>9, <1>10

(* remove_next_hop takes the record only when nobody else uses it. *)
LEMMA RemoveNextHopIds ==
  ASSUME IdsInv, NEW n \in NhIds, RemoveNextHop(n)
  PROVE  IdsInv'
PROOF
<1> DEFINE k == nhObj[n]
           s == St(nb[k])
           z == FreeIpuc(s, k, n)
<1>1. k \in Keys /\ nb[k] \in Records /\ UsedBy(k, nb[k], nhObj)
      /\ (~nb[k].in => nb[k] = Empty) /\ nhObj \in [NhIds -> Keys \cup {NoKey}]
  BY DEF RemoveNextHop, IdsInv, TypeOK, UserInv, RecordInv
<1>2. Become(k, z) /\ nhObj' = [nhObj EXCEPT ![n] = NoKey] /\ nexthopCnt' = nexthopCnt - 1
  BY DEF RemoveNextHop
<1>3. nhObj' \in [NhIds -> Keys \cup {NoKey}]
  BY <1>1, <1>2
<1>4. RestTyped'
  BY <1>2, <1>3 DEF RemoveNextHop, Return, rifVars, fdbVars, RestTyped, IdsInv, TypeOK
<1>5. \A j \in Keys : (j # k /\ nhObj[nb[j].nh] = j) => nhObj'[nb[j].nh] = j
  BY <1>1, <1>2
<1>6. Start(k, s) /\ s.e = nb[k]
  BY <1>1, StartFact
<1>7. IdsOk(k, s) /\ s \in Sts /\ s.arp = arpPool /\ s.nh = nhPool
  BY <1>1, <1>6 DEF Start, IdsOk, IdsInv, IdsUnique
<1>8. Fits(k, s)
  BY <1>1, <1>6, <1>7 DEF Fits, PoolsKeep, IdsInv, RecordInv
<1> HIDE DEF s
<1>9. CASE ~nb[k].in \/ nb[k].nh # n
  <2>1. z = s
    BY <1>6, <1>9 DEF FreeIpuc
  <2>2. nb[k].in => nhObj'[nb[k].nh] = nhObj[nb[k].nh]
    BY <1>1, <1>2, <1>9
  <2>3. UsedBy(k, s.e, nhObj')
    BY <1>1, <1>6, <2>2 DEF UsedBy
  <2> HIDE DEF k, z
  <2> QED BY <1>1, <1>2, <1>4, <1>5, <1>8, <2>1, <2>3, BecomeIds
<1>10. CASE nb[k].in /\ nb[k].nh = n /\ nb[k].ref = 1
  <2> DEFINE r == RemoveNexthop(s, k)
  <2>1. s.e.in = TRUE /\ s.e.ref = 1 /\ s.e.nh = n
    BY <1>1, <1>6, <1>10 DEF Records
  <2> HIDE DEF k
  <2>2. z = RemovedDb(r, TRUE)
    BY <2>1, FreeIpucLast
  <2>3. Removed(s, r) /\ Fits(k, [r EXCEPT !.e = Empty])
    BY <1>7, RemoveNexthopFact, DeleteFits
  <2> HIDE DEF r, z
  <2>4. r \in Sts /\ r.e.in = TRUE /\ r.e.ref = 1
    BY <2>1, <2>3 DEF Removed, SameUsers
  <2>5. z = [r EXCEPT !.e = Empty] /\ z.e = Empty
    BY <2>2, <2>4 DEF RemovedDb, RemoveDb, Sts
  <2>6. UsedBy(k, z.e, nhObj')
    BY <2>5, BlankUsed
  <2> QED BY <1>1, <1>2, <1>4, <1>5, <2>3, <2>5, <2>6, BecomeIds
<1>11. CASE nb[k].in /\ nb[k].nh = n /\ nb[k].ref # 1
  <2>1. s.e.in = TRUE /\ s.e.ref = 2 /\ s.e.nh = n /\ s.e.exists = TRUE
    BY <1>1, <1>6, <1>11 DEF Records, UsedBy
  <2> HIDE DEF k
  <2>2. z = [s EXCEPT !.e.ref = @ - 1]
    <3>1. s.e.in = TRUE /\ s.e.ref # 1 /\ n = s.e.nh
      BY <2>1
    <3> QED BY <3>1, FreeIpucMore
  <2>3. z = [s EXCEPT !.e = [s.e EXCEPT !.ref = 1]]
    BY <1>7, <2>1, <2>2, 2 - 1 = 1 DEF Sts, Records
  <2> HIDE DEF z
  <2>4. /\ z \in Sts /\ z.arp = s.arp /\ z.nh = s.nh /\ z.e.arp = s.e.arp
        /\ z.e.nh = s.e.nh /\ z.e.in = TRUE /\ z.e.exists = TRUE /\ z.e.ref = 1
    BY <1>7, <2>1, <2>3 DEF Sts, Records
  <2>5. Fits(k, z)
    BY <1>8, <2>1, <2>4 DEF Fits, IdsOk, PoolsKeep
  <2>6. UsedBy(k, z.e, nhObj')
    BY <2>4 DEF UsedBy
  <2> QED BY <1>1, <1>2, <1>4, <1>5, <2>5, <2>6, BecomeIds
<1> QED BY <1>9, <1>10, <1>11

(* Steps that leave the records, the pools and the next hop objects alone. *)
LEMMA OthersIds ==
  ASSUME IdsInv, TypeOK', UNCHANGED <<nb, arpPool, nhPool, nhObj>>
  PROVE  IdsInv'
BY DEF IdsInv, IdsUnique, RecordInv, UserInv

(* The changes of the interfaces underneath. *)
LEMMA RifIds == ASSUME IdsInv, RifNext PROVE IdsInv'
PROOF
<1>1. ASSUME NEW r \in Rifs, RemoveRif(r) PROVE IdsInv'
  BY <1>1, OthersIds
  DEF RemoveRif, Return, dbVars, fdbVars, cntVars, IdsInv, TypeOK
<1>2. ASSUME NEW r \in Rifs, CreateRif(r) PROVE IdsInv'
  BY <1>2, OthersIds
  DEF CreateRif, Return, dbVars, fdbVars, cntVars, IdsInv, TypeOK, Acts, Supported, ToCpu
<1>3. ASSUME NEW r \in Rifs, NEW act \in MissActs, SetMissAction(r, act) PROVE IdsInv'
  <2>1. act \in Acts
    BY NeighborAssumption
  <2> QED BY <1>3, <2>1, OthersIds
          DEF SetMissAction, Return, dbVars, fdbVars, cntVars, IdsInv, TypeOK
<1> QED BY <1>1, <1>2, <1>3 DEF RifNext

(* What update_arp and remove_all write to the SDK has its type. *)
LEMMA HwTyped ==
  ASSUME hwArp \in ArpTables, hwNh \in NhTables, NEW f \in [Keys -> Records],
         NEW K \in SUBSET Keys, NEW tbl \in [L2Rifs \X Macs -> Ports \cup {NoPort}]
  PROVE  HwArpAfter(f, K, tbl) \in ArpTables /\ HwNhAfter(f, K, tbl) \in NhTables
PROOF
<1>1. HwArpAfter(f, K, tbl) \in ArpTables
  <2> DEFINE W == {k \in K : Writable(f, k) /\ Rif(k) \notin BridgeRifs}
             user(x) == CHOOSE k \in W : f[k].arp = x
             val(x) == IF \E k \in W : f[k].arp = x
                       THEN ArpParam(tbl, user(x), f[user(x)]) ELSE hwArp[x]
  <2>1. HwArpAfter(f, K, tbl) = [x \in ArpIds |-> val(x)]
    BY DEF HwArpAfter
  <2>2. ASSUME NEW x \in ArpIds PROVE val(x) \in Adjacencies \cup {NoHw}
    <3>1. CASE \E k \in W : f[k].arp = x
      <4>1. user(x) \in W
        BY <3>1
      <4>2. ArpParam(tbl, user(x), f[user(x)]) \in Adjacencies
        <5> DEFINE u == user(x)
        <5>1. u \in Keys /\ f[u] \in Records /\ Rif(u) \notin BridgeRifs
          BY <4>1
        <5> HIDE DEF u
        <5> QED BY <5>1, ParamTypes DEF u
      <4> QED BY <3>1, <4>2
    <3>2. CASE ~\E k \in W : f[k].arp = x
      BY <3>2 DEF ArpTables
    <3> QED BY <3>1, <3>2
  <2> HIDE DEF val
  <2> QED BY <2>1, <2>2 DEF ArpTables
<1>2. HwNhAfter(f, K, tbl) \in NhTables
  <2> DEFINE W == {k \in K : Writable(f, k) /\ Rif(k) \in BridgeRifs}
             user(x) == CHOOSE k \in W : f[k].nh = x
             val(x) == IF \E k \in W : f[k].nh = x
                       THEN [misc |-> MiscParam(tbl, user(x), f[user(x)])] ELSE hwNh[x]
  <2>1. HwNhAfter(f, K, tbl) = [x \in NhIds |-> val(x)]
    BY DEF HwNhAfter
  <2>2. ASSUME NEW x \in NhIds
        PROVE  val(x) \in [arp : ArpIds] \cup [misc : Adjacencies] \cup {NoHw}
    <3>1. CASE \E k \in W : f[k].nh = x
      <4>1. user(x) \in W
        BY <3>1
      <4>2. MiscParam(tbl, user(x), f[user(x)]) \in Adjacencies
        <5> DEFINE u == user(x)
        <5>1. u \in Keys /\ f[u] \in Records /\ Rif(u) \in BridgeRifs
          BY <4>1
        <5> HIDE DEF u
        <5> QED BY <5>1, ParamTypes DEF u
      <4> QED BY <3>1, <4>2
    <3>2. CASE ~\E k \in W : f[k].nh = x
      BY <3>2 DEF NhTables
    <3> QED BY <3>1, <3>2
  <2> HIDE DEF val
  <2> QED BY <2>1, <2>2 DEF NhTables
<1> QED BY <1>1, <1>2

(* FDB changes reach the hardware and nothing else. *)
LEMMA FdbIds == ASSUME IdsInv, FdbNext PROVE IdsInv'
PROOF
<1>1. ASSUME NEW K \in SUBSET Keys, UpdateArp(K, fdb'), UNCHANGED nhObj,
             fdb' \in [L2Rifs \X Macs -> Ports \cup {NoPort}], RestTyped'
      PROVE  IdsInv'
  <2> DEFINE tbl == fdb'
  <2>1. hwArp' = HwArpAfter(nb, K, tbl) /\ hwNh' = HwNhAfter(nb, K, tbl)
        /\ UNCHANGED <<nb, arpPool, nhPool>>
    BY <1>1 DEF UpdateArp
  <2>2. tbl \in [L2Rifs \X Macs -> Ports \cup {NoPort}]
    BY <1>1
  <2> HIDE DEF tbl
  <2>3. hwArp' \in ArpTables /\ hwNh' \in NhTables
    BY <1>1, <2>1, <2>2, HwTyped DEF IdsInv, TypeOK
  <2> QED BY <1>1, <2>1, <2>3, OthersIds DEF IdsInv, TypeOK, RestTyped
<1>2. ASSUME NEW r \in L2Rifs, NEW mac \in Macs, NEW port \in Ports \cup {NoPort},
             ChangeFdb(r, mac, port)
      PROVE  IdsInv'
  <2>1. fdb' \in [L2Rifs \X Macs -> Ports \cup {NoPort}]
    BY <1>2 DEF ChangeFdb, IdsInv, TypeOK
  <2>2. RestTyped'
    BY <1>2, <2>1 DEF ChangeFdb, Return, rifVars, cntVars, RestTyped, IdsInv, TypeOK
  <2> QED BY <1>1, <1>2, <2>1, <2>2 DEF ChangeFdb, Behind
<1>3. ASSUME NEW r \in L2Rifs, FlushFdb(r) PROVE IdsInv'
  <2>1. fdb' \in [L2Rifs \X Macs -> Ports \cup {NoPort}]
    BY <1>3, NeighborAssumption DEF FlushFdb, IdsInv, TypeOK
  <2>2. RestTyped'
    BY <1>3, <2>1 DEF FlushFdb, Return, rifVars, cntVars, RestTyped, IdsInv, TypeOK
  <2> QED BY <1>1, <1>3, <2>1, <2>2 DEF FlushFdb, BehindAny
<1>4. ASSUME NEW r \in L2Rifs, NEW mac \in Macs, NEW port \in Ports \cup {NoPort},
             HwChangeFdb(r, mac, port)
      PROVE  IdsInv'
  <2>1. fdb' \in [L2Rifs \X Macs -> Ports \cup {NoPort}] /\ events' \subseteq L2Rifs \X Macs
    BY <1>4 DEF HwChangeFdb, IdsInv, TypeOK
  <2> QED BY <1>4, <2>1, OthersIds DEF HwChangeFdb, dbVars, rifVars, cntVars, IdsInv, TypeOK
<1>5. ASSUME NEW r \in L2Rifs, NEW mac \in Macs, FdbEvent(r, mac) PROVE IdsInv'
  <2>1. fdb' = fdb /\ UpdateArp(Behind(r, mac), fdb) /\ UNCHANGED nhObj
    BY <1>5 DEF FdbEvent
  <2>2. RestTyped'
    BY <1>5 DEF FdbEvent, rifVars, cntVars, RestTyped, IdsInv, TypeOK
  <2>3. UpdateArp(Behind(r, mac), fdb')
    BY <2>1
  <2> QED BY <1>1, <2>1, <2>2, <2>3 DEF Behind, IdsInv, TypeOK
<1> QED BY <1>2, <1>3, <1>4, <1>5 DEF FdbNext

(* remove_all: the records that go give back ids that no other record has. *)
LEMMA RemoveAllIds == ASSUME IdsInv, RemoveAll PROVE IdsInv'
PROOF
<1> DEFINE dead == {k \in Keys : nb[k].exists /\ nb[k].ref <= 1}
           kept == {k \in Keys : nb[k].exists /\ nb[k].ref > 1}
           freed == {k \in dead : Rif(k) \in rifs}
           arps == {nb[k].arp : k \in {x \in freed : Rif(x) \notin BridgeRifs}}
           nhs == {nb[k].nh : k \in freed}
           left == [k \in Keys |-> IF k \in kept THEN Orphaned(k) ELSE nb[k]]
           arpHw == HwArpAfter(left, kept, fdb)
           nhHw == HwNhAfter(left, kept, fdb)
           gone == {RouteOf(k) : k \in {x \in dead \cup kept : DropHostRoute(x)}}
<1>1. /\ nb' = [k \in Keys |-> IF k \in dead \cup kept THEN RemoveDb(left[k], FALSE)
                               ELSE nb[k]]
      /\ arpPool' = arpPool \ arps /\ nhPool' = nhPool \ nhs
      /\ hwArp' = [x \in ArpIds |-> IF x \in arps THEN NoHw ELSE arpHw[x]]
      /\ hwNh' = [x \in NhIds |-> IF x \in nhs THEN NoHw ELSE nhHw[x]]
      /\ hostRoute' = [x \in RouteKeys |-> IF x \in gone THEN 0 ELSE hostRoute[x]]
      /\ neighborCnt' = (neighborCnt - Cardinality({k \in Keys : nb[k].in})) % CntWrap
      /\ status' \in {"SUCCESS", "FAILURE"}
      /\ nhObj' = nhObj /\ rifs' = rifs /\ missAct' = missAct /\ fdb' = fdb
      /\ events' = events /\ nexthopCnt' = nexthopCnt
  BY DEF RemoveAll, Return, rifVars, fdbVars
<1>2. \A k \in Keys : /\ nb[k] \in Records /\ UsedBy(k, nb[k], nhObj)
                      /\ (~nb[k].in => nb[k] = Empty)
  BY DEF IdsInv, TypeOK, UserInv, RecordInv
<1>3. ASSUME NEW k \in Keys, nb[k].exists
      PROVE  nb[k].in = TRUE /\ nb[k].exists = TRUE /\ nb[k].ref \in {1, 2}
  BY <1>2, <1>3 DEF UsedBy, Empty, Records
<1>4. \A k \in Keys : OrphanedOk(k, Orphaned(k))
  BY OrphanedFact
<1>5. left \in [Keys -> Records]
  BY <1>2, <1>4 DEF OrphanedOk
<1>6. arpHw \in ArpTables /\ nhHw \in NhTables
  <2>1. kept \in SUBSET Keys
    OBVIOUS
  <2> HIDE DEF kept, left
  <2> QED BY <1>5, <2>1, HwTyped DEF IdsInv, TypeOK
<1> HIDE DEF arpHw, nhHw
<1>7. hwArp' \in ArpTables /\ hwNh' \in NhTables
  BY <1>1, <1>6 DEF ArpTables, NhTables
<1>8. hostRoute' \in [RouteKeys -> NhIds \cup {0}]
  BY <1>1 DEF IdsInv, TypeOK
<1>9. neighborCnt' \in Nat
  <2>1. Cardinality({k \in Keys : nb[k].in}) \in Nat
    BY NeighborAssumption, FS_Subset, FS_CardinalityType
  <2>2. neighborCnt - Cardinality({k \in Keys : nb[k].in}) \in Int
    BY <2>1 DEF IdsInv, TypeOK
  <2> QED BY <1>1, <2>2, WrapTyped
<1>10. ASSUME NEW k \in Keys
       PROVE  \/ k \in dead /\ nb'[k] = Empty
              \/ /\ k \notin dead /\ k \in kept /\ nb[k].in /\ nb[k].ref = 2
                 /\ nb[k].exists = TRUE
                 /\ nb'[k] = [Orphaned(k) EXCEPT !.exists = FALSE, !.ref = 1]
              \/ k \notin dead /\ nb'[k] = nb[k]
  <2>1. nb[k].exists => nb[k].in = TRUE /\ nb[k].exists = TRUE /\ nb[k].ref \in {1, 2}
    BY <1>3
  <2>2. k \in dead <=> nb[k].exists /\ nb[k].ref = 1
    BY <2>1
  <2>3. k \in kept <=> nb[k].exists /\ nb[k].ref = 2
    BY <2>1
  <2>4. left[k] = IF k \in kept THEN Orphaned(k) ELSE nb[k]
    OBVIOUS
  <2>5. nb'[k] = IF k \in dead \cup kept THEN RemoveDb(left[k], FALSE) ELSE nb[k]
    BY <1>1
  <2> HIDE DEF dead, kept, left
  <2>6. CASE k \in dead
    <3>1. nb'[k] = RemoveDb(nb[k], FALSE)
      <4>1. k \notin kept
        BY <2>2, <2>3, <2>6
      <4> QED BY <2>4, <2>5, <2>6, <4>1
    <3>2. nb[k].in = TRUE /\ nb[k].exists = TRUE /\ nb[k].ref <= 1
      BY <2>1, <2>2, <2>6
    <3> QED BY <2>6, <3>1, <3>2 DEF RemoveDb
  <2>7. CASE k \in kept
    <3> DEFINE o == Orphaned(k)
    <3>1. nb'[k] = RemoveDb(o, FALSE) /\ k \notin dead
      <4>1. k \notin dead
        BY <2>2, <2>3, <2>7
      <4> QED BY <2>4, <2>5, <2>7, <4>1
    <3>2. nb[k].in = TRUE /\ nb[k].exists = TRUE /\ nb[k].ref = 2
      BY <2>1, <2>3, <2>7
    <3>3. o \in Records /\ o.in = TRUE /\ o.exists = TRUE /\ o.ref = 2
      BY <1>4, <3>2 DEF OrphanedOk, SameUsers
    <3> HIDE DEF o
    <3>4. (o.exists /\ FALSE) = FALSE /\ ~(2 <= 1) /\ 2 - 1 = 1
      OBVIOUS
    <3>5. RemoveDb(o, FALSE) = [o EXCEPT !.exists = FALSE, !.ref = 1]
      BY <3>3, <3>4 DEF RemoveDb
    <3> QED BY <2>7, <3>1, <3>2, <3>5 DEF o
  <2>8. CASE k \notin dead \cup kept
    BY <2>5, <2>8
  <2> QED BY <2>6, <2>7, <2>8
<1> HIDE DEF dead, kept, left
<1>11. ASSUME NEW k \in Keys
       PROVE  /\ nb'[k] \in Records
              /\ nb'[k].in => /\ k \notin dead /\ nb[k].in = TRUE
                              /\ nb'[k].arp = nb[k].arp /\ nb'[k].nh = nb[k].nh
              /\ ~nb'[k].in => nb'[k] = Empty
              /\ UsedBy(k, nb'[k], nhObj)
  <2>1. CASE nb'[k] = Empty
    <3>1. Empty.in = FALSE
      BY DEF Empty
    <3> QED BY <2>1, <3>1, EmptyTyped, BlankUsed
  <2>2. CASE k \notin dead /\ nb'[k] = nb[k]
    BY <1>2, <2>2 DEF Records
  <2>3. CASE /\ k \notin dead /\ nb[k].in /\ nb[k].ref = 2 /\ nb[k].exists = TRUE
             /\ nb'[k] = [Orphaned(k) EXCEPT !.exists = FALSE, !.ref = 1]
    <3>1. OrphanedOk(k, Orphaned(k)) /\ UsedBy(k, nb[k], nhObj) /\ nb[k] \in Records
      BY <1>2, <1>4
    <3>2. /\ nb'[k] \in Records /\ nb'[k].arp = nb[k].arp /\ nb'[k].nh = nb[k].nh
          /\ nb'[k].in = TRUE /\ nb'[k].exists = FALSE /\ nb'[k].ref = 1 /\ nb[k].in = TRUE
      <4> DEFINE o == Orphaned(k)
      <4>1. o \in Records /\ o.arp = nb[k].arp /\ o.nh = nb[k].nh /\ o.in = TRUE
            /\ nb[k].in = TRUE
        BY <2>3, <3>1 DEF OrphanedOk, SameUsers, Records
      <4>2. nb'[k] = [o EXCEPT !.exists = FALSE, !.ref = 1]
        BY <2>3
      <4> HIDE DEF o
      <4> DEFINE v == [o EXCEPT !.exists = FALSE, !.ref = 1]
      <4>3. /\ v \in Records /\ v.arp = o.arp /\ v.nh = o.nh /\ v.in = o.in
            /\ v.exists = FALSE /\ v.ref = 1
        BY <4>1 DEF Records
      <4> HIDE DEF v
      <4> QED BY <4>1, <4>2, <4>3 DEF v
    <3>3. UsedBy(k, nb'[k], nhObj)
      BY <2>3, <3>1, <3>2 DEF UsedBy
    <3> QED BY <2>3, <3>2, <3>3
  <2> QED BY <1>10, <2>1, <2>2, <2>3
<1>12. nb' \in [Keys -> Records]
  BY <1>1, <1>11
<1>13. TypeOK'
  BY <1>1, <1>7, <1>8, <1>9, <1>12 DEF IdsInv, TypeOK
<1>14. UserInv'
  BY <1>1, <1>11 DEF UserInv
<1>15. RecordInv'
  BY <1>11 DEF IdsInv, RecordInv
<1>16. \A k \in Keys : ~nb'[k].in => nb'[k].arp = 0 /\ nb'[k].nh = 0
  <2>1. Empty.arp = 0 /\ Empty.nh = 0
    BY DEF Empty
  <2> QED BY <1>11, <2>1
<1>17. ASSUME NEW k \in Keys
       PROVE  /\ nb'[k].arp # 0 => nb'[k].arp \in arpPool'
              /\ nb'[k].nh # 0 => nb'[k].nh \in nhPool'
  <2>1. CASE ~nb'[k].in
    BY <1>16, <2>1
  <2>2. CASE nb'[k].in
    <3>1. k \notin freed /\ nb'[k].arp = nb[k].arp /\ nb'[k].nh = nb[k].nh
      BY <1>11, <2>2
    <3>2. freed \subseteq Keys
      BY DEF dead
    <3>3. nb[k].arp # 0 => nb[k].arp \in arpPool /\ nb[k].arp \notin arps
      BY <3>1, <3>2 DEF IdsInv, IdsUnique
    <3>4. nb[k].nh # 0 => nb[k].nh \in nhPool /\ nb[k].nh \notin nhs
      BY <3>1, <3>2 DEF IdsInv, IdsUnique
    <3> HIDE DEF arps, nhs
    <3> QED BY <1>1, <3>1, <3>3, <3>4
  <2> QED BY <2>1, <2>2
<1>18. ASSUME NEW i \in Keys, NEW j \in Keys, i # j
       PROVE  /\ nb'[i].arp = nb'[j].arp => nb'[i].arp = 0
              /\ nb'[i].nh = nb'[j].nh => nb'[i].nh = 0
  <2>1. CASE ~nb'[i].in \/ ~nb'[j].in
    BY <1>16, <2>1
  <2>2. CASE nb'[i].in /\ nb'[j].in
    BY <1>11, <1>18, <2>2 DEF IdsInv, IdsUnique
  <2> QED BY <2>1, <2>2
<1>19. IdsUnique'
  BY <1>17, <1>18 DEF IdsUnique
<1> QED BY <1>13, <1>14, <1>15, <1>19 DEF IdsInv

-----------------------------------------------------------------------------
(* The invariant holds at first. *)
LEMMA InitIds == Init => IdsInv
PROOF
<1> SUFFICES ASSUME Init PROVE IdsInv
  OBVIOUS
<1>1. nb = [k \in Keys |-> Empty] /\ \A k \in Keys : nb[k] = Empty
  BY DEF Init
<1>2. TypeOK
  BY <1>1, EmptyTyped
  DEF Init, TypeOK, ArpTables, NhTables, Acts, Supported, ToCpu
<1>3. IdsUnique /\ RecordInv /\ UserInv
  BY <1>1 DEF IdsUnique, RecordInv, UserInv, UsedBy, Empty
<1> QED BY <1>2, <1>3 DEF IdsInv

(* Every handler keeps it. *)
LEMMA NextIds == IdsInv /\ [Next]_vars => IdsInv'
PROOF
<1> SUFFICES ASSUME IdsInv, [Next]_vars PROVE IdsInv'
  OBVIOUS
<1>1. CASE UNCHANGED vars
  BY <1>1, OthersIds
  DEF vars, dbVars, rifVars, fdbVars, cntVars, IdsInv, TypeOK
<1>2. ASSUME NEW k \in Keys, KeyNext(k) PROVE IdsInv'
  <2>1. CASE CreateExisting(k)
    BY <2>1, OthersIds
    DEF CreateExisting, Return, dbVars, rifVars, fdbVars, cntVars, IdsInv, TypeOK
  <2>2. CASE RemoveMissing(k)
    BY <2>2, OthersIds
    DEF RemoveMissing, Return, dbVars, rifVars, fdbVars, cntVars, IdsInv, TypeOK
  <2>3. CASE CreateWithoutMac(k)
    BY <2>3, CreateWithoutMacIds
  <2>4. CASE \E on \in BOOLEAN, fault \in Failing : SetNoHostRoute(k, on, fault)
    BY <2>4, SetNoHostRouteIds
  <2>5. ASSUME NEW a \in FreeIds(ArpIds, arpPool), NEW n \in FreeIds(NhIds, nhPool),
               NEW fault \in Failing, RecordNext(k, a, n, fault)
        PROVE  IdsInv'
    <3>1. CASE \E mac \in Macs, act \in CreateActs, host \in HostAttrs :
                 CreateNeighbor(k, mac, act, host, a, n, fault)
      BY <3>1, CreateNeighborIds
    <3>2. CASE RemoveNeighbor(k, a, n, fault)
      BY <3>2, RemoveNeighborIds
    <3>3. CASE \E mac \in Macs : SetMac(k, mac, a, n, fault)
      BY <3>3, SetMacIds
    <3>4. CASE \E act \in SetActs : SetAction(k, act, a, n, fault)
      BY <3>4, SetActionIds
    <3>5. CASE CreateNextHop(k, a, n, fault)
      BY <3>5, CreateNextHopIds
    <3> QED BY <2>5, <3>1, <3>2, <3>3, <3>4, <3>5 DEF RecordNext
  <2> QED BY <1>2, <2>1, <2>2, <2>3, <2>4, <2>5 DEF KeyNext
<1>3. ASSUME NEW n \in NhIds, RemoveNextHop(n) PROVE IdsInv'
  BY <1>3, RemoveNextHopIds
<1>4. CASE RemoveAll
  BY <1>4, RemoveAllIds
<1>5. CASE RifNext
  BY <1>5, RifIds
<1>6. CASE FdbNext
  BY <1>6, FdbIds
<1> QED BY <1>1, <1>2, <1>3, <1>4, <1>5, <1>6 DEF Next

(* The invariant holds of every run of the module. *)
LEMMA IdsInvariant == Spec => []IdsInv
PROOF
<1>1. Init => IdsInv
  BY InitIds
<1>2. IdsInv /\ [Next]_vars => IdsInv'
  BY NextIds
<1> QED BY <1>1, <1>2, PTL DEF Spec

(* The neighbor database keeps its types through every handler, every SDK *)
(* failure and every FDB event. *)
THEOREM TypeCorrect == Spec => []TypeOK
PROOF
<1>1. IdsInv => TypeOK
  BY DEF IdsInv
<1> QED BY <1>1, IdsInvariant, PTL

(* Whatever SDK call fails and whatever interface goes away under its *)
(* neighbors, no two records share an ARP id or a next hop id, and no id of *)
(* a record is free in its pool. *)
THEOREM IdsAreUnique == Spec => []IdsUnique
PROOF
<1>1. IdsInv => IdsUnique
  BY DEF IdsInv
<1> QED BY <1>1, IdsInvariant, PTL

------------------------------------------------------------------------------
(***************************************************************************)
(* What Neighbor promises when its callers and the SDK keep to the rules *)
(* (SoundCalls): users and counters, pools, host routes and adjacencies *)
(* are exact. The argument: ExactInv is inductive on top of IdsInv. Every *)
(* handler that writes a record leaves it Provided, Released or Refused, *)
(* and each invariant is shown once for those three outcomes. *)
(***************************************************************************)

(* The rules: create_neighbor is given its mandatory MAC and packet actions *)
(* that exist, no interface is removed under its records, and the SDK *)
(* refuses only new entries: an update of an entry it has succeeds. *)
SoundCalls ==
  /\ MacAttrs \subseteq {TRUE} /\ CreateActs \subseteq Supported
  /\ MissActs \subseteq Supported /\ ~BusyRifRemoved
  /\ Faults \subseteq {"add_arp", "add_nh"}

(* What the SDK has for a record, unless the FDB event of its MAC is queued.*)
HwFor(k, e, A, N, tbl, evs) ==
  LET seen == <<Rif(k), e.mac>> \notin evs
  IN IF Rif(k) \in BridgeRifs THEN seen => N[e.nh] = [misc |-> MiscParam(tbl, k, e)]
     ELSE N[e.nh] = [arp |-> e.arp] /\ (seen => A[e.arp] = ArpParam(tbl, k, e))

(* The users of a record, given the next hop objects. *)
One(b) == IF b THEN 1 ELSE 0
Users(k, e, obj) == One(e.exists) + One(obj[e.nh] = k)
UsersOk(k, e, obj) ==
  /\ e.in => e.ref = Users(k, e, obj)
  /\ \A n \in NhIds : obj[n] = k => e.in /\ e.nh = n
ActOk(k, e) == Rif(k) \in rifs /\ (Rif(k) \notin BridgeRifs => e.act \in Supported)

UsersInv == \A k \in Keys : UsersOk(k, nb[k], nhObj)
ActsInv == /\ \A k \in Keys : nb[k].in => ActOk(k, nb[k])
           /\ \A r \in Rifs : missAct[r] \in Supported
BridgeInv == \A k \in Keys : Rif(k) \in BridgeRifs => nb[k].arp = 0
HwInv == \A k \in Keys : nb[k].in => HwFor(k, nb[k], hwArp, hwNh, fdb, events)
ExactInv == UsersInv /\ ActsInv /\ BridgeInv /\ HwInv

-----------------------------------------------------------------------------
(* Everything of a record but its two ids. *)
SameRecord(e, f) ==
  /\ SameUsers(e, f) /\ f.noHost = e.noHost /\ f.act = e.act /\ f.mac = e.mac

(* The SDK is told the MAC and the action, so a record that changes neither *)
(* nor its ids is as fresh as before. *)
LEMMA HwSame ==
  ASSUME NEW k, NEW e, NEW f, NEW A, NEW N, NEW tbl, NEW evs,
         f.mac = e.mac, f.act = e.act, f.arp = e.arp, f.nh = e.nh,
         HwFor(k, e, A, N, tbl, evs)
  PROVE  HwFor(k, f, A, N, tbl, evs)
BY DEF HwFor, ArpParam, MiscParam

(* add_arp_entry, exactly: what it writes when it succeeds, and that an *)
(* update is only ever refused for its packet action. *)
ArpExact(k, s, t, fault) ==
  /\ SameRecord(s.e, t.e) /\ t.nh = s.nh /\ t.hwNh = s.hwNh
  /\ t.ok => /\ s.e.act \in Supported /\ t.arp = s.arp \cup {t.e.arp}
             /\ t.hwArp = [s.hwArp EXCEPT ![t.e.arp] = ArpParam(fdb, k, s.e)]
  /\ ~t.ok => /\ t.arp = s.arp /\ t.hwArp = s.hwArp
              /\ (s.e.arp # 0 /\ fault # "update_arp") => s.e.act \notin Supported

(* add_arp_entry on an entry the SDK has does not fail; a new one is refused *)
(* with the pools and the tables as they were. *)
LEMMA AddArpExact ==
  ASSUME NEW k, NEW s \in Sts, s.ok = TRUE, NEW a \in ArpIds \cup {0}, NEW fault
  PROVE  ArpExact(k, s, AddArpEntry(s, k, a, fault), fault)
PROOF
<1> DEFINE t == AddArpEntry(s, k, a, fault)
           named == [s EXCEPT !.e.arp = IF s.e.arp = 0 THEN a ELSE @]
           x == named.e.arp
           v == ArpParam(fdb, k, s.e)
<1> SUFFICES ArpExact(k, s, t, fault)
  OBVIOUS
<1>1. CASE s.e.arp = 0 /\ a = 0
  BY <1>1 DEF AddArpEntry, Fail, Sts, ArpExact, SameRecord, SameUsers
<1>2. CASE ~(s.e.arp = 0 /\ a = 0)
  <2>1. /\ SameRecord(s.e, named.e) /\ named.arp = s.arp /\ named.nh = s.nh
        /\ named.hwArp = s.hwArp /\ named.hwNh = s.hwNh /\ named.ok = TRUE
        /\ named \in Sts
    BY DEF Sts, SameRecord, SameUsers, Records
  <2>2. CASE s.e.act \notin Supported \/ fault = (IF s.e.arp = 0 THEN "add_arp" ELSE "update_arp")
    <3>1. t = Fail(named)
      BY <1>2, <2>2 DEF AddArpEntry
    <3> HIDE DEF t, named
    <3> QED BY <2>1, <2>2, <3>1 DEF Fail, Sts, ArpExact, SameRecord, SameUsers
  <2>3. CASE ~(s.e.act \notin Supported \/ fault = (IF s.e.arp = 0 THEN "add_arp" ELSE "update_arp"))
    <3>1. t = [named EXCEPT !.arp = @ \cup {x}, !.hwArp[x] = v]
      BY <1>2, <2>3 DEF AddArpEntry
    <3> HIDE DEF t, named, v
    <3>2. /\ t.e = named.e /\ t.nh = named.nh /\ t.hwNh = named.hwNh /\ t.ok = named.ok
          /\ t.arp = named.arp \cup {x} /\ t.hwArp = [named.hwArp EXCEPT ![x] = v]
      BY <2>1, <3>1 DEF Sts
    <3> QED BY <2>1, <2>3, <3>2 DEF ArpExact, v
  <2> QED BY <2>2, <2>3
<1> QED BY <1>1, <1>2

(* add_ipuc_nexthop and the bridge half of add_nexthop, exactly. *)
NhExact(s, t, v, n, fault) ==
  /\ SameRecord(s.e, t.e) /\ t.arp = s.arp /\ t.hwArp = s.hwArp
  /\ t.ok => /\ t.nh = s.nh \cup {t.e.nh} /\ t.hwNh = [s.hwNh EXCEPT ![t.e.nh] = v]
  /\ ~t.ok => /\ t.hwNh = s.hwNh
              /\ IF s.e.nh = 0 THEN n = 0 \/ fault = "add_nh" ELSE fault = "update_nh"

(* The hardware next hop of a routed interface forwards through the ARP id. *)
LEMMA AddIpucExact ==
  ASSUME NEW s \in Sts, s.ok = TRUE, s.e.nh # 0 => s.e.nh \in s.nh,
         NEW n \in NhIds \cup {0}, NEW fault
  PROVE  NhExact(s, AddIpucNexthop(s, n, fault), [arp |-> s.e.arp], n, fault)
PROOF
<1>1. CASE s.e.nh = 0
  BY <1>1 DEF AddIpucNexthop, Fail, Sts, Records, NhExact, SameRecord, SameUsers
<1>2. CASE s.e.nh # 0
  BY <1>2 DEF AddIpucNexthop, Fail, Sts, Records, NhExact, SameRecord, SameUsers
<1> QED BY <1>1, <1>2

(* The one of a bridge interface carries the MAC and the port itself. *)
LEMMA AddMiscExact ==
  ASSUME NEW k, NEW s \in Sts, s.ok = TRUE, s.e.nh # 0 => s.e.nh \in s.nh,
         NEW n \in NhIds \cup {0}, NEW fault
  PROVE  NhExact(s, AddMiscNexthop(s, k, n, fault), [misc |-> MiscParam(fdb, k, s.e)],
                 n, fault)
PROOF
<1>1. CASE s.e.nh = 0
  BY <1>1 DEF AddMiscNexthop, Fail, Sts, Records, NhExact, SameRecord, SameUsers
<1>2. CASE s.e.nh # 0
  BY <1>2 DEF AddMiscNexthop, Fail, Sts, Records, NhExact, SameRecord, SameUsers
<1> QED BY <1>1, <1>2

(* The three outcomes for the record a handler writes: in the database with *)
(* its entry in the SDK; out of it, its ids and its entries given back; and *)
(* never in it, when only unused ids and entries are lost. *)
Elsewhere(s, i, j) ==
  /\ \A x \in ArpIds \ {i} : s.hwArp[x] = hwArp[x]
  /\ \A x \in NhIds \ {j} : s.hwNh[x] = hwNh[x]
Named(k, e) ==
  /\ e.nh \in NhIds /\ (IF Rif(k) \in BridgeRifs THEN e.arp = 0 ELSE e.arp \in ArpIds)
  /\ IF nb[k].in THEN e.arp = nb[k].arp /\ e.nh = nb[k].nh
     ELSE e.arp \notin arpPool /\ e.nh \notin nhPool
Provided(k, s) ==
  /\ s \in Sts /\ s.e.in = TRUE /\ ActOk(k, s.e) /\ Named(k, s.e)
  /\ s.arp = arpPool \cup ({s.e.arp} \ {0}) /\ s.nh = nhPool \cup {s.e.nh}
  /\ Elsewhere(s, s.e.arp, s.e.nh)
  /\ HwFor(k, s.e, s.hwArp, s.hwNh, fdb, events)
Released(k, s) ==
  /\ s \in Sts /\ s.e = Empty
  /\ s.arp = arpPool \ {nb[k].arp} /\ s.nh = nhPool \ {nb[k].nh}
  /\ Elsewhere(s, nb[k].arp, nb[k].nh)
Refused(k, s) ==
  /\ s \in Sts /\ ~nb[k].in /\ arpPool \subseteq s.arp /\ nhPool \subseteq s.nh
  /\ \A x \in arpPool : s.hwArp[x] = hwArp[x]
  /\ \A x \in nhPool : s.hwNh[x] = hwNh[x]
Exhausted(n, fault) == n = 0 \/ fault = "add_nh"
SoundFaults == {"add_arp", "add_nh", "none"}
Outcome(k, e, t, n, fault) ==
  /\ SameRecord(e, t.e)
  /\ t.ok => Provided(k, t)
  /\ (~t.ok /\ ~nb[k].in) =>
       /\ Refused(k, t)
       /\ Exhausted(n, fault) \/ (t.arp = arpPool /\ t.nh = nhPool)
  /\ (~t.ok /\ nb[k].in) =>
       /\ Rif(k) \notin BridgeRifs /\ e.act \notin Supported
       /\ t.arp = arpPool /\ t.nh = nhPool /\ t.hwArp = hwArp /\ t.hwNh = hwNh

(* add_nexthop on the record of a handler: a record of the database is *)
(* refused for its packet action alone. *)
LEMMA ProvideFact ==
  ASSUME IdsInv, ExactInv, NEW k \in Keys, NEW e \in Records, e.in = TRUE,
         e.arp = nb[k].arp, e.nh = nb[k].nh,
         NEW a \in FreeIds(ArpIds, arpPool), NEW n \in FreeIds(NhIds, nhPool),
         NEW fault \in SoundFaults
  PROVE  Outcome(k, e, AddNexthop(St(e), k, a, n, fault), n, fault)
PROOF
<1> DEFINE s == St(e)
           t == AddNexthop(s, k, a, n, fault)
<1> SUFFICES Outcome(k, e, t, n, fault)
  OBVIOUS
<1>1. /\ s \in Sts /\ s.e = e /\ s.ok = TRUE /\ s.arp = arpPool /\ s.nh = nhPool
      /\ s.hwArp = hwArp /\ s.hwNh = hwNh
  BY DEF St, Sts, IdsInv, TypeOK
<1>2. /\ a \in ArpIds \cup {0} /\ a \notin arpPool /\ n \in NhIds \cup {0} /\ n \notin nhPool
      /\ 0 \notin ArpIds /\ 0 \notin NhIds /\ 0 \notin arpPool
  BY FreeIdsFact, NeighborAssumption DEF IdsInv, TypeOK
<1>3. Added(s, t, k, a, n)
  BY <1>1, <1>2, AddNexthopFact DEF IdsInv, TypeOK
<1>4. /\ e.nh # 0 => e.nh \in s.nh
      /\ Rif(k) \in BridgeRifs => e.arp = 0
      /\ IF nb[k].in
         THEN e.nh # 0 /\ (Rif(k) \notin BridgeRifs => e.arp # 0) /\ Rif(k) \in rifs
         ELSE e.nh = 0 /\ e.arp = 0
  BY <1>1 DEF IdsInv, IdsUnique, RecordInv, ExactInv, BridgeInv, ActsInv, ActOk, Empty
<1>5. e.nh \in NhIds \cup {0} /\ e.arp \in ArpIds \cup {0}
  BY DEF Records
<1> HIDE DEF s
<1>6. CASE Rif(k) \notin rifs
  <2>1. t = Fail(s)
    BY <1>6 DEF AddNexthop
  <2> HIDE DEF t
  <2> QED BY <1>1, <1>4, <1>6, <2>1
          DEF Fail, Sts, Outcome, SameRecord, SameUsers, Refused
<1>7. CASE Rif(k) \in rifs /\ Rif(k) \in BridgeRifs
  <2>1. t = AddMiscNexthop(s, k, n, fault)
    BY <1>7 DEF AddNexthop
  <2>2. NhExact(s, t, [misc |-> MiscParam(fdb, k, e)], n, fault)
    <3>1. s.e.nh # 0 => s.e.nh \in s.nh
      BY <1>1, <1>4
    <3>2. NhExact(s, AddMiscNexthop(s, k, n, fault),
                  [misc |-> MiscParam(fdb, k, s.e)], n, fault)
      BY <1>1, <1>2, <3>1, AddMiscExact
    <3> QED BY <1>1, <2>1, <3>2
  <2> HIDE DEF t
  <2>3. t \in Sts /\ t.e.nh \in {e.nh, n} /\ (e.nh # 0 => t.e.nh = e.nh)
        /\ SameRecord(e, t.e) /\ t.e.arp = 0
        /\ t.arp = arpPool /\ nhPool \subseteq t.nh /\ t.hwArp = hwArp
    BY <1>1, <1>3, <1>4, <1>7, <2>2 DEF Added, NhExact
  <2>4. CASE t.ok
    <3>1. t.e.nh \in NhIds /\ t.nh = nhPool \cup {t.e.nh}
          /\ t.hwNh = [hwNh EXCEPT ![t.e.nh] = [misc |-> MiscParam(fdb, k, e)]]
      BY <1>1, <1>2, <1>3, <1>5, <2>2, <2>3, <2>4 DEF NhExact, Added
    <3>2. t.hwNh[t.e.nh] = [misc |-> MiscParam(fdb, k, e)]
          /\ \A x \in NhIds \ {t.e.nh} : t.hwNh[x] = hwNh[x]
      BY <3>1 DEF IdsInv, TypeOK, NhTables
    <3>3. MiscParam(fdb, k, t.e) = MiscParam(fdb, k, e)
      BY <2>3 DEF MiscParam, SameRecord
    <3>4. HwFor(k, t.e, t.hwArp, t.hwNh, fdb, events)
      BY <1>7, <3>2, <3>3 DEF HwFor
    <3>5. Named(k, t.e)
      BY <1>2, <1>4, <1>7, <2>3, <3>1 DEF Named
    <3>6. ActOk(k, t.e) /\ t.e.in = TRUE
      BY <1>7, <2>3 DEF ActOk, SameRecord, SameUsers
    <3>7. Provided(k, t)
      BY <2>3, <3>1, <3>2, <3>4, <3>5, <3>6 DEF Provided, Elsewhere
    <3> QED BY <2>3, <2>4, <3>7 DEF Outcome
  <2>5. CASE ~t.ok
    <3>1. t.hwNh = hwNh /\ e.nh = 0 /\ Exhausted(n, fault)
      BY <1>1, <2>2, <2>5 DEF NhExact, Exhausted, SoundFaults
    <3>2. ~nb[k].in
      BY <1>4, <3>1
    <3> QED BY <2>3, <2>5, <3>1, <3>2 DEF Outcome, Refused
  <2> QED BY <2>4, <2>5
<1>8. CASE Rif(k) \in rifs /\ Rif(k) \notin BridgeRifs
  <2> DEFINE u == AddArpEntry(s, k, a, fault)
  <2>1. t = IF u.ok THEN AddIpucNexthop(u, n, fault) ELSE u
    BY <1>8 DEF AddNexthop
  <2>2. ArpAdded(s, u, a) /\ ArpExact(k, s, u, fault)
    BY <1>1, <1>2, <1>8, AddArpFact, AddArpExact DEF IdsInv, TypeOK
  <2> HIDE DEF u, t
  <2>3. CASE ~u.ok
    <3>1. t = u
      BY <2>1, <2>3
    <3>2. t.arp = arpPool /\ t.nh = nhPool /\ t.hwArp = hwArp /\ t.hwNh = hwNh
          /\ SameRecord(e, t.e) /\ ~t.ok /\ t \in Sts
      BY <1>1, <2>2, <2>3, <3>1 DEF ArpExact, ArpAdded
    <3>3. nb[k].in => e.act \notin Supported
      BY <1>1, <1>4, <1>8, <2>2, <2>3 DEF ArpExact, SoundFaults
    <3> QED BY <1>8, <3>2, <3>3 DEF Outcome, Refused
  <2>4. CASE u.ok
    <3>1. /\ u \in Sts /\ u.ok = TRUE /\ u.e.arp \in ArpIds /\ u.e.nh = e.nh /\ u.nh = nhPool
          /\ SameRecord(e, u.e) /\ u.e.arp \in {e.arp, a} /\ (e.arp # 0 => u.e.arp = e.arp)
          /\ e.act \in Supported /\ u.arp = arpPool \cup {u.e.arp} /\ u.hwNh = hwNh
          /\ u.hwArp = [hwArp EXCEPT ![u.e.arp] = ArpParam(fdb, k, e)]
      BY <1>1, <2>2, <2>4 DEF ArpAdded, ArpExact, Sts, Records
    <3>2. t = AddIpucNexthop(u, n, fault)
      BY <2>1, <2>4
    <3>3. NhExact(u, t, [arp |-> u.e.arp], n, fault) /\ NhAdded(u, t, n)
      BY <1>1, <1>2, <1>4, <3>1, <3>2, AddIpucExact, AddIpucFact
    <3>4. /\ t \in Sts /\ SameRecord(e, t.e) /\ t.e.arp = u.e.arp /\ t.arp = u.arp
          /\ t.hwArp = u.hwArp /\ t.e.nh \in {e.nh, n} /\ (e.nh # 0 => t.e.nh = e.nh)
          /\ nhPool \subseteq t.nh
      BY <3>1, <3>3 DEF NhExact, NhAdded, SameRecord, SameUsers
    <3>5. /\ hwArp \in ArpTables /\ t.hwArp[t.e.arp] = ArpParam(fdb, k, e)
          /\ \A x \in ArpIds \ {t.e.arp} : t.hwArp[x] = hwArp[x]
      BY <3>1, <3>4 DEF IdsInv, TypeOK, ArpTables
    <3>6. CASE t.ok
      <4>1. t.e.nh \in NhIds /\ t.nh = nhPool \cup {t.e.nh}
            /\ t.hwNh = [hwNh EXCEPT ![t.e.nh] = [arp |-> t.e.arp]]
        BY <1>2, <1>5, <3>1, <3>3, <3>4, <3>6 DEF NhExact, NhAdded
      <4>2. t.hwNh[t.e.nh] = [arp |-> t.e.arp]
            /\ \A x \in NhIds \ {t.e.nh} : t.hwNh[x] = hwNh[x]
        BY <4>1 DEF IdsInv, TypeOK, NhTables
      <4>3. ArpParam(fdb, k, t.e) = ArpParam(fdb, k, e)
        BY <3>4 DEF ArpParam, SameRecord
      <4>4. HwFor(k, t.e, t.hwArp, t.hwNh, fdb, events)
        BY <1>8, <3>5, <4>2, <4>3 DEF HwFor
      <4>5. Named(k, t.e)
        BY <1>2, <1>4, <1>8, <3>1, <3>4, <4>1 DEF Named
      <4>6. ActOk(k, t.e) /\ t.e.in = TRUE
        BY <1>8, <3>1, <3>4 DEF ActOk, SameRecord, SameUsers
      <4>7. t.arp = arpPool \cup ({t.e.arp} \ {0})
        BY <1>2, <3>1, <3>4
      <4>8. Provided(k, t)
        BY <3>4, <3>5, <4>1, <4>2, <4>4, <4>5, <4>6, <4>7 DEF Provided, Elsewhere
      <4> QED BY <3>4, <3>6, <4>8 DEF Outcome
    <3>7. CASE ~t.ok
      <4>1. t.hwNh = hwNh /\ e.nh = 0 /\ Exhausted(n, fault)
        BY <3>1, <3>3, <3>7 DEF NhExact, Exhausted, SoundFaults
      <4>2. ~nb[k].in /\ e.arp = 0
        BY <1>4, <4>1
      <4>3. \A x \in arpPool : t.hwArp[x] = hwArp[x]
        BY <1>2, <3>1, <3>4, <3>5, <4>2 DEF IdsInv, TypeOK
      <4> QED BY <3>1, <3>4, <3>7, <4>1, <4>2, <4>3 DEF Outcome, Refused
    <3> QED BY <3>6, <3>7
  <2> QED BY <2>3, <2>4
<1> QED BY <1>6, <1>7, <1>8

-----------------------------------------------------------------------------
(* remove_nexthop gives back the ids of a record with an interface, and the *)
(* entries under them. *)
LEMMA ReleaseFact ==
  ASSUME IdsInv, ExactInv, NEW k \in Keys, nb[k].in
  PROVE  LET r == RemoveNexthop(St(nb[k]), k)
         IN Released(k, [r EXCEPT !.e = Empty]) /\ r \in Sts /\ SameUsers(nb[k], r.e)
PROOF
<1> DEFINE s == St(nb[k])
           u == FreeNh(s)
           r == RemoveNexthop(s, k)
<1>1. /\ s \in Sts /\ s.e = nb[k] /\ s.arp = arpPool /\ s.nh = nhPool
      /\ s.hwArp = hwArp /\ s.hwNh = hwNh
  BY DEF St, Sts, IdsInv, TypeOK
<1>2. /\ nb[k].nh # 0 /\ Rif(k) \in rifs /\ 0 \notin arpPool
      /\ IF Rif(k) \in BridgeRifs THEN nb[k].arp = 0 ELSE nb[k].arp # 0
  BY NeighborAssumption
  DEF IdsInv, TypeOK, RecordInv, ExactInv, BridgeInv, ActsInv, ActOk
<1> HIDE DEF s
<1>3. /\ u \in Sts /\ SameUsers(nb[k], u.e) /\ u.arp = arpPool /\ u.hwArp = hwArp
      /\ u.e.arp = nb[k].arp /\ u.nh = nhPool \ {nb[k].nh}
      /\ \A x \in NhIds \ {nb[k].nh} : u.hwNh[x] = hwNh[x]
  <2>1. u \in Sts /\ SameUsers(s.e, u.e) /\ u.arp = s.arp /\ u.e.arp = s.e.arp
    BY <1>1, FreeNhFact
  <2>2. u = [s EXCEPT !.nh = @ \ {s.e.nh}, !.hwNh[s.e.nh] = NoHw, !.e.nh = 0]
    BY <1>1, <1>2 DEF FreeNh
  <2> HIDE DEF u
  <2>3. u.nh = s.nh \ {s.e.nh} /\ u.hwArp = s.hwArp
        /\ u.hwNh = [s.hwNh EXCEPT ![s.e.nh] = NoHw]
    BY <1>1, <2>2 DEF Sts
  <2> QED BY <1>1, <2>1, <2>3 DEF Sts, NhTables
<1> HIDE DEF u
<1>4. CASE Rif(k) \in BridgeRifs
  <2>1. r = u
    BY <1>2, <1>4 DEF RemoveNexthop, u
  <2> QED BY <1>2, <1>3, <1>4, <2>1, EmptyTyped DEF Released, Elsewhere, Sts, s
<1>5. CASE Rif(k) \notin BridgeRifs
  <2>1. r = FreeArp(u)
    BY <1>2, <1>5 DEF RemoveNexthop, u
  <2>2. r \in Sts /\ SameUsers(u.e, r.e) /\ r.nh = u.nh
    BY <1>3, <2>1, FreeArpFact
  <2>3. r = [u EXCEPT !.arp = @ \ {u.e.arp}, !.hwArp[u.e.arp] = NoHw, !.e.arp = 0]
    BY <1>2, <1>3, <1>5, <2>1 DEF FreeArp
  <2> HIDE DEF r
  <2>4. r.arp = u.arp \ {u.e.arp} /\ r.hwNh = u.hwNh
        /\ r.hwArp = [u.hwArp EXCEPT ![u.e.arp] = NoHw]
    BY <1>3, <2>3 DEF Sts
  <2>5. /\ r.arp = arpPool \ {nb[k].arp} /\ r.nh = nhPool \ {nb[k].nh}
        /\ \A x \in ArpIds \ {nb[k].arp} : r.hwArp[x] = hwArp[x]
        /\ \A x \in NhIds \ {nb[k].nh} : r.hwNh[x] = hwNh[x]
        /\ SameUsers(nb[k], r.e)
    BY <1>3, <2>2, <2>4 DEF Sts, ArpTables, SameUsers
  <2>6. /\ [r EXCEPT !.e = Empty] \in Sts /\ [r EXCEPT !.e = Empty].e = Empty
        /\ [r EXCEPT !.e = Empty].arp = r.arp /\ [r EXCEPT !.e = Empty].nh = r.nh
        /\ [r EXCEPT !.e = Empty].hwArp = r.hwArp /\ [r EXCEPT !.e = Empty].hwNh = r.hwNh
    BY <2>2, EmptyTyped DEF Sts
  <2> QED BY <2>2, <2>5, <2>6 DEF Released, Elsewhere, r, s
<1> QED BY <1>4, <1>5

(* None of the three outcomes touches the entries of another record. *)
Ended(k, s) ==
  Provided(k, s) \/ Released(k, s) \/ (Refused(k, s) /\ s.e = Empty)
(* What ended at k was not the hardware entry of another record. *)
LEMMA OthersUndisturbed ==
  ASSUME IdsInv, NEW k \in Keys, NEW s, Ended(k, s), NEW j \in Keys, j # k, nb[j].in
  PROVE  /\ s.hwNh[nb[j].nh] = hwNh[nb[j].nh]
         /\ Rif(j) \notin BridgeRifs => s.hwArp[nb[j].arp] = hwArp[nb[j].arp]
PROOF
<1>1. /\ nb[j].nh \in nhPool /\ nb[j].nh \in NhIds /\ nb[j].nh # nb[k].nh
      /\ Rif(j) \notin BridgeRifs => /\ nb[j].arp \in arpPool /\ nb[j].arp \in ArpIds
                                     /\ nb[j].arp # nb[k].arp /\ nb[j].arp # 0
  BY DEF IdsInv, TypeOK, IdsUnique, RecordInv
<1>2. CASE Provided(k, s)
  BY <1>1, <1>2 DEF Provided, Named, Elsewhere
<1>3. CASE Released(k, s)
  BY <1>1, <1>3 DEF Released, Elsewhere
<1>4. CASE Refused(k, s)
  BY <1>1, <1>4 DEF Refused
<1> QED BY <1>2, <1>3, <1>4 DEF Ended

(* The invariant after a handler that writes one record. *)
LEMMA BecomeExact ==
  ASSUME IdsInv, ExactInv, NEW k \in Keys, NEW s, Become(k, s), Ended(k, s),
         UsersOk(k, s.e, nhObj'),
         \A j \in Keys \ {k} : \A n \in NhIds : nhObj'[n] = j <=> nhObj[n] = j,
         UNCHANGED <<rifs, missAct, fdb, events>>
  PROVE  ExactInv'
PROOF
<1>1. /\ nb'[k] = s.e /\ \A j \in Keys : j # k => nb'[j] = nb[j]
      /\ hwArp' = s.hwArp /\ hwNh' = s.hwNh
  BY DEF IdsInv, TypeOK, Become
<1>2. \A j \in Keys : nb[j] \in Records /\ (nb[j].in => nb[j].nh \in NhIds)
  BY DEF IdsInv, TypeOK, RecordInv, Records
<1>3. s.e.in => Provided(k, s)
  BY DEF Ended, Released, Empty
<1>4. UsersInv'
  <2> SUFFICES ASSUME NEW j \in Keys PROVE UsersOk(j, nb'[j], nhObj')
    BY DEF UsersInv
  <2>1. CASE j = k
    BY <1>1, <2>1
  <2>2. CASE j # k
    BY <1>1, <1>2, <2>2 DEF ExactInv, UsersInv, UsersOk, Users
  <2> QED BY <2>1, <2>2
<1>5. ActsInv'
  <2> SUFFICES ASSUME NEW j \in Keys, nb'[j].in PROVE ActOk(j, nb[j])'
    BY DEF ActsInv, ExactInv, ActOk
  <2>1. CASE j = k
    BY <1>1, <1>3, <2>1 DEF Provided, ActOk
  <2>2. CASE j # k
    BY <1>1, <2>2 DEF ExactInv, ActsInv, ActOk
  <2> QED BY <2>1, <2>2
<1>6. BridgeInv'
  <2> SUFFICES ASSUME NEW j \in Keys, Rif(j) \in BridgeRifs PROVE nb'[j].arp = 0
    BY DEF BridgeInv
  <2>1. CASE j = k
    BY <1>1, <2>1 DEF Ended, Provided, Named, Released, Empty
  <2>2. CASE j # k
    BY <1>1, <2>2 DEF ExactInv, BridgeInv
  <2> QED BY <2>1, <2>2
<1>7. HwInv'
  <2> SUFFICES ASSUME NEW j \in Keys, nb'[j].in
               PROVE  HwFor(j, nb'[j], hwArp', hwNh', fdb', events')
    BY DEF HwInv
  <2>1. CASE j = k
    BY <1>1, <1>3, <2>1 DEF Provided
  <2>2. CASE j # k
    <3>1. nb'[j] = nb[j] /\ nb[j].in /\ HwFor(j, nb[j], hwArp, hwNh, fdb, events)
      BY <1>1, <2>2 DEF ExactInv, HwInv
    <3>2. /\ hwNh'[nb[j].nh] = hwNh[nb[j].nh]
          /\ Rif(j) \notin BridgeRifs => hwArp'[nb[j].arp] = hwArp[nb[j].arp]
      BY <1>1, <2>2, <3>1, OthersUndisturbed
    <3> QED BY <3>1, <3>2 DEF HwFor
  <2> QED BY <2>1, <2>2
<1> QED BY <1>4, <1>5, <1>6, <1>7 DEF ExactInv

-----------------------------------------------------------------------------
(* A handler that writes record k, and loses pool ids only when the SDK *)
(* refuses a next hop or the NEXTHOP pool is exhausted. *)
LeakFree == "add_nh" \notin Faults /\ ~(NhIds \subseteq nhPool)
WritesAs(k, s) ==
  /\ Become(k, s) /\ Ended(k, s) /\ UsersOk(k, s.e, nhObj')
  /\ (Refused(k, s) /\ ~s.e.in /\ LeakFree) => s.arp = arpPool /\ s.nh = nhPool
  /\ \A j \in Keys \ {k} : \A n \in NhIds : nhObj'[n] = j <=> nhObj[n] = j
  /\ UNCHANGED <<rifs, missAct, fdb, events>>
Writes(k) == \E s : WritesAs(k, s)
KeepsNeighbor(k) ==
  /\ nb'[k].exists = nb[k].exists
  /\ nb[k].exists => nb'[k].noHost = nb[k].noHost /\ nb'[k].nh = nb[k].nh

(* What a handler does to the record besides add_nexthop changes no outcome.*)
LEMMA ProvidedSame ==
  ASSUME NEW k, NEW s, NEW z \in Sts, Provided(k, s), z.e.in = TRUE,
         z.e.mac = s.e.mac, z.e.act = s.e.act, z.e.arp = s.e.arp, z.e.nh = s.e.nh,
         z.arp = s.arp, z.nh = s.nh, z.hwArp = s.hwArp, z.hwNh = s.hwNh
  PROVE  Provided(k, z)
PROOF
<1>1. HwFor(k, z.e, z.hwArp, z.hwNh, fdb, events)
  BY HwSame DEF Provided
<1> QED BY <1>1 DEF Provided, ActOk, Named, Elsewhere

(* A refused record is deleted: remove_db finds no other user. *)
LEMMA RefusedSame ==
  ASSUME NEW k, NEW s, Refused(k, s)
  PROVE  LET z == [s EXCEPT !.e = Empty]
         IN /\ Refused(k, z) /\ z.e = Empty /\ z.arp = s.arp /\ z.nh = s.nh
            /\ Ended(k, z)
PROOF
<1> DEFINE z == [s EXCEPT !.e = Empty]
<1>1. /\ z \in Sts /\ z.e = Empty /\ z.arp = s.arp /\ z.nh = s.nh
      /\ z.hwArp = s.hwArp /\ z.hwNh = s.hwNh
  BY EmptyTyped DEF Refused, Sts
<1> HIDE DEF z
<1>2. Refused(k, z)
  BY <1>1 DEF Refused
<1> QED BY <1>1, <1>2 DEF Ended, z

(* A blank record that had no next hop has no user. *)
LEMMA BlankUsers ==
  ASSUME NEW k, NEW obj, \A n \in NhIds : obj[n] # k
  PROVE  UsersOk(k, Empty, obj)
BY DEF UsersOk, Empty

(* The exhausted pool is the only way ids are offered as 0. *)
LEMMA LeakFact ==
  ASSUME NEW n \in FreeIds(NhIds, nhPool), NEW fault \in Failing, Exhausted(n, fault)
  PROVE  ~LeakFree
BY NeighborAssumption DEF FreeIds, Exhausted, LeakFree, Failing

(* The SDK calls that may fail under the rules. *)
LEMMA SoundFault ==
  ASSUME SoundCalls, NEW fault \in Failing
  PROVE  fault \in SoundFaults /\ fault # "host_route"
BY DEF SoundCalls, Failing, SoundFaults

(* create_neighbor adds a user to the record, or leaves none behind. *)
LEMMA CreateNeighborWrites ==
  ASSUME SoundCalls, IdsInv, ExactInv, NEW k \in Keys, NEW mac \in Macs,
         NEW act \in CreateActs, NEW host \in HostAttrs,
         NEW a \in FreeIds(ArpIds, arpPool), NEW n \in FreeIds(NhIds, nhPool),
         NEW fault \in Failing, CreateNeighbor(k, mac, act, host, a, n, fault)
  PROVE  /\ Writes(k)
         /\ \/ /\ nb'[k].exists = TRUE /\ neighborCnt' = (neighborCnt + 1) % CntWrap
               /\ hostRoute' = IF nb'[k].noHost THEN hostRoute
                               ELSE [hostRoute EXCEPT ![RouteOf(k)] = nb'[k].nh]
            \/ nb'[k].exists = FALSE /\ UNCHANGED <<hostRoute, neighborCnt>>
PROOF
<1> DEFINE e == Filled(nb[k], mac, act)
           s == AddNexthop(St(e), k, a, n, fault)
           noHost == IF host = "absent" THEN s.e.noHost ELSE host = "yes"
           routed == [s EXCEPT !.e.noHost = noHost]
           added == [routed EXCEPT !.e.ref = @ + 1]
<1>1. ~nb[k].exists /\ act \in Supported /\ fault \in SoundFaults /\ fault # "host_route"
  BY SoundFault DEF CreateNeighbor, SoundCalls
<1>2. FilledOk(k, e, act)
  BY <1>1, FilledFact DEF Acts
<1>3. \/ ~s.ok /\ Become(k, RemovedDb(s, FALSE)) /\ hostRoute' = hostRoute
         /\ neighborCnt' = neighborCnt
      \/ s.ok /\ Become(k, added)
         /\ hostRoute' = (IF noHost THEN hostRoute
                          ELSE [hostRoute EXCEPT ![RouteOf(k)] = s.e.nh])
         /\ neighborCnt' = (neighborCnt + 1) % CntWrap
  BY <1>1 DEF CreateNeighbor
<1>4. nhObj' = nhObj /\ rifs' = rifs /\ missAct' = missAct /\ fdb' = fdb
      /\ events' = events
  BY DEF CreateNeighbor, rifVars, fdbVars
<1> HIDE DEF e
<1>5. Outcome(k, e, s, n, fault) /\ e.act \in Supported
  BY <1>1, <1>2, ProvideFact DEF FilledOk
<1> HIDE DEF s
<1>6. UsersOk(k, nb[k], nhObj) /\ nb[k] \in Records /\ nb \in [Keys -> Records]
  BY DEF ExactInv, UsersInv, IdsInv, TypeOK
<1>7. CASE ~s.ok /\ Become(k, RemovedDb(s, FALSE)) /\ hostRoute' = hostRoute
           /\ neighborCnt' = neighborCnt
  <2>1. ~nb[k].in /\ Refused(k, s) /\ (Exhausted(n, fault) \/ (s.arp = arpPool /\ s.nh = nhPool))
    BY <1>5, <1>7 DEF Outcome
  <2>2. s.e.in = TRUE /\ s.e.exists = TRUE /\ s.e.ref = 0
    BY <1>2, <1>5, <2>1 DEF Outcome, FilledOk, SameRecord, SameUsers
  <2> DEFINE z == [s EXCEPT !.e = Empty]
  <2>3. RemovedDb(s, FALSE) = z
    BY <2>2 DEF RemovedDb, RemoveDb
  <2>4. Refused(k, z) /\ z.e = Empty /\ z.arp = s.arp /\ z.nh = s.nh /\ Ended(k, z)
    BY <2>1, RefusedSame
  <2> HIDE DEF z
  <2>5. UsersOk(k, z.e, nhObj')
    BY <1>4, <1>6, <2>1, <2>4, BlankUsers DEF UsersOk
  <2>6. WritesAs(k, z)
    BY <1>4, <1>7, <2>1, <2>3, <2>4, <2>5, LeakFact DEF WritesAs
  <2>7. nb'[k].exists = FALSE
    BY <1>6, <2>4, <2>6 DEF WritesAs, Become, Empty
  <2> QED BY <1>7, <2>6, <2>7 DEF Writes
<1>8. CASE s.ok /\ Become(k, added)
           /\ hostRoute' = (IF noHost THEN hostRoute
                            ELSE [hostRoute EXCEPT ![RouteOf(k)] = s.e.nh])
           /\ neighborCnt' = (neighborCnt + 1) % CntWrap
  <2>1. Provided(k, s) /\ SameRecord(e, s.e)
    BY <1>5, <1>8 DEF Outcome
  <2>2. s \in Sts /\ s.e.in = TRUE /\ s.e.exists = TRUE /\ s.e.ref = nb[k].ref
        /\ s.e.nh \in NhIds /\ (nb[k].in => s.e.nh = nb[k].nh)
    BY <1>2, <2>1 DEF Provided, Named, FilledOk, SameRecord, SameUsers
  <2>3. noHost \in BOOLEAN
    BY <2>2 DEF Sts, Records
  <2> HIDE DEF noHost
  <2>4. /\ routed \in Sts /\ routed.arp = s.arp /\ routed.nh = s.nh
        /\ routed.hwArp = s.hwArp /\ routed.hwNh = s.hwNh /\ SameUsers(s.e, routed.e)
        /\ routed.e.arp = s.e.arp /\ routed.e.nh = s.e.nh
        /\ routed.e.mac = s.e.mac /\ routed.e.act = s.e.act /\ routed.e.noHost = noHost
    BY <2>2, <2>3 DEF Sts, Records, SameUsers
  <2> HIDE DEF routed
  <2>5. /\ added \in Sts /\ added.arp = s.arp /\ added.nh = s.nh
        /\ added.hwArp = s.hwArp /\ added.hwNh = s.hwNh
        /\ added.e.arp = s.e.arp /\ added.e.nh = s.e.nh /\ added.e.in = TRUE
        /\ added.e.mac = s.e.mac /\ added.e.act = s.e.act /\ added.e.noHost = noHost
        /\ added.e.exists = TRUE /\ added.e.ref = nb[k].ref + 1
    BY <2>2, <2>4 DEF Sts, Records, SameUsers
  <2> HIDE DEF added
  <2>6. Provided(k, added)
    BY <2>1, <2>5, ProvidedSame
  <2>7. UsersOk(k, added.e, nhObj')
    <3>1. nb[k].ref = One(nhObj[added.e.nh] = k)
      BY <1>1, <1>2, <1>6, <2>2, <2>5 DEF UsersOk, Users, One, FilledOk
    <3>2. Users(k, added.e, nhObj) = 1 + One(nhObj[added.e.nh] = k)
      BY <2>5 DEF Users, One
    <3>3. One(nhObj[added.e.nh] = k) \in Nat
      BY DEF One
    <3>4. added.e.ref = Users(k, added.e, nhObj)
      BY <2>5, <3>1, <3>2, <3>3
    <3> QED BY <1>4, <1>6, <2>2, <2>5, <3>4 DEF UsersOk
  <2>8. WritesAs(k, added)
    BY <1>4, <1>8, <2>5, <2>6, <2>7 DEF WritesAs, Ended
  <2>9. nb'[k] = added.e
    BY <1>6, <1>8 DEF Become
  <2> QED BY <1>8, <2>5, <2>8, <2>9 DEF Writes
<1> QED BY <1>3, <1>7, <1>8

(* What is known of a record that is in the database. *)
LEMMA InDatabase ==
  ASSUME IdsInv, ExactInv, NEW k \in Keys, nb[k].in \/ nb[k].exists
  PROVE  /\ nb[k] \in Records /\ nb[k].in = TRUE /\ nb[k].ref \in {1, 2}
         /\ nb[k].ref = Users(k, nb[k], nhObj) /\ ActOk(k, nb[k])
         /\ nb[k].nh \in NhIds /\ \A n \in NhIds : nhObj[n] = k => nb[k].nh = n
         /\ nb[k].exists \in BOOLEAN
BY DEF IdsInv, TypeOK, RecordInv, UserInv, UsedBy, ExactInv, UsersInv, UsersOk, ActsInv,
       Empty, Records

(* The helpers replace the record of the state they are handed. *)
LEMMA StWith ==
  ASSUME IdsInv, NEW e \in Records, NEW f \in Records
  PROVE  [St(e) EXCEPT !.e = f] = St(f)
PROOF
<1> DEFINE s == St(e)
           t == St(f)
           u == [s EXCEPT !.e = f]
<1>1. s \in Sts /\ t \in Sts /\ t.e = f /\ s.arp = t.arp /\ s.nh = t.nh
      /\ s.hwArp = t.hwArp /\ s.hwNh = t.hwNh /\ s.ok = t.ok
  BY DEF St, Sts, IdsInv, TypeOK
<1> HIDE DEF s, t
<1>2. u \in Sts /\ u.e = f /\ u.arp = s.arp /\ u.nh = s.nh /\ u.hwArp = s.hwArp
      /\ u.hwNh = s.hwNh /\ u.ok = s.ok
  BY <1>1 DEF Sts
<1> HIDE DEF u
<1>3. u = t
  BY <1>1, <1>2 DEF Sts
<1> QED BY <1>3 DEF s, t, u

(* remove_neighbor gives the ids back, or leaves the record to the next hop *)
(* with the miss action of its interface. *)
LEMMA RemoveNeighborWrites ==
  ASSUME SoundCalls, IdsInv, ExactInv, NEW k \in Keys,
         NEW a \in FreeIds(ArpIds, arpPool), NEW n \in FreeIds(NhIds, nhPool),
         NEW fault \in Failing, RemoveNeighbor(k, a, n, fault)
  PROVE  Writes(k) /\ nb'[k].exists = FALSE
PROOF
<1>1. /\ nb[k].exists /\ nhObj' = nhObj /\ rifs' = rifs /\ missAct' = missAct
      /\ fdb' = fdb /\ events' = events /\ Become(k, RemoveOne(St(nb[k]), k, a, n, fault))
  BY DEF RemoveNeighbor, rifVars, fdbVars
<1>2. /\ nb[k] \in Records /\ nb[k].in = TRUE /\ nb[k].ref \in {1, 2}
      /\ nb[k].ref = Users(k, nb[k], nhObj) /\ ActOk(k, nb[k])
      /\ nb[k].nh \in NhIds /\ \A x \in NhIds : nhObj[x] = k => nb[k].nh = x
  BY <1>1, InDatabase
<1>3. nb[k].exists = TRUE /\ nb \in [Keys -> Records] /\ fault \in SoundFaults
  BY <1>1, <1>2, SoundFault DEF Records, IdsInv, TypeOK
<1>4. nb[k].ref = 1 + One(nhObj[nb[k].nh] = k)
  BY <1>2, <1>3 DEF Users, One
<1> DEFINE s == St(nb[k])
<1>5. CASE nb[k].ref = 1
  <2> DEFINE r == RemoveNexthop(s, k)
             z == [r EXCEPT !.e = Empty]
  <2>1. Released(k, z) /\ r \in Sts /\ SameUsers(nb[k], r.e)
    BY <1>2, ReleaseFact
  <2>2. RemoveOne(s, k, a, n, fault) = RemovedDb(r, FALSE)
    BY <1>5 DEF RemoveOne
  <2> HIDE DEF r
  <2>3. r.e.in = TRUE /\ r.e.exists = TRUE /\ r.e.ref = 1
    BY <1>2, <1>3, <1>5, <2>1 DEF SameUsers
  <2>4. RemovedDb(r, FALSE) = z
    BY <2>3 DEF RemovedDb, RemoveDb
  <2> HIDE DEF z
  <2>5. UsersOk(k, z.e, nhObj')
    <3>1. nhObj[nb[k].nh] # k
      BY <1>4, <1>5 DEF One
    <3>2. \A x \in NhIds : nhObj[x] # k
      BY <1>2, <3>1
    <3> QED BY <1>1, <2>1, <3>2, BlankUsers DEF Released
  <2>6. WritesAs(k, z)
    BY <1>1, <1>2, <2>1, <2>2, <2>4, <2>5 DEF WritesAs, Ended, Refused
  <2>7. nb'[k].exists = FALSE
    BY <1>3, <2>1, <2>6 DEF WritesAs, Become, Released, Empty
  <2> QED BY <2>6, <2>7 DEF Writes
<1>6. CASE nb[k].ref = 2
  <2> DEFINE o == Orphaned(k)
             t == AddNexthop(St(o), k, a, n, fault)
             u == RemovedDb(t, FALSE)
  <2>1. OrphanedOk(k, o) /\ o.act \in Supported
    <3>1. OrphanedOk(k, o)
      BY OrphanedFact
    <3>2. missAct[Rif(k)] \in Supported /\ Rif(k) \in rifs
      BY <1>2 DEF ExactInv, ActsInv, ActOk, Keys, Rif
    <3> QED BY <1>2, <3>1, <3>2 DEF Orphaned, Records
  <2>2. RemoveOne(s, k, a, n, fault) = u
    <3>1. [s EXCEPT !.e = o] = St(o)
      BY <1>2, <2>1, StWith DEF OrphanedOk
    <3> QED BY <1>6, <3>1, ~(2 <= 1) DEF RemoveOne
  <2> HIDE DEF o, s
  <2>3. o \in Records /\ o.in = TRUE /\ o.exists = TRUE /\ o.ref = 2
        /\ o.arp = nb[k].arp /\ o.nh = nb[k].nh
    BY <1>2, <1>3, <1>6, <2>1 DEF OrphanedOk, SameUsers
  <2>4. Outcome(k, o, t, n, fault)
    BY <1>3, <2>3, ProvideFact
  <2> HIDE DEF t
  <2>5. Provided(k, t) /\ SameRecord(o, t.e)
    BY <1>2, <2>1, <2>4 DEF Outcome
  <2>6. t \in Sts /\ t.e.in = TRUE /\ t.e.exists = TRUE /\ t.e.ref = 2
        /\ t.e.nh = nb[k].nh
    BY <1>2, <2>3, <2>5 DEF Provided, Named, SameRecord, SameUsers
  <2>7. (t.e.exists /\ FALSE) = FALSE /\ ~(2 <= 1) /\ 2 - 1 = 1
    OBVIOUS
  <2>8. u = [t EXCEPT !.e = [t.e EXCEPT !.exists = FALSE, !.ref = 1]]
    BY <2>6, <2>7 DEF RemovedDb, RemoveDb
  <2> HIDE DEF u
  <2>9. /\ u \in Sts /\ u.arp = t.arp /\ u.nh = t.nh /\ u.hwArp = t.hwArp
        /\ u.hwNh = t.hwNh /\ u.e.arp = t.e.arp /\ u.e.nh = t.e.nh
        /\ u.e.mac = t.e.mac /\ u.e.act = t.e.act
        /\ u.e.in = TRUE /\ u.e.exists = FALSE /\ u.e.ref = 1
    BY <2>6, <2>8 DEF Sts, Records
  <2>10. Provided(k, u)
    BY <2>5, <2>9, ProvidedSame
  <2>11. UsersOk(k, u.e, nhObj')
    BY <1>1, <1>2, <1>4, <1>6, <2>6, <2>9 DEF UsersOk, Users, One
  <2>12. WritesAs(k, u)
    BY <1>1, <2>2, <2>9, <2>10, <2>11 DEF WritesAs, Ended, s
  <2>13. nb'[k].exists = FALSE
    BY <1>3, <2>9, <2>12 DEF WritesAs, Become
  <2> QED BY <2>12, <2>13 DEF Writes
<1> QED BY <1>2, <1>5, <1>6

(* set_neighbor_attribute writes the new record, or puts the old one back. *)
LEMMA SetRecordWrites ==
  ASSUME SoundCalls, IdsInv, ExactInv, NEW k \in Keys, NEW e, OrphanedOk(k, e),
         e.noHost = nb[k].noHost,
         NEW a \in FreeIds(ArpIds, arpPool), NEW n \in FreeIds(NhIds, nhPool),
         NEW fault \in Failing, SetRecord(k, e, a, n, fault)
  PROVE  Writes(k) /\ KeepsNeighbor(k)
PROOF
<1> DEFINE s == AddNexthop(St(e), k, a, n, fault)
           w == IF s.ok THEN s ELSE [s EXCEPT !.e = nb[k]]
<1>1. /\ nb[k].exists /\ nhObj' = nhObj /\ rifs' = rifs /\ missAct' = missAct
      /\ fdb' = fdb /\ events' = events /\ Become(k, w)
  BY DEF SetRecord, rifVars, fdbVars
<1>2. /\ nb[k] \in Records /\ nb[k].in = TRUE
      /\ nb[k].ref = Users(k, nb[k], nhObj) /\ ActOk(k, nb[k])
      /\ nb[k].nh \in NhIds /\ \A x \in NhIds : nhObj[x] = k => nb[k].nh = x
  BY <1>1, InDatabase
<1>3. e \in Records /\ e.in = TRUE /\ e.arp = nb[k].arp /\ e.nh = nb[k].nh
      /\ fault \in SoundFaults /\ nb \in [Keys -> Records]
  BY <1>2, SoundFault DEF OrphanedOk, SameUsers, IdsInv, TypeOK
<1>4. Outcome(k, e, s, n, fault)
  BY <1>3, ProvideFact
<1> HIDE DEF s
<1>5. Provided(k, w) /\ SameUsers(nb[k], w.e) /\ w.e.nh = nb[k].nh
      /\ w.e.noHost = nb[k].noHost
  <2>1. CASE s.ok
    BY <1>2, <1>3, <1>4, <2>1
    DEF Outcome, Provided, Named, SameRecord, SameUsers, OrphanedOk
  <2>2. CASE ~s.ok
    <3>1. s.arp = arpPool /\ s.nh = nhPool /\ s.hwArp = hwArp /\ s.hwNh = hwNh
      BY <1>2, <1>4, <2>2 DEF Outcome
    <3>2. /\ w.e = nb[k] /\ w.arp = arpPool /\ w.nh = nhPool /\ w.hwArp = hwArp
          /\ w.hwNh = hwNh /\ w \in Sts
      <4>1. s \in Sts
        <5>1. Start(k, St(e)) /\ St(e).e = e
          BY <1>3, StartFact
        <5> QED BY <5>1, TriedFact DEF Tried, s
      <4> QED BY <1>2, <2>2, <3>1, <4>1 DEF Sts
    <3> HIDE DEF w
    <3>3. Named(k, w.e)
      BY <1>2, <3>2 DEF Named, IdsInv, RecordInv, ExactInv, BridgeInv, Records
    <3>4. w.arp = arpPool \cup ({w.e.arp} \ {0}) /\ w.nh = nhPool \cup {w.e.nh}
      BY <1>2, <3>2, NeighborAssumption DEF IdsInv, IdsUnique
    <3>5. HwFor(k, w.e, w.hwArp, w.hwNh, fdb, events)
      BY <1>2, <3>2 DEF ExactInv, HwInv
    <3> QED BY <1>2, <3>2, <3>3, <3>4, <3>5 DEF Provided, Elsewhere, SameUsers
  <2> QED BY <2>1, <2>2
<1> HIDE DEF w
<1>6. UsersOk(k, w.e, nhObj')
  BY <1>1, <1>2, <1>5 DEF UsersOk, Users, SameUsers
<1>7. WritesAs(k, w)
  BY <1>1, <1>2, <1>5, <1>6 DEF WritesAs, Ended, Refused
<1>8. KeepsNeighbor(k)
  BY <1>3, <1>5, <1>7 DEF WritesAs, Become, KeepsNeighbor, SameUsers
<1> QED BY <1>7, <1>8 DEF Writes

(* alloc_ipuc_nexthop takes a record of the database as it is. *)
LEMMA WantedKept ==
  ASSUME IdsInv, ExactInv, NEW k \in Keys, nb[k].in
  PROVE  Wanted(k).act = nb[k].act /\ Wanted(k).noHost = nb[k].noHost
PROOF
<1>1. nb[k] \in Records /\ nb[k].ref \in {1, 2} /\ nb[k].exists \in BOOLEAN
  BY InDatabase
<1> DEFINE b == BuildDb(nb[k], TRUE)
<1>2. b.act = nb[k].act /\ b.noHost = nb[k].noHost /\ b.ref = nb[k].ref
  BY <1>1 DEF BuildDb, Records
<1> HIDE DEF b
<1>3. Wanted(k) = b
  <2>1. ~(b.ref = 0)
    BY <1>1, <1>2
  <2> QED BY <2>1, Zenon DEF Wanted, b
<1> QED BY <1>2, <1>3

(* create_next_hop adds a user to the record, or gives the reference back. *)
LEMMA CreateNextHopWrites ==
  ASSUME SoundCalls, IdsInv, ExactInv, NEW k \in Keys,
         NEW a \in FreeIds(ArpIds, arpPool), NEW n \in FreeIds(NhIds, nhPool),
         NEW fault \in Failing, CreateNextHop(k, a, n, fault)
  PROVE  /\ Writes(k) /\ KeepsNeighbor(k)
         /\ \/ \E i \in NhIds : /\ nhObj[i] = NoKey /\ nhObj' = [nhObj EXCEPT ![i] = k]
                                /\ nexthopCnt' = nexthopCnt + 1
            \/ UNCHANGED <<nhObj, nexthopCnt>>
PROOF
<1> DEFINE w == Wanted(k)
           t == AddNexthop(St(w), k, a, n, fault)
           s == AllocIpuc(k, a, n, fault)
           fresh == s.ok /\ nhObj[s.e.nh] = NoKey
           z == IF s.ok /\ ~fresh THEN FreeIpuc(s, k, s.e.nh) ELSE s
<1>1. /\ Become(k, z) /\ rifs' = rifs /\ missAct' = missAct /\ fdb' = fdb
      /\ events' = events
      /\ nhObj' = IF fresh THEN [nhObj EXCEPT ![s.e.nh] = k] ELSE nhObj
      /\ nexthopCnt' = IF fresh THEN nexthopCnt + 1 ELSE nexthopCnt
  BY DEF CreateNextHop, rifVars, fdbVars
<1>2. s = IF t.ok THEN [t EXCEPT !.e.ref = @ + 1] ELSE RemovedDb(t, TRUE)
  BY DEF AllocIpuc
<1>3. WantedOk(k, w) /\ fault \in SoundFaults
  BY WantedFact, SoundFault
<1>4. nb[k].in => w.act = nb[k].act /\ w.noHost = nb[k].noHost
  BY WantedKept
<1> HIDE DEF w
<1>5. Outcome(k, w, t, n, fault)
  BY <1>3, ProvideFact DEF WantedOk
<1>6. /\ UsersOk(k, nb[k], nhObj) /\ nb[k] \in Records /\ nb \in [Keys -> Records]
      /\ nhObj \in [NhIds -> Keys \cup {NoKey}] /\ NoKey \notin Keys
      /\ ~nb[k].in => nb[k].exists = FALSE
  BY NoKeyFact DEF ExactInv, UsersInv, IdsInv, TypeOK, RecordInv, Empty
<1> HIDE DEF t, s
<1>7. CASE ~t.ok
  <2>1. ~nb[k].in /\ Refused(k, t)
        /\ (Exhausted(n, fault) \/ (t.arp = arpPool /\ t.nh = nhPool))
    <3>1. nb[k].in => ActOk(k, nb[k])
      BY DEF ExactInv, ActsInv
    <3> QED BY <1>4, <1>5, <1>7, <3>1 DEF Outcome, ActOk
  <2> DEFINE y == [t EXCEPT !.e = Empty]
  <2>2. s = y /\ s.ok = t.ok
    <3>1. t \in Sts /\ t.e.in = TRUE /\ t.e.ref = 0
      BY <1>3, <1>5, <2>1 DEF Outcome, WantedOk, SameRecord, SameUsers, Refused
    <3> QED BY <1>2, <1>7, <3>1 DEF RemovedDb, RemoveDb, Sts
  <2>3. Refused(k, y) /\ y.e = Empty /\ y.arp = t.arp /\ y.nh = t.nh /\ Ended(k, y)
    BY <2>1, RefusedSame
  <2> HIDE DEF y
  <2>4. z = y /\ nhObj' = nhObj /\ nexthopCnt' = nexthopCnt
    BY <1>1, <1>7, <2>2
  <2>5. UsersOk(k, y.e, nhObj')
    BY <1>6, <2>1, <2>3, <2>4, BlankUsers DEF UsersOk
  <2>6. WritesAs(k, y)
    BY <1>1, <2>1, <2>3, <2>4, <2>5, LeakFact DEF WritesAs
  <2>7. KeepsNeighbor(k)
    <3>1. nb'[k].exists = FALSE
      BY <1>6, <2>3, <2>6 DEF WritesAs, Become, Empty
    <3> QED BY <1>6, <2>1, <3>1 DEF KeepsNeighbor
  <2> QED BY <2>4, <2>6, <2>7 DEF Writes
<1>8. CASE t.ok
  <2>1. Provided(k, t) /\ SameRecord(w, t.e) /\ t \in Sts /\ t.e.in = TRUE
    BY <1>5, <1>8 DEF Outcome, Provided
  <2>2. t.e.exists = nb[k].exists /\ t.e.ref = nb[k].ref /\ t.e.nh \in NhIds
        /\ (nb[k].in => t.e.nh = nb[k].nh /\ t.e.noHost = nb[k].noHost)
        /\ (~nb[k].in => t.e.nh \notin nhPool /\ nb[k].ref = 0)
    BY <1>3, <1>4, <2>1 DEF WantedOk, SameRecord, SameUsers, Provided, Named
  <2>3. s = [t EXCEPT !.e.ref = @ + 1]
    BY <1>2, <1>8
  <2>4. /\ s \in Sts /\ s.arp = t.arp /\ s.nh = t.nh /\ s.hwArp = t.hwArp
        /\ s.hwNh = t.hwNh /\ s.e.arp = t.e.arp /\ s.e.nh = t.e.nh /\ s.ok = t.ok
        /\ s.e.mac = t.e.mac /\ s.e.act = t.e.act /\ s.e.noHost = t.e.noHost
        /\ s.e.in = TRUE /\ s.e.exists = nb[k].exists /\ s.e.ref = nb[k].ref + 1
    BY <2>1, <2>2, <2>3 DEF Sts, Records
  <2>5. Provided(k, s)
    BY <2>1, <2>4, ProvidedSame
  <2>6. CASE fresh
    <3>1. z = s /\ nhObj' = [nhObj EXCEPT ![s.e.nh] = k] /\ nexthopCnt' = nexthopCnt + 1
      BY <1>1, <2>6
    <3>2. /\ nhObj'[s.e.nh] = k /\ nhObj[s.e.nh] = NoKey
          /\ \A x \in NhIds : x # s.e.nh => nhObj'[x] = nhObj[x]
      BY <1>6, <2>2, <2>4, <2>6, <3>1
    <3>3. \A x \in NhIds : nhObj'[x] = k => x = s.e.nh
      BY <1>6, <2>2, <2>4, <3>2 DEF UsersOk
    <3>4. nb[k].ref = One(nb[k].exists)
      BY <1>6, <2>2, <2>4, <3>2 DEF UsersOk, Users, One
    <3>5. s.e.ref = Users(k, s.e, nhObj')
      BY <2>4, <3>2, <3>4 DEF Users, One
    <3>6. UsersOk(k, s.e, nhObj')
      BY <2>4, <3>3, <3>5 DEF UsersOk
    <3>7. \A j \in Keys \ {k} : \A x \in NhIds : nhObj'[x] = j <=> nhObj[x] = j
      BY <1>6, <3>2
    <3> HIDE DEF fresh, z
    <3>8. WritesAs(k, s)
      BY <1>1, <2>4, <2>5, <3>1, <3>6, <3>7 DEF WritesAs, Ended
    <3>9. KeepsNeighbor(k)
      BY <1>6, <2>2, <2>4, <3>8 DEF WritesAs, Become, KeepsNeighbor
    <3> QED BY <2>2, <2>4, <3>1, <3>2, <3>8, <3>9 DEF Writes
  <2>7. CASE ~fresh
    <3>1. z = FreeIpuc(s, k, s.e.nh) /\ nhObj' = nhObj /\ nexthopCnt' = nexthopCnt
      BY <1>1, <1>8, <2>4, <2>7
    <3>2. nhObj[s.e.nh] \in Keys
      BY <1>6, <1>8, <2>2, <2>4, <2>7
    <3> HIDE DEF fresh, z
    <3>3. nb[k].in
      <4> DEFINE j == nhObj[s.e.nh]
      <4>1. nb[j].in /\ nb[j].nh = s.e.nh
        BY <2>2, <2>4, <3>2 DEF ExactInv, UsersInv, UsersOk
      <4>2. nb[j].nh \in nhPool
        BY <3>2, <4>1 DEF IdsInv, IdsUnique, RecordInv
      <4> QED BY <2>2, <2>4, <4>1, <4>2
    <3>4. nb[k].ref \in {1, 2} /\ nb[k].ref = Users(k, nb[k], nhObj)
      BY <3>3, InDatabase
    <3>5. z = [s EXCEPT !.e.ref = @ - 1]
      <4>1. s.e.in = TRUE /\ s.e.ref # 1
        BY <2>4, <3>4
      <4> QED BY <3>1, <4>1, FreeIpucMore
    <3>6. z = [s EXCEPT !.e = [s.e EXCEPT !.ref = nb[k].ref]]
      <4>1. s.e.ref - 1 = nb[k].ref
        BY <2>4, <3>4
      <4> QED BY <2>4, <3>5, <4>1 DEF Sts, Records
    <3>7. /\ z \in Sts /\ z.arp = s.arp /\ z.nh = s.nh /\ z.hwArp = s.hwArp
          /\ z.hwNh = s.hwNh /\ z.e.arp = s.e.arp /\ z.e.nh = s.e.nh
          /\ z.e.mac = s.e.mac /\ z.e.act = s.e.act /\ z.e.noHost = s.e.noHost
          /\ z.e.in = TRUE /\ z.e.exists = nb[k].exists /\ z.e.ref = nb[k].ref
      <4>1. nb[k].ref \in Nat
        BY <3>4
      <4> QED BY <2>4, <3>6, <4>1 DEF Sts, Records
    <3>8. Provided(k, z)
      BY <2>5, <3>7, ProvidedSame
    <3>9. UsersOk(k, z.e, nhObj')
      BY <1>6, <2>2, <2>4, <3>1, <3>3, <3>4, <3>7 DEF UsersOk, Users
    <3>10. WritesAs(k, z)
      BY <1>1, <3>1, <3>7, <3>8, <3>9 DEF WritesAs, Ended
    <3>11. KeepsNeighbor(k)
      BY <1>6, <2>2, <2>4, <3>3, <3>7, <3>10 DEF WritesAs, Become, KeepsNeighbor
    <3> QED BY <3>1, <3>10, <3>11 DEF Writes
  <2> QED BY <2>6, <2>7
<1> QED BY <1>7, <1>8

(* remove_next_hop takes one user from the record, and the record with the *)
(* last. *)
LEMMA RemoveNextHopWrites ==
  ASSUME SoundCalls, IdsInv, ExactInv, NEW n \in NhIds, RemoveNextHop(n)
  PROVE  /\ nhObj[n] \in Keys /\ Writes(nhObj[n]) /\ KeepsNeighbor(nhObj[n])
PROOF
<1> DEFINE k == nhObj[n]
           s == St(nb[k])
           z == FreeIpuc(s, k, n)
<1>1. /\ k \in Keys /\ nhObj \in [NhIds -> Keys \cup {NoKey}] /\ NoKey \notin Keys
      /\ Become(k, z) /\ nhObj' = [nhObj EXCEPT ![n] = NoKey]
      /\ rifs' = rifs /\ missAct' = missAct /\ fdb' = fdb /\ events' = events
  BY NoKeyFact DEF RemoveNextHop, rifVars, fdbVars, IdsInv, TypeOK
<1>2. nhObj[n] = k
  OBVIOUS
<1> HIDE DEF k
<1>3. nb[k].in /\ nb[k].nh = n
  BY <1>1, <1>2 DEF ExactInv, UsersInv, UsersOk
<1>4. /\ nb[k] \in Records /\ nb[k].in = TRUE /\ nb[k].ref \in {1, 2}
      /\ nb[k].ref = Users(k, nb[k], nhObj) /\ ActOk(k, nb[k])
      /\ \A x \in NhIds : nhObj[x] = k => x = n
      /\ nb[k].exists \in BOOLEAN /\ nb \in [Keys -> Records]
  BY <1>1, <1>3, InDatabase DEF IdsInv, TypeOK
<1>5. nb[k].ref = One(nb[k].exists) + 1
  BY <1>2, <1>3, <1>4 DEF Users, One
<1>6. /\ \A x \in NhIds : nhObj'[x] # k
      /\ \A j \in Keys \ {k} : \A x \in NhIds : nhObj'[x] = j <=> nhObj[x] = j
  BY <1>1, <1>2, <1>4
<1>7. s \in Sts /\ s.e = nb[k] /\ s.arp = arpPool /\ s.nh = nhPool
      /\ s.hwArp = hwArp /\ s.hwNh = hwNh
  BY <1>4 DEF St, Sts, IdsInv, TypeOK
<1>8. CASE nb[k].ref = 1
  <2> DEFINE r == RemoveNexthop(s, k)
             y == [r EXCEPT !.e = Empty]
  <2>1. Released(k, y) /\ r \in Sts /\ SameUsers(nb[k], r.e)
    BY <1>1, <1>3, ReleaseFact
  <2> HIDE DEF s
  <2>2. z = RemovedDb(r, TRUE)
    BY <1>3, <1>4, <1>7, <1>8, FreeIpucLast
  <2> HIDE DEF r
  <2>3. r.e.in = TRUE /\ r.e.ref = 1
    BY <1>4, <1>8, <2>1 DEF SameUsers
  <2>4. RemovedDb(r, TRUE) = y
    BY <2>3 DEF RemovedDb, RemoveDb
  <2> HIDE DEF y, z
  <2>5. UsersOk(k, y.e, nhObj')
    BY <1>6, <2>1, BlankUsers DEF Released
  <2>6. WritesAs(k, y)
    BY <1>1, <1>3, <1>6, <2>1, <2>2, <2>4, <2>5 DEF WritesAs, Ended, Refused
  <2>7. KeepsNeighbor(k)
    <3>1. nb[k].exists = FALSE
      BY <1>4, <1>5, <1>8 DEF One
    <3>2. nb'[k].exists = FALSE
      BY <1>1, <1>4, <2>1, <2>6 DEF WritesAs, Become, Released, Empty
    <3> QED BY <3>1, <3>2 DEF KeepsNeighbor
  <2> QED BY <1>1, <1>2, <2>6, <2>7 DEF Writes
<1>9. CASE nb[k].ref = 2
  <2> HIDE DEF s
  <2>1. z = [s EXCEPT !.e.ref = @ - 1]
    <3>1. s.e.in = TRUE /\ s.e.ref # 1 /\ n = s.e.nh
      BY <1>3, <1>4, <1>7, <1>9
    <3> QED BY <3>1, FreeIpucMore
  <2>2. z = [s EXCEPT !.e = [s.e EXCEPT !.ref = 1]]
    BY <1>7, <1>9, <2>1, 2 - 1 = 1 DEF Sts, Records
  <2> HIDE DEF z
  <2>3. /\ z \in Sts /\ z.arp = s.arp /\ z.nh = s.nh /\ z.hwArp = s.hwArp
        /\ z.hwNh = s.hwNh /\ z.e.arp = nb[k].arp /\ z.e.nh = nb[k].nh
        /\ z.e.mac = nb[k].mac /\ z.e.act = nb[k].act /\ z.e.noHost = nb[k].noHost
        /\ z.e.in = TRUE /\ z.e.exists = nb[k].exists /\ z.e.ref = 1
    BY <1>4, <1>7, <2>2 DEF Sts, Records
  <2>4. Provided(k, s)
    <3>1. Named(k, s.e)
      BY <1>1, <1>3, <1>4, <1>7 DEF Named, IdsInv, RecordInv, ExactInv, BridgeInv, Records
    <3>2. s.arp = arpPool \cup ({s.e.arp} \ {0}) /\ s.nh = nhPool \cup {s.e.nh}
      BY <1>1, <1>3, <1>7, NeighborAssumption DEF IdsInv, IdsUnique
    <3>3. HwFor(k, s.e, s.hwArp, s.hwNh, fdb, events)
      BY <1>1, <1>3, <1>7 DEF ExactInv, HwInv
    <3> QED BY <1>4, <1>7, <3>1, <3>2, <3>3 DEF Provided, Elsewhere
  <2>5. Provided(k, z)
    BY <1>7, <2>3, <2>4, ProvidedSame
  <2>6. UsersOk(k, z.e, nhObj')
    BY <1>1, <1>3, <1>4, <1>5, <1>6, <1>9, <2>3 DEF UsersOk, Users, One
  <2>7. WritesAs(k, z)
    BY <1>1, <1>6, <2>3, <2>5, <2>6 DEF WritesAs, Ended
  <2>8. KeepsNeighbor(k)
    BY <1>1, <1>4, <2>3, <2>7 DEF WritesAs, Become, KeepsNeighbor
  <2> QED BY <1>1, <1>2, <2>7, <2>8 DEF Writes
<1> QED BY <1>4, <1>8, <1>9

-----------------------------------------------------------------------------
(* Every handler that writes one record keeps the invariant. *)
LEMMA WritesExact ==
  ASSUME IdsInv, ExactInv, NEW k \in Keys, Writes(k)
  PROVE  ExactInv'
BY BecomeExact DEF Writes, WritesAs

(* NO_HOST_ROUTE is nothing the SDK's entries depend on. *)
LEMMA SetNoHostRouteExact ==
  ASSUME IdsInv, ExactInv, NEW k \in Keys, NEW on \in BOOLEAN, NEW fault,
         SetNoHostRoute(k, on, fault)
  PROVE  ExactInv'
PROOF
<1>1. nb \in [Keys -> Records] /\ nb[k] \in Records
  BY DEF IdsInv, TypeOK
<1>2. nb' = nb \/ nb' = [nb EXCEPT ![k] = [nb[k] EXCEPT !.noHost = on]]
  BY <1>1 DEF SetNoHostRoute
<1>3. \A j \in Keys : /\ SameUsers(nb[j], nb'[j]) /\ nb'[j].arp = nb[j].arp
                      /\ nb'[j].nh = nb[j].nh /\ nb'[j].mac = nb[j].mac
                      /\ nb'[j].act = nb[j].act
  BY <1>1, <1>2 DEF SameUsers, Records
<1>4. UNCHANGED <<hwArp, hwNh, nhObj, rifs, missAct, fdb, events>>
  BY DEF SetNoHostRoute, rifVars, fdbVars
<1>5. UsersInv' /\ ActsInv' /\ BridgeInv'
  BY <1>3, <1>4 DEF ExactInv, UsersInv, UsersOk, Users, SameUsers, ActsInv, ActOk, BridgeInv
<1>6. HwInv'
  <2> SUFFICES ASSUME NEW j \in Keys, nb'[j].in
               PROVE  HwFor(j, nb'[j], hwArp', hwNh', fdb', events')
    BY DEF HwInv
  <2>1. HwFor(j, nb[j], hwArp, hwNh, fdb, events)
    BY <1>3 DEF ExactInv, HwInv, SameUsers
  <2> QED BY <1>3, <1>4, <2>1, HwSame
<1> QED BY <1>5, <1>6 DEF ExactInv

(* Interfaces that no record uses come and go. *)
LEMMA RifExact == ASSUME SoundCalls, IdsInv, ExactInv, RifNext PROVE ExactInv'
PROOF
<1>1. UNCHANGED <<nb, hwArp, hwNh, nhObj, fdb, events>>
  BY DEF RifNext, RemoveRif, CreateRif, SetMissAction, dbVars, fdbVars
<1>2. /\ \A k \in Keys : nb[k].in => (Rif(k) \in rifs => Rif(k) \in rifs')
      /\ \A r \in Rifs : missAct'[r] \in Supported
  <2>1. ASSUME NEW r \in Rifs, RemoveRif(r)
        PROVE  missAct' = missAct /\ rifs' = rifs \ {r} /\ \A k \in Keys : Rif(k) = r => ~nb[k].in
    BY <2>1 DEF RemoveRif, SoundCalls
  <2>2. ASSUME NEW r \in Rifs, CreateRif(r)
        PROVE  rifs' = rifs \cup {r} /\ missAct' = [missAct EXCEPT ![r] = "TRAP"]
    BY <2>2 DEF CreateRif
  <2>3. ASSUME NEW r \in Rifs, NEW act \in MissActs, SetMissAction(r, act)
        PROVE  rifs' = rifs /\ missAct' = [missAct EXCEPT ![r] = act] /\ act \in Supported
    BY <2>3 DEF SetMissAction, SoundCalls
  <2>4. missAct \in [Rifs -> Acts] /\ (\A r \in Rifs : missAct[r] \in Supported)
        /\ "TRAP" \in Supported
    BY DEF ExactInv, ActsInv, IdsInv, TypeOK, Supported, ToCpu
  <2> QED BY <2>1, <2>2, <2>3, <2>4 DEF RifNext
<1>3. UsersInv' /\ BridgeInv' /\ HwInv'
  BY <1>1 DEF ExactInv, UsersInv, UsersOk, Users, BridgeInv, HwInv, HwFor
<1>4. ActsInv'
  BY <1>1, <1>2 DEF ExactInv, ActsInv, ActOk
<1> QED BY <1>3, <1>4 DEF ExactInv

(* No two records of f share an id. *)
Apart(f) == \A i, j \in Keys : i # j => /\ f[i].arp = f[j].arp => f[i].arp = 0
                                        /\ f[i].nh = f[j].nh => f[i].nh = 0

(* The entries a look-up rewrites are those of its records, each with its *)
(* own adjacency. *)
LEMMA ArpAfterFact ==
  ASSUME NEW f \in [Keys -> Records], Apart(f), NEW K \in SUBSET Keys, NEW tbl,
         NEW k \in Keys, Rif(k) \notin BridgeRifs, f[k].arp \in ArpIds
  PROVE  LET v == HwArpAfter(f, K, tbl)[f[k].arp]
         IN /\ k \in K /\ Writable(f, k) => v = ArpParam(tbl, k, f[k])
            /\ k \notin K => v = hwArp[f[k].arp]
PROOF
<1> DEFINE W == {x \in K : Writable(f, x) /\ Rif(x) \notin BridgeRifs}
           user(x) == CHOOSE y \in W : f[y].arp = x
           id == f[k].arp
<1>1. HwArpAfter(f, K, tbl)[id] = IF \E y \in W : f[y].arp = id
                                  THEN ArpParam(tbl, user(id), f[user(id)]) ELSE hwArp[id]
  BY DEF HwArpAfter
<1>2. \A y \in W : f[y].arp = id => y = k
  BY NeighborAssumption DEF Apart
<1>3. k \in W <=> k \in K /\ Writable(f, k)
  OBVIOUS
<1>4. ASSUME k \in W PROVE user(id) = k
  <2>1. user(id) \in W /\ f[user(id)].arp = id
    BY <1>4
  <2> HIDE DEF user, W
  <2> QED BY <1>2, <2>1
<1> HIDE DEF W, user
<1> QED BY <1>1, <1>2, <1>3, <1>4

(* The same of the next hop table, which only bridge interfaces write. *)
LEMMA NhAfterFact ==
  ASSUME NEW f \in [Keys -> Records], Apart(f), NEW K \in SUBSET Keys, NEW tbl,
         NEW k \in Keys, f[k].nh \in NhIds
  PROVE  LET v == HwNhAfter(f, K, tbl)[f[k].nh]
         IN /\ (k \in K /\ Writable(f, k) /\ Rif(k) \in BridgeRifs)
                 => v = [misc |-> MiscParam(tbl, k, f[k])]
            /\ k \notin K \/ Rif(k) \notin BridgeRifs => v = hwNh[f[k].nh]
PROOF
<1> DEFINE W == {x \in K : Writable(f, x) /\ Rif(x) \in BridgeRifs}
           user(x) == CHOOSE y \in W : f[y].nh = x
           id == f[k].nh
<1>1. HwNhAfter(f, K, tbl)[id] = IF \E y \in W : f[y].nh = id
                                 THEN [misc |-> MiscParam(tbl, user(id), f[user(id)])]
                                 ELSE hwNh[id]
  BY DEF HwNhAfter
<1>2. \A y \in W : f[y].nh = id => y = k
  BY NeighborAssumption DEF Apart
<1>3. k \in W <=> k \in K /\ Writable(f, k) /\ Rif(k) \in BridgeRifs
  OBVIOUS
<1>4. ASSUME k \in W PROVE user(id) = k
  <2>1. user(id) \in W /\ f[user(id)].nh = id
    BY <1>4
  <2> HIDE DEF user, W
  <2> QED BY <1>2, <2>1
<1> HIDE DEF W, user
<1> QED BY <1>1, <1>2, <1>3, <1>4

(* A record behind another port, VLAN or bridge is not affected by a change *)
(* of the FDB. *)
SameView(k, e) ==
  <<Rif(k), e.mac>> \notin events' =>
    /\ <<Rif(k), e.mac>> \notin events
    /\ Rif(k) \in L2Rifs => LookupFdb(fdb', Rif(k), e.mac) = LookupFdb(fdb, Rif(k), e.mac)
(* A record whose MAC the FDB change does not concern looks the same. *)
LEMMA StaysFresh ==
  ASSUME NEW k \in Keys, NEW e, NEW A, NEW N, SameView(k, e),
         HwFor(k, e, A, N, fdb, events)
  PROVE  HwFor(k, e, A, N, fdb', events')
BY DEF HwFor, SameView, ArpParam, MiscParam, L2Rifs

(* update_arp on at least the records whose view of the FDB changed. *)
LEMMA UpdateArpExact ==
  ASSUME IdsInv, ExactInv, NEW K \in SUBSET Keys, UpdateArp(K, fdb'),
         UNCHANGED <<nhObj, rifs, missAct>>,
         \A k \in Keys \ K : nb[k].in => SameView(k, nb[k])
  PROVE  ExactInv'
PROOF
<1> DEFINE tbl == fdb'
<1>1. /\ nb' = nb /\ hwArp' = HwArpAfter(nb, K, tbl) /\ hwNh' = HwNhAfter(nb, K, tbl)
  BY DEF UpdateArp
<1>2. UsersInv' /\ BridgeInv' /\ ActsInv'
  BY <1>1 DEF ExactInv, UsersInv, UsersOk, Users, BridgeInv, ActsInv, ActOk
<1>3. Apart(nb) /\ nb \in [Keys -> Records]
  BY DEF IdsInv, IdsUnique, TypeOK, Apart
<1>4. HwInv'
  <2> SUFFICES ASSUME NEW k \in Keys, nb[k].in
               PROVE  HwFor(k, nb[k], hwArp', hwNh', tbl, events')
    BY <1>1 DEF HwInv
  <2>1. /\ HwFor(k, nb[k], hwArp, hwNh, fdb, events) /\ Writable(nb, k)
        /\ nb[k].nh \in NhIds /\ (Rif(k) \notin BridgeRifs => nb[k].arp \in ArpIds)
    BY <1>3 DEF ExactInv, HwInv, ActsInv, ActOk, Writable, IdsInv, RecordInv, Records
  <2> HIDE DEF tbl
  <2>2. /\ k \in K /\ Rif(k) \in BridgeRifs
             => hwNh'[nb[k].nh] = [misc |-> MiscParam(tbl, k, nb[k])]
        /\ k \notin K \/ Rif(k) \notin BridgeRifs => hwNh'[nb[k].nh] = hwNh[nb[k].nh]
    BY <1>1, <1>3, <2>1, NhAfterFact
  <2>3. Rif(k) \notin BridgeRifs =>
          /\ k \in K => hwArp'[nb[k].arp] = ArpParam(tbl, k, nb[k])
          /\ k \notin K => hwArp'[nb[k].arp] = hwArp[nb[k].arp]
    BY <1>1, <1>3, <2>1, ArpAfterFact
  <2>4. CASE k \in K
    BY <2>1, <2>2, <2>3, <2>4 DEF HwFor
  <2>5. CASE k \notin K
    <3>1. HwFor(k, nb[k], hwArp, hwNh, tbl, events')
      BY <2>1, <2>5, StaysFresh DEF tbl
    <3> QED BY <2>2, <2>3, <2>5, <3>1 DEF HwFor
  <2> QED BY <2>4, <2>5
<1> QED BY <1>2, <1>4 DEF ExactInv

(* Every change of the FDB reaches the records behind it, at once or with *)
(* its event. *)
LEMMA FdbExact == ASSUME IdsInv, ExactInv, FdbNext PROVE ExactInv'
PROOF
<1>1. fdb \in [L2Rifs \X Macs -> Ports \cup {NoPort}]
  BY DEF IdsInv, TypeOK
<1>2. ASSUME NEW r \in L2Rifs, NEW mac \in Macs, NEW port \in Ports \cup {NoPort},
             fdb' = [fdb EXCEPT ![<<r, mac>>] = port],
             NEW k \in Keys, NEW e, <<Rif(k), e.mac>> # <<r, mac>>, Rif(k) \in L2Rifs
      PROVE  LookupFdb(fdb', Rif(k), e.mac) = LookupFdb(fdb, Rif(k), e.mac)
  BY <1>1, <1>2 DEF LookupFdb
<1>3. ASSUME NEW r \in L2Rifs, NEW mac \in Macs, NEW port \in Ports \cup {NoPort},
             ChangeFdb(r, mac, port)
      PROVE  ExactInv'
  <2>1. /\ fdb' = [fdb EXCEPT ![<<r, mac>>] = port] /\ UpdateArp(Behind(r, mac), fdb')
        /\ UNCHANGED <<nhObj, rifs, missAct, events>>
    BY <1>3 DEF ChangeFdb, rifVars
  <2>2. ASSUME NEW k \in Keys \ Behind(r, mac), nb[k].in PROVE SameView(k, nb[k])
    <3>1. <<Rif(k), nb[k].mac>> # <<r, mac>>
      BY <2>2 DEF Behind
    <3>2. Rif(k) \in L2Rifs =>
            LookupFdb(fdb', Rif(k), nb[k].mac) = LookupFdb(fdb, Rif(k), nb[k].mac)
      BY <1>2, <2>1, <3>1
    <3> QED BY <2>1, <3>2 DEF SameView
  <2>3. Behind(r, mac) \in SUBSET Keys
    BY DEF Behind
  <2> QED BY <2>1, <2>2, <2>3, UpdateArpExact
<1>4. ASSUME NEW r \in L2Rifs, FlushFdb(r) PROVE ExactInv'
  <2>1. UpdateArp(BehindAny, fdb') /\ UNCHANGED <<nhObj, rifs, missAct, events>>
    BY <1>4 DEF FlushFdb, rifVars
  <2>2. \A k \in Keys \ BehindAny : nb[k].in => SameView(k, nb[k])
    BY <2>1 DEF BehindAny, SameView
  <2>3. BehindAny \in SUBSET Keys
    BY DEF BehindAny
  <2> QED BY <2>1, <2>2, <2>3, UpdateArpExact
<1>5. ASSUME NEW r \in L2Rifs, NEW mac \in Macs, NEW port \in Ports \cup {NoPort},
             HwChangeFdb(r, mac, port)
      PROVE  ExactInv'
  <2>1. /\ fdb' = [fdb EXCEPT ![<<r, mac>>] = port] /\ events' = events \cup {<<r, mac>>}
        /\ UNCHANGED <<nb, hwArp, hwNh, nhObj, rifs, missAct>>
    BY <1>5 DEF HwChangeFdb, dbVars, rifVars
  <2>2. \A k \in Keys : SameView(k, nb[k])
    BY <1>2, <2>1 DEF SameView
  <2>3. HwInv'
    <3> SUFFICES ASSUME NEW k \in Keys, nb[k].in
                 PROVE  HwFor(k, nb[k], hwArp, hwNh, fdb', events')
      BY <2>1 DEF HwInv
    <3> QED BY <2>2, StaysFresh DEF ExactInv, HwInv
  <2> QED BY <2>1, <2>3
          DEF ExactInv, UsersInv, UsersOk, Users, BridgeInv, ActsInv, ActOk
<1>6. ASSUME NEW r \in L2Rifs, NEW mac \in Macs, FdbEvent(r, mac) PROVE ExactInv'
  <2>1. /\ fdb' = fdb /\ UpdateArp(Behind(r, mac), fdb') /\ events' = events \ {<<r, mac>>}
        /\ UNCHANGED <<nhObj, rifs, missAct>>
    BY <1>6 DEF FdbEvent, rifVars
  <2>2. \A k \in Keys \ Behind(r, mac) : nb[k].in => SameView(k, nb[k])
    BY <2>1 DEF Behind, SameView
  <2>3. Behind(r, mac) \in SUBSET Keys
    BY DEF Behind
  <2> QED BY <2>1, <2>2, <2>3, UpdateArpExact
<1> QED BY <1>3, <1>4, <1>5, <1>6 DEF FdbNext

-----------------------------------------------------------------------------
(* remove_all: what becomes of each record and of the entries of those that *)
(* stay. *)
Gone(k) == nb[k].exists /\ ~HasNextHop(k)
Left(k) == nb[k].exists /\ HasNextHop(k)
AfterRemoveAll(k) ==
  /\ nb'[k] \in Records
  /\ Gone(k) => nb'[k] = Empty
  /\ Left(k) => /\ nb'[k].in /\ nb'[k].exists = FALSE /\ nb'[k].ref = 1
                /\ nb'[k].nh = nb[k].nh /\ nb'[k].arp = nb[k].arp
                /\ nb'[k].act \in Supported
  /\ ~nb[k].exists => nb'[k] = nb[k]
  /\ nb'[k].in => HwFor(k, nb'[k], hwArp', hwNh', fdb', events')
PoolsAfterRemoveAll ==
  LET gone == {k \in Keys : Gone(k)}
  IN /\ nhPool' = nhPool \ {nb[k].nh : k \in gone}
     /\ arpPool' = arpPool \ {nb[k].arp : k \in gone}

(* The next hop object of a record can only be the one with its id. *)
LEMMA HasNextHopFact ==
  ASSUME ExactInv, NEW k \in Keys, nb[k].in, nb[k].nh \in NhIds
  PROVE  HasNextHop(k) <=> nhObj[nb[k].nh] = k
BY DEF ExactInv, UsersInv, UsersOk, HasNextHop

(* The traversal of remove_all, record by record. *)
LEMMA RemoveAllFact ==
  ASSUME IdsInv, ExactInv, RemoveAll
  PROVE  /\ \A k \in Keys : AfterRemoveAll(k)
         /\ PoolsAfterRemoveAll
         /\ UNCHANGED <<nhObj, rifs, missAct, fdb, events, nexthopCnt>>
         /\ hostRoute' = [x \in RouteKeys |->
              IF \E k \in Keys : nb[k].exists /\ ~nb[k].noHost /\ RouteOf(k) = x
              THEN 0 ELSE hostRoute[x]]
PROOF
<1> DEFINE dead == {k \in Keys : nb[k].exists /\ nb[k].ref <= 1}
           kept == {k \in Keys : nb[k].exists /\ nb[k].ref > 1}
           freed == {k \in dead : Rif(k) \in rifs}
           arps == {nb[k].arp : k \in {x \in freed : Rif(x) \notin BridgeRifs}}
           nhs == {nb[k].nh : k \in freed}
           left == [k \in Keys |-> IF k \in kept THEN Orphaned(k) ELSE nb[k]]
           arpHw == HwArpAfter(left, kept, fdb)
           nhHw == HwNhAfter(left, kept, fdb)
           gone == {RouteOf(k) : k \in {x \in dead \cup kept : DropHostRoute(x)}}
<1>1. /\ nb' = [k \in Keys |-> IF k \in dead \cup kept THEN RemoveDb(left[k], FALSE)
                               ELSE nb[k]]
      /\ arpPool' = arpPool \ arps /\ nhPool' = nhPool \ nhs
      /\ hwArp' = [x \in ArpIds |-> IF x \in arps THEN NoHw ELSE arpHw[x]]
      /\ hwNh' = [x \in NhIds |-> IF x \in nhs THEN NoHw ELSE nhHw[x]]
      /\ hostRoute' = [x \in RouteKeys |-> IF x \in gone THEN 0 ELSE hostRoute[x]]
      /\ nhObj' = nhObj /\ rifs' = rifs /\ missAct' = missAct /\ fdb' = fdb
      /\ events' = events /\ nexthopCnt' = nexthopCnt
  BY DEF RemoveAll, Return, rifVars, fdbVars
<1>2. nb \in [Keys -> Records] /\ \A r \in Rifs : missAct[r] \in Supported
  BY DEF IdsInv, TypeOK, ExactInv, ActsInv
<1>3. ASSUME NEW k \in Keys, nb[k].exists
      PROVE  /\ nb[k].in = TRUE /\ nb[k].exists = TRUE /\ ActOk(k, nb[k])
             /\ k \in dead => Gone(k) /\ nb[k].ref = 1
             /\ k \in kept => Left(k) /\ nb[k].ref = 2
             /\ Gone(k) => k \in dead /\ k \notin kept
             /\ Left(k) => k \in kept /\ k \notin dead
  <2>1. /\ nb[k].in = TRUE /\ nb[k].ref \in {1, 2} /\ nb[k].ref = Users(k, nb[k], nhObj)
        /\ ActOk(k, nb[k]) /\ nb[k].nh \in NhIds /\ nb[k].exists = TRUE
    BY <1>3, InDatabase
  <2>2. nb[k].ref = IF HasNextHop(k) THEN 2 ELSE 1
    BY <2>1, HasNextHopFact DEF Users, One
  <2> QED BY <1>3, <2>1, <2>2 DEF Gone, Left
<1>4. ASSUME NEW k \in Keys PROVE OrphanedOk(k, Orphaned(k))
  BY OrphanedFact
<1>5. ASSUME NEW k \in Keys, k \in kept PROVE Orphaned(k).act \in Supported
  <2>1. Rif(k) \in rifs /\ Rif(k) \in Rifs
    BY <1>3, <1>5 DEF ActOk, Keys, Rif
  <2> QED BY <1>2, <2>1 DEF Orphaned, Records
<1> HIDE DEF dead, kept
<1>6. dead \subseteq Keys /\ kept \subseteq Keys
      /\ \A k \in Keys : k \in dead \cup kept <=> nb[k].exists
  <2>1. dead \subseteq Keys /\ kept \subseteq Keys
    BY DEF dead, kept
  <2>2. \A k \in Keys : k \in dead \cup kept => nb[k].exists
    BY DEF dead, kept
  <2>3. \A k \in Keys : nb[k].exists => k \in dead \cup kept
    BY <1>3 DEF Gone, Left
  <2> QED BY <2>1, <2>2, <2>3
<1>7. /\ left \in [Keys -> Records] /\ Apart(left)
      /\ \A k \in Keys : left[k].arp = nb[k].arp /\ left[k].nh = nb[k].nh
  <2>1. \A k \in Keys : /\ left[k] \in Records /\ left[k].arp = nb[k].arp
                        /\ left[k].nh = nb[k].nh
    BY <1>2, <1>4 DEF OrphanedOk
  <2> HIDE DEF left
  <2>2. left \in [Keys -> Records]
    BY <2>1 DEF left
  <2>3. Apart(left)
    BY <2>1 DEF Apart, IdsInv, IdsUnique
  <2> QED BY <2>1, <2>2, <2>3
<1>8. ASSUME NEW k \in Keys, k \in kept
      PROVE  nb'[k] = [Orphaned(k) EXCEPT !.exists = FALSE, !.ref = 1]
  <2> DEFINE o == Orphaned(k)
  <2>1. nb'[k] = RemoveDb(o, FALSE)
    BY <1>1, <1>8
  <2>2. o \in Records /\ o.in = TRUE /\ o.exists = TRUE /\ o.ref = 2
    <3>1. nb[k].exists
      BY <1>6, <1>8
    <3> QED BY <1>3, <1>4, <1>8, <3>1 DEF OrphanedOk, SameUsers
  <2> HIDE DEF o
  <2>3. (o.exists /\ FALSE) = FALSE /\ ~(2 <= 1) /\ 2 - 1 = 1
    OBVIOUS
  <2> QED BY <2>1, <2>2, <2>3 DEF RemoveDb, o
<1>9. ASSUME NEW k \in Keys, k \in dead PROVE nb'[k] = Empty
  <2>1. k \notin kept /\ nb[k].in = TRUE /\ nb[k].exists = TRUE /\ nb[k].ref = 1
    <3>1. nb[k].exists
      BY <1>6, <1>9
    <3> QED BY <1>3, <1>9, <3>1 DEF Gone
  <2>2. nb'[k] = RemoveDb(nb[k], FALSE)
    BY <1>1, <1>9, <2>1
  <2> QED BY <2>1, <2>2 DEF RemoveDb
<1>10. ASSUME NEW k \in Keys, ~nb[k].exists PROVE nb'[k] = nb[k]
  BY <1>1, <1>6, <1>10
<1>11. freed = dead /\ dead = {k \in Keys : Gone(k)}
  <2>1. ASSUME NEW k \in Keys PROVE k \in dead <=> Gone(k)
    <3>1. k \in dead => nb[k].exists
      BY <1>6
    <3> QED BY <1>3, <3>1 DEF Gone
  <2>2. ASSUME NEW k \in dead PROVE Rif(k) \in rifs
    BY <1>3, <1>6 DEF ActOk
  <2> QED BY <1>6, <2>1, <2>2
<1>12. PoolsAfterRemoveAll
  <2>1. arpPool \ arps = arpPool \ {nb[k].arp : k \in dead}
    <3>1. \A k \in dead : Rif(k) \in BridgeRifs => nb[k].arp \notin arpPool
      BY <1>6, NeighborAssumption DEF ExactInv, BridgeInv, IdsInv, TypeOK
    <3> QED BY <1>11, <3>1
  <2> QED BY <1>1, <1>11, <2>1 DEF PoolsAfterRemoveAll
<1>13. hostRoute' = [x \in RouteKeys |->
              IF \E k \in Keys : nb[k].exists /\ ~nb[k].noHost /\ RouteOf(k) = x
              THEN 0 ELSE hostRoute[x]]
  <2>1. \A x : x \in gone <=> \E k \in Keys : nb[k].exists /\ ~nb[k].noHost /\ RouteOf(k) = x
    BY <1>3, <1>6 DEF DropHostRoute, ActOk
  <2> HIDE DEF gone
  <2> QED BY <1>1, <2>1
<1>14. ASSUME NEW k \in Keys, nb'[k].in
       PROVE  HwFor(k, nb'[k], hwArp', hwNh', fdb', events')
  <2>1. k \notin dead
    BY <1>9, <1>14 DEF Empty
  <2>2. nb[k].in
    BY <1>3, <1>10, <1>14
  <2>3. /\ nb[k].nh \in NhIds /\ (Rif(k) \notin BridgeRifs => nb[k].arp \in ArpIds)
        /\ HwFor(k, nb[k], hwArp, hwNh, fdb, events) /\ Rif(k) \in rifs
    BY <1>2, <2>2
    DEF IdsInv, RecordInv, Records, ExactInv, HwInv, ActsInv, ActOk
  <2>4. nb[k].nh \notin nhs
    BY <1>2, <1>6, <1>11, <2>1, <2>3, NeighborAssumption DEF IdsInv, IdsUnique
  <2>5. Rif(k) \notin BridgeRifs => nb[k].arp \notin arps
    BY <1>2, <1>6, <1>11, <2>1, <2>3, NeighborAssumption DEF IdsInv, IdsUnique
  <2>6. hwNh'[nb[k].nh] = nhHw[nb[k].nh]
    BY <1>1, <2>3, <2>4
  <2>7. Rif(k) \notin BridgeRifs => hwArp'[nb[k].arp] = arpHw[nb[k].arp]
    BY <1>1, <2>3, <2>5
  <2>8. /\ (k \in kept /\ Writable(left, k) /\ Rif(k) \in BridgeRifs)
             => nhHw[nb[k].nh] = [misc |-> MiscParam(fdb, k, left[k])]
        /\ k \notin kept \/ Rif(k) \notin BridgeRifs => nhHw[nb[k].nh] = hwNh[nb[k].nh]
    <3> HIDE DEF left
    <3>1. kept \in SUBSET Keys /\ left[k].nh \in NhIds /\ left[k].nh = nb[k].nh
      BY <1>6, <1>7, <2>3
    <3> QED BY <1>7, <3>1, NhAfterFact
  <2>9. Rif(k) \notin BridgeRifs =>
          /\ k \in kept /\ Writable(left, k) => arpHw[nb[k].arp] = ArpParam(fdb, k, left[k])
          /\ k \notin kept => arpHw[nb[k].arp] = hwArp[nb[k].arp]
    <3> HIDE DEF left
    <3>1. kept \in SUBSET Keys /\ left[k].arp = nb[k].arp
      BY <1>6, <1>7
    <3> QED BY <1>7, <2>3, <3>1, ArpAfterFact
  <2>10. CASE k \in kept
    <3>1. left[k] = Orphaned(k)
      BY <2>10
    <3> HIDE DEF left, arpHw, nhHw, arps, nhs
    <3>2. Writable(left, k)
      BY <1>5, <2>3, <2>10, <3>1 DEF Writable
    <3> DEFINE o == Orphaned(k)
    <3>3. /\ o \in Records /\ nb'[k].mac = o.mac /\ nb'[k].act = o.act
          /\ nb'[k].arp = nb[k].arp /\ nb'[k].nh = nb[k].nh
      <4>1. o \in Records /\ o.arp = nb[k].arp /\ o.nh = nb[k].nh
        BY <1>4 DEF OrphanedOk
      <4>2. nb'[k] = [o EXCEPT !.exists = FALSE, !.ref = 1]
        BY <1>8, <2>10
      <4> HIDE DEF o
      <4> QED BY <4>1, <4>2 DEF Records
    <3> HIDE DEF o
    <3>4. MiscParam(fdb, k, nb'[k]) = MiscParam(fdb, k, o)
          /\ ArpParam(fdb, k, nb'[k]) = ArpParam(fdb, k, o)
      BY <3>3 DEF MiscParam, ArpParam
    <3>5. CASE Rif(k) \in BridgeRifs
      <4>1. hwNh'[nb'[k].nh] = [misc |-> MiscParam(fdb, k, nb'[k])]
        BY <2>6, <2>8, <2>10, <3>1, <3>2, <3>3, <3>4, <3>5 DEF o
      <4> QED BY <1>1, <3>5, <4>1 DEF HwFor
    <3>6. CASE Rif(k) \notin BridgeRifs
      <4>1. hwArp'[nb'[k].arp] = ArpParam(fdb, k, nb'[k])
        BY <2>7, <2>9, <2>10, <3>1, <3>2, <3>3, <3>4, <3>6 DEF o
      <4>2. hwNh'[nb'[k].nh] = [arp |-> nb'[k].arp]
        BY <2>3, <2>6, <2>8, <3>3, <3>6 DEF HwFor
      <4> QED BY <1>1, <3>6, <4>1, <4>2 DEF HwFor
    <3> QED BY <3>5, <3>6
  <2>11. CASE k \notin kept
    <3>1. nb'[k] = nb[k]
      BY <1>6, <1>10, <2>1, <2>11
    <3> HIDE DEF left, arpHw, nhHw, arps, nhs
    <3>2. hwNh'[nb[k].nh] = hwNh[nb[k].nh]
          /\ (Rif(k) \notin BridgeRifs => hwArp'[nb[k].arp] = hwArp[nb[k].arp])
      BY <2>6, <2>7, <2>8, <2>9, <2>11
    <3> QED BY <1>1, <2>3, <3>1, <3>2 DEF HwFor
  <2> QED BY <2>10, <2>11
<1>15. ASSUME NEW k \in Keys PROVE AfterRemoveAll(k)
  <2>1. Gone(k) => k \in dead
    BY <1>11
  <2>2. Left(k) => k \in kept
    BY <1>3 DEF Left
  <2>3. Left(k) => /\ nb'[k] \in Records /\ nb'[k].in = TRUE /\ nb'[k].exists = FALSE
                   /\ nb'[k].ref = 1 /\ nb'[k].nh = nb[k].nh /\ nb'[k].arp = nb[k].arp
                   /\ nb'[k].act \in Supported
    <3> SUFFICES ASSUME Left(k)
                 PROVE  /\ nb'[k] \in Records /\ nb'[k].in = TRUE /\ nb'[k].exists = FALSE
                        /\ nb'[k].ref = 1 /\ nb'[k].nh = nb[k].nh /\ nb'[k].arp = nb[k].arp
                        /\ nb'[k].act \in Supported
      OBVIOUS
    <3> DEFINE o == Orphaned(k)
    <3>1. /\ o \in Records /\ o.arp = nb[k].arp /\ o.nh = nb[k].nh /\ o.in = TRUE
          /\ o.act \in Supported
      BY <1>3, <1>4, <1>5, <2>2 DEF OrphanedOk, SameUsers, Left
    <3>2. nb'[k] = [o EXCEPT !.exists = FALSE, !.ref = 1]
      BY <1>8, <2>2
    <3> HIDE DEF o
    <3> DEFINE v == [o EXCEPT !.exists = FALSE, !.ref = 1]
    <3>3. /\ v \in Records /\ v.in = o.in /\ v.exists = FALSE /\ v.ref = 1
          /\ v.nh = o.nh /\ v.arp = o.arp /\ v.act = o.act
      BY <3>1 DEF Records
    <3> HIDE DEF v
    <3>4. nb'[k] = v
      BY <3>2 DEF v
    <3> QED BY <3>1, <3>3, <3>4
  <2>4. nb'[k] \in Records
    BY <1>2, <1>9, <1>10, <2>1, <2>3, EmptyTyped DEF Gone, Left
  <2> QED BY <1>9, <1>10, <1>14, <2>1, <2>3, <2>4 DEF AfterRemoveAll
<1> QED BY <1>1, <1>12, <1>13, <1>15

(* remove_all deletes the records only neighbors use and leaves the others to *)
(* their next hops. *)
LEMMA RemoveAllExact == ASSUME IdsInv, ExactInv, RemoveAll PROVE ExactInv'
PROOF
<1>1. /\ \A k \in Keys : AfterRemoveAll(k)
      /\ UNCHANGED <<nhObj, rifs, missAct, fdb, events>>
  BY RemoveAllFact
<1>2. ASSUME NEW k \in Keys
      PROVE  /\ UsersOk(k, nb'[k], nhObj')
             /\ nb'[k].in => nb[k].in /\ Rif(k) \in rifs
             /\ (nb'[k].in /\ Rif(k) \notin BridgeRifs) => nb'[k].act \in Supported
             /\ Rif(k) \in BridgeRifs => nb'[k].arp = 0
  <2>1. /\ UsersOk(k, nb[k], nhObj) /\ (nb[k].in => ActOk(k, nb[k]))
        /\ (Rif(k) \in BridgeRifs => nb[k].arp = 0) /\ AfterRemoveAll(k)
    BY <1>1 DEF ExactInv, UsersInv, ActsInv, BridgeInv
  <2>2. HasNextHop(k) => nb[k].in /\ nhObj[nb[k].nh] = k
    BY <2>1 DEF HasNextHop, UsersOk
  <2>3. CASE Gone(k)
    <3>1. nb'[k] = Empty /\ \A n \in NhIds : nhObj[n] # k
      BY <2>1, <2>3 DEF AfterRemoveAll, Gone, HasNextHop
    <3>2. UsersOk(k, nb'[k], nhObj')
      BY <1>1, <3>1, BlankUsers
    <3> QED BY <2>2, <3>1, <3>2 DEF Empty
  <2>4. CASE Left(k)
    <3>1. nb[k].in = TRUE /\ ActOk(k, nb[k])
      BY <2>4, InDatabase DEF Left
    <3>2. nb'[k].ref = 1 /\ nb'[k].exists = FALSE /\ nb'[k].nh = nb[k].nh
          /\ nb'[k].arp = nb[k].arp /\ nb'[k].act \in Supported /\ nb'[k].in
      BY <2>1, <2>4 DEF AfterRemoveAll
    <3>3. Users(k, nb'[k], nhObj) = 1
      BY <2>2, <2>4, <3>2 DEF Users, One, Left
    <3>4. UsersOk(k, nb'[k], nhObj')
      BY <1>1, <2>1, <3>2, <3>3 DEF UsersOk
    <3> QED BY <2>1, <3>1, <3>2, <3>4 DEF ActOk
  <2>5. CASE ~nb[k].exists
    BY <1>1, <2>1, <2>2, <2>5 DEF AfterRemoveAll, ActOk
  <2> QED BY <2>3, <2>4, <2>5 DEF Gone, Left
<1>3. UsersInv' /\ BridgeInv'
  BY <1>2 DEF UsersInv, BridgeInv
<1>4. ActsInv'
  BY <1>1, <1>2 DEF ActsInv, ActOk, ExactInv
<1>5. HwInv'
  BY <1>1 DEF HwInv, AfterRemoveAll
<1> QED BY <1>3, <1>4, <1>5 DEF ExactInv

(* The invariant holds at first, and every handler keeps it. *)
LEMMA InitExact == Init => ExactInv
PROOF
<1> SUFFICES ASSUME Init PROVE ExactInv
  OBVIOUS
<1>1. /\ \A k \in Keys : nb[k] = Empty
      /\ \A n \in NhIds : nhObj[n] = NoKey
      /\ missAct = [r \in Rifs |-> "TRAP"]
  BY DEF Init
<1>2. UsersInv
  BY <1>1, NoKeyFact DEF UsersInv, UsersOk, Empty
<1>3. ActsInv /\ BridgeInv /\ HwInv
  BY <1>1 DEF ActsInv, BridgeInv, HwInv, Empty, Supported, ToCpu
<1> QED BY <1>2, <1>3 DEF ExactInv

(* Each step of a handler that may write records: which one, and what else *)
(* it changes. *)
Creates(k) ==
  /\ nb[k].exists = FALSE /\ nb'[k].exists = TRUE /\ neighborCnt < MaxNeighbors
  /\ neighborCnt' = (neighborCnt + 1) % CntWrap
  /\ hostRoute' = IF nb'[k].noHost THEN hostRoute
                  ELSE [hostRoute EXCEPT ![RouteOf(k)] = nb'[k].nh]
Removes(k) ==
  /\ nb[k].exists = TRUE /\ nb'[k].exists = FALSE
  /\ neighborCnt' = (neighborCnt - 1) % CntWrap
  /\ hostRoute' = IF nb[k].noHost THEN hostRoute
                  ELSE [hostRoute EXCEPT ![RouteOf(k)] = 0]
Spares(k) == KeepsNeighbor(k) /\ UNCHANGED <<neighborCnt, hostRoute>>
NextHopsKept == UNCHANGED <<nhObj, nexthopCnt>>
NextHopsAdd(k) ==
  \E i \in NhIds : /\ nhObj[i] = NoKey /\ nhObj' = [nhObj EXCEPT ![i] = k]
                   /\ nexthopCnt' = nexthopCnt + 1
NextHopsDrop ==
  \E i \in NhIds : /\ nhObj[i] \in Keys /\ nhObj' = [nhObj EXCEPT ![i] = NoKey]
                   /\ nexthopCnt' = nexthopCnt - 1
WriteStep(k) ==
  /\ Writes(k) /\ (Creates(k) \/ Removes(k) \/ Spares(k))
  /\ NextHopsKept \/ NextHopsAdd(k) \/ NextHopsDrop
  /\ Removes(k) => \E a \in ArpIds \cup {0}, n \in NhIds \cup {0}, fault \in Failing :
                     RemoveNeighbor(k, a, n, fault)

(* ref_cnt and NO_HOST_ROUTE are all the handlers below touch besides. *)
LEMMA CreateStep ==
  ASSUME SoundCalls, IdsInv, ExactInv, NEW k \in Keys, NEW mac \in Macs,
         NEW act \in CreateActs, NEW host \in HostAttrs,
         NEW a \in FreeIds(ArpIds, arpPool), NEW n \in FreeIds(NhIds, nhPool),
         NEW fault \in Failing, CreateNeighbor(k, mac, act, host, a, n, fault)
  PROVE  WriteStep(k)
PROOF
<1>1. /\ Writes(k)
      /\ \/ /\ nb'[k].exists = TRUE /\ neighborCnt' = (neighborCnt + 1) % CntWrap
            /\ hostRoute' = IF nb'[k].noHost THEN hostRoute
                            ELSE [hostRoute EXCEPT ![RouteOf(k)] = nb'[k].nh]
         \/ nb'[k].exists = FALSE /\ UNCHANGED <<hostRoute, neighborCnt>>
  BY CreateNeighborWrites
<1>2. nb[k].exists = FALSE /\ neighborCnt < MaxNeighbors /\ NextHopsKept
  BY DEF CreateNeighbor, NextHopsKept, IdsInv, TypeOK, Records
<1> QED BY <1>1, <1>2 DEF WriteStep, Creates, Removes, Spares, KeepsNeighbor

(* remove_neighbor. *)
LEMMA RemoveStep ==
  ASSUME SoundCalls, IdsInv, ExactInv, NEW k \in Keys,
         NEW a \in FreeIds(ArpIds, arpPool), NEW n \in FreeIds(NhIds, nhPool),
         NEW fault \in Failing, RemoveNeighbor(k, a, n, fault)
  PROVE  WriteStep(k)
PROOF
<1>1. Writes(k) /\ nb'[k].exists = FALSE
  BY RemoveNeighborWrites
<1>2. nb[k].exists = TRUE /\ Rif(k) \in rifs /\ nb[k].noHost \in BOOLEAN
  <2>1. nb[k].exists
    BY DEF RemoveNeighbor
  <2> QED BY <2>1, InDatabase DEF ActOk, Records
<1>3. Removes(k) /\ NextHopsKept
  BY <1>1, <1>2 DEF Removes, RemoveNeighbor, DropHostRoute, NextHopsKept
<1>4. a \in ArpIds \cup {0} /\ n \in NhIds \cup {0}
  BY FreeIdsFact
<1> QED BY <1>1, <1>3, <1>4 DEF WriteStep

(* set_neighbor_attribute with DST_MAC_ADDRESS. *)
LEMMA SetMacStep ==
  ASSUME SoundCalls, IdsInv, ExactInv, NEW k \in Keys, NEW mac \in Macs,
         NEW a \in FreeIds(ArpIds, arpPool), NEW n \in FreeIds(NhIds, nhPool),
         NEW fault \in Failing, SetMac(k, mac, a, n, fault)
  PROVE  WriteStep(k)
PROOF
<1> DEFINE e == [nb[k] EXCEPT !.mac = mac]
<1>1. OrphanedOk(k, e) /\ e.noHost = nb[k].noHost
  BY DEF IdsInv, TypeOK, OrphanedOk, SameUsers, Records
<1>2. SetRecord(k, e, a, n, fault)
  BY DEF SetMac
<1> HIDE DEF e
<1>3. Writes(k) /\ KeepsNeighbor(k)
  BY <1>1, <1>2, SetRecordWrites
<1>4. nb[k].exists = TRUE /\ UNCHANGED <<neighborCnt, hostRoute>> /\ NextHopsKept
  BY <1>2 DEF SetRecord, cntVars, NextHopsKept, IdsInv, TypeOK, Records
<1> QED BY <1>3, <1>4 DEF WriteStep, Spares, KeepsNeighbor, Removes

(* set_neighbor_attribute with PACKET_ACTION. *)
LEMMA SetActionStep ==
  ASSUME SoundCalls, IdsInv, ExactInv, NEW k \in Keys, NEW act \in SetActs,
         NEW a \in FreeIds(ArpIds, arpPool), NEW n \in FreeIds(NhIds, nhPool),
         NEW fault \in Failing, SetAction(k, act, a, n, fault)
  PROVE  WriteStep(k)
PROOF
<1> DEFINE e == [nb[k] EXCEPT !.act = act]
<1>1. OrphanedOk(k, e) /\ e.noHost = nb[k].noHost
  <2>1. act \in Acts
    BY NeighborAssumption
  <2> QED BY <2>1 DEF IdsInv, TypeOK, OrphanedOk, SameUsers, Records
<1>2. SetRecord(k, e, a, n, fault)
  BY DEF SetAction
<1> HIDE DEF e
<1>3. Writes(k) /\ KeepsNeighbor(k)
  BY <1>1, <1>2, SetRecordWrites
<1>4. nb[k].exists = TRUE /\ UNCHANGED <<neighborCnt, hostRoute>> /\ NextHopsKept
  BY <1>2 DEF SetRecord, cntVars, NextHopsKept, IdsInv, TypeOK, Records
<1> QED BY <1>3, <1>4 DEF WriteStep, Spares, KeepsNeighbor, Removes

(* create_next_hop, the repeated one too. *)
LEMMA CreateNextHopStep ==
  ASSUME SoundCalls, IdsInv, ExactInv, NEW k \in Keys,
         NEW a \in FreeIds(ArpIds, arpPool), NEW n \in FreeIds(NhIds, nhPool),
         NEW fault \in Failing, CreateNextHop(k, a, n, fault)
  PROVE  WriteStep(k)
PROOF
<1>1. Writes(k) /\ KeepsNeighbor(k) /\ (NextHopsAdd(k) \/ NextHopsKept)
  BY CreateNextHopWrites DEF NextHopsAdd, NextHopsKept
<1>2. UNCHANGED <<neighborCnt, hostRoute>>
  BY DEF CreateNextHop
<1> QED BY <1>1, <1>2 DEF WriteStep, Spares, KeepsNeighbor, Removes

(* remove_next_hop. *)
LEMMA RemoveNextHopStep ==
  ASSUME SoundCalls, IdsInv, ExactInv, NEW n \in NhIds, RemoveNextHop(n)
  PROVE  nhObj[n] \in Keys /\ WriteStep(nhObj[n])
PROOF
<1>1. nhObj[n] \in Keys /\ Writes(nhObj[n]) /\ KeepsNeighbor(nhObj[n])
  BY RemoveNextHopWrites
<1>2. UNCHANGED <<neighborCnt, hostRoute>> /\ NextHopsDrop
  BY <1>1 DEF RemoveNextHop, NextHopsDrop
<1> QED BY <1>1, <1>2 DEF WriteStep, Spares, KeepsNeighbor, Removes

(* The steps of Next, for everything shown below. *)
Quiet == /\ UNCHANGED <<nb, arpPool, nhPool, nhObj, hostRoute, neighborCnt, nexthopCnt>>
         /\ ExactInv'
HostRouteStep ==
  \E k \in Keys, on \in BOOLEAN, fault \in Failing : SetNoHostRoute(k, on, fault)
(* Steps that touch none of the variables of the invariant. *)
LEMMA OthersExact ==
  ASSUME ExactInv, UNCHANGED <<nb, hwArp, hwNh, nhObj, rifs, missAct, fdb, events>>
  PROVE  ExactInv'
BY DEF ExactInv, UsersInv, UsersOk, Users, ActsInv, ActOk, BridgeInv, HwInv, HwFor

(* Every step writes one record, changes one host route, removes all *)
(* neighbors, or leaves records, pools, objects and counters alone. *)
LEMMA NextSteps ==
  ASSUME SoundCalls, IdsInv, ExactInv, [Next]_vars
  PROVE  \/ \E k \in Keys : WriteStep(k)
         \/ HostRouteStep \/ RemoveAll \/ Quiet
PROOF
<1>1. CASE UNCHANGED vars
  BY <1>1, OthersExact DEF vars, dbVars, rifVars, fdbVars, cntVars, Quiet
<1>2. ASSUME NEW k \in Keys, KeyNext(k)
      PROVE  WriteStep(k) \/ HostRouteStep \/ Quiet
  <2>1. CASE CreateExisting(k) \/ RemoveMissing(k)
    BY <2>1, OthersExact
       DEF CreateExisting, RemoveMissing, dbVars, rifVars, fdbVars, cntVars, Quiet
  <2>2. CASE CreateWithoutMac(k)
    BY <2>2 DEF CreateWithoutMac, SoundCalls
  <2>3. CASE \E on \in BOOLEAN, fault \in Failing : SetNoHostRoute(k, on, fault)
    BY <2>3 DEF HostRouteStep
  <2>4. ASSUME NEW a \in FreeIds(ArpIds, arpPool), NEW n \in FreeIds(NhIds, nhPool),
               NEW fault \in Failing, RecordNext(k, a, n, fault)
        PROVE  WriteStep(k)
    BY <2>4, CreateStep, RemoveStep, SetMacStep, SetActionStep, CreateNextHopStep
       DEF RecordNext
  <2> QED BY <1>2, <2>1, <2>2, <2>3, <2>4 DEF KeyNext
<1>3. ASSUME NEW n \in NhIds, RemoveNextHop(n) PROVE \E k \in Keys : WriteStep(k)
  BY <1>3, RemoveNextHopStep
<1>4. CASE RifNext
  <2>1. ExactInv'
    BY <1>4, RifExact
  <2> QED BY <1>4, <2>1
          DEF RifNext, RemoveRif, CreateRif, SetMissAction, dbVars, cntVars, Quiet
<1>5. CASE FdbNext
  <2>1. ExactInv'
    BY <1>5, FdbExact
  <2> QED BY <1>5, <2>1
          DEF FdbNext, ChangeFdb, FlushFdb, HwChangeFdb, FdbEvent, UpdateArp, dbVars, cntVars,
              Quiet
<1> QED BY <1>1, <1>2, <1>3, <1>4, <1>5 DEF Next

(* So every step keeps the invariant. *)
LEMMA NextExact ==
  ASSUME SoundCalls, IdsInv, ExactInv, [Next]_vars
  PROVE  ExactInv'
BY NextSteps, WritesExact, SetNoHostRouteExact, RemoveAllExact
   DEF WriteStep, HostRouteStep, Quiet

(* The invariant holds in every state the rules allow. *)
LEMMA ExactInvariant == ASSUME SoundCalls PROVE Spec => [](IdsInv /\ ExactInv)
PROOF
<1>1. Init => IdsInv /\ ExactInv
  BY InitIds, InitExact
<1>2. IdsInv /\ ExactInv /\ [Next]_vars => IdsInv' /\ ExactInv'
  BY NextIds, NextExact
<1> QED BY <1>1, <1>2, PTL DEF Spec

-----------------------------------------------------------------------------
(* Whoever creates and removes neighbors and next hops in whatever order, *)
(* and whatever the SDK refuses, ref_cnt is the number of modules that use *)
(* the record and the record is deleted with its last user. *)
THEOREM RefsAreExact == ASSUME SoundCalls PROVE Spec => []RefExact
PROOF
<1>1. ASSUME IdsInv, ExactInv PROVE RefExact
  <2> SUFFICES ASSUME NEW k \in Keys
               PROVE  /\ nb[k].ref = One(nb[k].exists) + One(HasNextHop(k))
                      /\ nb[k].in <=> nb[k].ref > 0
    BY DEF RefExact, One
  <2>1. CASE nb[k].in
    <3>1. nb[k].ref = Users(k, nb[k], nhObj) /\ nb[k].nh \in NhIds /\ nb[k].ref \in {1, 2}
      BY <1>1, <2>1, InDatabase
    <3>2. HasNextHop(k) <=> nhObj[nb[k].nh] = k
      BY <1>1, <2>1, <3>1, HasNextHopFact
    <3> QED BY <2>1, <3>1, <3>2 DEF Users, One
  <2>2. CASE ~nb[k].in
    <3>1. nb[k] = Empty
      BY <1>1, <2>2 DEF IdsInv, RecordInv
    <3>2. ~HasNextHop(k)
      BY <1>1, <2>2 DEF ExactInv, UsersInv, UsersOk, HasNextHop
    <3> QED BY <2>2, <3>1, <3>2 DEF Empty, One
  <2> QED BY <2>1, <2>2
<1> QED BY <1>1, ExactInvariant, PTL

(* A next hop object that lives keeps its record in the database, and the *)
(* record keeps the hardware next hop the object is named after: no removal *)
(* of the neighbor, failed call or remove_all frees it under the object. *)
THEOREM NextHopsStand == ASSUME SoundCalls PROVE Spec => []NextHopKept
PROOF
<1>1. ASSUME IdsInv, ExactInv PROVE NextHopKept
  BY <1>1 DEF IdsInv, TypeOK, ExactInv, UsersInv, UsersOk, NextHopKept
<1> QED BY <1>1, ExactInvariant, PTL

(* Unless the FDB event of its MAC is still queued, a packet sent to the *)
(* next hop of a record goes where its MAC, its packet action and the FDB *)
(* say: through the ARP entry on a port or a VLAN, by the flex-edit next *)
(* hop on a bridge. *)
THEOREM AdjacenciesAreFresh == ASSUME SoundCalls PROVE Spec => []AdjacencyFresh
PROOF
<1>1. ASSUME IdsInv, ExactInv PROVE AdjacencyFresh
  <2> SUFFICES ASSUME NEW k \in Keys, nb[k].in, <<Rif(k), nb[k].mac>> \notin events
               PROVE  Adjacency(nb[k].nh) = AdjacencyOf(k)
    BY DEF AdjacencyFresh
  <2>1. HwFor(k, nb[k], hwArp, hwNh, fdb, events) /\ nb[k].nh \in NhIds /\ hwNh \in NhTables
    BY <1>1, InDatabase DEF IdsInv, TypeOK, ExactInv, HwInv
  <2>2. hwNh[nb[k].nh] \in [arp : ArpIds] \cup [misc : Adjacencies] \cup {NoHw}
    BY <2>1 DEF NhTables
  <2>3. CASE Rif(k) \in BridgeRifs
    <3> DEFINE m == MiscParam(fdb, k, nb[k])
    <3>1. hwNh[nb[k].nh] = [misc |-> m]
      BY <2>1, <2>3 DEF HwFor
    <3>2. m \in Adjacencies
      BY <1>1, <2>3, ParamTypes, InDatabase DEF IdsInv, TypeOK
    <3> HIDE DEF m
    <3>3. [misc |-> m] # NoHw /\ "arp" \notin DOMAIN [misc |-> m]
      BY <3>2, NoHwAssumption
    <3> QED BY <2>3, <3>1, <3>3 DEF Adjacency, AdjacencyOf, m
  <2>4. CASE Rif(k) \notin BridgeRifs
    <3> DEFINE a == nb[k].arp
    <3>1. hwNh[nb[k].nh] = [arp |-> a] /\ hwArp[a] = ArpParam(fdb, k, nb[k])
      BY <2>1, <2>4 DEF HwFor
    <3>2. a \in ArpIds
      BY <1>1, <2>4, InDatabase DEF IdsInv, RecordInv, Records
    <3> HIDE DEF a
    <3>3. [arp |-> a] # NoHw /\ "arp" \in DOMAIN [arp |-> a] /\ [arp |-> a].arp = a
      BY <3>2, NoHwAssumption
    <3> QED BY <2>4, <3>1, <3>3 DEF Adjacency, AdjacencyOf
  <2> QED BY <2>3, <2>4
<1> QED BY <1>1, ExactInvariant, PTL

(* A writing handler leaves every other record alone. *)
LEMMA WritesOne ==
  ASSUME IdsInv, NEW k \in Keys, NEW s, WritesAs(k, s)
  PROVE  nb'[k] = s.e /\ \A j \in Keys : j # k => nb'[j] = nb[j]
BY DEF WritesAs, Become, IdsInv, TypeOK

(* NO_HOST_ROUTE, its host route and nothing else. *)
LEMMA HostRouteStepFact ==
  ASSUME IdsInv, HostRouteStep
  PROVE  /\ \A j \in Keys : /\ nb'[j].in = nb[j].in /\ nb'[j].exists = nb[j].exists
                            /\ nb'[j].arp = nb[j].arp /\ nb'[j].nh = nb[j].nh
         /\ UNCHANGED <<arpPool, nhPool, nhObj, neighborCnt, nexthopCnt>>
PROOF
<1>1. PICK k \in Keys, on \in BOOLEAN, fault \in Failing : SetNoHostRoute(k, on, fault)
  BY DEF HostRouteStep
<1>2. nb \in [Keys -> Records] /\ nb[k] \in Records
  BY DEF IdsInv, TypeOK
<1>3. nb' = nb \/ nb' = [nb EXCEPT ![k] = [nb[k] EXCEPT !.noHost = on]]
  BY <1>1, <1>2 DEF SetNoHostRoute
<1>4. UNCHANGED <<arpPool, nhPool, nhObj, neighborCnt, nexthopCnt>>
  BY <1>1 DEF SetNoHostRoute, cntVars
<1> QED BY <1>2, <1>3, <1>4 DEF Records

(* No handler but its own removal and remove_all ends a neighbor: not a *)
(* failed create or set, not the removal of the next hop it shares its *)
(* record with, not an event of the FDB. *)
THEOREM NeighborsAreKept == ASSUME SoundCalls PROVE Spec => NeighborKept
PROOF
<1>1. ASSUME IdsInv, ExactInv, [Next]_vars, NEW k \in Keys, nb[k].exists, ~nb'[k].exists
      PROVE  \/ RemoveAll
             \/ \E a \in ArpIds \cup {0}, n \in NhIds \cup {0}, fault \in Failing :
                  RemoveNeighbor(k, a, n, fault)
  <2>1. ASSUME NEW j \in Keys, WriteStep(j)
        PROVE  \E a \in ArpIds \cup {0}, n \in NhIds \cup {0}, fault \in Failing :
                 RemoveNeighbor(k, a, n, fault)
    <3>1. Writes(j) /\ (Creates(j) \/ Removes(j) \/ Spares(j))
      BY <2>1 DEF WriteStep
    <3>2. j = k
      BY <1>1, <3>1, WritesOne DEF Writes
    <3>3. Removes(k)
      BY <1>1, <3>1, <3>2 DEF Creates, Spares, KeepsNeighbor
    <3> QED BY <2>1, <3>2, <3>3 DEF WriteStep
  <2>2. ~HostRouteStep /\ ~Quiet
    BY <1>1, HostRouteStepFact DEF Quiet
  <2> QED BY <1>1, <2>1, <2>2, NextSteps
<1>2. (IdsInv /\ ExactInv) /\ [Next]_vars =>
        [\A k \in Keys : (nb[k].exists /\ ~nb'[k].exists) =>
           \/ RemoveAll
           \/ \E a \in ArpIds \cup {0}, n \in NhIds \cup {0}, fault \in Failing :
                RemoveNeighbor(k, a, n, fault)]_vars
  BY <1>1
<1> QED BY <1>2, ExactInvariant, PTL DEF Spec, NeighborKept

-----------------------------------------------------------------------------
(* The counters. The bound on neighbors keeps neighbor_cnt below its *)
(* modulus; remove_all, which counts records that only a next hop holds *)
(* down too, is not called. *)
Neighbors == {k \in Keys : nb[k].exists}
NextHops == {n \in NhIds : nhObj[n] # NoKey}
CountsInv == CountsExact /\ neighborCnt <= MaxNeighbors

(* neighbor_cnt follows the one record a handler writes. *)
LEMMA NeighborsCounted ==
  ASSUME IdsInv, CountsInv, NEW k \in Keys, WriteStep(k)
  PROVE  neighborCnt' = Cardinality(Neighbors') /\ neighborCnt' <= MaxNeighbors
PROOF
<1>1. PICK s : WritesAs(k, s)
  BY DEF WriteStep, Writes
<1>2. \A j \in Keys : j # k => nb'[j] = nb[j]
  BY <1>1, WritesOne
<1>3. /\ IsFiniteSet(Neighbors) /\ Cardinality(Neighbors) \in Nat
      /\ neighborCnt = Cardinality(Neighbors) /\ neighborCnt <= MaxNeighbors
      /\ MaxNeighbors \in Nat /\ CntWrap \in Nat /\ MaxNeighbors < CntWrap
  BY FS_Subset, FS_CardinalityType, NeighborAssumption DEF Neighbors, CountsInv, CountsExact
<1>4. CASE Creates(k)
  <2>1. Neighbors' = Neighbors \cup {k} /\ k \notin Neighbors
    BY <1>2, <1>4 DEF Creates, Neighbors
  <2>2. Cardinality(Neighbors') = neighborCnt + 1
    BY <1>3, <2>1, FS_AddElement
  <2>3. neighborCnt' = (neighborCnt + 1) % CntWrap /\ neighborCnt < MaxNeighbors
    BY <1>4 DEF Creates
  <2> HIDE DEF Neighbors
  <2>4. (neighborCnt + 1) % CntWrap = neighborCnt + 1
    BY <1>3, <2>3
  <2> QED BY <1>3, <2>2, <2>3, <2>4
<1>5. CASE Removes(k)
  <2>1. Neighbors' = Neighbors \ {k} /\ k \in Neighbors
    BY <1>2, <1>5 DEF Removes, Neighbors
  <2>2. Cardinality(Neighbors') = neighborCnt - 1 /\ IsFiniteSet(Neighbors')
    BY <1>3, <2>1, FS_RemoveElement
  <2>3. Cardinality(Neighbors') \in Nat
    BY <2>2, FS_CardinalityType
  <2>4. neighborCnt' = (neighborCnt - 1) % CntWrap
    BY <1>5 DEF Removes
  <2> HIDE DEF Neighbors
  <2>5. (neighborCnt - 1) % CntWrap = neighborCnt - 1
    BY <1>3, <2>2, <2>3
  <2> QED BY <1>3, <2>2, <2>4, <2>5
<1>6. CASE Spares(k)
  <2>1. Neighbors' = Neighbors /\ neighborCnt' = neighborCnt
    BY <1>2, <1>6 DEF Spares, KeepsNeighbor, Neighbors
  <2> QED BY <1>3, <2>1
<1> QED BY <1>4, <1>5, <1>6 DEF WriteStep

(* nexthop_cnt follows the next hop objects. *)
LEMMA NextHopsCounted ==
  ASSUME IdsInv, CountsInv, NEW k \in Keys, WriteStep(k)
  PROVE  nexthopCnt' = Cardinality(NextHops')
PROOF
<1>1. /\ IsFiniteSet(NextHops) /\ Cardinality(NextHops) \in Nat
      /\ nexthopCnt = Cardinality(NextHops) /\ NoKey \notin Keys
      /\ nhObj \in [NhIds -> Keys \cup {NoKey}]
  BY FS_Subset, FS_CardinalityType, NeighborAssumption, NoKeyFact
     DEF NextHops, CountsInv, CountsExact, IdsInv, TypeOK
<1>2. CASE NextHopsKept
  BY <1>1, <1>2 DEF NextHopsKept, NextHops
<1>3. CASE NextHopsAdd(k)
  <2>1. PICK i \in NhIds : /\ nhObj[i] = NoKey /\ nhObj' = [nhObj EXCEPT ![i] = k]
                           /\ nexthopCnt' = nexthopCnt + 1
    BY <1>3 DEF NextHopsAdd
  <2>2. NextHops' = NextHops \cup {i} /\ i \notin NextHops
    BY <1>1, <2>1 DEF NextHops
  <2> QED BY <1>1, <2>1, <2>2, FS_AddElement
<1>4. CASE NextHopsDrop
  <2>1. PICK i \in NhIds : /\ nhObj[i] \in Keys /\ nhObj' = [nhObj EXCEPT ![i] = NoKey]
                           /\ nexthopCnt' = nexthopCnt - 1
    BY <1>4 DEF NextHopsDrop
  <2>2. NextHops' = NextHops \ {i} /\ i \in NextHops
    BY <1>1, <2>1 DEF NextHops
  <2> QED BY <1>1, <2>1, <2>2, FS_RemoveElement
<1> QED BY <1>2, <1>3, <1>4 DEF WriteStep

(* neighbor_cnt and nexthop_cnt, which the resource queries of the switch *)
(* are answered from, count what exists after every failed create, repeated *)
(* next hop and removal. *)
THEOREM CountsAreExact ==
  ASSUME SoundCalls, ~RemoveAllUsed
  PROVE  Spec => []CountsExact
PROOF
<1>1. Init => CountsInv
  <2> SUFFICES ASSUME Init PROVE CountsInv
    OBVIOUS
  <2>1. Neighbors = {} /\ NextHops = {}
    BY DEF Init, Empty, Neighbors, NextHops
  <2>2. neighborCnt = 0 /\ nexthopCnt = 0 /\ 0 <= MaxNeighbors
    BY NeighborAssumption DEF Init
  <2> QED BY <2>1, <2>2, FS_EmptySet DEF CountsInv, CountsExact, Neighbors, NextHops
<1>2. ASSUME IdsInv, ExactInv, CountsInv, [Next]_vars PROVE CountsInv'
  <2>1. ASSUME NEW k \in Keys, WriteStep(k) PROVE CountsInv'
    BY <1>2, <2>1, NeighborsCounted, NextHopsCounted
       DEF CountsInv, CountsExact, Neighbors, NextHops
  <2>2. CASE HostRouteStep
    <3>1. /\ \A j \in Keys : nb'[j].exists = nb[j].exists
          /\ UNCHANGED <<nhObj, neighborCnt, nexthopCnt>>
      BY <1>2, <2>2, HostRouteStepFact
    <3>2. Neighbors' = Neighbors /\ NextHops' = NextHops
      BY <3>1 DEF Neighbors, NextHops
    <3> QED BY <1>2, <3>1, <3>2 DEF CountsInv, CountsExact, Neighbors, NextHops
  <2>3. CASE Quiet
    BY <1>2, <2>3 DEF Quiet, CountsInv, CountsExact
  <2>4. ~RemoveAll
    BY DEF RemoveAll
  <2> QED BY <1>2, <2>1, <2>2, <2>3, <2>4, NextSteps
<1>3. CountsInv => CountsExact
  BY DEF CountsInv
<1>4. Spec => [](IdsInv /\ ExactInv)
  BY ExactInvariant
<1>5. (IdsInv /\ ExactInv) /\ CountsInv /\ [Next]_vars => CountsInv'
  BY <1>2
<1> QED BY <1>1, <1>3, <1>4, <1>5, PTL DEF Spec

-----------------------------------------------------------------------------
(* Two neighbors with the same address in one virtual router would share a *)
(* host route; the callers do not create them. *)
RoutesApart == \A j, k \in Keys : RouteOf(j) = RouteOf(k) => j = k

(* A handler that writes one record and its host route. *)
LEMMA HostRouteOne ==
  ASSUME IdsInv, ExactInv, RoutesApart, HostRouteExact, NEW k \in Keys, NEW i,
         hostRoute' = [hostRoute EXCEPT ![RouteOf(k)] = i],
         i = IF nb'[k].exists /\ ~nb'[k].noHost THEN nb'[k].nh ELSE 0,
         \A j \in Keys : j # k => nb'[j] = nb[j]
  PROVE  HostRouteExact'
PROOF
<1> SUFFICES ASSUME NEW j \in Keys
             PROVE  hostRoute'[RouteOf(j)] =
                      IF nb'[j].exists /\ ~nb'[j].noHost THEN nb'[j].nh ELSE 0
  BY DEF HostRouteExact
<1>1. hostRoute \in [RouteKeys -> NhIds \cup {0}] /\ RouteOf(j) \in RouteKeys
  BY RouteTyped DEF IdsInv, TypeOK
<1>2. CASE j = k
  BY <1>1, <1>2
<1>3. CASE j # k
  <2>1. RouteOf(j) # RouteOf(k)
    BY <1>3 DEF RoutesApart
  <2> QED BY <1>1, <1>3, <2>1 DEF HostRouteExact
<1> QED BY <1>2, <1>3

(* A host route is in the SDK exactly for the neighbors that want one, and *)
(* leads to the next hop the neighbor's record has. *)
THEOREM HostRoutesAreExact ==
  ASSUME SoundCalls, RoutesApart
  PROVE  Spec => []HostRouteExact
PROOF
<1>1. Init => HostRouteExact
  BY RouteTyped DEF Init, Empty, HostRouteExact
<1>2. ASSUME IdsInv, ExactInv, HostRouteExact, [Next]_vars PROVE HostRouteExact'
  <2>1. ASSUME NEW k \in Keys, WriteStep(k) PROVE HostRouteExact'
    <3>1. \A j \in Keys : j # k => nb'[j] = nb[j]
      BY <1>2, <2>1, WritesOne DEF WriteStep, Writes
    <3>2. hostRoute[RouteOf(k)] = IF nb[k].exists /\ ~nb[k].noHost THEN nb[k].nh ELSE 0
      BY <1>2 DEF HostRouteExact
    <3>3. hostRoute \in [RouteKeys -> NhIds \cup {0}] /\ RouteOf(k) \in RouteKeys
      BY <1>2, RouteTyped DEF IdsInv, TypeOK
    <3> DEFINE i == IF nb'[k].exists /\ ~nb'[k].noHost THEN nb'[k].nh ELSE 0
    <3>4. CASE Creates(k)
      <4>1. hostRoute' = [hostRoute EXCEPT ![RouteOf(k)] = i]
        BY <3>2, <3>3, <3>4 DEF Creates
      <4> QED BY <1>2, <3>1, <4>1, HostRouteOne
    <3>5. CASE Removes(k)
      <4>1. hostRoute' = [hostRoute EXCEPT ![RouteOf(k)] = i]
        BY <3>2, <3>3, <3>5 DEF Removes
      <4> QED BY <1>2, <3>1, <4>1, HostRouteOne
    <3>6. CASE Spares(k)
      <4>1. hostRoute' = [hostRoute EXCEPT ![RouteOf(k)] = i]
        BY <3>2, <3>3, <3>6 DEF Spares, KeepsNeighbor
      <4> QED BY <1>2, <3>1, <4>1, HostRouteOne
    <3> QED BY <2>1, <3>4, <3>5, <3>6 DEF WriteStep
  <2>2. CASE HostRouteStep
    <3>1. PICK k \in Keys, on \in BOOLEAN, fault \in Failing : SetNoHostRoute(k, on, fault)
      BY <2>2 DEF HostRouteStep
    <3>2. /\ nb \in [Keys -> Records] /\ nb[k] \in Records
          /\ hostRoute \in [RouteKeys -> NhIds \cup {0}] /\ RouteOf(k) \in RouteKeys
      BY <1>2, RouteTyped DEF IdsInv, TypeOK
    <3>3. CASE UNCHANGED <<nb, hostRoute>>
      BY <1>2, <3>3 DEF HostRouteExact
    <3>4. CASE ~UNCHANGED <<nb, hostRoute>>
      <4> DEFINE i == IF on THEN 0 ELSE nb[k].nh
      <4>1. /\ nb[k].exists /\ nb' = [nb EXCEPT ![k].noHost = on]
            /\ hostRoute' = [hostRoute EXCEPT ![RouteOf(k)] = i]
        BY <3>1, <3>2, <3>4 DEF SetNoHostRoute, Records
      <4>2. nb'[k].exists /\ nb'[k].noHost = on /\ nb'[k].nh = nb[k].nh
        BY <3>2, <4>1 DEF Records
      <4>3. \A j \in Keys : j # k => nb'[j] = nb[j]
        BY <3>2, <4>1
      <4> QED BY <1>2, <4>1, <4>2, <4>3, HostRouteOne
    <3> QED BY <3>3, <3>4
  <2>3. CASE RemoveAll
    <3> SUFFICES ASSUME NEW k \in Keys
                 PROVE  hostRoute'[RouteOf(k)] =
                          IF nb'[k].exists /\ ~nb'[k].noHost THEN nb'[k].nh ELSE 0
      BY DEF HostRouteExact
    <3>1. nb'[k].exists = FALSE
      <4>1. AfterRemoveAll(k) /\ nb[k].exists \in BOOLEAN
        BY <1>2, <2>3, RemoveAllFact DEF IdsInv, TypeOK, Records
      <4> QED BY <4>1 DEF AfterRemoveAll, Gone, Left, Empty
    <3>2. hostRoute'[RouteOf(k)] =
            IF \E j \in Keys : nb[j].exists /\ ~nb[j].noHost /\ RouteOf(j) = RouteOf(k)
            THEN 0 ELSE hostRoute[RouteOf(k)]
      BY <1>2, <2>3, RemoveAllFact, RouteTyped
    <3>3. ~(nb[k].exists /\ ~nb[k].noHost) => hostRoute[RouteOf(k)] = 0
      BY <1>2 DEF HostRouteExact
    <3> QED BY <3>1, <3>2, <3>3
  <2>4. CASE Quiet
    BY <1>2, <2>4 DEF Quiet, HostRouteExact
  <2> QED BY <1>2, <2>1, <2>2, <2>3, <2>4, NextSteps
<1>3. Spec => [](IdsInv /\ ExactInv)
  BY ExactInvariant
<1>4. (IdsInv /\ ExactInv) /\ HostRouteExact /\ [Next]_vars => HostRouteExact'
  BY <1>2
<1> QED BY <1>1, <1>3, <1>4, PTL DEF Spec

-----------------------------------------------------------------------------
(* The pools leak an id only when the SDK refuses a next hop or the NEXTHOP *)
(* pool is exhausted. With an id for each possible record it never is: a *)
(* record that is not in the database has none. *)
RoomForAll == "add_nh" \notin Faults /\ Cardinality(Keys) <= Cardinality(NhIds)

(* By the pigeonhole principle an id is left for a record that has none. *)
LEMMA RoomFact ==
  ASSUME IdsInv, PoolsExact, RoomForAll, NEW k \in Keys, nb[k].nh = 0
  PROVE  LeakFree
PROOF
<1> SUFFICES ASSUME NhIds \subseteq nhPool PROVE FALSE
  BY DEF RoomForAll, LeakFree
<1> DEFINE f == [n \in NhIds |-> CHOOSE j \in Keys \ {k} : nb[j].nh = n]
<1>1. ASSUME NEW n \in NhIds PROVE f[n] \in Keys \ {k} /\ nb[f[n]].nh = n
  <2>1. \E j \in Keys \ {k} : nb[j].nh = n
    BY NeighborAssumption DEF PoolsExact
  <2> QED BY <2>1
<1> HIDE DEF f
<1>2. f \in [NhIds -> Keys \ {k}]
  BY <1>1 DEF f
<1>3. /\ IsFiniteSet(Keys \ {k}) /\ IsFiniteSet(NhIds)
      /\ Cardinality(Keys \ {k}) < Cardinality(NhIds)
  <2>1. /\ Cardinality(Keys) \in Nat /\ Cardinality(NhIds) \in Nat
        /\ Cardinality(Keys) <= Cardinality(NhIds)
    BY FS_CardinalityType, NeighborAssumption DEF RoomForAll
  <2>2. IsFiniteSet(Keys \ {k}) /\ Cardinality(Keys \ {k}) = Cardinality(Keys) - 1
    BY FS_RemoveElement, NeighborAssumption
  <2> QED BY <2>1, <2>2, NeighborAssumption
<1>4. \E x, y \in NhIds : x # y /\ f[x] = f[y]
  BY <1>2, <1>3, FS_PigeonHole
<1> QED BY <1>1, <1>4

(* Each of the three outcomes changes the pools as it changes the record. *)
LEMMA PoolsWritten ==
  ASSUME IdsInv, PoolsExact, RoomForAll, NEW k \in Keys, Writes(k)
  PROVE  PoolsExact'
PROOF
<1>1. PICK s : WritesAs(k, s)
  BY DEF Writes
<1>2. nb'[k] = s.e /\ \A j \in Keys : j # k => nb'[j] = nb[j]
  BY <1>1, WritesOne
<1>3. arpPool' = s.arp /\ nhPool' = s.nh
  BY <1>1 DEF WritesAs, Become
<1>4. /\ arpPool = {nb[j].arp : j \in Keys} \ {0} /\ nhPool = {nb[j].nh : j \in Keys} \ {0}
      /\ 0 \notin NhIds
  BY NeighborAssumption DEF PoolsExact
<1>5. \A j \in Keys : j # k => /\ nb[j].arp = nb[k].arp => nb[j].arp = 0
                               /\ nb[j].nh = nb[k].nh => nb[j].nh = 0
  BY DEF IdsInv, IdsUnique
<1>6. ~nb[k].in => nb[k].arp = 0 /\ nb[k].nh = 0
  BY DEF IdsInv, RecordInv, Empty
<1>7. CASE Provided(k, s)
  <2>1. /\ s.arp = arpPool \cup ({s.e.arp} \ {0}) /\ s.nh = nhPool \cup {s.e.nh}
        /\ s.e.nh \in NhIds
        /\ nb[k].in => s.e.arp = nb[k].arp /\ s.e.nh = nb[k].nh
    BY <1>7 DEF Provided, Named
  <2>2. arpPool' = {nb'[j].arp : j \in Keys} \ {0}
    BY <1>2, <1>3, <1>4, <1>6, <2>1
  <2>3. nhPool' = {nb'[j].nh : j \in Keys} \ {0}
    BY <1>2, <1>3, <1>4, <1>6, <2>1
  <2> QED BY <2>2, <2>3 DEF PoolsExact
<1>8. CASE Released(k, s)
  <2>1. /\ s.arp = arpPool \ {nb[k].arp} /\ s.nh = nhPool \ {nb[k].nh}
        /\ s.e.arp = 0 /\ s.e.nh = 0
    BY <1>8 DEF Released, Empty
  <2>2. arpPool' = {nb'[j].arp : j \in Keys} \ {0}
    BY <1>2, <1>3, <1>4, <1>5, <2>1
  <2>3. nhPool' = {nb'[j].nh : j \in Keys} \ {0}
    BY <1>2, <1>3, <1>4, <1>5, <2>1
  <2> QED BY <2>2, <2>3 DEF PoolsExact
<1>9. CASE Refused(k, s) /\ s.e = Empty
  <2>1. nb[k].arp = 0 /\ nb[k].nh = 0 /\ s.e.arp = 0 /\ s.e.nh = 0 /\ ~s.e.in
    BY <1>6, <1>9 DEF Refused, Empty
  <2>2. s.arp = arpPool /\ s.nh = nhPool
    BY <1>1, <1>9, <2>1, RoomFact DEF WritesAs
  <2> QED BY <1>2, <1>3, <1>4, <2>1, <2>2 DEF PoolsExact
<1> QED BY <1>1, <1>7, <1>8, <1>9 DEF WritesAs, Ended

(* remove_all gives back the ids of exactly the records it deletes. *)
LEMMA PoolsRemoveAll ==
  ASSUME IdsInv, ExactInv, PoolsExact, RemoveAll
  PROVE  PoolsExact'
PROOF
<1>1. (\A k \in Keys : AfterRemoveAll(k)) /\ PoolsAfterRemoveAll
  BY RemoveAllFact
<1>2. ASSUME NEW k \in Keys
      PROVE  /\ Gone(k) => nb'[k].arp = 0 /\ nb'[k].nh = 0
             /\ ~Gone(k) => nb'[k].arp = nb[k].arp /\ nb'[k].nh = nb[k].nh
  <2>1. AfterRemoveAll(k)
    BY <1>1
  <2> QED BY <2>1 DEF AfterRemoveAll, Gone, Left, Empty
<1>3. \A i, j \in Keys : i # j => /\ nb[i].arp = nb[j].arp => nb[i].arp = 0
                                  /\ nb[i].nh = nb[j].nh => nb[i].nh = 0
  BY DEF IdsInv, IdsUnique
<1> DEFINE gone == {k \in Keys : Gone(k)}
<1>4. /\ nhPool' = nhPool \ {nb[k].nh : k \in gone}
      /\ arpPool' = arpPool \ {nb[k].arp : k \in gone}
  BY <1>1 DEF PoolsAfterRemoveAll
<1>5. /\ arpPool = {nb[k].arp : k \in Keys} \ {0} /\ nhPool = {nb[k].nh : k \in Keys} \ {0}
  BY DEF PoolsExact
<1>6. arpPool' = {nb'[k].arp : k \in Keys} \ {0}
  BY <1>2, <1>3, <1>4, <1>5
<1>7. nhPool' = {nb'[k].nh : k \in Keys} \ {0}
  BY <1>2, <1>3, <1>4, <1>5
<1> QED BY <1>6, <1>7 DEF PoolsExact

(* No ARP or next hop id is lost and none is given back twice: what the *)
(* pools have handed out is what the records name. *)
THEOREM PoolsAreExact ==
  ASSUME SoundCalls, RoomForAll
  PROVE  Spec => []PoolsExact
PROOF
<1>1. Init => PoolsExact
  BY DEF Init, Empty, PoolsExact
<1>2. ASSUME IdsInv, ExactInv, PoolsExact, [Next]_vars PROVE PoolsExact'
  <2>1. ASSUME NEW k \in Keys, WriteStep(k) PROVE PoolsExact'
    BY <1>2, <2>1, PoolsWritten DEF WriteStep
  <2>2. CASE HostRouteStep
    BY <1>2, <2>2, HostRouteStepFact DEF PoolsExact
  <2>3. CASE RemoveAll
    BY <1>2, <2>3, PoolsRemoveAll
  <2>4. CASE Quiet
    BY <1>2, <2>4 DEF Quiet, PoolsExact
  <2> QED BY <1>2, <2>1, <2>2, <2>3, <2>4, NextSteps
<1>3. Spec => [](IdsInv /\ ExactInv)
  BY ExactInvariant
<1>4. (IdsInv /\ ExactInv) /\ PoolsExact /\ [Next]_vars => PoolsExact'
  BY <1>2
<1> QED BY <1>1, <1>3, <1>4, PTL DEF Spec
=============================================================================
