-------------------------- MODULE L3InterfaceProofs --------------------------
(***************************************************************************)
(* Safety theorems about L3Interface, for all virtual routers, interfaces, *)
(* ports, VLANs and ids, whatever calls fail: the types of the tables, the *)
(* count of sub-interfaces, which never passes zero, and the pools of *)
(* virtual routers and of interfaces without hardware. The argument: each *)
(* stage of a handler, error labels included, is shown once to keep the *)
(* types and to leave the count no smaller than the interfaces it counts. *)
(***************************************************************************)
EXTENDS L3Interface, FiniteSetTheorems, WellFoundedInduction, TLAPS

(* The states the stages of a handler work on. *)
RifTables == UNION {[S -> RifRecords] : S \in SUBSET Rifs}
HwTables == UNION {[S -> HwRecords] : S \in SUBSET L3ifs}
States == [rif : RifTables, l3if : SUBSET L3ifs, vif : SUBSET Vifs, hw : HwTables,
           stats : SUBSET StatsIds, ref : [Ports -> Nat], scl : SUBSET Ports,
           phy : SUBSET Ports]

(* A function from some of the ids. *)
LEMMA RifTableFact ==
  \A f : f \in RifTables <=> DOMAIN f \subseteq Rifs /\ f \in [DOMAIN f -> RifRecords]
BY DEF RifTables
(* A hardware table is a function from some of the L3IF ids. *)
LEMMA HwTableFact ==
  \A f : f \in HwTables <=> DOMAIN f \subseteq L3ifs /\ f \in [DOMAIN f -> HwRecords]
BY DEF HwTables

(* An object put into the table, taken from it or rewritten in place. *)
LEMMA RifTablesKept ==
  ASSUME NEW f \in RifTables, NEW o \in Rifs, NEW r \in RifRecords
  PROVE  Put(f, o, r) \in RifTables /\ Drop(f, o) \in RifTables
         /\ [f EXCEPT ![o] = r] \in RifTables
PROOF
<1>1. DOMAIN f \subseteq Rifs /\ f \in [DOMAIN f -> RifRecords]
  BY RifTableFact
<1>2. Put(f, o, r) \in RifTables
  BY <1>1, RifTableFact DEF Put
<1>3. Drop(f, o) \in RifTables
  BY <1>1, RifTableFact DEF Drop
<1>4. [f EXCEPT ![o] = r] \in RifTables
  BY <1>1, RifTableFact
<1> QED BY <1>2, <1>3, <1>4
(* A hardware interface put into its table ... *)
LEMMA HwTablesKept ==
  ASSUME NEW f \in HwTables, NEW i \in L3ifs, NEW h \in HwRecords
  PROVE  Put(f, i, h) \in HwTables
PROOF
<1>1. DOMAIN f \subseteq L3ifs /\ f \in [DOMAIN f -> HwRecords]
  BY HwTableFact
<1> QED BY <1>1, HwTableFact DEF Put
(* ... and one taken from it. *)
LEMMA HwTablesLess ==
  ASSUME NEW f \in HwTables, NEW i
  PROVE  Drop(f, i) \in HwTables
PROOF
<1>1. DOMAIN f \subseteq L3ifs /\ f \in [DOMAIN f -> HwRecords]
  BY HwTableFact
<1> QED BY <1>1, HwTableFact DEF Drop

-----------------------------------------------------------------------------
(* A stage that changes no object's port and neither pools nor port modes. *)
SameIds(s, t) == t.l3if = s.l3if /\ t.vif = s.vif
SamePorts(s, t) == t.ref = s.ref /\ t.scl = s.scl /\ t.phy = s.phy
SameShape(s, t) ==
  /\ DOMAIN t.rif = DOMAIN s.rif
  /\ \A x \in DOMAIN s.rif : t.rif[x].port = s.rif[x].port /\ t.rif[x].virt = s.rif[x].virt
Framed(s, t) == t \in States /\ SameIds(s, t) /\ SamePorts(s, t) /\ SameShape(s, t)

(* Two such stages in a row are one. *)
LEMMA FramedTwice ==
  ASSUME NEW s, NEW t, NEW u, Framed(s, t), Framed(t, u)
  PROVE  Framed(s, u)
BY DEF Framed, SameIds, SamePorts, SameShape

(* Its three kinds of writes: to the record of the object, to a hardware *)
(* interface and to the statistics. *)
LEMMA RifWrite ==
  ASSUME NEW s \in States, NEW o, o \in DOMAIN s.rif, NEW r \in RifRecords,
         r.port = s.rif[o].port, r.virt = s.rif[o].virt
  PROVE  Framed(s, [s EXCEPT !.rif = [s.rif EXCEPT ![o] = r]])
PROOF
<1> DEFINE f == [s.rif EXCEPT ![o] = r]
           t == [s EXCEPT !.rif = f]
<1>1. s.rif \in RifTables
  BY DEF States
<1>2. o \in Rifs
  BY <1>1, RifTableFact
<1>3. f \in RifTables
  BY <1>1, <1>2, RifTablesKept
<1>4. DOMAIN f = DOMAIN s.rif /\ f[o] = r /\ \A x \in DOMAIN s.rif \ {o} : f[x] = s.rif[x]
  OBVIOUS
<1> HIDE DEF f
<1>5. t \in States /\ t.rif = f /\ t.l3if = s.l3if /\ t.vif = s.vif /\ t.ref = s.ref
      /\ t.scl = s.scl /\ t.phy = s.phy
  BY <1>3 DEF States
<1> HIDE DEF t
<1>6. Framed(s, t)
  BY <1>4, <1>5 DEF Framed, SameIds, SamePorts, SameShape
<1> QED BY <1>6 DEF t, f

(* A write to the hardware table is such a stage, ... *)
LEMMA HwWrite ==
  ASSUME NEW s \in States, NEW f \in HwTables
  PROVE  Framed(s, [s EXCEPT !.hw = f])
BY DEF Framed, SameIds, SamePorts, SameShape, States
(* ... so is one to the statistics, ... *)
LEMMA StatsWrite ==
  ASSUME NEW s \in States, NEW S \in SUBSET StatsIds
  PROVE  Framed(s, [s EXCEPT !.stats = S])
BY DEF Framed, SameIds, SamePorts, SameShape, States
(* ... and so is none at all. *)
LEMMA NoWrite == ASSUME NEW s \in States PROVE Framed(s, s)
BY DEF Framed, SameIds, SamePorts, SameShape

(* One hardware interface changed, if there is one; and its fields. *)
LEMMA HwChanged ==
  ASSUME NEW f \in HwTables, NEW i, NEW h, i \in DOMAIN f => h \in HwRecords
  PROVE  [f EXCEPT ![i] = h] \in HwTables
PROOF
<1>1. DOMAIN f \subseteq L3ifs /\ f \in [DOMAIN f -> HwRecords]
  BY HwTableFact
<1> QED BY <1>1, HwTableFact
(* Each field of a hardware interface may be written on its own. *)
LEMMA HwFields ==
  ASSUME NEW f \in HwTables, NEW i
  PROVE  /\ \A x \in Vrs : [f EXCEPT ![i].vrf = x] \in HwTables
         /\ \A b \in BOOLEAN : [f EXCEPT ![i].v4 = b] \in HwTables
         /\ \A M \in SUBSET Macs : [f EXCEPT ![i].macs = M] \in HwTables
         /\ \A a \in StatsIds \cup {0} : [f EXCEPT ![i].ing = a] \in HwTables
         /\ \A b \in StatsIds \cup {0} : [f EXCEPT ![i].egs = b] \in HwTables
PROOF
<1>1. i \in DOMAIN f => f[i] \in HwRecords
  BY HwTableFact
<1>2. ASSUME NEW x \in Vrs PROVE [f EXCEPT ![i].vrf = x] \in HwTables
  <2>1. i \in DOMAIN f => [f[i] EXCEPT !.vrf = x] \in HwRecords
    BY <1>1 DEF HwRecords
  <2> QED BY <2>1, HwChanged
<1>3. ASSUME NEW b \in BOOLEAN PROVE [f EXCEPT ![i].v4 = b] \in HwTables
  <2>1. i \in DOMAIN f => [f[i] EXCEPT !.v4 = b] \in HwRecords
    BY <1>1 DEF HwRecords
  <2> QED BY <2>1, HwChanged
<1>4. ASSUME NEW M \in SUBSET Macs PROVE [f EXCEPT ![i].macs = M] \in HwTables
  <2>1. i \in DOMAIN f => [f[i] EXCEPT !.macs = M] \in HwRecords
    BY <1>1 DEF HwRecords
  <2> QED BY <2>1, HwChanged
<1>5. ASSUME NEW a \in StatsIds \cup {0} PROVE [f EXCEPT ![i].ing = a] \in HwTables
  <2>1. i \in DOMAIN f => [f[i] EXCEPT !.ing = a] \in HwRecords
    BY <1>1 DEF HwRecords
  <2> QED BY <2>1, HwChanged
<1>6. ASSUME NEW a \in StatsIds \cup {0} PROVE [f EXCEPT ![i].egs = a] \in HwTables
  <2>1. i \in DOMAIN f => [f[i] EXCEPT !.egs = a] \in HwRecords
    BY <1>1 DEF HwRecords
  <2> QED BY <2>1, HwChanged
<1> QED BY <1>2, <1>3, <1>4, <1>5, <1>6

-----------------------------------------------------------------------------
(* The fields of an object. *)
LEMMA ObjectFact ==
  ASSUME NEW s \in States, NEW o, o \in DOMAIN s.rif
  PROVE  /\ o \in Rifs /\ s.rif[o] \in RifRecords
         /\ s.rif[o].vrf \in Vrs /\ s.rif[o].v4 \in BOOLEAN /\ s.rif[o].mac \in Macs
         /\ s.rif[o].port \in Ports /\ s.rif[o].virt \in BOOLEAN
         /\ s.rif[o].statsEn \in BOOLEAN /\ s.rif[o].ing \in StatsIds \cup {0}
         /\ s.rif[o].egs \in StatsIds \cup {0}
PROOF
<1>1. DOMAIN s.rif \subseteq Rifs /\ s.rif \in [DOMAIN s.rif -> RifRecords]
  BY RifTableFact DEF States
<1>2. s.rif[o] \in RifRecords
  BY <1>1
<1> QED BY <1>1, <1>2 DEF RifRecords

(* set_attr_hw: what it writes to the interface, ... *)
LEMMA WritePropsFact ==
  ASSUME NEW s \in States, NEW o, o \in DOMAIN s.rif, NEW i
  PROVE  Framed(s, WriteProps(s, o, i))
PROOF
<1> DEFINE r == s.rif[o]
           g == [s.hw EXCEPT ![i].vrf = r.vrf]
           f == [g EXCEPT ![i].v4 = r.v4]
<1>1. r.vrf \in Vrs /\ r.v4 \in BOOLEAN /\ s.hw \in HwTables
  BY ObjectFact DEF States
<1>2. g \in HwTables
  BY <1>1, HwFields
<1>3. WriteProps(s, o, i) = [s EXCEPT !.hw = f]
  BY DEF WriteProps, States
<1> HIDE DEF g, r
<1>4. f \in HwTables
  BY <1>1, <1>2, HwFields
<1> HIDE DEF f
<1> QED BY <1>3, <1>4, HwWrite

(* ... the router MAC it writes or adds ... *)
LEMMA WriteMacFact ==
  ASSUME NEW s \in States, NEW o, o \in DOMAIN s.rif, NEW i
  PROVE  Framed(s, WriteMac(s, o, i)) /\ Framed(s, AppendMac(s, o))
PROOF
<1> DEFINE r == s.rif[o]
           f == [s.hw EXCEPT ![i].macs = {r.mac}]
           j == s.rif[o].actual
           g == [s.hw EXCEPT ![j].macs = @ \cup {r.mac}]
<1>1. r.mac \in Macs /\ s.hw \in HwTables
  BY ObjectFact DEF States
<1>2. f \in HwTables
  <2>1. {r.mac} \in SUBSET Macs
    BY <1>1
  <2> HIDE DEF r
  <2> QED BY <1>1, <2>1, HwFields
<1>3. g \in HwTables
  <2>1. CASE j \in DOMAIN s.hw
    <3>1. s.hw[j] \in HwRecords
      BY <1>1, <2>1, HwTableFact
    <3>2. s.hw[j].macs \cup {r.mac} \in SUBSET Macs
      BY <1>1, <3>1 DEF HwRecords
    <3>3. g = [s.hw EXCEPT ![j].macs = s.hw[j].macs \cup {r.mac}]
      OBVIOUS
    <3> HIDE DEF r, j, g
    <3> QED BY <1>1, <3>2, <3>3, HwFields
  <2>2. CASE j \notin DOMAIN s.hw
    <3>1. s.hw = [x \in DOMAIN s.hw |-> s.hw[x]]
      BY <1>1, HwTableFact
    <3>2. g = s.hw
      BY <2>2, <3>1
    <3> QED BY <1>1, <3>2
  <2> QED BY <2>1, <2>2
<1>4. WriteMac(s, o, i) = [s EXCEPT !.hw = f] /\ AppendMac(s, o) = [s EXCEPT !.hw = g]
  BY DEF WriteMac, AppendMac, States
<1> HIDE DEF f, g
<1> QED BY <1>2, <1>3, <1>4, HwWrite

(* ... the statistics it creates ... *)
LEMMA CreateStatsFact ==
  ASSUME NEW s \in States, NEW o, o \in DOMAIN s.rif, NEW a \in StatsIds, NEW b \in StatsIds
  PROVE  Framed(s, CreateStats(s, o, a, b))
PROOF
<1> DEFINE i == Id(o)
           seen == i \in DOMAIN s.hw
           x == IF seen THEN a ELSE 0
           y == IF seen THEN b ELSE 0
           r == [s.rif[o] EXCEPT !.ing = x, !.egs = y]
           S == s.stats \cup {a, b}
           t == [s EXCEPT !.stats = S]
           u == [t EXCEPT !.rif = [t.rif EXCEPT ![o] = r]]
           g == [s.hw EXCEPT ![i].ing = a]
           f == [g EXCEPT ![i].egs = b]
<1>1. s.rif[o] \in RifRecords /\ s.hw \in HwTables /\ S \in SUBSET StatsIds
  BY ObjectFact DEF States
<1>2. r \in RifRecords /\ r.port = s.rif[o].port /\ r.virt = s.rif[o].virt
  BY <1>1 DEF RifRecords
<1>3. Framed(s, t) /\ t.rif = s.rif /\ t.hw = s.hw
  BY <1>1, StatsWrite DEF States
<1>4. CreateStats(s, o, a, b) = IF seen THEN [u EXCEPT !.hw = f] ELSE u
  <2> DEFINE w == [s EXCEPT !.stats = @ \cup {a, b}, !.rif[o].ing = x, !.rif[o].egs = y]
             k == [[s.rif EXCEPT ![o].ing = x] EXCEPT ![o].egs = y]
  <2>1. k = [s.rif EXCEPT ![o] = r]
    BY <1>1
  <2>2. w = [t EXCEPT !.rif = k] /\ t.rif = s.rif
    BY DEF States
  <2>3. CreateStats(s, o, a, b) = IF seen THEN [w EXCEPT !.hw[i].ing = a, !.hw[i].egs = b] ELSE w
    BY DEF CreateStats
  <2> HIDE DEF k, t, r
  <2>4. w = u
    BY <2>1, <2>2
  <2>5. u.hw = s.hw /\ DOMAIN u = DOMAIN s
    BY DEF States, t
  <2> HIDE DEF w, u
  <2>6. [u EXCEPT !.hw[i].ing = a, !.hw[i].egs = b] = [u EXCEPT !.hw = f]
    BY <2>5 DEF States
  <2> QED BY <2>3, <2>4, <2>6
<1> HIDE DEF t, r, S
<1>5. Framed(t, u) /\ u.hw = s.hw
  BY <1>2, <1>3, RifWrite DEF Framed, States
<1> HIDE DEF u
<1>6. g \in HwTables
  BY <1>1, HwFields
<1> HIDE DEF g
<1>7. f \in HwTables
  BY <1>6, HwFields
<1> HIDE DEF f
<1>8. Framed(u, [u EXCEPT !.hw = f])
  BY <1>5, <1>7, HwWrite DEF Framed
<1>9. Framed(s, u)
  BY <1>3, <1>5, FramedTwice
<1> QED BY <1>4, <1>8, <1>9, FramedTwice

(* ... and ends. *)
LEMMA StopStatsFact ==
  ASSUME NEW s \in States, NEW o, o \in DOMAIN s.rif, NEW i
  PROVE  Framed(s, StopStats(s, o, i))
PROOF
<1> DEFINE r == [s.rif[o] EXCEPT !.ing = 0]
           S == s.stats \ {s.rif[o].ing, s.rif[o].egs}
           t == [s EXCEPT !.stats = S]
           g == [s.hw EXCEPT ![i].ing = 0]
           f == [g EXCEPT ![i].egs = 0]
           u == [t EXCEPT !.hw = f]
<1>1. s.rif[o] \in RifRecords /\ s.hw \in HwTables /\ S \in SUBSET StatsIds
  BY ObjectFact DEF States
<1>2. r \in RifRecords /\ r.port = s.rif[o].port /\ r.virt = s.rif[o].virt
  BY <1>1 DEF RifRecords
<1>3. Framed(s, t) /\ t.rif = s.rif /\ t.hw = s.hw
  BY <1>1, StatsWrite DEF States
<1>4. StopStats(s, o, i) = [u EXCEPT !.rif = [u.rif EXCEPT ![o] = r]]
  <2> DEFINE k == [s.rif EXCEPT ![o].ing = 0]
  <2>1. k = [s.rif EXCEPT ![o] = r]
    OBVIOUS
  <2> DEFINE v == [t EXCEPT !.hw = g]
  <2>4. [t EXCEPT !.hw[i].ing = 0] = v /\ v.hw = g /\ [v EXCEPT !.hw = f] = u
    <3> HIDE DEF S
    <3> QED BY DEF States
  <2>5. [v EXCEPT !.hw[i].egs = 0] = u
    <3> HIDE DEF t, g
    <3>1. [v EXCEPT !.hw[i].egs = 0] = [v EXCEPT !.hw = [v.hw EXCEPT ![i].egs = 0]]
      OBVIOUS
    <3> HIDE DEF v, u
    <3> QED BY <2>4, <3>1
  <2>6. [u EXCEPT !.rif[o].ing = 0] = [u EXCEPT !.rif = k]
    <3>1. u.rif = s.rif
      BY DEF States
    <3> HIDE DEF u
    <3> QED BY <3>1
  <2>7. StopStats(s, o, i)
          = [[[t EXCEPT !.hw[i].ing = 0] EXCEPT !.hw[i].egs = 0] EXCEPT !.rif[o].ing = 0]
    BY DEF StopStats
  <2>2. StopStats(s, o, i) = [u EXCEPT !.rif = k]
    <3> HIDE DEF t, v, u, k
    <3> QED BY <2>4, <2>5, <2>6, <2>7
  <2>3. u.rif = s.rif
    BY DEF States
  <2> HIDE DEF k, f, r, S
  <2> QED BY <2>1, <2>2, <2>3
<1>5. g \in HwTables
  BY <1>1, HwFields
<1> HIDE DEF t, g, r
<1>6. f \in HwTables
  BY <1>5, HwFields
<1> HIDE DEF f
<1>7. Framed(t, u) /\ u.rif = s.rif
  BY <1>3, <1>6, HwWrite DEF Framed, States
<1> HIDE DEF u
<1>8. Framed(u, [u EXCEPT !.rif = [u.rif EXCEPT ![o] = r]])
  BY <1>2, <1>7, RifWrite DEF Framed
<1> QED BY <1>3, <1>4, <1>7, <1>8, FramedTwice

(* ... and lose the first one. *)
LEMMA LoseStatsFact ==
  ASSUME NEW s \in States, NEW i, NEW a \in StatsIds
  PROVE  Framed(s, LoseStats(s, i, a))
PROOF
<1> DEFINE S == s.stats \cup {a}
           t == [s EXCEPT !.stats = S]
           g == [s.hw EXCEPT ![i].ing = 0]
<1>1. S \in SUBSET StatsIds /\ g \in HwTables
  <2>1. s.hw \in HwTables /\ s.stats \in SUBSET StatsIds
    BY DEF States
  <2> QED BY <2>1, HwFields
<1>2. Framed(s, t) /\ t.hw = s.hw
  BY <1>1, StatsWrite DEF States
<1>3. LoseStats(s, i, a) = [t EXCEPT !.hw = g]
  <2>1. LoseStats(s, i, a) = [t EXCEPT !.hw[i].ing = 0]
    BY DEF LoseStats
  <2> HIDE DEF t
  <2> QED BY <1>2, <2>1
<1> HIDE DEF t, g
<1>4. Framed(t, [t EXCEPT !.hw = g])
  BY <1>1, <1>2, HwWrite DEF Framed
<1> QED BY <1>2, <1>3, <1>4, FramedTwice

-----------------------------------------------------------------------------
(* A set of numbers that is not empty has a smallest one. *)
LEMMA SmallestFact ==
  ASSUME NEW T \in SUBSET Nat, T # {}
  PROVE  \E x \in T : \A y \in T : x <= y
PROOF
<1> DEFINE less == {ss \in Nat \X Nat : ss[1] < ss[2]}
<1>1. IsWellFoundedOn(less, Nat)
  BY NatLessThanWellFounded DEF OpToRel
<1>2. PICK x \in T : \A y \in T : <<y, x>> \notin less
  BY <1>1, WFMin
<1>3. \A y \in T : ~(y < x)
  BY <1>2
<1> QED BY <1>3

(* The statistics ids the SDK hands out are free ones, and two of them. *)
LEMMA FirstFact ==
  ASSUME NEW s, FreeStats(s) # {}
  PROVE  FirstStats(s) \in FreeStats(s)
PROOF
<1>1. FreeStats(s) \in SUBSET Nat
  BY L3InterfaceAssumption DEF FreeStats
<1>2. \E a \in FreeStats(s) : \A b \in FreeStats(s) : a <= b
  BY <1>1, SmallestFact
<1> QED BY <1>2 DEF FirstStats
(* The second id is a free one too, and not the first. *)
LEMMA SecondFact ==
  ASSUME NEW s, Cardinality(FreeStats(s)) >= 2
  PROVE  FirstStats(s) \in FreeStats(s) /\ SecondStats(s) \in FreeStats(s) \ {FirstStats(s)}
PROOF
<1> DEFINE F == FreeStats(s)
           T == F \ {FirstStats(s)}
<1>1. IsFiniteSet(F) /\ F \in SUBSET Nat
  BY L3InterfaceAssumption, FS_Subset DEF FreeStats
<1>2. F # {}
  BY FS_EmptySet
<1>3. FirstStats(s) \in F
  BY <1>2, FirstFact
<1>4. IsFiniteSet(T) /\ Cardinality(T) = Cardinality(F) - 1 /\ Cardinality(F) \in Nat
  BY <1>1, <1>3, FS_RemoveElement, FS_CardinalityType
<1>5. T # {}
  BY <1>4, FS_EmptySet
<1>6. T \in SUBSET Nat
  BY <1>1
<1>7. \E a \in T : \A b \in T : a <= b
  <2> HIDE DEF T
  <2> QED BY <1>5, <1>6, SmallestFact
<1>8. SecondStats(s) \in T
  BY <1>7 DEF SecondStats
<1> QED BY <1>3, <1>8

(* set_attr_hw moves no object, whatever fails. *)
LEMMA SetAttrHwFact ==
  ASSUME NEW s \in States, NEW o, o \in DOMAIN s.rif, NEW fault
  PROVE  /\ Framed(s, SetAttrHw(s, o, fault).s)
         /\ SetAttrHw(s, o, fault).ok \in BOOLEAN
PROOF
<1> DEFINE i == Id(o)
           r == s.rif[o]
           w == WriteProps(s, o, i)
           half == [s EXCEPT !.hw[i].vrf = r.vrf]
           full == CreateStats(w, o, FirstStats(s), SecondStats(s))
           none == StopStats(w, o, i)
           lost == LoseStats(w, i, FirstStats(s))
           out == SetAttrHw(s, o, fault)
<1>1. Framed(s, s) /\ Framed(s, AppendMac(s, o))
  BY NoWrite, WriteMacFact
<1>2. Framed(s, w) /\ w \in States /\ o \in DOMAIN w.rif
  BY WritePropsFact DEF Framed, SameShape
<1>3. Framed(s, half)
  <2>1. r.vrf \in Vrs /\ s.hw \in HwTables
    BY ObjectFact DEF States
  <2>2. [s.hw EXCEPT ![i].vrf = r.vrf] \in HwTables
    <3> HIDE DEF r
    <3> QED BY <2>1, HwFields
  <2>3. Framed(s, [s EXCEPT !.hw = [s.hw EXCEPT ![i].vrf = r.vrf]])
    BY <2>2, HwWrite
  <2> QED BY <2>3
<1> HIDE DEF half, w
<1>4. Framed(s, WriteMac(w, o, i))
  BY <1>2, WriteMacFact, FramedTwice
<1>5. Framed(s, WriteMac(none, o, i))
  <2>1. Framed(w, none) /\ none \in States /\ o \in DOMAIN none.rif
    BY <1>2, StopStatsFact DEF Framed, SameShape
  <2> HIDE DEF none
  <2> QED BY <1>2, <2>1, WriteMacFact, FramedTwice
<1>6. ASSUME Cardinality(FreeStats(s)) >= 2
      PROVE  Framed(s, WriteMac(full, o, i))
  <2>1. FirstStats(s) \in StatsIds /\ SecondStats(s) \in StatsIds
    BY <1>6, SecondFact DEF FreeStats
  <2>2. Framed(w, full) /\ full \in States /\ o \in DOMAIN full.rif
    BY <1>2, <2>1, CreateStatsFact DEF Framed, SameShape
  <2> HIDE DEF full
  <2> QED BY <1>2, <2>2, WriteMacFact, FramedTwice
<1>13. ASSUME FreeStats(s) # {}
       PROVE  Framed(s, lost)
  <2>1. FirstStats(s) \in StatsIds
    BY <1>13, FirstFact DEF FreeStats
  <2>2. Framed(w, lost)
    BY <1>2, <2>1, LoseStatsFact
  <2> QED BY <1>2, <2>2, FramedTwice
<1> DEFINE start == r.statsEn /\ r.ing = 0 /\ r.egs = 0
           dry == FreeStats(s) = {}
           stop == ~r.statsEn /\ r.ing # 0 /\ r.egs # 0
           card == Cardinality(FreeStats(s))
           wm == WriteMac(w, o, i)
           nm == WriteMac(none, o, i)
           fm == WriteMac(full, o, i)
           am == AppendMac(s, o)
           skip == Skipped(s, o)
           there == r.actual \in DOMAIN s.hw
           gone == i \notin DOMAIN s.hw
           virt == r.virt
<1>7. card \in Nat
  BY L3InterfaceAssumption, FS_Subset, FS_CardinalityType DEF FreeStats
<1>8. out = IF skip THEN [s |-> s, ok |-> TRUE]
            ELSE IF virt
                 THEN IF there THEN [s |-> am, ok |-> TRUE] ELSE [s |-> s, ok |-> FALSE]
            ELSE IF gone \/ fault = "first" THEN [s |-> s, ok |-> FALSE]
            ELSE IF fault = "second" THEN [s |-> half, ok |-> FALSE]
            ELSE IF start /\ dry THEN [s |-> w, ok |-> FALSE]
            ELSE IF start /\ card < 2 THEN [s |-> lost, ok |-> FALSE]
            ELSE IF start THEN [s |-> fm, ok |-> TRUE]
            ELSE IF stop THEN [s |-> nm, ok |-> TRUE]
            ELSE [s |-> wm, ok |-> TRUE]
  BY DEF SetAttrHw, w, half
<1>9. (card >= 2 => Framed(s, fm)) /\ (~dry => Framed(s, lost))
  BY <1>6, <1>13
<1> HIDE DEF start, stop, card, dry, lost, wm, nm, fm, am, skip, there, gone, virt, out
<1>10. Framed(s, am) /\ Framed(s, nm) /\ Framed(s, wm)
  BY <1>1, <1>4, <1>5 DEF am, nm, wm
<1>11. \/ out.s \in {s, am, half, w, nm, wm} /\ out.ok \in BOOLEAN
       \/ card >= 2 /\ out.s = fm /\ out.ok \in BOOLEAN
       \/ ~dry /\ out.s = lost /\ out.ok \in BOOLEAN
  <2>1. CASE skip \/ virt
    BY <1>8, <2>1
  <2>2. CASE ~skip /\ ~virt /\ (gone \/ fault = "first" \/ fault = "second")
    BY <1>8, <2>2
  <2>3. CASE ~skip /\ ~virt /\ ~(gone \/ fault = "first" \/ fault = "second")
    BY <1>7, <1>8, <2>3
  <2> QED BY <2>1, <2>2, <2>3
<1> HIDE DEF full, none
<1>12. Framed(s, out.s) /\ out.ok \in BOOLEAN
  BY <1>1, <1>2, <1>3, <1>9, <1>10, <1>11
<1> QED BY <1>12 DEF out

-----------------------------------------------------------------------------
(* sub_if_ref_cnt is at least the number of sub-port interfaces of a port, *)
(* leaving out one that create_rif or remove_rif is working on: taking one *)
(* away never passes zero. *)
Subs(t, p) ==
  {x \in DOMAIN t.rif : x[1] = "SUB_PORT" /\ ~t.rif[x].virt /\ t.rif[x].port = p}
Counted(t, X) ==
  /\ IsFiniteSet(DOMAIN t.rif)
  /\ \A p \in Ports : Cardinality(Subs(t, p) \ X) <= t.ref[p]
Good(t) == t \in States /\ Counted(t, {})
Open(t, o) == t \in States /\ Counted(t, {o})

(* Each of those sets is finite. *)
LEMMA SubsFinite ==
  ASSUME NEW t, IsFiniteSet(DOMAIN t.rif), NEW p, NEW X
  PROVE  /\ IsFiniteSet(Subs(t, p)) /\ Cardinality(Subs(t, p)) \in Nat
         /\ IsFiniteSet(Subs(t, p) \ X) /\ Cardinality(Subs(t, p) \ X) \in Nat
         /\ Cardinality(Subs(t, p) \ X) <= Cardinality(Subs(t, p))
PROOF
<1>1. Subs(t, p) \subseteq DOMAIN t.rif
  BY DEF Subs
<1>2. IsFiniteSet(Subs(t, p))
  BY <1>1, FS_Subset
<1>3. Subs(t, p) \ X \subseteq Subs(t, p)
  OBVIOUS
<1> QED BY <1>2, <1>3, FS_Subset, FS_CardinalityType

(* A stage that moves no object keeps the count. *)
LEMMA FramedCounted ==
  ASSUME NEW s, NEW t, NEW X, Counted(s, X), Framed(s, t)
  PROVE  Counted(t, X)
PROOF
<1>1. ASSUME NEW p PROVE Subs(t, p) = Subs(s, p)
  BY DEF Subs, Framed, SameShape
<1> QED BY <1>1 DEF Counted, Framed, SameShape, SamePorts
(* What holds between handlers holds after such a stage, ... *)
LEMMA FramedGood ==
  ASSUME NEW s, NEW t, Framed(s, t)
  PROVE  Good(s) => Good(t) /\ \A o : Open(s, o) => Open(t, o)
PROOF
<1>1. t \in States
  BY DEF Framed
<1> QED BY <1>1, FramedCounted DEF Good, Open
(* ... and so does what holds in the middle of one. *)
LEMMA FramedOpen ==
  ASSUME NEW s, NEW t, Framed(s, t), NEW o, Open(s, o)
  PROVE  Open(t, o)
PROOF
<1>1. t \in States
  BY DEF Framed
<1> QED BY <1>1, FramedCounted DEF Open

(* An object left out may be put back when it is not counted, and an object *)
(* may always be left out. *)
LEMMA GoodOpen ==
  ASSUME NEW s, NEW o
  PROVE  /\ Good(s) => Open(s, o)
         /\ Open(s, o) /\ (o[1] # "SUB_PORT" \/ s.rif[o].virt) => Good(s)
PROOF
<1>1. ASSUME NEW p PROVE Subs(s, p) \ {} = Subs(s, p)
  OBVIOUS
<1>2. ASSUME Good(s) PROVE Open(s, o)
  <2>1. IsFiniteSet(DOMAIN s.rif) /\ s \in States /\ s.ref \in [Ports -> Nat]
    BY <1>2 DEF Good, Counted, States
  <2>2. ASSUME NEW p \in Ports PROVE Cardinality(Subs(s, p) \ {o}) <= s.ref[p]
    <3>1. Cardinality(Subs(s, p)) <= s.ref[p] /\ s.ref[p] \in Nat
      BY <1>1, <1>2, <2>1 DEF Good, Counted
    <3>2. /\ Cardinality(Subs(s, p)) \in Nat /\ Cardinality(Subs(s, p) \ {o}) \in Nat
          /\ Cardinality(Subs(s, p) \ {o}) <= Cardinality(Subs(s, p))
      BY <2>1, SubsFinite
    <3> QED BY <3>1, <3>2
  <2> QED BY <2>1, <2>2 DEF Open, Counted
<1>3. ASSUME Open(s, o), o[1] # "SUB_PORT" \/ s.rif[o].virt PROVE Good(s)
  <2>1. ASSUME NEW p PROVE Subs(s, p) \ {} = Subs(s, p) \ {o}
    BY <1>3 DEF Subs
  <2> QED BY <1>3, <2>1 DEF Good, Open, Counted
<1> QED BY <1>2, <1>3

(* What a request holds. *)
LEMMA RequestFact ==
  ASSUME NEW q \in Requests
  PROVE  /\ q.type \in RifTypes /\ q.vr \in Vrs /\ q.port \in Ports /\ q.vlan \in Vlans
         /\ q.virt \in BOOLEAN /\ q.stats \in {"absent", "on", "off"}
         /\ q.stats = "on" => q.type \in StatsTypes
         /\ q.type \in VifTypes \cup L3ifTypes /\ q.virt \in VirtualVals
         /\ q.stats \in StatsAttrs
BY L3InterfaceAssumption DEF Requests

(* The object build_db makes. *)
NewRecord(q) ==
  [vrf |-> 0, v4 |-> TRUE, mac |-> DefaultMac, port |-> q.port,
   vlan |-> q.vlan, virt |-> q.virt, actual |-> 0, statsEn |-> FALSE,
   ing |-> 0, egs |-> 0, asked |-> q.stats]
(* The record of a new object is a well-formed one. *)
LEMMA NewRecordFact ==
  ASSUME NEW q \in Requests
  PROVE  NewRecord(q) \in RifRecords
PROOF
<1>1. /\ q.port \in Ports /\ q.vlan \in Vlans
      /\ q.virt \in BOOLEAN /\ q.stats \in {"absent", "on", "off"}
      /\ DefaultMac \in Macs /\ 0 \in Vrs /\ FALSE \in BOOLEAN /\ TRUE \in BOOLEAN
  BY RequestFact, L3InterfaceAssumption DEF Vrs
<1> QED BY <1>1 DEF NewRecord, RifRecords

(* build_db and remove_db. *)
LEMMA BuildFact ==
  ASSUME NEW s \in States, NEW o \in Rifs, NEW q \in Requests
  PROVE  /\ BuildDb(s, o, q) \in States
         /\ BuildDb(s, o, q).rif = Put(s.rif, o, NewRecord(q))
         /\ DOMAIN BuildDb(s, o, q).rif = DOMAIN s.rif \cup {o}
         /\ BuildDb(s, o, q).rif[o] = NewRecord(q)
         /\ SameIds(s, BuildDb(s, o, q)) /\ SamePorts(s, BuildDb(s, o, q))
         /\ BuildDb(s, o, q).hw = s.hw /\ BuildDb(s, o, q).stats = s.stats
PROOF
<1> DEFINE f == Put(s.rif, o, NewRecord(q))
<1>1. f \in RifTables
  BY NewRecordFact, RifTablesKept DEF States
<1>2. BuildDb(s, o, q) = [s EXCEPT !.rif = f]
  BY DEF BuildDb, NewRecord, States
<1>3. DOMAIN f = DOMAIN s.rif \cup {o} /\ f[o] = NewRecord(q)
  BY DEF Put
<1> HIDE DEF f
<1> QED BY <1>1, <1>2, <1>3 DEF States, SameIds, SamePorts, f
(* remove_db takes the object and leaves the rest. *)
LEMMA RemoveFact ==
  ASSUME NEW s \in States, NEW o \in Rifs
  PROVE  /\ RemoveDb(s, o) \in States
         /\ RemoveDb(s, o).rif = Drop(s.rif, o)
         /\ SameIds(s, RemoveDb(s, o)) /\ SamePorts(s, RemoveDb(s, o))
         /\ RemoveDb(s, o).hw = s.hw /\ RemoveDb(s, o).stats = s.stats
PROOF
<1> DEFINE f == Drop(s.rif, o)
<1>1. f \in RifTables
  <2>1. DOMAIN s.rif \subseteq Rifs /\ s.rif \in [DOMAIN s.rif -> RifRecords]
    BY RifTableFact DEF States
  <2> QED BY <2>1, RifTableFact DEF Drop
<1>2. RemoveDb(s, o) = [s EXCEPT !.rif = f]
  BY DEF RemoveDb, States
<1> HIDE DEF f
<1> QED BY <1>1, <1>2 DEF States, SameIds, SamePorts, f

(* An object under work is not counted yet, and one removed not any more. *)
LEMMA BuildOpen ==
  ASSUME NEW s, Good(s), NEW o \in Rifs, NEW q \in Requests, o \notin DOMAIN s.rif
  PROVE  Open(BuildDb(s, o, q), o)
PROOF
<1> DEFINE t == BuildDb(s, o, q)
<1>1. /\ t \in States /\ DOMAIN t.rif = DOMAIN s.rif \cup {o} /\ t.ref = s.ref
      /\ \A x \in DOMAIN s.rif : t.rif[x] = s.rif[x]
  <2>1. s \in States
    BY DEF Good
  <2>2. t \in States /\ t.rif = Put(s.rif, o, NewRecord(q)) /\ t.ref = s.ref
    BY <2>1, BuildFact DEF SamePorts
  <2> HIDE DEF t
  <2> QED BY <2>2 DEF Put
<1>2. IsFiniteSet(DOMAIN t.rif)
  BY <1>1, FS_AddElement DEF Good, Counted
<1> HIDE DEF t
<1>3. ASSUME NEW p PROVE Subs(t, p) \ {o} = Subs(s, p) \ {}
  BY <1>1 DEF Subs
<1>4. Open(t, o)
  BY <1>1, <1>2, <1>3 DEF Good, Open, Counted
<1> QED BY <1>4 DEF t
(* The object gone, the count is complete again. *)
LEMMA RemoveGood ==
  ASSUME NEW s, NEW o \in Rifs, Open(s, o)
  PROVE  Good(RemoveDb(s, o))
PROOF
<1> DEFINE t == RemoveDb(s, o)
<1>1. /\ t \in States /\ DOMAIN t.rif = DOMAIN s.rif \ {o} /\ t.ref = s.ref
      /\ \A x \in DOMAIN t.rif : t.rif[x] = s.rif[x]
  <2>1. s \in States
    BY DEF Open
  <2>2. t \in States /\ t.rif = Drop(s.rif, o) /\ t.ref = s.ref
    BY <2>1, RemoveFact DEF SamePorts
  <2> HIDE DEF t
  <2> QED BY <2>2 DEF Drop
<1>2. IsFiniteSet(DOMAIN t.rif)
  BY <1>1, FS_Subset DEF Open, Counted
<1> HIDE DEF t
<1>3. ASSUME NEW p PROVE Subs(t, p) \ {} = Subs(s, p) \ {o}
  BY <1>1 DEF Subs
<1>4. Good(t)
  BY <1>1, <1>2, <1>3 DEF Good, Open, Counted
<1> QED BY <1>4 DEF t

-----------------------------------------------------------------------------
(* The hardware interface a stage makes or destroys. *)
LEMMA KeyFact ==
  ASSUME NEW type \in L3ifTypes, NEW p \in Ports, NEW v \in Vlans
  PROVE  Key(type, p, v) \in Keys
BY DEF Keys
(* The key of a bridge interface names its VLAN alone. *)
LEMMA BridgeKeyFact ==
  ASSUME NEW v \in Vlans, Ports # {}
  PROVE  Key("BRIDGE", 0, v) \in Keys
BY DEF Keys, Key, L3ifTypes
NewHw(key) == [key |-> key, vrf |-> 0, v4 |-> FALSE, macs |-> {}, ing |-> 0, egs |-> 0]
(* A hardware interface is well formed when it is made. *)
LEMMA NewHwFact ==
  ASSUME NEW key \in Keys
  PROVE  NewHw(key) \in HwRecords
PROOF
<1>1. 0 \in Vrs /\ FALSE \in BOOLEAN /\ {} \in SUBSET Macs /\ 0 \in StatsIds \cup {0}
  BY DEF Vrs
<1> QED BY <1>1 DEF NewHw, HwRecords
(* ctcs_l3if_create adds one hardware interface. *)
LEMMA HwCreateFact ==
  ASSUME NEW s \in States, NEW i \in L3ifs, NEW key \in Keys
  PROVE  /\ Framed(s, HwCreate(s, i, key)) /\ HwCreate(s, i, key).rif = s.rif
         /\ HwCreate(s, i, key).hw = Put(s.hw, i, NewHw(key))
         /\ HwCreate(s, i, key).stats = s.stats
PROOF
<1> DEFINE f == Put(s.hw, i, NewHw(key))
<1>1. f \in HwTables
  BY NewHwFact, HwTablesKept DEF States
<1>2. HwCreate(s, i, key) = [s EXCEPT !.hw = f]
  BY DEF HwCreate, NewHw, States
<1> HIDE DEF f
<1>3. [s EXCEPT !.hw = f].hw = f /\ [s EXCEPT !.hw = f].rif = s.rif
      /\ [s EXCEPT !.hw = f].stats = s.stats
  BY DEF States
<1> QED BY <1>1, <1>2, <1>3, HwWrite DEF f
(* ctcs_l3if_destory takes one, if it is there. *)
LEMMA HwDestroyFact ==
  ASSUME NEW s \in States, NEW i
  PROVE  /\ Framed(s, HwDestroy(s, i)) /\ HwDestroy(s, i).rif = s.rif
         /\ HwDestroy(s, i).hw = Drop(s.hw, i) /\ HwDestroy(s, i).stats = s.stats
PROOF
<1> DEFINE f == Drop(s.hw, i)
<1>1. f \in HwTables
  BY HwTablesLess DEF States
<1>2. HwDestroy(s, i) = [s EXCEPT !.hw = f]
  BY DEF HwDestroy, States
<1> HIDE DEF f
<1>3. [s EXCEPT !.hw = f].hw = f /\ [s EXCEPT !.hw = f].rif = s.rif
      /\ [s EXCEPT !.hw = f].stats = s.stats
  BY DEF States
<1> QED BY <1>1, <1>2, <1>3, HwWrite DEF f

-----------------------------------------------------------------------------
(* A stage that only switches the modes of ports. *)
SameTables(s, t) ==
  t.rif = s.rif /\ t.l3if = s.l3if /\ t.vif = s.vif /\ t.hw = s.hw /\ t.stats = s.stats

(* What the port side of an interface becomes, field by field. *)
LEMMA EnableFields ==
  ASSUME NEW s \in States, NEW o, o \in DOMAIN s.rif
  PROVE  /\ PortEnable(s, o) \in States /\ SameTables(s, PortEnable(s, o))
         /\ PortEnable(s, o).ref =
              IF o[1] = "SUB_PORT" THEN [s.ref EXCEPT ![s.rif[o].port] = @ + 1] ELSE s.ref
         /\ PortEnable(s, o).scl =
              IF o[1] = "SUB_PORT" /\ s.ref[s.rif[o].port] = 0
              THEN s.scl \cup {s.rif[o].port} ELSE s.scl
         /\ PortEnable(s, o).phy =
              IF o[1] = "PORT" THEN s.phy \cup {s.rif[o].port} ELSE s.phy
PROOF
<1> DEFINE p == s.rif[o].port
           c == [s.ref EXCEPT ![p] = @ + 1]
           d == IF s.ref[p] = 0 THEN s.scl \cup {p} ELSE s.scl
           e == s.phy \cup {p}
<1>1. p \in Ports /\ s.ref \in [Ports -> Nat] /\ s.scl \in SUBSET Ports /\ s.phy \in SUBSET Ports
  BY ObjectFact DEF States
<1>2. c \in [Ports -> Nat] /\ d \in SUBSET Ports /\ e \in SUBSET Ports
  BY <1>1
<1>3. CASE o[1] = "PORT"
  <2>1. PortEnable(s, o) = [s EXCEPT !.phy = e]
    BY <1>3 DEF PortEnable, States
  <2> HIDE DEF c, d
  <2> QED BY <1>2, <1>3, <2>1 DEF States, SameTables
<1>4. CASE o[1] = "SUB_PORT"
  <2>1. PortEnable(s, o) = [s EXCEPT !.ref = c, !.scl = d]
    BY <1>4 DEF PortEnable, States
  <2> HIDE DEF c
  <2> QED BY <1>2, <1>4, <2>1 DEF States, SameTables, c
<1>5. CASE o[1] \notin {"PORT", "SUB_PORT"}
  <2>1. PortEnable(s, o) = s
    BY <1>5 DEF PortEnable
  <2> QED BY <1>5, <2>1 DEF SameTables
<1> QED BY <1>3, <1>4, <1>5
(* What the port becomes again when the interface goes. *)
LEMMA DisableFields ==
  ASSUME NEW s \in States, NEW o, o \in DOMAIN s.rif,
         o[1] = "SUB_PORT" => s.ref[s.rif[o].port] # 0
  PROVE  /\ PortDisable(s, o) \in States /\ SameTables(s, PortDisable(s, o))
         /\ PortDisable(s, o).ref =
              IF o[1] = "SUB_PORT" THEN [s.ref EXCEPT ![s.rif[o].port] = @ - 1] ELSE s.ref
         /\ PortDisable(s, o).scl =
              IF o[1] = "SUB_PORT" /\ s.ref[s.rif[o].port] = 1
              THEN s.scl \ {s.rif[o].port} ELSE s.scl
         /\ PortDisable(s, o).phy =
              IF o[1] = "PORT" THEN s.phy \ {s.rif[o].port} ELSE s.phy
PROOF
<1> DEFINE p == s.rif[o].port
           c == [s.ref EXCEPT ![p] = @ - 1]
           d == IF s.ref[p] = 1 THEN s.scl \ {p} ELSE s.scl
           e == s.phy \ {p}
<1>1. p \in Ports /\ s.ref \in [Ports -> Nat] /\ s.scl \in SUBSET Ports /\ s.phy \in SUBSET Ports
  BY ObjectFact DEF States
<1>2. d \in SUBSET Ports /\ e \in SUBSET Ports /\ (o[1] = "SUB_PORT" => c \in [Ports -> Nat])
  BY <1>1
<1>3. CASE o[1] = "PORT"
  <2>1. PortDisable(s, o) = [s EXCEPT !.phy = e]
    BY <1>3 DEF PortDisable, States
  <2> HIDE DEF c, d
  <2> QED BY <1>2, <1>3, <2>1 DEF States, SameTables
<1>4. CASE o[1] = "SUB_PORT"
  <2>1. PortDisable(s, o) = [s EXCEPT !.ref = c, !.scl = d]
    BY <1>4 DEF PortDisable, States
  <2> HIDE DEF c
  <2> QED BY <1>2, <1>4, <2>1 DEF States, SameTables, c
<1>5. CASE o[1] \notin {"PORT", "SUB_PORT"}
  <2>1. PortDisable(s, o) = s
    BY <1>5 DEF PortDisable
  <2> QED BY <1>5, <2>1 DEF SameTables
<1> QED BY <1>3, <1>4, <1>5

(* The interface enabled is counted; only the count taken, it may be left *)
(* out; and disabled it is left out again. *)
LEMMA EnableGood ==
  ASSUME NEW s, NEW o, o \in DOMAIN s.rif, Open(s, o)
  PROVE  /\ Good(PortEnable(s, o))
         /\ Open([s EXCEPT !.ref = PortEnable(s, o).ref], o)
         /\ SameTables(s, [s EXCEPT !.ref = PortEnable(s, o).ref])
PROOF
<1> DEFINE t == PortEnable(s, o)
           h == [s EXCEPT !.ref = t.ref]
           p == s.rif[o].port
<1>1. s \in States /\ s.ref \in [Ports -> Nat] /\ p \in Ports /\ IsFiniteSet(DOMAIN s.rif)
  BY ObjectFact DEF Open, Counted, States
<1>2. /\ t \in States /\ SameTables(s, t) /\ t.ref \in [Ports -> Nat]
      /\ t.ref = IF o[1] = "SUB_PORT" THEN [s.ref EXCEPT ![p] = @ + 1] ELSE s.ref
  BY <1>1, EnableFields DEF States
<1> HIDE DEF t
<1>3. \A x \in Ports : t.ref[x] \in Nat /\ t.ref[x] >= s.ref[x] /\ s.ref[x] \in Nat
  BY <1>1, <1>2
<1>4. h \in States /\ SameTables(s, h) /\ h.ref = t.ref
  BY <1>1, <1>2 DEF States, SameTables
<1> HIDE DEF h
<1>5. ASSUME NEW x PROVE Subs(t, x) = Subs(s, x) /\ Subs(h, x) = Subs(s, x)
  BY <1>2, <1>4 DEF Subs, SameTables
<1>6. ASSUME NEW x \in Ports
      PROVE  /\ Cardinality(Subs(s, x) \ {o}) \in Nat
             /\ Cardinality(Subs(s, x) \ {o}) <= s.ref[x]
  BY <1>1, SubsFinite DEF Open, Counted
<1>7. Open(h, o)
  <2>1. ASSUME NEW x \in Ports PROVE Cardinality(Subs(h, x) \ {o}) <= h.ref[x]
    BY <1>3, <1>4, <1>5, <1>6
  <2> QED BY <1>1, <1>4, <2>1 DEF Open, Counted, SameTables
<1>8. Good(t)
  <2>1. ASSUME NEW x \in Ports PROVE Cardinality(Subs(t, x) \ {}) <= t.ref[x]
    <3>1. Subs(t, x) \ {} = Subs(s, x)
      BY <1>5
    <3>2. CASE o \notin Subs(s, x)
      <4>1. Subs(s, x) \ {o} = Subs(s, x)
        BY <3>2
      <4> QED BY <1>3, <1>6, <3>1, <4>1
    <3>3. CASE o \in Subs(s, x)
      <4>1. o[1] = "SUB_PORT" /\ x = p
        BY <3>3 DEF Subs
      <4>2. t.ref[x] = s.ref[x] + 1
        BY <1>1, <1>2, <4>1
      <4>3. Cardinality(Subs(s, x) \ {o}) = Cardinality(Subs(s, x)) - 1
            /\ Cardinality(Subs(s, x)) \in Nat
        BY <1>1, <3>3, SubsFinite, FS_RemoveElement
      <4> QED BY <1>3, <1>6, <3>1, <4>2, <4>3
    <3> QED BY <3>2, <3>3
  <2> QED BY <1>1, <1>2, <2>1 DEF Good, Counted, SameTables
<1> QED BY <1>4, <1>7, <1>8 DEF t, h
(* The count never passes zero when an interface is disabled. *)
LEMMA DisableOpen ==
  ASSUME NEW s, NEW o, o \in DOMAIN s.rif, Good(s), ~s.rif[o].virt
  PROVE  /\ Open(PortDisable(s, o), o) /\ SameTables(s, PortDisable(s, o))
         /\ o[1] = "SUB_PORT" => s.ref[s.rif[o].port] # 0
PROOF
<1> DEFINE t == PortDisable(s, o)
           p == s.rif[o].port
<1>1. s \in States /\ s.ref \in [Ports -> Nat] /\ p \in Ports /\ IsFiniteSet(DOMAIN s.rif)
  BY ObjectFact DEF Good, Counted, States
<1>2. ASSUME NEW x \in Ports
      PROVE  /\ Cardinality(Subs(s, x)) \in Nat /\ IsFiniteSet(Subs(s, x))
             /\ Cardinality(Subs(s, x)) <= s.ref[x]
  <2>1. Subs(s, x) \ {} = Subs(s, x)
    OBVIOUS
  <2> QED BY <1>1, <2>1, SubsFinite DEF Good, Counted
<1>3. ASSUME NEW x \in Ports, o \in Subs(s, x)
      PROVE  Cardinality(Subs(s, x) \ {o}) = Cardinality(Subs(s, x)) - 1 /\ s.ref[x] # 0
             /\ Cardinality(Subs(s, x) \ {o}) \in Nat
  <2>1. Cardinality(Subs(s, x) \ {o}) = Cardinality(Subs(s, x)) - 1
    BY <1>2, <1>3, FS_RemoveElement
  <2>2. Cardinality(Subs(s, x) \ {o}) \in Nat
    BY <1>1, SubsFinite
  <2> QED BY <1>1, <1>2, <2>1, <2>2
<1>4. o[1] = "SUB_PORT" => s.ref[p] # 0 /\ o \in Subs(s, p)
  <2>1. o[1] = "SUB_PORT" => o \in Subs(s, p)
    BY DEF Subs
  <2> QED BY <1>1, <1>3, <2>1
<1>5. /\ t \in States /\ SameTables(s, t) /\ t.ref \in [Ports -> Nat]
      /\ t.ref = IF o[1] = "SUB_PORT" THEN [s.ref EXCEPT ![p] = @ - 1] ELSE s.ref
  BY <1>1, <1>4, DisableFields DEF States
<1> HIDE DEF t
<1>6. ASSUME NEW x \in Ports PROVE Cardinality(Subs(t, x) \ {o}) <= t.ref[x]
  <2>1. Subs(t, x) = Subs(s, x)
    BY <1>5 DEF Subs, SameTables
  <2>2. CASE o[1] = "SUB_PORT" /\ x = p
    <3>1. t.ref[x] = s.ref[x] - 1 /\ s.ref[x] \in Nat
      BY <1>1, <1>5, <2>2
    <3> QED BY <1>2, <1>3, <1>4, <2>1, <2>2, <3>1
  <2>3. CASE ~(o[1] = "SUB_PORT" /\ x = p)
    <3>1. t.ref[x] = s.ref[x]
      BY <1>1, <1>5, <2>3
    <3>2. Subs(s, x) \ {o} = Subs(s, x)
      BY <2>3 DEF Subs
    <3> QED BY <1>2, <2>1, <3>1, <3>2
  <2> QED BY <2>2, <2>3
<1>7. Open(t, o)
  BY <1>1, <1>5, <1>6 DEF Open, Counted, SameTables
<1> QED BY <1>4, <1>5, <1>7 DEF t

-----------------------------------------------------------------------------
(* The error labels. An id may be given back at any time. *)
LEMMA Error1Fact ==
  ASSUME NEW s \in States, NEW o
  PROVE  /\ Error1(s, o) \in States /\ Error1(s, o).l3if = s.l3if \ {Id(o)}
         /\ Error1(s, o).rif = s.rif /\ Error1(s, o).vif = s.vif
         /\ Error1(s, o).hw = s.hw /\ Error1(s, o).stats = s.stats
         /\ SamePorts(s, Error1(s, o))
BY DEF Error1, States, SamePorts
(* What leaves objects and counts alone leaves the count complete. *)
LEMMA SameRifGood ==
  ASSUME NEW s, NEW t, Good(s), t \in States, t.rif = s.rif, t.ref = s.ref
  PROVE  Good(t)
PROOF
<1>1. ASSUME NEW p PROVE Subs(t, p) = Subs(s, p)
  BY DEF Subs
<1> QED BY <1>1 DEF Good, Counted

(* The labels in turn: each leaves the object out of the database. *)
Undoes(s, t, o) == Good(t) /\ t.rif = Drop(s.rif, o) /\ t.vif = s.vif
(* error2: the object is removed and the id given back. *)
LEMMA Error2Fact ==
  ASSUME NEW s, NEW o \in Rifs, Open(s, o)
  PROVE  /\ Undoes(s, Error2(s, o), o) /\ Error2(s, o).l3if = s.l3if \ {Id(o)}
         /\ SamePorts(s, Error2(s, o))
         /\ Error2(s, o).hw = s.hw /\ Error2(s, o).stats = s.stats
PROOF
<1> DEFINE t == RemoveDb(s, o)
           u == Error1(t, o)
<1>1. s \in States
  BY DEF Open
<1>2. Good(t) /\ t \in States
  BY <1>1, RemoveGood, RemoveFact
<1>3. /\ t.rif = Drop(s.rif, o) /\ SameIds(s, t) /\ SamePorts(s, t)
      /\ t.hw = s.hw /\ t.stats = s.stats
  BY <1>1, RemoveFact
<1> HIDE DEF t
<1>4. /\ u \in States /\ u.l3if = t.l3if \ {Id(o)} /\ u.rif = t.rif /\ u.vif = t.vif
      /\ u.hw = t.hw /\ u.stats = t.stats /\ SamePorts(t, u)
  BY <1>2, Error1Fact
<1> HIDE DEF u
<1>5. Good(u)
  BY <1>2, <1>4, SameRifGood DEF SamePorts
<1>6. Undoes(s, u, o) /\ u.l3if = s.l3if \ {Id(o)} /\ SamePorts(s, u)
      /\ u.hw = s.hw /\ u.stats = s.stats
  BY <1>3, <1>4, <1>5 DEF Undoes, SameIds, SamePorts
<1>7. Error2(s, o) = u
  BY DEF Error2, u, t
<1> QED BY <1>6, <1>7
(* error3: the hardware interface too, where there is one. *)
LEMMA Error3Fact ==
  ASSUME NEW s, NEW o \in Rifs, Open(s, o)
  PROVE  /\ Undoes(s, Error3(s, o), o) /\ Error3(s, o).l3if = s.l3if \ {Id(o)}
         /\ SamePorts(s, Error3(s, o)) /\ Error3(s, o).stats = s.stats
         /\ Error3(s, o).hw = IF s.rif[o].virt \/ o[1] = "BRIDGE" THEN s.hw
                              ELSE Drop(s.hw, Id(o))
PROOF
<1> DEFINE keep == s.rif[o].virt \/ o[1] = "BRIDGE"
           t == IF keep THEN s ELSE HwDestroy(s, Id(o))
           u == Error2(t, o)
<1>1. s \in States
  BY DEF Open
<1>2. /\ Framed(s, t) /\ t.rif = s.rif /\ t.stats = s.stats
      /\ t.hw = IF keep THEN s.hw ELSE Drop(s.hw, Id(o))
  BY <1>1, HwDestroyFact, NoWrite
<1> HIDE DEF t, keep
<1>3. Open(t, o) /\ SamePorts(s, t) /\ SameIds(s, t)
  BY <1>2, FramedOpen DEF Framed
<1>4. /\ Undoes(t, u, o) /\ u.l3if = t.l3if \ {Id(o)} /\ SamePorts(t, u)
      /\ u.hw = t.hw /\ u.stats = t.stats
  BY <1>3, Error2Fact
<1> HIDE DEF u
<1>5. /\ Undoes(s, u, o) /\ u.l3if = s.l3if \ {Id(o)} /\ SamePorts(s, u)
      /\ u.stats = s.stats /\ u.hw = IF keep THEN s.hw ELSE Drop(s.hw, Id(o))
  BY <1>2, <1>3, <1>4 DEF Undoes, SameIds, SamePorts
<1>6. Error3(s, o) = u
  BY DEF Error3, u, t, keep
<1> QED BY <1>5, <1>6 DEF keep
(* error4: the ingress statistics too. *)
LEMMA Error4Fact ==
  ASSUME NEW s, NEW o \in Rifs, Open(s, o)
  PROVE  /\ Undoes(s, Error4(s, o), o) /\ Error4(s, o).l3if = s.l3if \ {Id(o)}
         /\ SamePorts(s, Error4(s, o)) /\ Error4(s, o).stats = s.stats \ {s.rif[o].ing}
         /\ Error4(s, o).hw = IF s.rif[o].virt \/ o[1] = "BRIDGE" THEN s.hw
                              ELSE Drop(s.hw, Id(o))
PROOF
<1> DEFINE S == s.stats \ {s.rif[o].ing}
           t == [s EXCEPT !.stats = S]
           u == Error3(t, o)
<1>1. s \in States /\ S \in SUBSET StatsIds
  BY DEF Open, States
<1>2. Framed(s, t) /\ t.rif = s.rif /\ t.stats = S /\ t.hw = s.hw
  BY <1>1, StatsWrite DEF States
<1> HIDE DEF t
<1>3. Open(t, o) /\ SamePorts(s, t) /\ SameIds(s, t)
  BY <1>2, FramedOpen DEF Framed
<1>4. /\ Undoes(t, u, o) /\ u.l3if = t.l3if \ {Id(o)} /\ SamePorts(t, u)
      /\ u.stats = t.stats
      /\ u.hw = IF t.rif[o].virt \/ o[1] = "BRIDGE" THEN t.hw ELSE Drop(t.hw, Id(o))
  BY <1>3, Error3Fact
<1>5. Error4(s, o) = u
  BY DEF Error4, t
<1> HIDE DEF u, S
<1>6. /\ Undoes(s, u, o) /\ u.l3if = s.l3if \ {Id(o)} /\ SamePorts(s, u)
      /\ u.stats = S
      /\ u.hw = IF s.rif[o].virt \/ o[1] = "BRIDGE" THEN s.hw ELSE Drop(s.hw, Id(o))
  BY <1>2, <1>3, <1>4 DEF Undoes, SameIds, SamePorts
<1> QED BY <1>5, <1>6 DEF S
(* error5: the egress statistics too. *)
LEMMA Error5Fact ==
  ASSUME NEW s, NEW o \in Rifs, Open(s, o)
  PROVE  /\ Undoes(s, Error5(s, o), o) /\ Error5(s, o).l3if = s.l3if \ {Id(o)}
         /\ SamePorts(s, Error5(s, o))
         /\ Error5(s, o).stats = s.stats \ {s.rif[o].ing, s.rif[o].egs}
         /\ Error5(s, o).hw = IF s.rif[o].virt \/ o[1] = "BRIDGE" THEN s.hw
                              ELSE Drop(s.hw, Id(o))
PROOF
<1> DEFINE S == s.stats \ {s.rif[o].egs}
           t == [s EXCEPT !.stats = S]
           u == Error4(t, o)
<1>1. s \in States /\ S \in SUBSET StatsIds
  BY DEF Open, States
<1>2. Framed(s, t) /\ t.rif = s.rif /\ t.stats = S /\ t.hw = s.hw
  BY <1>1, StatsWrite DEF States
<1> HIDE DEF t
<1>3. Open(t, o) /\ SamePorts(s, t) /\ SameIds(s, t)
  BY <1>2, FramedOpen DEF Framed
<1>4. /\ Undoes(t, u, o) /\ u.l3if = t.l3if \ {Id(o)} /\ SamePorts(t, u)
      /\ u.stats = t.stats \ {t.rif[o].ing}
      /\ u.hw = IF t.rif[o].virt \/ o[1] = "BRIDGE" THEN t.hw ELSE Drop(t.hw, Id(o))
  BY <1>3, Error4Fact
<1>5. Error5(s, o) = u
  BY DEF Error5, t
<1> HIDE DEF u
<1>6. /\ Undoes(s, u, o) /\ u.l3if = s.l3if \ {Id(o)} /\ SamePorts(s, u)
      /\ u.stats = s.stats \ {s.rif[o].ing, s.rif[o].egs}
      /\ u.hw = IF s.rif[o].virt \/ o[1] = "BRIDGE" THEN s.hw ELSE Drop(s.hw, Id(o))
  BY <1>2, <1>3, <1>4 DEF Undoes, SameIds, SamePorts
<1> QED BY <1>5, <1>6
(* error6: the mode of the port too, unless the interface is virtual. *)
LEMMA Error6Fact ==
  ASSUME NEW s, NEW o, o \in DOMAIN s.rif, Good(s)
  PROVE  /\ Undoes(s, Error6(s, o), o) /\ Error6(s, o).l3if = s.l3if \ {Id(o)}
         /\ s.rif[o].virt => SamePorts(s, Error6(s, o))
         /\ ~s.rif[o].virt => SamePorts(PortDisable(s, o), Error6(s, o))
         /\ Error6(s, o).stats = s.stats \ {s.rif[o].ing, s.rif[o].egs}
         /\ Error6(s, o).hw = IF s.rif[o].virt \/ o[1] = "BRIDGE" THEN s.hw
                              ELSE Drop(s.hw, Id(o))
PROOF
<1> DEFINE virt == s.rif[o].virt
           t == IF virt THEN s ELSE PortDisable(s, o)
           u == Error5(t, o)
<1>1. s \in States /\ o \in Rifs /\ virt \in BOOLEAN
  BY ObjectFact DEF Good
<1>2. Open(t, o) /\ SameTables(s, t)
  BY <1>1, GoodOpen, DisableOpen DEF SameTables
<1>3. (virt => t = s) /\ (~virt => t = PortDisable(s, o))
  OBVIOUS
<1> HIDE DEF t, virt
<1>4. /\ Undoes(t, u, o) /\ u.l3if = t.l3if \ {Id(o)} /\ SamePorts(t, u)
      /\ u.stats = t.stats \ {t.rif[o].ing, t.rif[o].egs}
      /\ u.hw = IF t.rif[o].virt \/ o[1] = "BRIDGE" THEN t.hw ELSE Drop(t.hw, Id(o))
  BY <1>1, <1>2, Error5Fact
<1>5. Error6(s, o) = u
  BY DEF Error6, t, virt
<1> HIDE DEF u
<1>6. /\ Undoes(s, u, o) /\ u.l3if = s.l3if \ {Id(o)}
      /\ u.stats = s.stats \ {s.rif[o].ing, s.rif[o].egs}
      /\ u.hw = IF s.rif[o].virt \/ o[1] = "BRIDGE" THEN s.hw ELSE Drop(s.hw, Id(o))
  BY <1>2, <1>4 DEF Undoes, SameTables
<1>7. (virt => SamePorts(s, u)) /\ (~virt => SamePorts(PortDisable(s, o), u))
  BY <1>3, <1>4
<1> QED BY <1>5, <1>6, <1>7 DEF virt

-----------------------------------------------------------------------------
(* The attributes of the request written to the object. *)
Attributed(r, q) == [r EXCEPT !.vrf = q.vr, !.statsEn = (q.stats = "on"), !.mac = VrMac(q.vr)]
(* Virtual router, statistics state and MAC, in one write. *)
LEMMA WithAttrsFact ==
  ASSUME NEW s \in States, NEW o, o \in DOMAIN s.rif, NEW q \in Requests, VrMac(q.vr) \in Macs
  PROVE  /\ Framed(s, WithAttrs(s, o, q))
         /\ WithAttrs(s, o, q).rif = [s.rif EXCEPT ![o] = Attributed(s.rif[o], q)]
         /\ WithAttrs(s, o, q).hw = s.hw /\ WithAttrs(s, o, q).stats = s.stats
PROOF
<1> DEFINE on == (q.stats = "on")
           m == VrMac(q.vr)
           r == [s.rif[o] EXCEPT !.vrf = q.vr, !.statsEn = on, !.mac = m]
           f == [s.rif EXCEPT ![o].vrf = q.vr]
           g == [f EXCEPT ![o].statsEn = on]
           h == [g EXCEPT ![o].mac = m]
           k == [s.rif EXCEPT ![o] = r]
<1>1. /\ q.vr \in Vrs /\ on \in BOOLEAN /\ m \in Macs /\ s.rif[o] \in RifRecords
      /\ s.rif \in RifTables
  BY RequestFact, ObjectFact DEF States
<1> HIDE DEF on, m
<1>2. r \in RifRecords /\ r.port = s.rif[o].port /\ r.virt = s.rif[o].virt
  BY <1>1 DEF RifRecords
<1>3. h = k
  OBVIOUS
<1>4. WithAttrs(s, o, q) = [s EXCEPT !.rif = h]
  <2>1. WithAttrs(s, o, q)
          = [[[s EXCEPT !.rif[o].vrf = q.vr] EXCEPT !.rif[o].statsEn = on] EXCEPT !.rif[o].mac = m]
    BY DEF WithAttrs, on, m
  <2> DEFINE t == [s EXCEPT !.rif = f]
             u == [s EXCEPT !.rif = g]
  <2>2. [s EXCEPT !.rif[o].vrf = q.vr] = t /\ t.rif = f
    <3> HIDE DEF g
    <3> QED BY DEF States
  <2>3. [t EXCEPT !.rif[o].statsEn = on] = u /\ u.rif = g
    <3>1. [t EXCEPT !.rif[o].statsEn = on] = [t EXCEPT !.rif = [t.rif EXCEPT ![o].statsEn = on]]
      OBVIOUS
    <3>2. [t EXCEPT !.rif = g] = u /\ u.rif = g
      <4> HIDE DEF f, g
      <4> QED BY DEF States
    <3>3. [t.rif EXCEPT ![o].statsEn = on] = g
      <4>1. t.rif = f
        BY <2>2
      <4> HIDE DEF t
      <4> QED BY <4>1
    <3> HIDE DEF t, u, g
    <3> QED BY <3>1, <3>2, <3>3
  <2>4. [u EXCEPT !.rif[o].mac = m] = [s EXCEPT !.rif = h]
    <3>1. [u EXCEPT !.rif[o].mac = m] = [u EXCEPT !.rif = [u.rif EXCEPT ![o].mac = m]]
      OBVIOUS
    <3>2. [u EXCEPT !.rif = h] = [s EXCEPT !.rif = h]
      <4> HIDE DEF g, h
      <4> QED BY DEF States
    <3>3. [u.rif EXCEPT ![o].mac = m] = h
      <4>1. u.rif = g
        BY <2>3
      <4> HIDE DEF u, g
      <4> QED BY <4>1
    <3> HIDE DEF u, h
    <3> QED BY <3>1, <3>2, <3>3
  <2> HIDE DEF t, u, h
  <2> QED BY <2>1, <2>2, <2>3, <2>4
<1> HIDE DEF r, h
<1>5. Framed(s, [s EXCEPT !.rif = k])
  BY <1>2, RifWrite
<1>6. /\ [s EXCEPT !.rif = k].rif = k /\ [s EXCEPT !.rif = k].hw = s.hw
      /\ [s EXCEPT !.rif = k].stats = s.stats
  <2> HIDE DEF k
  <2> QED BY DEF States
<1>7. k = [s.rif EXCEPT ![o] = Attributed(s.rif[o], q)]
  BY DEF Attributed, on, m, r
<1> HIDE DEF k
<1> QED BY <1>3, <1>4, <1>5, <1>6, <1>7

(* The ingress statistics written to the object alone. *)
IngressWrite(s, o, a, b) == [s EXCEPT !.stats = @ \cup {a}, !.rif[o].ing = b]
IngressWritten(s, t, o, a, b) ==
  /\ Framed(s, t) /\ t.rif = [s.rif EXCEPT ![o] = [s.rif[o] EXCEPT !.ing = b]]
  /\ t.hw = s.hw /\ t.stats = s.stats \cup {a}
(* Only the object and the statistics are written. *)
LEMMA IngressFact ==
  ASSUME NEW s \in States, NEW o, o \in DOMAIN s.rif, NEW a \in StatsIds,
         NEW b \in StatsIds \cup {0}
  PROVE  IngressWritten(s, IngressWrite(s, o, a, b), o, a, b)
PROOF
<1> DEFINE r == [s.rif[o] EXCEPT !.ing = b]
           k == [s.rif EXCEPT ![o] = r]
           S == s.stats \cup {a}
           t == [s EXCEPT !.stats = S]
           u == [t EXCEPT !.rif = [t.rif EXCEPT ![o] = r]]
<1>1. s.rif[o] \in RifRecords /\ S \in SUBSET StatsIds
  BY ObjectFact DEF States
<1>2. r \in RifRecords /\ r.port = s.rif[o].port /\ r.virt = s.rif[o].virt
  BY <1>1 DEF RifRecords
<1>3. Framed(s, t) /\ t.rif = s.rif /\ t.hw = s.hw /\ t.stats = S
  BY <1>1, StatsWrite DEF States
<1>4. [s EXCEPT !.stats = @ \cup {a}, !.rif[o].ing = b] = u
  <2>1. [s EXCEPT !.stats = @ \cup {a}, !.rif[o].ing = b] = [t EXCEPT !.rif[o].ing = b]
    OBVIOUS
  <2>2. [t EXCEPT !.rif[o].ing = b] = [t EXCEPT !.rif = [t.rif EXCEPT ![o].ing = b]]
    OBVIOUS
  <2>3. [t.rif EXCEPT ![o].ing = b] = [t.rif EXCEPT ![o] = r]
    <3> HIDE DEF t
    <3> QED BY <1>3
  <2> QED BY <2>1, <2>2, <2>3
<1> HIDE DEF r, S
<1>5. Framed(t, u)
  <2> HIDE DEF t
  <2> QED BY <1>2, <1>3, RifWrite DEF Framed
<1>6. u.rif = k /\ u.hw = s.hw /\ u.stats = S
  <2>1. [t.rif EXCEPT ![o] = r] = k
    BY <1>3
  <2> HIDE DEF k
  <2> QED BY <2>1 DEF States
<1>7. Framed(s, u)
  BY <1>3, <1>5, FramedTwice
<1> HIDE DEF u, t, k
<1>8. IngressWritten(s, u, o, a, b)
  BY <1>6, <1>7 DEF k, S, r, IngressWritten
<1>9. IngressWrite(s, o, a, b) = u
  BY <1>4 DEF IngressWrite
<1> QED BY <1>8, <1>9

-----------------------------------------------------------------------------
(* What holds in every state, whatever the constants: the tables have their *)
(* types, the tables are functions, and the count never falls behind. *)
VrRecords == [v4 : BOOLEAN, mac : Macs]
VrGood ==
  /\ DOMAIN vr \subseteq Vrs /\ vr = [v \in DOMAIN vr |-> vr[v]]
  /\ \A v \in DOMAIN vr : vr[v] \in VrRecords
  /\ vrfPool \subseteq Vrfs
TypeInv ==
  /\ Good(St) /\ VrGood /\ pending \subseteq Requests
  /\ status \in {"SUCCESS", "FAILURE"}

(* The objects and the pool of the interfaces without hardware stay. *)
Kept(s, t) ==
  /\ Good(t) /\ t.vif = s.vif
  /\ \A x \in Rifs : x[1] \in VifTypes => (x \in DOMAIN t.rif <=> x \in DOMAIN s.rif)
Added(s, t, o) ==
  /\ DOMAIN t.rif = DOMAIN s.rif \cup {o} /\ t.vif = s.vif
  /\ o \in Rifs /\ o[1] \in L3ifTypes

(* The fields of the state as a record. *)
LEMMA StFact ==
  /\ St.rif = rif /\ St.l3if = l3ifPool /\ St.vif = vifPool /\ St.hw = hw
  /\ St.stats = stats /\ St.ref = subIfRef /\ St.scl = sclEn /\ St.phy = phyIfEn
BY DEF St
(* The next state, as a record, is the one the handler built. *)
LEMMA BecomeFact ==
  ASSUME NEW s \in States, Become(s)
  PROVE  St' = s
BY DEF Become, St, States

(* The types follow. *)
LEMMA TypeInvTypeOK == TypeInv => TypeOK
PROOF
<1> SUFFICES ASSUME TypeInv PROVE TypeOK
  OBVIOUS
<1>1. /\ rif \in RifTables /\ hw \in HwTables /\ l3ifPool \subseteq L3ifs
      /\ vifPool \subseteq Vifs /\ stats \subseteq StatsIds /\ subIfRef \in [Ports -> Nat]
      /\ sclEn \subseteq Ports /\ phyIfEn \subseteq Ports
  BY StFact DEF TypeInv, Good, States
<1>2. DOMAIN rif \subseteq Rifs /\ \A o \in DOMAIN rif : rif[o] \in RifRecords
  BY <1>1, RifTableFact
<1>3. DOMAIN hw \subseteq L3ifs /\ \A i \in DOMAIN hw : hw[i] \in HwRecords
  BY <1>1, HwTableFact
<1> QED BY <1>1, <1>2, <1>3 DEF TypeOK, TypeInv, VrGood, VrRecords

(* A stage that moves no object keeps the VIF side, ... *)
LEMMA FramedKept ==
  ASSUME NEW s, NEW t, Good(s), Framed(s, t)
  PROVE  Kept(s, t)
BY FramedGood DEF Kept, Framed, SameShape, SameIds
(* ... and so does a new interface with hardware ... *)
LEMMA AddedKept ==
  ASSUME NEW s, NEW t, NEW o, Good(t), Added(s, t, o)
  PROVE  Kept(s, t)
BY DEF Kept, Added, VifTypes, L3ifTypes
(* ... and its creation undone. *)
LEMMA UndoneKept ==
  ASSUME NEW s, NEW t, NEW u, NEW o, Added(s, t, o), Undoes(t, u, o)
  PROVE  Kept(s, u)
PROOF
<1>1. DOMAIN u.rif = DOMAIN t.rif \ {o}
  BY DEF Undoes, Drop
<1> QED BY <1>1 DEF Kept, Added, Undoes, VifTypes, L3ifTypes
(* The object stays added while its fields are written. *)
LEMMA AddedFramed ==
  ASSUME NEW s, NEW t, NEW u, NEW o, Added(s, t, o), Framed(t, u)
  PROVE  Added(s, u, o)
BY DEF Added, Framed, SameShape, SameIds

(* What an interface type may be. *)
LEMMA RifFact ==
  /\ \A q \in Requests : q.type \in L3ifTypes => \A i \in L3ifs : <<q.type, i>> \in Rifs
  /\ \A q \in Requests : q.type \in VifTypes => \A i \in Vifs : <<q.type, i>> \in Rifs
  /\ \A o \in Rifs : /\ o[1] \in VifTypes \cup L3ifTypes /\ o = <<o[1], o[2]>>
                     /\ o[1] \in L3ifTypes => Id(o) \in L3ifs
                     /\ o[1] \in VifTypes => Id(o) \in Vifs
PROOF
<1>1. \A q \in Requests : q.type \in RifTypes
  BY RequestFact
<1>2. VifTypes \cap L3ifTypes = {}
  BY DEF VifTypes, L3ifTypes
<1> QED BY <1>1, <1>2 DEF Rifs, Id

-----------------------------------------------------------------------------
(* The id a creation takes. *)
LEMMA TakeFact ==
  ASSUME NEW s \in States, NEW i
  PROVE  /\ i \in L3ifs => /\ [s EXCEPT !.l3if = @ \cup {i}] \in States
                           /\ [s EXCEPT !.l3if = @ \cup {i}].l3if = s.l3if \cup {i}
                           /\ [s EXCEPT !.l3if = @ \cup {i}].vif = s.vif
                           /\ [s EXCEPT !.l3if = @ \cup {i}].rif = s.rif
                           /\ [s EXCEPT !.l3if = @ \cup {i}].hw = s.hw
                           /\ [s EXCEPT !.l3if = @ \cup {i}].stats = s.stats
                           /\ SamePorts(s, [s EXCEPT !.l3if = @ \cup {i}])
         /\ i \in Vifs => /\ [s EXCEPT !.vif = @ \cup {i}] \in States
                          /\ [s EXCEPT !.vif = @ \cup {i}].vif = s.vif \cup {i}
                          /\ [s EXCEPT !.vif = @ \cup {i}].l3if = s.l3if
                          /\ [s EXCEPT !.vif = @ \cup {i}].rif = s.rif
                          /\ SamePorts(s, [s EXCEPT !.vif = @ \cup {i}])
BY DEF States, SamePorts
(* Taking an id of the L3IF pool leaves the VIF side alone. *)
LEMMA TakeKept ==
  ASSUME NEW s, Good(s), NEW i \in L3ifs
  PROVE  Kept(s, [s EXCEPT !.l3if = @ \cup {i}])
PROOF
<1> DEFINE t == [s EXCEPT !.l3if = @ \cup {i}]
<1>1. s \in States
  BY DEF Good
<1>2. t \in States /\ t.rif = s.rif /\ t.vif = s.vif /\ t.ref = s.ref
  BY <1>1, TakeFact DEF SamePorts
<1> HIDE DEF t
<1>3. Good(t)
  BY <1>2, SameRifGood
<1>4. Kept(s, t)
  BY <1>2, <1>3 DEF Kept
<1> QED BY <1>4 DEF t

(* The first stage: the id is taken and the object is in the database. *)
LEMMA BuildAdded ==
  ASSUME NEW s, Good(s), NEW o \in Rifs, o[1] \in L3ifTypes, NEW q \in Requests,
         o \notin DOMAIN s.rif
  PROVE  /\ Open(BuildDb([s EXCEPT !.l3if = @ \cup {Id(o)}], o, q), o)
         /\ Added(s, BuildDb([s EXCEPT !.l3if = @ \cup {Id(o)}], o, q), o)
PROOF
<1> DEFINE t == [s EXCEPT !.l3if = @ \cup {Id(o)}]
           u == BuildDb(t, o, q)
<1>1. Id(o) \in L3ifs /\ s \in States
  BY RifFact DEF Good
<1>2. t \in States /\ t.rif = s.rif /\ t.vif = s.vif /\ Good(t)
  BY <1>1, TakeFact, TakeKept DEF Kept
<1> HIDE DEF t
<1>3. DOMAIN u.rif = DOMAIN t.rif \cup {o} /\ u.vif = t.vif
  BY <1>2, BuildFact DEF SameIds
<1>4. Open(u, o)
  BY <1>2, BuildOpen
<1> HIDE DEF u
<1>5. Added(s, u, o)
  BY <1>2, <1>3 DEF Added
<1> QED BY <1>4, <1>5 DEF u, t

(* A full pool, no memory, and the object already there. *)
LEMMA BuildFailsKept ==
  ASSUME NEW s, Good(s), NEW o \in Rifs, o[1] \in L3ifTypes
  PROVE  Kept(s, Error1([s EXCEPT !.l3if = @ \cup {Id(o)}], o))
PROOF
<1> DEFINE t == [s EXCEPT !.l3if = @ \cup {Id(o)}]
           u == Error1(t, o)
<1>1. Id(o) \in L3ifs /\ s \in States
  BY RifFact DEF Good
<1>2. t \in States /\ t.rif = s.rif /\ t.vif = s.vif /\ Good(t)
  BY <1>1, TakeFact, TakeKept DEF Kept
<1> HIDE DEF t
<1>3. u \in States /\ u.rif = t.rif /\ u.vif = t.vif /\ u.ref = t.ref
  BY <1>2, Error1Fact DEF SamePorts
<1> HIDE DEF u
<1>4. Kept(s, u)
  BY <1>2, <1>3, SameRifGood DEF Kept
<1> QED BY <1>4 DEF u, t

(* The stages of create_rif for an interface with hardware of its own, on *)
(* the id it takes, ... *)
Took(i) == [St EXCEPT !.l3if = @ \cup {i}]
Built(q, i) == BuildDb(Took(i), <<q.type, i>>, q)
Wired(q, i) ==
  IF q.type = "BRIDGE" THEN Built(q, i)
  ELSE HwCreate(Built(q, i), i, Key(q.type, q.port, q.vlan))
Ingress(q, i) ==
  [Wired(q, i) EXCEPT !.stats = @ \cup {FirstStats(Wired(q, i))},
     !.rif[<<q.type, i>>].ing = IF q.type = "BRIDGE" THEN 0 ELSE FirstStats(Wired(q, i))]
Counting(q, i) ==
  IF q.stats = "off" THEN Wired(q, i)
  ELSE CreateStats(Wired(q, i), <<q.type, i>>, FirstStats(Wired(q, i)), SecondStats(Wired(q, i)))
Enabled(q, i) == PortEnable(Counting(q, i), <<q.type, i>>)
Half(q, i) == [Counting(q, i) EXCEPT !.ref = Enabled(q, i).ref]
Asked(q, i) == WithAttrs(Enabled(q, i), <<q.type, i>>, q)

(* ... and where each way through them ends. *)
Enough(q, i) == q.stats = "off" \/ Cardinality(FreeStats(Wired(q, i))) >= 2
Fails(t) == Become(t) /\ status' = "FAILURE"
Outcome(q, i, o) ==
  \/ BuildFails(o) /\ Fails(Error1(Took(i), o))
  \/ /\ o \notin DOMAIN rif
     /\ \/ Fails(Error2(Built(q, i), o))
        \/ /\ q.type = "BRIDGE" \/ ~KeyTaken(Took(i), Key(q.type, q.port, q.vlan))
           /\ \/ q.stats # "off" /\ Fails(Error3(Wired(q, i), o))
              \/ /\ q.stats # "off" /\ FreeStats(Wired(q, i)) # {}
                 /\ Fails(Error4(Ingress(q, i), o))
              \/ /\ Enough(q, i) /\ (q.type = "PORT" \/ "scl" \in Faults)
                 /\ Fails(Error5(Half(q, i), o))
              \/ Enough(q, i) /\ Fails(Error6(Enabled(q, i), o))
              \/ /\ Enough(q, i) /\ VrFound(q.vr)
                 /\ \E f \in HwFaults :
                      LET out == SetAttrHw(Asked(q, i), o, f)
                      IN IF out.ok THEN Become(out.s) /\ status' = "SUCCESS"
                         ELSE Fails(Error6(out.s, o))
(* create_rif goes through those stages and no others. *)
LEMMA CreateStages ==
  ASSUME NEW q, CreateL3if(q)
  PROVE  q.type \in L3ifTypes /\ \E i \in L3ifs \ l3ifPool : Outcome(q, i, <<q.type, i>>)
PROOF
<1>1. PICK i \in L3ifs \ l3ifPool :
     LET o == <<q.type, i>>
         bridge == q.type = "BRIDGE"
         key == Key(q.type, q.port, q.vlan)
         s0 == [St EXCEPT !.l3if = @ \cup {i}]
         s1 == BuildDb(s0, o, q)
         s2 == IF bridge THEN s1 ELSE HwCreate(s1, i, key)
     IN \/ BuildFails(o) /\ Become(Error1(s0, o)) /\ status' = "FAILURE"
        \/ /\ o \notin DOMAIN rif /\ ~bridge /\ KeyTaken(s0, key)
           /\ Become(Error2(s1, o)) /\ status' = "FAILURE"
        \/ /\ o \notin DOMAIN rif
           /\ bridge \/ ~KeyTaken(s0, key)
           /\ \/ /\ q.stats # "off"
                 /\ FreeStats(s2) = {} \/ "stats" \in Faults
                 /\ Become(Error3(s2, o)) /\ status' = "FAILURE"
              \/ /\ q.stats # "off" /\ FreeStats(s2) # {}
                 /\ Cardinality(FreeStats(s2)) = 1 \/ "stats" \in Faults
                 /\ LET a == FirstStats(s2)
                        t == [s2 EXCEPT !.stats = @ \cup {a},
                                        !.rif[o].ing = IF bridge THEN 0 ELSE a]
                    IN Become(Error4(t, o))
                 /\ status' = "FAILURE"
              \/ LET s3 == IF q.stats = "off" THEN s2
                           ELSE CreateStats(s2, o, FirstStats(s2), SecondStats(s2))
                     s4 == PortEnable(s3, o)
                     half == [s3 EXCEPT !.ref = s4.ref]
                 IN /\ q.stats = "off" \/ Cardinality(FreeStats(s2)) >= 2
                    /\ \/ /\ \/ q.type = "PORT" /\ "phy_if" \in Faults
                             \/ q.type = "SUB_PORT" /\ "scl" \in Faults /\ s3.ref[q.port] = 0
                          /\ Become(Error5(half, o)) /\ status' = "FAILURE"
                       \/ /\ ~VrFound(q.vr) \/ "attr" \in Faults
                          /\ Become(Error6(s4, o)) /\ status' = "FAILURE"
                       \/ /\ VrFound(q.vr)
                          /\ \E f \in HwFaults :
                             LET out == SetAttrHw(WithAttrs(s4, o, q), o, f)
                             IN IF out.ok THEN Become(out.s) /\ Created
                                ELSE Become(Error6(out.s, o)) /\ status' = "FAILURE"
  BY DEF CreateL3if
<1> DEFINE o == <<q.type, i>>
           bridge == q.type = "BRIDGE"
           key == Key(q.type, q.port, q.vlan)
           s0 == Took(i)
           s1 == Built(q, i)
           s2 == Wired(q, i)
           t == Ingress(q, i)
           s3 == Counting(q, i)
           s4 == Enabled(q, i)
           half == Half(q, i)
           s5 == Asked(q, i)
<1>2. /\ s0 = [St EXCEPT !.l3if = @ \cup {i}] /\ s1 = BuildDb(s0, o, q)
      /\ s2 = IF bridge THEN s1 ELSE HwCreate(s1, i, key)
      /\ t = [s2 EXCEPT !.stats = @ \cup {FirstStats(s2)},
                        !.rif[o].ing = IF bridge THEN 0 ELSE FirstStats(s2)]
      /\ s3 = IF q.stats = "off" THEN s2
              ELSE CreateStats(s2, o, FirstStats(s2), SecondStats(s2))
      /\ s4 = PortEnable(s3, o) /\ half = [s3 EXCEPT !.ref = s4.ref]
      /\ s5 = WithAttrs(s4, o, q)
  BY DEF Took, Built, Wired, Ingress, Counting, Enabled, Half, Asked
<1>3. Outcome(q, i, o)
  <2> HIDE DEF o, bridge, key, s0, s1, s2, s3, s4, s5, t, half
  <2>1. \/ BuildFails(o) /\ Fails(Error1(s0, o))
        \/ o \notin DOMAIN rif /\ Fails(Error2(s1, o))
        \/ /\ o \notin DOMAIN rif
           /\ bridge \/ ~KeyTaken(s0, key)
           /\ \/ q.stats # "off" /\ Fails(Error3(s2, o))
              \/ q.stats # "off" /\ FreeStats(s2) # {} /\ Fails(Error4(t, o))
              \/ /\ q.stats = "off" \/ Cardinality(FreeStats(s2)) >= 2
                 /\ \/ (q.type = "PORT" \/ "scl" \in Faults) /\ Fails(Error5(half, o))
                    \/ Fails(Error6(s4, o))
                    \/ /\ VrFound(q.vr)
                       /\ \E f \in HwFaults :
                          LET out == SetAttrHw(s5, o, f)
                          IN IF out.ok THEN Become(out.s) /\ status' = "SUCCESS"
                             ELSE Fails(Error6(out.s, o))
    BY <1>1, <1>2 DEF Fails, Created, o, bridge, key
  <2> QED BY <2>1 DEF Outcome, Enough, bridge, key, s0, s1, s2, s4, s5, t, half
<1>4. q.type \in L3ifTypes
  BY DEF CreateL3if
<1> QED BY <1>3, <1>4

(* Whatever call of it fails, the tables keep their types and the count *)
(* does not fall behind. *)
LEMMA CreateL3ifKept ==
  ASSUME TypeInv, NEW q \in Requests, CreateL3if(q)
  PROVE  (\E t : Become(t) /\ Kept(St, t)) /\ status' \in {"SUCCESS", "FAILURE"}
PROOF
<1>1. PICK i \in L3ifs \ l3ifPool : Outcome(q, i, <<q.type, i>>)
  BY CreateStages
<1> DEFINE o == <<q.type, i>>
           bridge == q.type = "BRIDGE"
           key == Key(q.type, q.port, q.vlan)
           s0 == Took(i)
           s1 == Built(q, i)
           s2 == Wired(q, i)
           a == FirstStats(s2)
           b == IF bridge THEN 0 ELSE a
           t == Ingress(q, i)
           s3 == Counting(q, i)
           s4 == Enabled(q, i)
           half == Half(q, i)
           s5 == Asked(q, i)
           more == Enough(q, i)
<1>0. /\ s0 = [St EXCEPT !.l3if = @ \cup {i}] /\ s1 = BuildDb(s0, o, q)
      /\ s2 = IF bridge THEN s1 ELSE HwCreate(s1, i, key)
      /\ t = [s2 EXCEPT !.stats = @ \cup {a},
                        !.rif[o].ing = b]
      /\ s3 = IF q.stats = "off" THEN s2
              ELSE CreateStats(s2, o, FirstStats(s2), SecondStats(s2))
      /\ s4 = PortEnable(s3, o) /\ half = [s3 EXCEPT !.ref = s4.ref]
      /\ s5 = WithAttrs(s4, o, q)
  BY DEF Took, Built, Wired, Ingress, Counting, Enabled, Half, Asked
<1>2. /\ Good(St) /\ o \in Rifs /\ o[1] \in L3ifTypes /\ Id(o) = i /\ q.type \in L3ifTypes
      /\ i \in L3ifs /\ o[1] = q.type
  BY <1>1, CreateStages, RifFact DEF TypeInv, Id
<1>3. o \notin DOMAIN rif => Open(s1, o) /\ Added(St, s1, o)
  BY <1>2, BuildAdded, StFact DEF Built, Took
<1>4. Kept(St, Error1(s0, o))
  BY <1>2, BuildFailsKept DEF Took
<1>5. Open(s1, o) => s1 \in States
  BY DEF Open
<1> HIDE DEF s1, o
<1>6. ASSUME o \notin DOMAIN rif PROVE Kept(St, Error2(s1, o))
  BY <1>2, <1>3, <1>6, Error2Fact, UndoneKept
<1>7. ASSUME o \notin DOMAIN rif PROVE Open(s2, o) /\ Added(St, s2, o) /\ s2 \in States
                                       /\ o \in DOMAIN s2.rif
  <2>1. key \in Keys
    BY <1>2, RequestFact, KeyFact
  <2> HIDE DEF key
  <2>2. Framed(s1, s2)
    BY <1>0, <1>2, <1>3, <1>5, <1>7, <2>1, HwCreateFact, NoWrite
  <2> HIDE DEF s2
  <2>3. Added(St, s2, o) /\ Open(s2, o)
    BY <1>3, <1>7, <2>2, AddedFramed, FramedOpen
  <2> QED BY <2>3 DEF Open, Added
<1> HIDE DEF s2
<1>8. ASSUME o \notin DOMAIN rif PROVE Kept(St, Error3(s2, o))
  BY <1>2, <1>7, <1>8, Error3Fact, UndoneKept
<1>9. ASSUME o \notin DOMAIN rif, FreeStats(s2) # {} PROVE Kept(St, Error4(t, o))
  <2>1. a \in StatsIds /\ b \in StatsIds \cup {0}
    BY <1>9, FirstFact DEF FreeStats
  <2> HIDE DEF a, b
  <2>2. Framed(s2, t)
    <3>1. Framed(s2, IngressWrite(s2, o, a, b))
      BY <1>7, <1>9, <2>1, IngressFact DEF IngressWritten
    <3>2. t = IngressWrite(s2, o, a, b)
      BY <1>0 DEF IngressWrite
    <3> HIDE DEF t
    <3> QED BY <3>1, <3>2
  <2> HIDE DEF t
  <2>3. Open(t, o) /\ Added(St, t, o)
    BY <1>7, <1>9, <2>2, AddedFramed, FramedOpen
  <2> QED BY <1>2, <2>3, Error4Fact, UndoneKept
<1>10. ASSUME o \notin DOMAIN rif, q.stats = "off" \/ Cardinality(FreeStats(s2)) >= 2
       PROVE  Open(s3, o) /\ Added(St, s3, o) /\ o \in DOMAIN s3.rif
  <2>1. CASE q.stats = "off"
    BY <1>0, <1>7, <1>10, <2>1
  <2>2. CASE q.stats # "off"
    <3>1. FirstStats(s2) \in StatsIds /\ SecondStats(s2) \in StatsIds
      BY <1>10, <2>2, SecondFact DEF FreeStats
    <3>2. Framed(s2, s3)
      BY <1>0, <1>7, <1>10, <2>2, <3>1, CreateStatsFact
    <3> HIDE DEF s3
    <3>3. Added(St, s3, o) /\ Open(s3, o)
      BY <1>7, <1>10, <3>2, AddedFramed, FramedOpen
    <3> QED BY <3>3 DEF Added
  <2> QED BY <2>1, <2>2
<1> HIDE DEF s3, t
<1>11. ASSUME o \notin DOMAIN rif, q.stats = "off" \/ Cardinality(FreeStats(s2)) >= 2
       PROVE  /\ Good(s4) /\ Added(St, s4, o) /\ o \in DOMAIN s4.rif /\ s4 \in States
              /\ Open(half, o) /\ Added(St, half, o)
  <2>1. Good(s4) /\ Open(half, o) /\ SameTables(s3, half)
    <3>1. s4 = PortEnable(s3, o) /\ half = [s3 EXCEPT !.ref = s4.ref]
      BY <1>0
    <3>2. /\ Good(PortEnable(s3, o)) /\ Open([s3 EXCEPT !.ref = PortEnable(s3, o).ref], o)
          /\ SameTables(s3, [s3 EXCEPT !.ref = PortEnable(s3, o).ref])
      BY <1>10, <1>11, EnableGood
    <3> HIDE DEF s4, half
    <3> QED BY <3>1, <3>2
  <2>2. s3 \in States
    BY <1>10, <1>11 DEF Open
  <2>3. SameTables(s3, s4)
    <3>1. s4 = PortEnable(s3, o)
      BY <1>0
    <3>2. SameTables(s3, PortEnable(s3, o))
      BY <1>10, <1>11, <2>2, EnableFields
    <3> HIDE DEF s4
    <3> QED BY <3>1, <3>2
  <2> HIDE DEF s4, half
  <2> QED BY <1>10, <1>11, <2>1, <2>3 DEF Added, SameTables, Good
<1> HIDE DEF s4, half
<1>12. ASSUME o \notin DOMAIN rif, q.stats = "off" \/ Cardinality(FreeStats(s2)) >= 2
       PROVE  Kept(St, Error5(half, o)) /\ Kept(St, Error6(s4, o))
  BY <1>2, <1>11, <1>12, Error5Fact, Error6Fact, UndoneKept
<1>13. ASSUME o \notin DOMAIN rif, q.stats = "off" \/ Cardinality(FreeStats(s2)) >= 2, NEW f
       PROVE  /\ Kept(St, SetAttrHw(s5, o, f).s) /\ SetAttrHw(s5, o, f).ok \in BOOLEAN
              /\ Kept(St, Error6(SetAttrHw(s5, o, f).s, o))
  <2> DEFINE u == SetAttrHw(s5, o, f).s
  <2>1. VrMac(q.vr) \in Macs
    BY L3InterfaceAssumption DEF VrMac, TypeInv, VrGood, VrRecords
  <2>2. Framed(s4, s5)
    <3>1. s5 = WithAttrs(s4, o, q)
      BY <1>0
    <3>2. Framed(s4, WithAttrs(s4, o, q))
      BY <1>11, <1>13, <2>1, WithAttrsFact
    <3> HIDE DEF s5
    <3> QED BY <3>1, <3>2
  <2> HIDE DEF s5
  <2>3. Good(s5) /\ Added(St, s5, o) /\ o \in DOMAIN s5.rif /\ s5 \in States
    <3>1. Added(St, s5, o) /\ Good(s5)
      BY <1>11, <1>13, <2>2, FramedGood, AddedFramed
    <3> QED BY <3>1 DEF Added, Good
  <2>4. Framed(s5, u) /\ SetAttrHw(s5, o, f).ok \in BOOLEAN
    BY <2>3, SetAttrHwFact
  <2> HIDE DEF u
  <2>5. Good(u) /\ Added(St, u, o) /\ o \in DOMAIN u.rif
    BY <2>3, <2>4, FramedGood, AddedFramed DEF Added
  <2>6. Kept(St, u) /\ Kept(St, Error6(u, o))
    BY <2>5, AddedKept, Error6Fact, UndoneKept
  <2> QED BY <2>4, <2>6 DEF u
<1> HIDE DEF s0, bridge, key, s5
<1>14. \/ BuildFails(o) /\ Become(Error1(s0, o)) /\ status' = "FAILURE"
       \/ o \notin DOMAIN rif /\ Become(Error2(s1, o)) /\ status' = "FAILURE"
       \/ o \notin DOMAIN rif /\ Become(Error3(s2, o)) /\ status' = "FAILURE"
       \/ /\ o \notin DOMAIN rif /\ FreeStats(s2) # {} /\ Become(Error4(t, o))
          /\ status' = "FAILURE"
       \/ o \notin DOMAIN rif /\ more /\ Become(Error5(half, o)) /\ status' = "FAILURE"
       \/ o \notin DOMAIN rif /\ more /\ Become(Error6(s4, o)) /\ status' = "FAILURE"
       \/ /\ o \notin DOMAIN rif /\ more
          /\ \E f \in HwFaults :
               \/ Become(SetAttrHw(s5, o, f).s) /\ status' = "SUCCESS"
               \/ Become(Error6(SetAttrHw(s5, o, f).s, o)) /\ status' = "FAILURE"
  BY <1>1 DEF Outcome, Fails, s0, s1, s2, s4, s5, t, half, o, more
<1> HIDE DEF more
<1>15. more => (q.stats = "off" \/ Cardinality(FreeStats(s2)) >= 2)
  BY DEF more, s2, Enough
<1> QED BY <1>4, <1>6, <1>8, <1>9, <1>12, <1>13, <1>14, <1>15

(* The interface a virtual one rides on, noted in the object. *)
LEMMA ActualFact ==
  ASSUME NEW s \in States, NEW o, o \in DOMAIN s.rif, NEW j \in L3ifs
  PROVE  Framed(s, [s EXCEPT !.rif[o].actual = j])
PROOF
<1> DEFINE r == [s.rif[o] EXCEPT !.actual = j]
           u == [s EXCEPT !.rif = [s.rif EXCEPT ![o] = r]]
<1>1. s.rif[o] \in RifRecords
  BY ObjectFact
<1>2. r \in RifRecords /\ r.port = s.rif[o].port /\ r.virt = s.rif[o].virt
  BY <1>1 DEF RifRecords
<1>3. [s EXCEPT !.rif[o].actual = j] = u
  <2>1. [s EXCEPT !.rif[o].actual = j] = [s EXCEPT !.rif = [s.rif EXCEPT ![o].actual = j]]
    OBVIOUS
  <2>2. [s.rif EXCEPT ![o].actual = j] = [s.rif EXCEPT ![o] = r]
    OBVIOUS
  <2> QED BY <2>1, <2>2
<1> HIDE DEF r
<1> QED BY <1>2, <1>3, RifWrite

(* create_rif of a virtual interface, which has no hardware of its own. *)
LEMMA CreateVirtualKept ==
  ASSUME TypeInv, NEW q \in Requests, CreateVirtual(q)
  PROVE  (\E t : Become(t) /\ Kept(St, t)) /\ status' \in {"SUCCESS", "FAILURE"}
PROOF
<1>1. PICK i \in L3ifs \ l3ifPool :
     LET o == <<q.type, i>>
         s0 == [St EXCEPT !.l3if = @ \cup {i}]
         s == BuildDb(s0, o, q)
         real == {j \in DOMAIN hw : hw[j].key = Key(q.type, q.port, q.vlan)}
     IN \/ BuildFails(o) /\ Become(Error1(s0, o)) /\ status' = "FAILURE"
        \/ /\ o \notin DOMAIN rif /\ real = {}
           /\ Become(Error2(s, o)) /\ status' = "FAILURE"
        \/ \E j \in real :
             /\ o \notin DOMAIN rif
             /\ \/ /\ Cardinality(hw[j].macs) >= MaxRouterMac
                   /\ Become(s) /\ status' = "FAILURE"
                \/ /\ Cardinality(hw[j].macs) < MaxRouterMac
                   /\ \/ /\ ~VrFound(q.vr) \/ "attr" \in Faults \/ q.stats # "absent"
                         /\ Become(Error6(s, o)) /\ status' = "FAILURE"
                      \/ /\ VrFound(q.vr) /\ q.stats = "absent"
                         /\ Become(AppendMac([WithAttrs(s, o, q) EXCEPT !.rif[o].actual = j], o))
                         /\ status' = "SUCCESS"
  BY DEF CreateVirtual
<1> DEFINE o == <<q.type, i>>
           s0 == [St EXCEPT !.l3if = @ \cup {i}]
           s == BuildDb(s0, o, q)
           w == WithAttrs(s, o, q)
           A(j) == [w EXCEPT !.rif[o].actual = j]
<1>2. /\ Good(St) /\ o \in Rifs /\ o[1] \in L3ifTypes /\ Id(o) = i
      /\ i \in L3ifs /\ o[1] # "SUB_PORT" /\ DOMAIN hw \subseteq L3ifs
  <2>1. q.type \in {"PORT", "VLAN"}
    BY DEF CreateVirtual
  <2>2. DOMAIN St.hw \subseteq L3ifs
    BY HwTableFact DEF TypeInv, Good, States
  <2> QED BY <1>1, <2>1, <2>2, RifFact, StFact DEF TypeInv, L3ifTypes, Id
<1>3. o \notin DOMAIN rif => Open(s, o) /\ Added(St, s, o)
  BY <1>2, BuildAdded, StFact
<1>4. Kept(St, Error1(s0, o))
  BY <1>2, BuildFailsKept
<1> HIDE DEF s, o
<1>5. ASSUME o \notin DOMAIN rif
      PROVE  Good(s) /\ s \in States /\ o \in DOMAIN s.rif
  <2>1. Good(s)
    BY <1>2, <1>3, <1>5, GoodOpen
  <2> QED BY <1>3, <1>5, <2>1 DEF Added, Good
<1>6. ASSUME o \notin DOMAIN rif
      PROVE  Kept(St, Error2(s, o)) /\ Kept(St, s) /\ Kept(St, Error6(s, o))
  BY <1>2, <1>3, <1>5, <1>6, Error2Fact, Error6Fact, UndoneKept, AddedKept
<1>7. ASSUME o \notin DOMAIN rif, NEW j \in DOMAIN hw
      PROVE  Kept(St, AppendMac(A(j), o))
  <2> DEFINE x == A(j)
             u == AppendMac(x, o)
  <2>1. VrMac(q.vr) \in Macs
    BY L3InterfaceAssumption DEF VrMac, TypeInv, VrGood, VrRecords
  <2>2. Framed(s, w)
    BY <1>5, <1>7, <2>1, WithAttrsFact
  <2> HIDE DEF w
  <2>3. w \in States /\ o \in DOMAIN w.rif
    BY <1>5, <1>7, <2>2 DEF Framed, SameShape
  <2>4. Framed(w, x)
    BY <1>2, <2>3, ActualFact
  <2> HIDE DEF x
  <2>5. x \in States /\ o \in DOMAIN x.rif
    BY <2>3, <2>4 DEF Framed, SameShape
  <2>6. Framed(x, u)
    BY <2>5, WriteMacFact
  <2> HIDE DEF u
  <2>7. Framed(s, u)
    BY <2>2, <2>4, <2>6, FramedTwice
  <2>8. Good(u) /\ Added(St, u, o)
    BY <1>3, <1>5, <1>7, <2>7, FramedGood, AddedFramed
  <2>9. Kept(St, u)
    BY <2>8, AddedKept
  <2> QED BY <2>9 DEF u, x
<1>8. \/ BuildFails(o) /\ Become(Error1(s0, o)) /\ status' = "FAILURE"
      \/ o \notin DOMAIN rif /\ Become(Error2(s, o)) /\ status' = "FAILURE"
      \/ o \notin DOMAIN rif /\ Become(s) /\ status' = "FAILURE"
      \/ o \notin DOMAIN rif /\ Become(Error6(s, o)) /\ status' = "FAILURE"
      \/ /\ o \notin DOMAIN rif /\ status' = "SUCCESS"
         /\ \E j \in DOMAIN hw : Become(AppendMac(A(j), o))
  BY <1>1 DEF s0, s, o
<1> HIDE DEF s0, A, w
<1> QED BY <1>4, <1>6, <1>7, <1>8

-----------------------------------------------------------------------------
(* An interface without hardware comes and goes with its id. *)
VifBorn(s, t) ==
  \E o \in Rifs \ DOMAIN s.rif :
    /\ o[1] \in VifTypes /\ Id(o) \notin s.vif
    /\ DOMAIN t.rif = DOMAIN s.rif \cup {o} /\ t.vif = s.vif \cup {Id(o)}
VifGone(s, t) ==
  \E o \in DOMAIN s.rif :
    /\ o[1] \in VifTypes
    /\ DOMAIN t.rif = DOMAIN s.rif \ {o} /\ t.vif = s.vif \ {Id(o)}
(* Its creation keeps the id when build_db fails. *)
VifLost(s) ==
  \E o \in Rifs :
    o[1] \in VifTypes /\ Id(o) \notin s.vif /\ ("malloc" \in Faults \/ o \in DOMAIN s.rif)
(* create_rif for an interface without hardware. *)
LEMMA CreateVifFact ==
  ASSUME TypeInv, NEW q \in Requests, CreateVif(q)
  PROVE  /\ \E t : Become(t) /\ Good(t) /\ (Kept(St, t) \/ VifBorn(St, t) \/ VifLost(St))
         /\ status' \in {"SUCCESS", "FAILURE"}
PROOF
<1>1. Good(St) /\ Kept(St, St) /\ St \in States
  BY DEF Kept, TypeInv, Good
<1>2. CASE vifPool = Vifs /\ Become(St) /\ status' = "FAILURE"
  BY <1>1, <1>2
<1>3. ASSUME NEW i \in Vifs \ vifPool
      PROVE  LET o == <<q.type, i>>
                 s == [St EXCEPT !.vif = @ \cup {i}]
                 t == [BuildDb(s, o, q) EXCEPT !.rif[o].vrf = q.vr]
                 u == Error1(s, o)
             IN /\ o \notin DOMAIN rif => Good(t) /\ VifBorn(St, t)
                /\ BuildFails(o) => Good(u) /\ VifLost(St)
  <2> DEFINE o == <<q.type, i>>
             s == [St EXCEPT !.vif = @ \cup {i}]
             b == BuildDb(s, o, q)
             r == [b.rif[o] EXCEPT !.vrf = q.vr]
             t == [b EXCEPT !.rif[o].vrf = q.vr]
             u == Error1(s, o)
  <2>1. /\ o \in Rifs /\ o[1] \in VifTypes /\ Id(o) = i /\ Id(o) \notin St.vif
        /\ i \in Vifs /\ o[1] # "SUB_PORT" /\ St.rif = rif
    BY <1>3, RifFact, StFact DEF CreateVif, Id, VifTypes
  <2>2. /\ s \in States /\ s.vif = St.vif \cup {i} /\ s.rif = rif /\ s.ref = St.ref
        /\ s.l3if = St.l3if
    BY <1>1, <2>1, TakeFact DEF SamePorts
  <2> HIDE DEF s, o
  <2>3. Good(s)
    BY <1>1, <2>1, <2>2, SameRifGood
  <2>4. ASSUME o \notin DOMAIN rif PROVE Good(t) /\ VifBorn(St, t)
    <3>1. /\ b \in States /\ DOMAIN b.rif = DOMAIN rif \cup {o} /\ b.vif = s.vif
          /\ Open(b, o) /\ o \in DOMAIN b.rif
      BY <2>1, <2>2, <2>3, <2>4, BuildFact, BuildOpen DEF SameIds
    <3> HIDE DEF b
    <3>2. Good(b)
      BY <2>1, <3>1, GoodOpen
    <3>3. q.vr \in Vrs /\ b.rif[o] \in RifRecords
      BY <3>1, ObjectFact, RequestFact
    <3>4. r \in RifRecords /\ r.port = b.rif[o].port /\ r.virt = b.rif[o].virt
      BY <3>3 DEF RifRecords
    <3>5. t = [b EXCEPT !.rif = [b.rif EXCEPT ![o] = r]]
      OBVIOUS
    <3> HIDE DEF r, t
    <3>6. Framed(b, t)
      BY <3>1, <3>4, <3>5, RifWrite
    <3>7. Good(t)
      BY <3>2, <3>6, FramedGood
    <3>8. DOMAIN t.rif = DOMAIN rif \cup {o} /\ t.vif = St.vif \cup {i}
      BY <2>2, <3>1, <3>6 DEF Framed, SameShape, SameIds
    <3> QED BY <2>1, <2>4, <3>7, <3>8 DEF VifBorn
  <2>5. ASSUME BuildFails(o) PROVE Good(u) /\ VifLost(St)
    <3>1. u \in States /\ u.rif = s.rif /\ u.ref = s.ref
      BY <2>2, Error1Fact DEF SamePorts
    <3> HIDE DEF u
    <3>2. Good(u)
      BY <2>3, <3>1, SameRifGood
    <3> QED BY <2>1, <2>5, <3>2 DEF VifLost, BuildFails
  <2> QED BY <2>4, <2>5 DEF s, o
<1>4. CASE \E i \in Vifs \ vifPool :
        LET o == <<q.type, i>>
            s == [St EXCEPT !.vif = @ \cup {i}]
        IN \/ /\ o \notin DOMAIN rif
              /\ Become([BuildDb(s, o, q) EXCEPT !.rif[o].vrf = q.vr])
              /\ status' = "SUCCESS"
           \/ BuildFails(o) /\ Become(Error1(s, o)) /\ status' = "FAILURE"
  BY <1>3, <1>4
<1> QED BY <1>2, <1>4 DEF CreateVif

(* create_rif as a whole. *)
LEMMA CreateRifFact ==
  ASSUME TypeInv, NEW q \in pending, CreateRif(q)
  PROVE  /\ \E t : Become(t) /\ Good(t) /\ (Kept(St, t) \/ VifBorn(St, t) \/ VifLost(St))
         /\ status' \in {"SUCCESS", "FAILURE"}
PROOF
<1>1. q \in Requests /\ Kept(St, St)
  BY DEF TypeInv, Kept
<1>2. CASE CreateVif(q)
  BY <1>1, <1>2, CreateVifFact
<1>3. CASE CreateVirtual(q) \/ CreateL3if(q)
  <2>1. (\E t : Become(t) /\ Kept(St, t)) /\ status' \in {"SUCCESS", "FAILURE"}
    BY <1>1, <1>3, CreateVirtualKept, CreateL3ifKept
  <2> QED BY <2>1 DEF Kept
<1>4. CASE q.type \in L3ifTypes /\ l3ifPool = L3ifs /\ Become(St) /\ status' = "FAILURE"
  BY <1>1, <1>4 DEF Kept
<1> QED BY <1>2, <1>3, <1>4 DEF CreateRif

(* An id given back. *)
LEMMA GiveFact ==
  ASSUME NEW s \in States, NEW i
  PROVE  /\ [s EXCEPT !.l3if = @ \ {i}] \in States
         /\ [s EXCEPT !.l3if = @ \ {i}].l3if = s.l3if \ {i}
         /\ [s EXCEPT !.l3if = @ \ {i}].vif = s.vif
         /\ [s EXCEPT !.l3if = @ \ {i}].rif = s.rif
         /\ [s EXCEPT !.l3if = @ \ {i}].hw = s.hw
         /\ [s EXCEPT !.l3if = @ \ {i}].stats = s.stats
         /\ SamePorts(s, [s EXCEPT !.l3if = @ \ {i}])
BY DEF States, SamePorts
(* An id of the VIF pool given back. *)
LEMMA GiveVifFact ==
  ASSUME NEW s \in States, NEW o
  PROVE  /\ FreeVif(s, o) \in States /\ FreeVif(s, o).vif = s.vif \ {Id(o)}
         /\ FreeVif(s, o).rif = s.rif /\ FreeVif(s, o).ref = s.ref
BY DEF States, FreeVif

(* The object removed at the end of remove_rif. *)
LEMMA RemoveKept ==
  ASSUME NEW s, NEW t, NEW o \in Rifs, o[1] \in L3ifTypes,
         Open(t, o), DOMAIN t.rif = DOMAIN s.rif, t.vif = s.vif
  PROVE  Kept(s, RemoveDb(t, o))
PROOF
<1> DEFINE u == RemoveDb(t, o)
<1>1. t \in States
  BY DEF Open
<1>2. u.rif = Drop(t.rif, o) /\ u.vif = t.vif /\ Good(u)
  BY <1>1, RemoveFact, RemoveGood DEF SameIds
<1> HIDE DEF u
<1>3. DOMAIN u.rif = DOMAIN s.rif \ {o}
  BY <1>2 DEF Drop
<1>4. Kept(s, u)
  BY <1>2, <1>3 DEF Kept, VifTypes, L3ifTypes
<1> QED BY <1>4 DEF u

(* remove_rif, whatever it finds, and whatever fails. *)
LEMMA RemoveRifFact ==
  ASSUME TypeInv, NEW o \in Rifs, RemoveRif(o)
  PROVE  /\ \E t : Become(t) /\ Good(t) /\ (Kept(St, t) \/ VifGone(St, t))
         /\ status' \in {"SUCCESS", "FAILURE"}
PROOF
<1> DEFINE s == [St EXCEPT !.l3if = @ \ {Id(o)}]
           off == PortDisable(s, o)
           gone == HwDestroy(off, Id(o))
           less == [gone EXCEPT !.stats = @ \ {rif[o].ing, rif[o].egs}]
           j == rif[o].actual
           wiped == [s EXCEPT !.hw[j].macs = @ \ {rif[o].mac}]
           vif == FreeVif(St, o)
<1>1. Good(St) /\ Kept(St, St) /\ St \in States /\ St.rif = rif /\ St.hw = hw
  BY StFact DEF Kept, TypeInv, Good
<1>2. s \in States /\ s.rif = rif /\ s.vif = St.vif /\ s.hw = hw /\ s.ref = St.ref
  BY <1>1, GiveFact DEF SamePorts
<1>3. \/ Become(St) /\ status' = "FAILURE"
      \/ /\ o \in DOMAIN rif /\ o[1] \in VifTypes
         /\ Become(RemoveDb(vif, o)) /\ status' = "SUCCESS"
      \/ /\ o \in DOMAIN rif /\ o[1] \in L3ifTypes /\ ~rif[o].virt
         /\ Become(RemoveDb(IF rif[o].statsEn THEN less ELSE gone, o))
         /\ status' = "SUCCESS"
      \/ /\ o \in DOMAIN rif /\ o[1] \in L3ifTypes /\ j \in DOMAIN hw
         /\ Become(RemoveDb(wiped, o)) /\ status' = "SUCCESS"
      \/ /\ o \in DOMAIN rif /\ o[1] \in L3ifTypes
         /\ Become(s) /\ status' = "FAILURE"
  BY DEF RemoveRif
<1> HIDE DEF s
<1>4. Good(s) /\ Kept(St, s)
  BY <1>1, <1>2, SameRifGood DEF Kept
<1>5. ASSUME o \in DOMAIN rif, o[1] \in VifTypes
      PROVE  Good(RemoveDb(vif, o)) /\ VifGone(St, RemoveDb(vif, o))
  <2> DEFINE u == RemoveDb(vif, o)
  <2>1. vif \in States /\ vif.rif = rif /\ vif.ref = St.ref /\ vif.vif = St.vif \ {Id(o)}
    BY <1>1, GiveVifFact
  <2> HIDE DEF vif
  <2>2. Good(vif)
    BY <1>1, <2>1, SameRifGood
  <2>3. Open(vif, o)
    BY <2>2, GoodOpen
  <2>4. Good(u) /\ u.rif = Drop(rif, o) /\ u.vif = St.vif \ {Id(o)}
    BY <2>1, <2>3, RemoveFact, RemoveGood DEF SameIds
  <2> HIDE DEF u
  <2>5. DOMAIN u.rif = DOMAIN rif \ {o}
    BY <2>4 DEF Drop
  <2>6. VifGone(St, u)
    BY <1>1, <1>5, <2>4, <2>5 DEF VifGone
  <2> QED BY <2>4, <2>6 DEF u
<1>6. ASSUME o \in DOMAIN rif, o[1] \in L3ifTypes, ~rif[o].virt
      PROVE  Kept(St, RemoveDb(gone, o)) /\ Kept(St, RemoveDb(less, o))
  <2>1. Open(off, o) /\ off.rif = rif /\ off.vif = St.vif /\ off \in States
    BY <1>2, <1>4, <1>6, DisableOpen DEF SameTables, Open
  <2> HIDE DEF off
  <2>2. Framed(off, gone) /\ gone.rif = off.rif
    BY <2>1, HwDestroyFact
  <2> HIDE DEF gone
  <2>3. Open(gone, o) /\ gone \in States
    BY <2>1, <2>2, FramedOpen DEF Framed
  <2>4. Framed(gone, less)
    <3>1. gone.stats \ {rif[o].ing, rif[o].egs} \in SUBSET StatsIds
      BY <2>3 DEF States
    <3> QED BY <2>3, <3>1, StatsWrite
  <2> HIDE DEF less
  <2>5. Open(less, o)
    BY <2>3, <2>4, FramedOpen
  <2>6. DOMAIN gone.rif = DOMAIN rif /\ gone.vif = St.vif
        /\ DOMAIN less.rif = DOMAIN rif /\ less.vif = St.vif
    BY <2>1, <2>2, <2>4 DEF Framed, SameShape, SameIds
  <2> QED BY <1>1, <1>6, <2>3, <2>5, <2>6, RemoveKept
<1>7. ASSUME o \in DOMAIN rif, o[1] \in L3ifTypes, j \in DOMAIN hw
      PROVE  Kept(St, RemoveDb(wiped, o))
  <2> DEFINE M == hw[j].macs \ {rif[o].mac}
             f == [s.hw EXCEPT ![j].macs = M]
  <2>1. s.hw \in HwTables /\ hw[j] \in HwRecords
    BY <1>2, <1>7, HwTableFact DEF States
  <2>2. M \in SUBSET Macs
    BY <2>1 DEF HwRecords
  <2>3. wiped = [s EXCEPT !.hw = f]
    <3>1. wiped = [s EXCEPT !.hw = [s.hw EXCEPT ![j].macs = @ \ {rif[o].mac}]]
      OBVIOUS
    <3>2. [s.hw EXCEPT ![j].macs = @ \ {rif[o].mac}] = f
      BY <1>2
    <3> QED BY <3>1, <3>2
  <2> HIDE DEF M, wiped
  <2>4. f \in HwTables
    BY <2>1, <2>2, HwFields
  <2> HIDE DEF f
  <2>5. Framed(s, wiped)
    BY <1>2, <2>3, <2>4, HwWrite
  <2>6. Good(wiped) /\ DOMAIN wiped.rif = DOMAIN rif /\ wiped.vif = St.vif
    BY <1>2, <1>4, <2>5, FramedGood DEF Framed, SameShape, SameIds
  <2>7. Open(wiped, o)
    BY <2>6, GoodOpen
  <2> QED BY <1>1, <1>7, <2>6, <2>7, RemoveKept
<1> HIDE DEF gone, less, wiped, vif, j
<1> QED BY <1>1, <1>3, <1>4, <1>5, <1>6, <1>7 DEF Kept

-----------------------------------------------------------------------------
(* set_rif_attr changes neither port nor kind of an object. *)
LEMMA SetAttrFact ==
  ASSUME NEW r \in RifRecords, NEW new \in SetAttr(r)
  PROVE  new \in RifRecords /\ new.port = r.port /\ new.virt = r.virt
PROOF
<1>1. CASE \E v \in Vrs : new = [r EXCEPT !.vrf = v]
  BY <1>1 DEF RifRecords
<1>2. CASE \E m \in Macs : new = [r EXCEPT !.mac = m]
  BY <1>2 DEF RifRecords
<1>3. CASE \E b \in BOOLEAN : new = [r EXCEPT !.v4 = b]
  BY <1>3 DEF RifRecords
<1>4. CASE \E b \in StatsSets :
             new = [r EXCEPT !.statsEn = b, !.asked = IF b THEN "on" ELSE "off"]
  <2>1. PICK b \in BOOLEAN :
             new = [r EXCEPT !.statsEn = b, !.asked = IF b THEN "on" ELSE "off"]
    BY <1>4, L3InterfaceAssumption
  <2> DEFINE a == IF b THEN "on" ELSE "off"
  <2>2. a \in {"absent", "on", "off"}
    OBVIOUS
  <2> HIDE DEF a
  <2>3. new = [r EXCEPT !.statsEn = b, !.asked = a]
    BY <2>1 DEF a
  <2> QED BY <2>2, <2>3 DEF RifRecords
<1> QED BY <1>1, <1>2, <1>3, <1>4 DEF SetAttr
(* Whatever the attribute and whatever write fails. *)
LEMMA SetRifAttrFact ==
  ASSUME TypeInv, NEW o \in DOMAIN rif, NEW new \in SetAttr(rif[o]), SetRifAttr(o, new)
  PROVE  (\E t : Become(t) /\ Framed(St, t)) /\ status' \in {"SUCCESS", "FAILURE"}
PROOF
<1> DEFINE s == [St EXCEPT !.rif[o] = new]
<1>1. St \in States /\ St.rif = rif
  BY StFact DEF TypeInv, Good
<1>2. new \in RifRecords /\ new.port = rif[o].port /\ new.virt = rif[o].virt
  <2>1. rif[o] \in RifRecords
    BY <1>1, ObjectFact
  <2> QED BY <2>1, SetAttrFact
<1>3. s = [St EXCEPT !.rif = [St.rif EXCEPT ![o] = new]]
  OBVIOUS
<1> HIDE DEF s
<1>4. Framed(St, s) /\ s \in States /\ o \in DOMAIN s.rif
  <2>1. Framed(St, s)
    BY <1>1, <1>2, <1>3, RifWrite
  <2> QED BY <1>1, <2>1 DEF Framed, SameShape
<1>5. PICK f \in HwFaults : /\ Become(SetAttrHw(s, o, f).s)
                            /\ status' \in {"SUCCESS", "FAILURE"}
  BY DEF SetRifAttr, s
<1>6. Framed(s, SetAttrHw(s, o, f).s)
  BY <1>4, SetAttrHwFact
<1> QED BY <1>4, <1>5, <1>6, FramedTwice

(* The bridge port gives its interface hardware, or takes it away. *)
LEMMA UpdateBridgeFact ==
  ASSUME TypeInv, NEW i \in L3ifs, NEW vlan \in Vlans, NEW add \in BOOLEAN,
         UpdateBridgeRif(i, vlan, add)
  PROVE  (\E t : Become(t) /\ Framed(St, t)) /\ status' \in {"SUCCESS", "FAILURE"}
PROOF
<1> DEFINE o == <<"BRIDGE", i>>
           key == Key("BRIDGE", 0, vlan)
           s == HwCreate(St, i, key)
           d == HwDestroy(St, i)
<1>1. St \in States /\ St.rif = rif /\ o \in DOMAIN rif
  BY StFact DEF TypeInv, Good, UpdateBridgeRif
<1>2. \/ Become(St) /\ status' \in {"SUCCESS", "FAILURE"}
      \/ Become(d) /\ status' \in {"SUCCESS", "FAILURE"}
      \/ \E f \in HwFaults :
           LET out == SetAttrHw(s, o, f)
           IN \/ Become(out.s) /\ status' \in {"SUCCESS", "FAILURE"}
              \/ Become(HwDestroy(out.s, i)) /\ status' \in {"SUCCESS", "FAILURE"}
  BY DEF UpdateBridgeRif
<1>3. Framed(St, St) /\ Framed(St, d)
  BY <1>1, NoWrite, HwDestroyFact
<1>4. Framed(St, s) /\ s \in States /\ o \in DOMAIN s.rif
  <2>1. St.rif[o].port \in Ports
    BY <1>1, ObjectFact
  <2>2. key \in Keys
    BY <2>1, BridgeKeyFact
  <2> HIDE DEF key, o
  <2>3. Framed(St, s) /\ s.rif = St.rif
    BY <1>1, <2>2, HwCreateFact
  <2> HIDE DEF s
  <2> QED BY <1>1, <2>3 DEF Framed
<1> HIDE DEF s, d, o
<1>5. ASSUME NEW f
      PROVE  /\ Framed(St, SetAttrHw(s, o, f).s)
             /\ Framed(St, HwDestroy(SetAttrHw(s, o, f).s, i))
  <2> DEFINE t == SetAttrHw(s, o, f).s
  <2>1. Framed(s, t)
    BY <1>4, SetAttrHwFact
  <2> HIDE DEF t
  <2>2. Framed(t, HwDestroy(t, i))
    BY <2>1, HwDestroyFact DEF Framed
  <2>3. Framed(St, t) /\ Framed(St, HwDestroy(t, i))
    BY <1>4, <2>1, <2>2, FramedTwice
  <2> QED BY <2>3 DEF t
<1> QED BY <1>2, <1>3, <1>5

(* The virtual router's attribute, written to its interfaces. *)
LEMMA TablesStep ==
  ASSUME TypeInv, rif' \in RifTables, hw' \in HwTables, DOMAIN rif' = DOMAIN rif,
         \A x \in DOMAIN rif : rif'[x].port = rif[x].port /\ rif'[x].virt = rif[x].virt,
         UNCHANGED <<l3ifPool, vifPool, stats, subIfRef, sclEn, phyIfEn>>
  PROVE  \E t : Become(t) /\ Framed(St, t)
PROOF
<1> DEFINE t == [rif |-> rif', l3if |-> l3ifPool, vif |-> vifPool, hw |-> hw',
                 stats |-> stats, ref |-> subIfRef, scl |-> sclEn, phy |-> phyIfEn]
<1>1. St \in States
  BY DEF TypeInv, Good
<1>2. t \in States
  BY <1>1, StFact DEF States
<1>3. Framed(St, t)
  BY <1>1, <1>2, StFact DEF Framed, SameIds, SamePorts, SameShape
<1>4. Become(t)
  BY DEF Become
<1> QED BY <1>3, <1>4
(* Both traversals, the one that stops half way included. *)
LEMMA SetVrFact ==
  ASSUME TypeInv, NEW v \in Vrs,
         (\E b \in V4Vals : SetVrV4(v, b)) \/ (\E m \in Macs : SetVrMac(v, m))
  PROVE  /\ \E t : Become(t) /\ Framed(St, t)
         /\ status' \in {"SUCCESS", "FAILURE"} /\ vrfPool' = vrfPool /\ DOMAIN vr' = DOMAIN vr
         /\ vr' = [x \in DOMAIN vr' |-> vr'[x]]
         /\ \A x \in DOMAIN vr' : vr'[x] \in VrRecords
PROOF
<1>1. /\ rif \in [DOMAIN rif -> RifRecords] /\ hw \in [DOMAIN hw -> HwRecords]
      /\ DOMAIN rif \subseteq Rifs /\ DOMAIN hw \subseteq L3ifs
      /\ rif \in RifTables /\ hw \in HwTables
  <2>1. rif \in RifTables /\ hw \in HwTables
    BY StFact DEF TypeInv, Good, States
  <2> QED BY <2>1, RifTableFact, HwTableFact
<1>2. VrGood
  BY DEF TypeInv
<1>3. ASSUME NEW b \in V4Vals, SetVrV4(v, b), v \in DOMAIN vr
      PROVE  /\ rif' \in RifTables /\ hw' \in HwTables /\ DOMAIN rif' = DOMAIN rif
             /\ \A x \in DOMAIN rif : rif'[x].port = rif[x].port /\ rif'[x].virt = rif[x].virt
             /\ UNCHANGED <<vrfPool, l3ifPool, vifPool, stats, subIfRef, sclEn, phyIfEn>>
             /\ status' \in {"SUCCESS", "FAILURE"} /\ DOMAIN vr' = DOMAIN vr
             /\ vr' = [x \in DOMAIN vr' |-> vr'[x]]
             /\ \A x \in DOMAIN vr' : vr'[x] \in VrRecords
  <2> DEFINE S == InVrf(v)
             H == HwOf(S)
             f == [o \in DOMAIN rif |-> IF o \in S THEN [rif[o] EXCEPT !.v4 = b] ELSE rif[o]]
             g == [i \in DOMAIN hw |-> IF i \in H THEN [hw[i] EXCEPT !.v4 = b] ELSE hw[i]]
  <2>1. b \in BOOLEAN
    BY L3InterfaceAssumption
  <2>2. /\ rif' = f /\ hw' = g /\ status' = "SUCCESS" /\ vr' = [vr EXCEPT ![v].v4 = b]
        /\ UNCHANGED <<vrfPool, l3ifPool, vifPool, stats, subIfRef, sclEn, phyIfEn>>
    BY <1>3 DEF SetVrV4
  <2> HIDE DEF S, H
  <2>3. \A r \in RifRecords : /\ [r EXCEPT !.v4 = b] \in RifRecords
                              /\ [r EXCEPT !.v4 = b].port = r.port
                              /\ [r EXCEPT !.v4 = b].virt = r.virt
    BY <2>1 DEF RifRecords
  <2>4. \A h \in HwRecords : [h EXCEPT !.v4 = b] \in HwRecords
    BY <2>1 DEF HwRecords
  <2>5. f \in RifTables /\ DOMAIN f = DOMAIN rif
        /\ \A x \in DOMAIN rif : f[x].port = rif[x].port /\ f[x].virt = rif[x].virt
    BY <1>1, <2>3, RifTableFact
  <2>6. g \in HwTables
    BY <1>1, <2>4, HwTableFact
  <2>7. [vr[v] EXCEPT !.v4 = b] \in VrRecords
    BY <1>2, <1>3, <2>1 DEF VrGood, VrRecords
  <2> HIDE DEF f, g
  <2> QED BY <1>2, <2>2, <2>5, <2>6, <2>7 DEF VrGood
<1>4. ASSUME NEW m \in Macs, SetVrMac(v, m), v \in DOMAIN vr
      PROVE  /\ rif' \in RifTables /\ hw' \in HwTables /\ DOMAIN rif' = DOMAIN rif
             /\ \A x \in DOMAIN rif : rif'[x].port = rif[x].port /\ rif'[x].virt = rif[x].virt
             /\ UNCHANGED <<vrfPool, l3ifPool, vifPool, stats, subIfRef, sclEn, phyIfEn>>
             /\ status' \in {"SUCCESS", "FAILURE"} /\ DOMAIN vr' = DOMAIN vr
             /\ vr' = [x \in DOMAIN vr' |-> vr'[x]]
             /\ \A x \in DOMAIN vr' : vr'[x] \in VrRecords
  <2>1. PICK S \in SUBSET InVrf(v) :
          /\ vr' = [vr EXCEPT ![v].mac = m]
          /\ rif' = [o \in DOMAIN rif |-> IF o \in S THEN [rif[o] EXCEPT !.mac = m] ELSE rif[o]]
          /\ hw' = [i \in DOMAIN hw |-> IF i \in HwOf(S) THEN [hw[i] EXCEPT !.macs = {m}]
                                        ELSE hw[i]]
          /\ status' = "SUCCESS"
    BY <1>4 DEF SetVrMac
  <2> DEFINE H == HwOf(S)
             f == [o \in DOMAIN rif |-> IF o \in S THEN [rif[o] EXCEPT !.mac = m] ELSE rif[o]]
             g == [i \in DOMAIN hw |-> IF i \in H THEN [hw[i] EXCEPT !.macs = {m}] ELSE hw[i]]
  <2>2. /\ rif' = f /\ hw' = g
        /\ UNCHANGED <<vrfPool, l3ifPool, vifPool, stats, subIfRef, sclEn, phyIfEn>>
    BY <1>4, <2>1 DEF SetVrMac
  <2> HIDE DEF H
  <2>3. \A r \in RifRecords : /\ [r EXCEPT !.mac = m] \in RifRecords
                              /\ [r EXCEPT !.mac = m].port = r.port
                              /\ [r EXCEPT !.mac = m].virt = r.virt
    BY DEF RifRecords
  <2>4. \A h \in HwRecords : [h EXCEPT !.macs = {m}] \in HwRecords
    BY DEF HwRecords
  <2>5. f \in RifTables /\ DOMAIN f = DOMAIN rif
        /\ \A x \in DOMAIN rif : f[x].port = rif[x].port /\ f[x].virt = rif[x].virt
    BY <1>1, <2>3, RifTableFact
  <2>6. g \in HwTables
    BY <1>1, <2>4, HwTableFact
  <2>7. [vr[v] EXCEPT !.mac = m] \in VrRecords
    BY <1>2, <1>4 DEF VrGood, VrRecords
  <2> HIDE DEF f, g
  <2> QED BY <1>2, <2>1, <2>2, <2>5, <2>6, <2>7 DEF VrGood
<1>5. CASE v \in DOMAIN vr
  <2>1. (\E b \in V4Vals : SetVrV4(v, b)) \/ (\E m \in Macs : SetVrMac(v, m))
    OBVIOUS
  <2>2. /\ rif' \in RifTables /\ hw' \in HwTables /\ DOMAIN rif' = DOMAIN rif
        /\ \A x \in DOMAIN rif : rif'[x].port = rif[x].port /\ rif'[x].virt = rif[x].virt
        /\ UNCHANGED <<vrfPool, l3ifPool, vifPool, stats, subIfRef, sclEn, phyIfEn>>
        /\ status' \in {"SUCCESS", "FAILURE"} /\ DOMAIN vr' = DOMAIN vr
        /\ vr' = [x \in DOMAIN vr' |-> vr'[x]]
        /\ \A x \in DOMAIN vr' : vr'[x] \in VrRecords
    BY <1>3, <1>4, <1>5, <2>1
  <2>3. \E t : Become(t) /\ Framed(St, t)
    BY <2>2, TablesStep
  <2> QED BY <2>2, <2>3
<1>6. CASE v \notin DOMAIN vr
  <2>1. /\ UNCHANGED <<vr, rif, hw, vrfPool, l3ifPool, vifPool, stats, subIfRef, sclEn, phyIfEn>>
        /\ status' = "FAILURE"
    BY <1>6 DEF SetVrV4, SetVrMac
  <2>2. \E t : Become(t) /\ Framed(St, t)
    BY <1>1, <2>1, TablesStep
  <2> QED BY <1>2, <2>1, <2>2 DEF VrGood
<1> QED BY <1>5, <1>6

-----------------------------------------------------------------------------
(* Every step keeps the types and the count. *)
LEMMA InitTyped == Init => TypeInv
PROOF
<1> SUFFICES ASSUME Init PROVE TypeInv
  OBVIOUS
<1>1. /\ St.rif = << >> /\ St.l3if = {} /\ St.vif = {} /\ St.hw = << >> /\ St.stats = {}
      /\ St.ref = [p \in Ports |-> 0] /\ St.scl = {} /\ St.phy = {}
  BY StFact DEF Init
<1>2. DOMAIN << >> = {} /\ << >> \in RifTables /\ << >> \in HwTables
  <2>1. DOMAIN << >> = {}
    OBVIOUS
  <2>2. << >> \in [{} -> RifRecords] /\ << >> \in [{} -> HwRecords]
    BY <2>1
  <2> QED BY <2>1, <2>2, RifTableFact, HwTableFact
<1>3. St \in States
  BY <1>1, <1>2 DEF States, St
<1>4. Good(St)
  <2>1. ASSUME NEW p PROVE Subs(St, p) \ {} = {}
    BY <1>1, <1>2 DEF Subs
  <2>2. ASSUME NEW p \in Ports PROVE Cardinality(Subs(St, p) \ {}) <= St.ref[p]
    <3>1. Cardinality({}) = 0
      BY FS_EmptySet
    <3>2. St.ref[p] = 0
      BY <1>1
    <3>3. Subs(St, p) \ {} = {}
      BY <2>1
    <3> QED BY <3>1, <3>2, <3>3
  <2>3. IsFiniteSet(DOMAIN St.rif)
    BY <1>1, <1>2, FS_EmptySet
  <2> QED BY <1>3, <2>2, <2>3 DEF Good, Counted
<1>5. VrGood
  BY L3InterfaceAssumption DEF Init, VrGood, VrRecords, Vrs
<1> QED BY <1>4, <1>5 DEF Init, TypeInv

(* A step that leaves the tables alone leaves the record alone. *)
LEMMA UnchangedSt ==
  ASSUME UNCHANGED <<rif, l3ifPool, vifPool, hw, stats, subIfRef, sclEn, phyIfEn>>
  PROVE  St' = St
BY DEF St

(* Every action keeps what holds in every state. *)
LEMMA StepTyped == TypeInv /\ [Next]_vars => TypeInv'
PROOF
<1> SUFFICES ASSUME TypeInv, [Next]_vars PROVE TypeInv'
  OBVIOUS
<1>1. ASSUME NEW t, Become(t), Good(t), UNCHANGED <<vr, vrfPool>>, pending' \subseteq pending,
             status' \in {"SUCCESS", "FAILURE"}
      PROVE  TypeInv'
  <2>1. St' = t
    BY <1>1, BecomeFact DEF Good
  <2>2. Good(St')
    BY <1>1, <2>1
  <2> QED BY <1>1, <2>2 DEF TypeInv, VrGood
<1>2. ASSUME NEW t, Become(t), Framed(St, t), UNCHANGED pending, VrGood',
             status' \in {"SUCCESS", "FAILURE"}
      PROVE  TypeInv'
  <2>1. Good(t)
    BY <1>2, FramedGood DEF TypeInv
  <2>2. St' = t
    BY <1>2, <2>1, BecomeFact DEF Good
  <2>3. Good(St')
    BY <2>1, <2>2
  <2> QED BY <1>2, <2>3 DEF TypeInv
<1>3. CASE CreateVr
  <2>1. St' = St /\ pending' = pending
    BY <1>3, UnchangedSt DEF CreateVr
  <2>2. VrGood' /\ status' \in {"SUCCESS", "FAILURE"}
    <3>1. CASE UNCHANGED <<vr, vrfPool>> /\ status' = "FAILURE"
      BY <3>1 DEF TypeInv, VrGood
    <3>2. CASE \E v \in Vrfs \ vrfPool :
                 /\ vr' = Put(vr, v, [v4 |-> TRUE, mac |-> DefaultMac])
                 /\ vrfPool' = vrfPool \cup {v} /\ status' = "SUCCESS"
      <4>1. PICK v \in Vrfs \ vrfPool :
                 /\ vr' = Put(vr, v, [v4 |-> TRUE, mac |-> DefaultMac])
                 /\ vrfPool' = vrfPool \cup {v} /\ status' = "SUCCESS"
        BY <3>2
      <4>2. [v4 |-> TRUE, mac |-> DefaultMac] \in VrRecords
        BY L3InterfaceAssumption DEF VrRecords
      <4> QED BY <4>1, <4>2 DEF TypeInv, VrGood, Put, Vrs
    <3> QED BY <1>3, <3>1, <3>2 DEF CreateVr
  <2> QED BY <2>1, <2>2 DEF TypeInv
<1>4. CASE \E v \in Vrs : RemoveVr(v)
  <2>1. PICK v \in Vrs : RemoveVr(v)
    BY <1>4
  <2>2. St' = St /\ pending' = pending
    BY <2>1, UnchangedSt DEF RemoveVr
  <2>3. VrGood' /\ status' \in {"SUCCESS", "FAILURE"}
    BY <2>1 DEF RemoveVr, TypeInv, VrGood, Drop
  <2> QED BY <2>2, <2>3 DEF TypeInv
<1>5. CASE (\E v \in Vrs, b \in V4Vals : SetVrV4(v, b)) \/ (\E v \in Vrs, m \in Macs : SetVrMac(v, m))
  <2>1. PICK v \in Vrs : (\E b \in V4Vals : SetVrV4(v, b)) \/ (\E m \in Macs : SetVrMac(v, m))
    BY <1>5
  <2>2. /\ \E t : Become(t) /\ Framed(St, t)
        /\ status' \in {"SUCCESS", "FAILURE"} /\ vrfPool' = vrfPool /\ DOMAIN vr' = DOMAIN vr
        /\ vr' = [x \in DOMAIN vr' |-> vr'[x]]
        /\ \A x \in DOMAIN vr' : vr'[x] \in VrRecords
    BY <2>1, SetVrFact
  <2>3. VrGood'
    BY <2>2 DEF TypeInv, VrGood
  <2>4. UNCHANGED pending
    BY <2>1 DEF SetVrV4, SetVrMac
  <2> QED BY <1>2, <2>2, <2>3, <2>4
<1>6. CASE \E q \in Requests : RifAttrCheck(q)
  <2>1. St' = St /\ UNCHANGED <<vr, vrfPool>>
    BY <1>6, UnchangedSt DEF RifAttrCheck
  <2> QED BY <1>6, <2>1 DEF RifAttrCheck, TypeInv, VrGood
<1>7. CASE \E q \in pending : CreateRif(q)
  <2>1. PICK q \in pending : CreateRif(q)
    BY <1>7
  <2>2. (\E t : Become(t) /\ Good(t)) /\ status' \in {"SUCCESS", "FAILURE"}
    BY <2>1, CreateRifFact
  <2> QED BY <1>1, <2>1, <2>2 DEF CreateRif
<1>8. CASE \E o \in Rifs : RemoveRif(o)
  <2>1. PICK o \in Rifs : RemoveRif(o)
    BY <1>8
  <2>2. (\E t : Become(t) /\ Good(t)) /\ status' \in {"SUCCESS", "FAILURE"}
    BY <2>1, RemoveRifFact
  <2> QED BY <1>1, <2>1, <2>2 DEF RemoveRif
<1>9. CASE \E o \in DOMAIN rif : \E new \in SetAttr(rif[o]) : SetRifAttr(o, new)
  <2>0. PICK o \in DOMAIN rif : \E new \in SetAttr(rif[o]) : SetRifAttr(o, new)
    BY <1>9
  <2>1. PICK new \in SetAttr(rif[o]) : SetRifAttr(o, new)
    BY <2>0
  <2>2. (\E t : Become(t) /\ Framed(St, t)) /\ status' \in {"SUCCESS", "FAILURE"}
    BY <2>1, SetRifAttrFact
  <2> QED BY <1>2, <2>1, <2>2 DEF SetRifAttr, TypeInv, VrGood
<1>10. CASE \E i \in L3ifs, vlan \in Vlans, add \in BOOLEAN : UpdateBridgeRif(i, vlan, add)
  <2>1. PICK i \in L3ifs, vlan \in Vlans, add \in BOOLEAN : UpdateBridgeRif(i, vlan, add)
    BY <1>10
  <2>2. (\E t : Become(t) /\ Framed(St, t)) /\ status' \in {"SUCCESS", "FAILURE"}
    BY <2>1, UpdateBridgeFact
  <2> QED BY <1>2, <2>1, <2>2 DEF UpdateBridgeRif, TypeInv, VrGood
<1>11. CASE UNCHANGED vars
  <2>1. St' = St
    BY <1>11, UnchangedSt DEF vars
  <2> QED BY <1>11, <2>1 DEF vars, TypeInv, VrGood
<1> QED BY <1>3, <1>4, <1>5, <1>6, <1>7, <1>8, <1>9, <1>10, <1>11 DEF Next

(* In every state of every instance the tables have their types; above all *)
(* sub_if_ref_cnt never passes zero, whatever call of create_rif fails *)
(* (remove_rif and error6 take from it without looking). *)
THEOREM InterfacesTyped == Spec => []TypeOK
PROOF
<1>1. Spec => []TypeInv
  BY InitTyped, StepTyped, PTL DEF Spec
<1> QED BY <1>1, TypeInvTypeOK, PTL

-----------------------------------------------------------------------------
(* The numbers of a set of objects, none used twice. *)
LEMMA IdsCounted ==
  ASSUME NEW S, IsFiniteSet(S), \A x, y \in S : Id(x) = Id(y) => x = y
  PROVE  IsFiniteSet({Id(x) : x \in S}) /\ Cardinality({Id(x) : x \in S}) = Cardinality(S)
PROOF
<1> DEFINE T == {Id(x) : x \in S}
           f == [x \in S |-> Id(x)]
<1>1. f \in Bijection(S, T)
  <2>1. f \in [S -> T]
    OBVIOUS
  <2>2. \A x, y \in S : f[x] = f[y] => x = y
    OBVIOUS
  <2>3. \A z \in T : \E x \in S : f[x] = z
    OBVIOUS
  <2> HIDE DEF f, T
  <2> QED BY <2>1, <2>2, <2>3 DEF Bijection, Injection, Surjection, IsInjective
<1> HIDE DEF f, T
<1>2. ExistsBijection(S, T)
  BY <1>1 DEF ExistsBijection
<1>3. IsFiniteSet(T) /\ Cardinality(T) = Cardinality(S)
  BY <1>2, FS_Bijection
<1> QED BY <1>3 DEF T

(* The pools of virtual routers and of interfaces without hardware hold the *)
(* ids in use, and no two of those interfaces share one. *)
OfVifTypes(s) == {x \in DOMAIN s.rif : x[1] \in VifTypes}
VifOwned(s) ==
  /\ s.vif = {Id(x) : x \in OfVifTypes(s)}
  /\ \A x, y \in OfVifTypes(s) : Id(x) = Id(y) => x = y
VrOwned == vrfPool = DOMAIN vr \ {0}

(* error1 gives an id of the VIF pool back to the L3IF pool, which only *)
(* matters when build_db may fail: without memory, since the id is new. *)
BuildsVifs == "malloc" \notin Faults \/ RifTypes \cap VifTypes = {}

(* A step that keeps the VIF side keeps its pool exact, ... *)
LEMMA KeptOwned ==
  ASSUME NEW s, NEW t, Good(s), Kept(s, t), VifOwned(s)
  PROVE  VifOwned(t)
PROOF
<1>1. DOMAIN s.rif \subseteq Rifs /\ DOMAIN t.rif \subseteq Rifs
  BY RifTableFact DEF Good, Kept, States
<1>2. OfVifTypes(t) = OfVifTypes(s)
  BY <1>1 DEF OfVifTypes, Kept
<1> QED BY <1>2 DEF VifOwned, Kept
(* ... a new interface takes the id it has, ... *)
LEMMA BornOwned ==
  ASSUME NEW s, NEW t, VifBorn(s, t), VifOwned(s)
  PROVE  VifOwned(t)
PROOF
<1>1. PICK o \in Rifs \ DOMAIN s.rif :
        /\ o[1] \in VifTypes /\ Id(o) \notin s.vif
        /\ DOMAIN t.rif = DOMAIN s.rif \cup {o} /\ t.vif = s.vif \cup {Id(o)}
  BY DEF VifBorn
<1>2. OfVifTypes(t) = OfVifTypes(s) \cup {o}
  BY <1>1 DEF OfVifTypes
<1>3. {Id(x) : x \in OfVifTypes(t)} = {Id(x) : x \in OfVifTypes(s)} \cup {Id(o)}
  BY <1>2
<1> QED BY <1>1, <1>2, <1>3 DEF VifOwned
(* ... and one that goes gives its id back. *)
LEMMA GoneOwned ==
  ASSUME NEW s, NEW t, VifGone(s, t), VifOwned(s)
  PROVE  VifOwned(t)
PROOF
<1>1. PICK o \in DOMAIN s.rif :
        /\ o[1] \in VifTypes
        /\ DOMAIN t.rif = DOMAIN s.rif \ {o} /\ t.vif = s.vif \ {Id(o)}
  BY DEF VifGone
<1>2. OfVifTypes(t) = OfVifTypes(s) \ {o} /\ o \in OfVifTypes(s)
  BY <1>1 DEF OfVifTypes
<1>3. {Id(x) : x \in OfVifTypes(t)} = {Id(x) : x \in OfVifTypes(s)} \ {Id(o)}
  BY <1>2 DEF VifOwned
<1> QED BY <1>1, <1>2, <1>3 DEF VifOwned
(* No id is lost unless memory runs out. *)
LEMMA NoneLost ==
  ASSUME NEW s, VifOwned(s), BuildsVifs
  PROVE  ~VifLost(s)
PROOF
<1> SUFFICES ASSUME VifLost(s) PROVE FALSE
  OBVIOUS
<1>1. PICK o \in Rifs :
        o[1] \in VifTypes /\ Id(o) \notin s.vif /\ ("malloc" \in Faults \/ o \in DOMAIN s.rif)
  BY DEF VifLost
<1>2. o \notin DOMAIN s.rif
  BY <1>1 DEF VifOwned, OfVifTypes
<1>3. o[1] \in RifTypes
  BY <1>1 DEF Rifs
<1> QED BY <1>1, <1>2, <1>3 DEF BuildsVifs

(* Every action keeps the pools of the virtual routers and of the VIFs. *)
LEMMA StepOwned ==
  TypeInv /\ VrOwned /\ VifOwned(St) /\ BuildsVifs /\ [Next]_vars
    => VrOwned' /\ VifOwned(St')
PROOF
<1> SUFFICES ASSUME TypeInv, VrOwned, VifOwned(St), BuildsVifs, [Next]_vars
             PROVE  VrOwned' /\ VifOwned(St')
  OBVIOUS
<1>1. ASSUME NEW t, Become(t), Good(t), Kept(St, t) \/ VifBorn(St, t) \/ VifGone(St, t)
      PROVE  VifOwned(St')
  <2>1. VifOwned(t)
    BY <1>1, KeptOwned, BornOwned, GoneOwned DEF TypeInv
  <2>2. St' = t
    BY <1>1, BecomeFact DEF Good
  <2> QED BY <2>1, <2>2
<1>2. ASSUME \E t : Become(t) /\ Framed(St, t) PROVE VifOwned(St')
  <2>1. PICK t : Become(t) /\ Framed(St, t)
    BY <1>2
  <2>2. Kept(St, t)
    BY <2>1, FramedKept DEF TypeInv
  <2> QED BY <1>1, <2>1, <2>2 DEF Kept
<1>3. CASE CreateVr
  <2>1. St' = St
    BY <1>3, UnchangedSt DEF CreateVr
  <2>2. VrOwned'
    BY <1>3, L3InterfaceAssumption DEF CreateVr, VrOwned, Put
  <2> QED BY <2>1, <2>2
<1>4. CASE \E v \in Vrs : RemoveVr(v)
  <2>1. PICK v \in Vrs : RemoveVr(v)
    BY <1>4
  <2>2. St' = St
    BY <2>1, UnchangedSt DEF RemoveVr
  <2>3. VrOwned'
    BY <2>1 DEF RemoveVr, VrOwned, Drop
  <2> QED BY <2>2, <2>3
<1>5. CASE (\E v \in Vrs, b \in V4Vals : SetVrV4(v, b)) \/ (\E v \in Vrs, m \in Macs : SetVrMac(v, m))
  <2>1. PICK v \in Vrs : (\E b \in V4Vals : SetVrV4(v, b)) \/ (\E m \in Macs : SetVrMac(v, m))
    BY <1>5
  <2>2. /\ \E t : Become(t) /\ Framed(St, t)
        /\ vrfPool' = vrfPool /\ DOMAIN vr' = DOMAIN vr
    BY <2>1, SetVrFact
  <2> QED BY <1>2, <2>2 DEF VrOwned
<1>6. CASE \E q \in Requests : RifAttrCheck(q)
  <2>1. St' = St /\ UNCHANGED <<vr, vrfPool>>
    BY <1>6, UnchangedSt DEF RifAttrCheck
  <2> QED BY <2>1 DEF VrOwned
<1>7. CASE \E q \in pending : CreateRif(q)
  <2>1. PICK q \in pending : CreateRif(q)
    BY <1>7
  <2>2. PICK t : Become(t) /\ Good(t) /\ (Kept(St, t) \/ VifBorn(St, t) \/ VifLost(St))
    BY <2>1, CreateRifFact
  <2>3. ~VifLost(St)
    BY NoneLost
  <2>4. UNCHANGED <<vr, vrfPool>>
    BY <2>1 DEF CreateRif
  <2> QED BY <1>1, <2>2, <2>3, <2>4 DEF VrOwned
<1>8. CASE \E o \in Rifs : RemoveRif(o)
  <2>1. PICK o \in Rifs : RemoveRif(o)
    BY <1>8
  <2>2. PICK t : Become(t) /\ Good(t) /\ (Kept(St, t) \/ VifGone(St, t))
    BY <2>1, RemoveRifFact
  <2>3. UNCHANGED <<vr, vrfPool>>
    BY <2>1 DEF RemoveRif
  <2> QED BY <1>1, <2>2, <2>3 DEF VrOwned
<1>9. CASE \E o \in DOMAIN rif : \E new \in SetAttr(rif[o]) : SetRifAttr(o, new)
  <2>1. PICK o \in DOMAIN rif : \E new \in SetAttr(rif[o]) : SetRifAttr(o, new)
    BY <1>9
  <2>2. PICK new \in SetAttr(rif[o]) : SetRifAttr(o, new)
    BY <2>1
  <2>3. UNCHANGED <<vr, vrfPool>>
    BY <2>2 DEF SetRifAttr
  <2> QED BY <1>2, <2>2, <2>3, SetRifAttrFact DEF VrOwned
<1>10. CASE \E i \in L3ifs, vlan \in Vlans, add \in BOOLEAN : UpdateBridgeRif(i, vlan, add)
  <2>1. PICK i \in L3ifs, vlan \in Vlans, add \in BOOLEAN : UpdateBridgeRif(i, vlan, add)
    BY <1>10
  <2>2. UNCHANGED <<vr, vrfPool>>
    BY <2>1 DEF UpdateBridgeRif
  <2> QED BY <1>2, <2>1, <2>2, UpdateBridgeFact DEF VrOwned
<1>11. CASE UNCHANGED vars
  <2>1. St' = St
    BY <1>11, UnchangedSt DEF vars
  <2> QED BY <1>11, <2>1 DEF vars, VrOwned
<1> QED BY <1>3, <1>4, <1>5, <1>6, <1>7, <1>8, <1>9, <1>10, <1>11 DEF Next

(* At the start the pools are empty. *)
LEMMA InitOwned == Init => VrOwned /\ VifOwned(St)
PROOF
<1> SUFFICES ASSUME Init PROVE VrOwned /\ VifOwned(St)
  OBVIOUS
<1>1. St.rif = << >> /\ St.vif = {} /\ DOMAIN << >> = {}
  BY StFact DEF Init
<1>2. OfVifTypes(St) = {}
  BY <1>1 DEF OfVifTypes
<1> QED BY <1>1, <1>2 DEF VifOwned, VrOwned, Init

(* What holds is what the runs check. *)
LEMMA OwnedExact == TypeInv /\ VrOwned /\ VifOwned(St) => VifPoolExact
PROOF
<1> SUFFICES ASSUME TypeInv, VrOwned, VifOwned(St) PROVE VifPoolExact
  OBVIOUS
<1>1. OfVif = OfVifTypes(St) /\ vifPool = {Id(x) : x \in OfVif}
  BY StFact DEF VifOwned, OfVif, OfVifTypes
<1>2. IsFiniteSet(OfVif)
  <2>1. IsFiniteSet(DOMAIN rif)
    BY StFact DEF TypeInv, Good, Counted
  <2> QED BY <2>1, FS_Subset DEF OfVif
<1>3. \A x, y \in OfVif : Id(x) = Id(y) => x = y
  BY <1>1 DEF VifOwned
<1>4. Cardinality({Id(x) : x \in OfVif}) = Cardinality(OfVif)
  BY <1>2, <1>3, IdsCounted
<1> QED BY <1>1, <1>4 DEF VifPoolExact, VrOwned

(* The VRF and VIF pools hold exactly the ids of their live objects, and no *)
(* two interfaces share a VIF id, unless memory may run out in the creation *)
(* of an interface without hardware: error1 then gives the id back to the *)
(* other pool, and the VIF pool keeps it for good. *)
THEOREM VifPoolSound == BuildsVifs /\ Spec => []VifPoolExact
PROOF
<1>1. Spec => []TypeInv
  BY InitTyped, StepTyped, PTL DEF Spec
<1>2. (VifOwned(St))' <=> VifOwned(St')
  OBVIOUS
<1>3. BuildsVifs' <=> BuildsVifs
  BY DEF BuildsVifs
<1> DEFINE Inv == VrOwned /\ VifOwned(St)
<1>4. BuildsVifs /\ TypeInv /\ Inv /\ [Next]_vars => Inv'
  BY StepOwned
<1>5. Init => Inv
  BY InitOwned
<1>6. TypeInv /\ Inv => VifPoolExact
  BY OwnedExact
<1> HIDE DEF Inv
<1>7. BuildsVifs /\ Spec => []Inv
  BY <1>1, <1>3, <1>4, <1>5, PTL DEF Spec
<1> QED BY <1>1, <1>6, <1>7, PTL

-----------------------------------------------------------------------------
(***************************************************************************)
(* What L3Interface promises about interfaces with hardware of their own, *)
(* under the rules of Clean: pools, hardware, statistics and port modes are*)
(* exact, a creation that fails leaves nothing behind, and one that *)
(* succeeds does so in a virtual router that is there. The argument: Sound *)
(* holds between handlers; Grown says how far a creation has got; every *)
(* label gives back the state create_rif began in (UndoGrown, UndoEnabled),*)
(* and the last stage completes it (CompleteSound). *)
(***************************************************************************)

(* The rules. Each leaves out what the code gets wrong, as the README *)
(* records it: virtual interfaces, whose MACs set_attr_hw erases; statistics*)
(* left to the default, asked for on a bridge interface or switched on *)
(* later, whose ids the end of create_rif forgets; and an SCL or property *)
(* write that fails, which error5 and set_rif_attr do not take back. Every *)
(* other call may fail at any time. *)
Clean ==
  /\ VirtualVals \subseteq {FALSE} /\ RifTypes \subseteq L3ifTypes
  /\ StatsAttrs \subseteq {"on", "off"} /\ "BRIDGE" \notin StatsTypes
  /\ "stats" \notin RifAttrs /\ Faults \cap {"scl", "set_hw"} = {}

(* The statistics written to an interface that exists, field by field. *)
StatsWritten(s, t, o, a, b) ==
  /\ t.rif = [s.rif EXCEPT ![o] = [s.rif[o] EXCEPT !.ing = a, !.egs = b]]
  /\ t.stats = s.stats \cup {a, b}
  /\ t.hw = [s.hw EXCEPT ![Id(o)] = [s.hw[Id(o)] EXCEPT !.ing = a, !.egs = b]]
(* The object, the pool and the hardware interface, each of them. *)
LEMMA CreateStatsFields ==
  ASSUME NEW s \in States, NEW o, o \in DOMAIN s.rif, NEW a \in StatsIds, NEW b \in StatsIds,
         Id(o) \in DOMAIN s.hw
  PROVE  StatsWritten(s, CreateStats(s, o, a, b), o, a, b)
PROOF
<1> DEFINE i == Id(o)
           r == [s.rif[o] EXCEPT !.ing = a, !.egs = b]
           h == [s.hw[i] EXCEPT !.ing = a, !.egs = b]
           w == [s EXCEPT !.stats = @ \cup {a, b}, !.rif[o].ing = a, !.rif[o].egs = b]
           k == [[s.rif EXCEPT ![o].ing = a] EXCEPT ![o].egs = b]
           l == [[s.hw EXCEPT ![i].ing = a] EXCEPT ![i].egs = b]
           S == s.stats \cup {a, b}
           t == [s EXCEPT !.stats = S]
           u == [t EXCEPT !.rif = k]
<1>1. CreateStats(s, o, a, b) = [w EXCEPT !.hw[i].ing = a, !.hw[i].egs = b]
  BY DEF CreateStats
<1>2. k = [s.rif EXCEPT ![o] = r] /\ l = [s.hw EXCEPT ![i] = h]
  OBVIOUS
<1>3. w = u
  <2> HIDE DEF S
  <2>1. [s EXCEPT !.stats = S, !.rif[o].ing = a, !.rif[o].egs = b]
          = [t EXCEPT !.rif = [[t.rif EXCEPT ![o].ing = a] EXCEPT ![o].egs = b]]
    BY DEF States
  <2>2. t.rif = s.rif
    BY DEF States
  <2>3. [s EXCEPT !.stats = S, !.rif[o].ing = a, !.rif[o].egs = b] = u
    <3> HIDE DEF t
    <3> QED BY <2>1, <2>2
  <2> QED BY <2>3 DEF S
<1>4. u.rif = k /\ u.stats = S /\ u.hw = s.hw
  <2> HIDE DEF k, S
  <2> QED BY DEF States
<1>5. DOMAIN u = DOMAIN s
  OBVIOUS
<1> HIDE DEF w, u
<1>6. /\ [u EXCEPT !.hw[i].ing = a, !.hw[i].egs = b].rif = u.rif
      /\ [u EXCEPT !.hw[i].ing = a, !.hw[i].egs = b].stats = u.stats
      /\ [u EXCEPT !.hw[i].ing = a, !.hw[i].egs = b].hw
           = [[u.hw EXCEPT ![i].ing = a] EXCEPT ![i].egs = b]
  BY <1>5 DEF States
<1>7. [[u.hw EXCEPT ![i].ing = a] EXCEPT ![i].egs = b] = l
  BY <1>4
<1> HIDE DEF k, l, S, r, h, i
<1>8. /\ CreateStats(s, o, a, b).rif = k /\ CreateStats(s, o, a, b).stats = S
      /\ CreateStats(s, o, a, b).hw = l
  BY <1>1, <1>3, <1>4, <1>6, <1>7
<1> QED BY <1>2, <1>8 DEF S, r, h, i, StatsWritten

(* The properties and the MAC written to an interface that exists. *)
HwLike(h, r) == [h EXCEPT !.vrf = r.vrf, !.v4 = r.v4, !.macs = {r.mac}]
HwWritten(s, t, o, i) ==
  /\ Framed(s, t) /\ t.rif = s.rif /\ t.stats = s.stats
  /\ t.hw = [s.hw EXCEPT ![i] = HwLike(s.hw[i], s.rif[o])]
(* Nothing but the hardware interface is written. *)
LEMMA WriteFields ==
  ASSUME NEW s \in States, NEW o, o \in DOMAIN s.rif, NEW i
  PROVE  HwWritten(s, WriteMac(WriteProps(s, o, i), o, i), o, i)
PROOF
<1> DEFINE w == WriteProps(s, o, i)
           t == WriteMac(w, o, i)
           r == s.rif[o]
           f == [[s.hw EXCEPT ![i].vrf = r.vrf] EXCEPT ![i].v4 = r.v4]
<1>1. Framed(s, w) /\ w \in States /\ o \in DOMAIN w.rif
  BY WritePropsFact DEF Framed, SameShape
<1>2. w = [s EXCEPT !.hw = f]
  BY DEF WriteProps, States
<1>3. w.rif = s.rif /\ w.stats = s.stats /\ w.hw = f
  <2> HIDE DEF w, f
  <2> QED BY <1>2 DEF States
<1>4. Framed(w, t)
  <2> HIDE DEF w
  <2> QED BY <1>1, WriteMacFact
<1>5. t.rif = w.rif /\ t.stats = w.stats /\ t.hw = [w.hw EXCEPT ![i].macs = {w.rif[o].mac}]
  <2> HIDE DEF w
  <2> QED BY <1>1 DEF WriteMac, States
<1>6. [f EXCEPT ![i].macs = {r.mac}] = [s.hw EXCEPT ![i] = HwLike(s.hw[i], r)]
  <2> HIDE DEF r
  <2> QED BY DEF HwLike
<1> HIDE DEF w, t, f
<1>7. HwWritten(s, t, o, i)
  <2>1. Framed(s, t)
    BY <1>1, <1>4, FramedTwice
  <2>2. t.hw = [f EXCEPT ![i].macs = {r.mac}]
    BY <1>3, <1>5
  <2> QED BY <1>3, <1>5, <1>6, <2>1, <2>2 DEF HwWritten
<1> QED BY <1>7 DEF w, t

(* set_attr_hw when no write fails and the statistics are as they should be.*)
LEMMA SetAttrHwClean ==
  ASSUME NEW s \in States, NEW o, o \in DOMAIN s.rif, ~s.rif[o].virt,
         s.rif[o].statsEn <=> s.rif[o].ing # 0, s.rif[o].ing # 0 <=> s.rif[o].egs # 0,
         o[1] # "LOOPBACK", Id(o) \in DOMAIN s.hw \/ o[1] = "BRIDGE"
  PROVE  SetAttrHw(s, o, "none")
           = [s |-> IF Id(o) \in DOMAIN s.hw THEN WriteMac(WriteProps(s, o, Id(o)), o, Id(o))
                    ELSE s, ok |-> TRUE]
BY DEF SetAttrHw, Skipped

-----------------------------------------------------------------------------
(* What holds then. Every interface is a real one, with two statistics ids *)
(* of its own or none; the pool holds the ids; the hardware carries what *)
(* the objects say, under keys of their own; and the ports are in the modes *)
(* their interfaces need. *)
Plain(s) ==
  \A x \in DOMAIN s.rif :
    /\ x[1] \in L3ifTypes /\ ~s.rif[x].virt
    /\ s.rif[x].statsEn <=> s.rif[x].ing # 0
    /\ s.rif[x].ing # 0 <=> s.rif[x].egs # 0
    /\ s.rif[x].ing # 0 => s.rif[x].ing # s.rif[x].egs
Pooled(s) ==
  /\ s.l3if = {Id(x) : x \in DOMAIN s.rif}
  /\ \A x, y \in DOMAIN s.rif : Id(x) = Id(y) => x = y
Counters(r) == {r.ing, r.egs} \ {0}
Owning(s) ==
  /\ \A c : c \in s.stats <=> \E x \in DOMAIN s.rif : c \in Counters(s.rif[x])
  /\ \A x, y \in DOMAIN s.rif :
       x # y => Counters(s.rif[x]) \cap Counters(s.rif[y]) = {}
Matches(x, r, h) ==
  /\ h.vrf = r.vrf /\ h.v4 = r.v4 /\ h.macs = {r.mac}
  /\ x[1] # "BRIDGE" => h.key = Key(x[1], r.port, r.vlan)
Matched(s) ==
  /\ DOMAIN s.hw \subseteq s.l3if
  /\ \A x \in DOMAIN s.rif : x[1] # "BRIDGE" => Id(x) \in DOMAIN s.hw
  /\ \A x \in DOMAIN s.rif : Id(x) \in DOMAIN s.hw => Matches(x, s.rif[x], s.hw[Id(x)])
Keyed(s) == \A i, j \in DOMAIN s.hw : s.hw[i].key = s.hw[j].key => i = j
Phys(s, p) == {x \in DOMAIN s.rif : x[1] = "PORT" /\ s.rif[x].port = p}
Modes(s) ==
  \A p \in Ports :
    /\ s.ref[p] = Cardinality(Subs(s, p))
    /\ p \in s.scl <=> Subs(s, p) # {}
    /\ p \in s.phy <=> Phys(s, p) # {}
Sound(s) == Plain(s) /\ Pooled(s) /\ Owning(s) /\ Matched(s) /\ Keyed(s) /\ Modes(s)

-----------------------------------------------------------------------------
(* A creation on its way: one object more, with its id and, unless it is a *)
(* bridge's, its hardware interface. The rest is as it was. *)
Grown(s, t, o) ==
  /\ t \in States /\ o \in Rifs \ DOMAIN s.rif
  /\ DOMAIN t.rif = DOMAIN s.rif \cup {o} /\ ~t.rif[o].virt
  /\ \A x \in DOMAIN s.rif : t.rif[x] = s.rif[x]
  /\ Id(o) \notin s.l3if /\ t.l3if = s.l3if \cup {Id(o)} /\ t.vif = s.vif
  /\ Id(o) \notin DOMAIN s.hw
  /\ o[1] = "BRIDGE" => t.hw = s.hw
  /\ o[1] # "BRIDGE" => /\ DOMAIN t.hw = DOMAIN s.hw \cup {Id(o)}
                        /\ \A j \in DOMAIN s.hw : t.hw[j] = s.hw[j]

(* Two such states are the same when their fields are, and what the labels *)
(* of create_rif leave of a creation is the state it began in. *)
LEMMA SameState ==
  ASSUME NEW s \in States, NEW t \in States,
         t.rif = s.rif, t.l3if = s.l3if, t.vif = s.vif, t.hw = s.hw, t.stats = s.stats,
         t.ref = s.ref, t.scl = s.scl, t.phy = s.phy
  PROVE  t = s
BY DEF States
(* Without the new object the tables are what they were. *)
LEMMA DropGrown ==
  ASSUME NEW s \in States, NEW t, NEW o, Grown(s, t, o)
  PROVE  /\ Drop(t.rif, o) = s.rif
         /\ (IF t.rif[o].virt \/ o[1] = "BRIDGE" THEN t.hw ELSE Drop(t.hw, Id(o))) = s.hw
         /\ t.l3if \ {Id(o)} = s.l3if /\ t.vif = s.vif /\ o \in Rifs /\ o \in DOMAIN t.rif
         /\ ~t.rif[o].virt
PROOF
<1>1. s.rif = [x \in DOMAIN s.rif |-> s.rif[x]] /\ s.hw = [j \in DOMAIN s.hw |-> s.hw[j]]
  BY RifTableFact, HwTableFact DEF States
<1>2. Drop(t.rif, o) = s.rif
  <2>1. DOMAIN t.rif \ {o} = DOMAIN s.rif /\ \A x \in DOMAIN s.rif : t.rif[x] = s.rif[x]
    BY DEF Grown
  <2> QED BY <1>1, <2>1 DEF Drop
<1>3. CASE o[1] = "BRIDGE"
  BY <1>2, <1>3 DEF Grown
<1>4. CASE o[1] # "BRIDGE"
  <2>1. DOMAIN t.hw \ {Id(o)} = DOMAIN s.hw /\ \A j \in DOMAIN s.hw : t.hw[j] = s.hw[j]
    BY <1>4 DEF Grown
  <2>2. Drop(t.hw, Id(o)) = s.hw
    BY <1>1, <2>1 DEF Drop
  <2> QED BY <1>2, <1>4, <2>2 DEF Grown
<1> QED BY <1>3, <1>4
(* error3 to error5 give back the state the creation began in. *)
LEMMA UndoGrown ==
  ASSUME NEW s \in States, NEW t, NEW o, Grown(s, t, o), Open(t, o), SamePorts(s, t)
  PROVE  /\ t.stats = s.stats => Error3(t, o) = s
         /\ t.stats \ {t.rif[o].ing} = s.stats => Error4(t, o) = s
         /\ t.stats \ {t.rif[o].ing, t.rif[o].egs} = s.stats => Error5(t, o) = s
PROOF
<1>1. /\ Drop(t.rif, o) = s.rif /\ t.l3if \ {Id(o)} = s.l3if /\ t.vif = s.vif
      /\ (IF t.rif[o].virt \/ o[1] = "BRIDGE" THEN t.hw ELSE Drop(t.hw, Id(o))) = s.hw
      /\ o \in Rifs
  BY DropGrown
<1>2. ASSUME t.stats = s.stats PROVE Error3(t, o) = s
  <2>1. /\ Undoes(t, Error3(t, o), o) /\ Error3(t, o).l3if = t.l3if \ {Id(o)}
        /\ SamePorts(t, Error3(t, o)) /\ Error3(t, o).stats = t.stats
        /\ Error3(t, o).hw = s.hw
    BY <1>1, Error3Fact
  <2> DEFINE u == Error3(t, o)
  <2> HIDE DEF u
  <2>2. u \in States /\ u.rif = s.rif /\ u.l3if = s.l3if /\ u.vif = s.vif /\ u.hw = s.hw
        /\ u.stats = s.stats /\ u.ref = s.ref /\ u.scl = s.scl /\ u.phy = s.phy
    BY <1>1, <1>2, <2>1 DEF Undoes, SamePorts, Good, u
  <2>3. u = s
    BY <2>2, SameState
  <2> QED BY <2>3 DEF u
<1>3. ASSUME t.stats \ {t.rif[o].ing} = s.stats PROVE Error4(t, o) = s
  <2>1. /\ Undoes(t, Error4(t, o), o) /\ Error4(t, o).l3if = t.l3if \ {Id(o)}
        /\ SamePorts(t, Error4(t, o)) /\ Error4(t, o).stats = t.stats \ {t.rif[o].ing}
        /\ Error4(t, o).hw = s.hw
    BY <1>1, Error4Fact
  <2> DEFINE u == Error4(t, o)
  <2> HIDE DEF u
  <2>2. u \in States /\ u.rif = s.rif /\ u.l3if = s.l3if /\ u.vif = s.vif /\ u.hw = s.hw
        /\ u.stats = s.stats /\ u.ref = s.ref /\ u.scl = s.scl /\ u.phy = s.phy
    BY <1>1, <1>3, <2>1 DEF Undoes, SamePorts, Good, u
  <2>3. u = s
    BY <2>2, SameState
  <2> QED BY <2>3 DEF u
<1>4. ASSUME t.stats \ {t.rif[o].ing, t.rif[o].egs} = s.stats PROVE Error5(t, o) = s
  <2>1. /\ Undoes(t, Error5(t, o), o) /\ Error5(t, o).l3if = t.l3if \ {Id(o)}
        /\ SamePorts(t, Error5(t, o))
        /\ Error5(t, o).stats = t.stats \ {t.rif[o].ing, t.rif[o].egs}
        /\ Error5(t, o).hw = s.hw
    BY <1>1, Error5Fact
  <2> DEFINE u == Error5(t, o)
  <2> HIDE DEF u
  <2>2. u \in States /\ u.rif = s.rif /\ u.l3if = s.l3if /\ u.vif = s.vif /\ u.hw = s.hw
        /\ u.stats = s.stats /\ u.ref = s.ref /\ u.scl = s.scl /\ u.phy = s.phy
    BY <1>1, <1>4, <2>1 DEF Undoes, SamePorts, Good, u
  <2>3. u = s
    BY <2>2, SameState
  <2> QED BY <2>3 DEF u
<1> QED BY <1>2, <1>3, <1>4
(* error6 does, when disabling the port undoes enabling it. *)
LEMMA UndoEnabled ==
  ASSUME NEW s \in States, NEW t, NEW o, Grown(s, t, o), Good(t),
         SamePorts(s, PortDisable(t, o)),
         t.stats \ {t.rif[o].ing, t.rif[o].egs} = s.stats
  PROVE  Error6(t, o) = s
PROOF
<1>1. /\ Drop(t.rif, o) = s.rif /\ t.l3if \ {Id(o)} = s.l3if /\ t.vif = s.vif
      /\ (IF t.rif[o].virt \/ o[1] = "BRIDGE" THEN t.hw ELSE Drop(t.hw, Id(o))) = s.hw
      /\ o \in Rifs /\ o \in DOMAIN t.rif /\ ~t.rif[o].virt
  BY DropGrown
<1> DEFINE u == Error6(t, o)
<1>2. /\ Undoes(t, u, o) /\ u.l3if = t.l3if \ {Id(o)} /\ SamePorts(PortDisable(t, o), u)
      /\ u.stats = t.stats \ {t.rif[o].ing, t.rif[o].egs} /\ u.hw = s.hw
  BY <1>1, Error6Fact
<1> HIDE DEF u
<1>3. u \in States /\ u.rif = s.rif /\ u.l3if = s.l3if /\ u.vif = s.vif /\ u.hw = s.hw
      /\ u.stats = s.stats /\ u.ref = s.ref /\ u.scl = s.scl /\ u.phy = s.phy
  BY <1>1, <1>2 DEF Undoes, SamePorts, Good
<1>4. u = s
  BY <1>3, SameState
<1> QED BY <1>4 DEF u

(* The modes of the ports of a new interface, and of one that goes. *)
LEMMA GrownSets ==
  ASSUME NEW s, NEW t, NEW o, Grown(s, t, o), NEW p
  PROVE  /\ Subs(t, p) = IF o[1] = "SUB_PORT" /\ t.rif[o].port = p
                         THEN Subs(s, p) \cup {o} ELSE Subs(s, p)
         /\ Phys(t, p) = IF o[1] = "PORT" /\ t.rif[o].port = p
                         THEN Phys(s, p) \cup {o} ELSE Phys(s, p)
         /\ o \notin Subs(s, p)
BY DEF Subs, Phys, Grown
(* The port's modes are exact again, and can be taken back. *)
LEMMA EnableGrown ==
  ASSUME NEW s, Good(s), Modes(s), NEW t, NEW o, Grown(s, t, o), Open(t, o),
         SamePorts(s, t), o[1] = "PORT" => Phys(s, t.rif[o].port) = {}
  PROVE  /\ Grown(s, PortEnable(t, o), o) /\ Good(PortEnable(t, o))
         /\ SameTables(t, PortEnable(t, o)) /\ Modes(PortEnable(t, o))
         /\ SamePorts(s, PortDisable(PortEnable(t, o), o))
         /\ o[1] # "SUB_PORT" => PortEnable(t, o).ref = t.ref
PROOF
<1> DEFINE u == PortEnable(t, o)
           d == PortDisable(u, o)
           p == t.rif[o].port
<1>1. /\ t \in States /\ o \in DOMAIN t.rif /\ ~t.rif[o].virt
      /\ s \in States /\ s.ref \in [Ports -> Nat] /\ s.scl \subseteq Ports
      /\ s.phy \subseteq Ports /\ IsFiniteSet(DOMAIN s.rif)
      /\ t.ref = s.ref /\ t.scl = s.scl /\ t.phy = s.phy
  BY DEF Grown, SamePorts, Good, States, Counted
<1>2. p \in Ports
  BY <1>1, ObjectFact
<1>3. /\ u \in States /\ SameTables(t, u)
      /\ u.ref = (IF o[1] = "SUB_PORT" THEN [s.ref EXCEPT ![p] = @ + 1] ELSE s.ref)
      /\ u.scl = (IF o[1] = "SUB_PORT" /\ s.ref[p] = 0 THEN s.scl \cup {p} ELSE s.scl)
      /\ u.phy = (IF o[1] = "PORT" THEN s.phy \cup {p} ELSE s.phy)
  <2>1. /\ u \in States /\ SameTables(t, u)
        /\ u.ref = (IF o[1] = "SUB_PORT" THEN [t.ref EXCEPT ![p] = @ + 1] ELSE t.ref)
        /\ u.scl = (IF o[1] = "SUB_PORT" /\ t.ref[p] = 0 THEN t.scl \cup {p} ELSE t.scl)
        /\ u.phy = (IF o[1] = "PORT" THEN t.phy \cup {p} ELSE t.phy)
    BY <1>1, EnableFields
  <2> HIDE DEF u, p
  <2> QED BY <1>1, <2>1
<1>4. Good(u)
  BY <1>1, EnableGood
<1> HIDE DEF u, p
<1>5. Grown(s, u, o) /\ u.rif = t.rif
  BY <1>3 DEF Grown, SameTables
<1>6. p = u.rif[o].port
  BY <1>3 DEF p, SameTables
<1>7. /\ s.ref[p] \in Nat /\ s.ref[p] = Cardinality(Subs(s, p))
      /\ IsFiniteSet(Subs(s, p)) /\ (p \in s.scl <=> Subs(s, p) # {})
  BY <1>1, <1>2, SubsFinite DEF Modes
<1>8. s.ref[p] = 0 <=> Subs(s, p) = {}
  BY <1>7, FS_EmptySet
<1>9. ASSUME NEW x \in Ports
      PROVE  /\ u.ref[x] = Cardinality(Subs(u, x))
             /\ (x \in u.scl <=> Subs(u, x) # {}) /\ (x \in u.phy <=> Phys(u, x) # {})
  <2>1. /\ Subs(u, x) = IF o[1] = "SUB_PORT" /\ p = x THEN Subs(s, x) \cup {o} ELSE Subs(s, x)
        /\ Phys(u, x) = IF o[1] = "PORT" /\ p = x THEN Phys(s, x) \cup {o} ELSE Phys(s, x)
        /\ o \notin Subs(s, x)
    BY <1>5, <1>6, GrownSets
  <2>2. /\ s.ref[x] = Cardinality(Subs(s, x))
        /\ (x \in s.scl <=> Subs(s, x) # {}) /\ (x \in s.phy <=> Phys(s, x) # {})
    BY DEF Modes
  <2>3. x \in u.phy <=> Phys(u, x) # {}
    BY <1>3, <2>1, <2>2
  <2>4. x \in u.scl <=> Subs(u, x) # {}
    BY <1>3, <1>7, <1>8, <2>1, <2>2
  <2>5. u.ref[x] = Cardinality(Subs(u, x))
    <3>1. CASE o[1] = "SUB_PORT" /\ p = x
      <4>1. Cardinality(Subs(s, x) \cup {o}) = Cardinality(Subs(s, x)) + 1
        BY <1>7, <2>1, <3>1, FS_AddElement
      <4>2. u.ref[x] = s.ref[x] + 1
        BY <1>1, <1>2, <1>3, <3>1
      <4> QED BY <2>1, <2>2, <3>1, <4>1, <4>2
    <3>2. CASE ~(o[1] = "SUB_PORT" /\ p = x)
      <4>1. u.ref[x] = s.ref[x]
        BY <1>1, <1>2, <1>3, <3>2
      <4> QED BY <2>1, <2>2, <3>2, <4>1
    <3> QED BY <3>1, <3>2
  <2> QED BY <2>3, <2>4, <2>5
<1>10. Modes(u)
  BY <1>9 DEF Modes
<1>11. SamePorts(s, d)
  <2>1. o[1] = "SUB_PORT" => u.ref[p] = s.ref[p] + 1
    BY <1>1, <1>2, <1>3
  <2>2. o \in DOMAIN u.rif
    BY <1>1, <1>5
  <2>3. o[1] = "SUB_PORT" => u.ref[p] # 0
    BY <1>7, <2>1
  <2>4. /\ d.ref = IF o[1] = "SUB_PORT" THEN [u.ref EXCEPT ![p] = @ - 1] ELSE u.ref
        /\ d.scl = IF o[1] = "SUB_PORT" /\ u.ref[p] = 1 THEN u.scl \ {p} ELSE u.scl
        /\ d.phy = IF o[1] = "PORT" THEN u.phy \ {p} ELSE u.phy
    BY <1>3, <1>6, <2>2, <2>3, DisableFields
  <2> HIDE DEF d
  <2>5. d.phy = s.phy
    <3>1. CASE o[1] = "PORT"
      <4>1. p \notin s.phy
        BY <1>2, <3>1 DEF Modes, p
      <4> QED BY <1>3, <2>4, <3>1, <4>1
    <3> QED BY <1>3, <2>4, <3>1
  <2>6. d.scl = s.scl
    <3>1. CASE o[1] = "SUB_PORT" /\ s.ref[p] = 0
      BY <1>3, <1>7, <1>8, <2>1, <2>4, <3>1
    <3>2. CASE o[1] = "SUB_PORT" /\ s.ref[p] # 0
      BY <1>3, <1>7, <1>8, <2>1, <2>4, <3>2
    <3> QED BY <1>3, <2>4, <3>1, <3>2
  <2>7. d.ref = s.ref
    <3>1. CASE o[1] = "SUB_PORT"
      <4>1. u.ref = [s.ref EXCEPT ![p] = s.ref[p] + 1]
        BY <1>3, <3>1
      <4>2. d.ref = [u.ref EXCEPT ![p] = u.ref[p] - 1]
        BY <2>4, <3>1
      <4>3. u.ref[p] - 1 = s.ref[p]
        BY <1>7, <2>1, <3>1
      <4> QED BY <1>1, <4>1, <4>2, <4>3
    <3> QED BY <1>3, <2>4, <3>1
  <2> QED BY <2>5, <2>6, <2>7 DEF SamePorts
<1>12. o[1] # "SUB_PORT" => u.ref = t.ref
  BY <1>1, <1>3
<1> QED BY <1>3, <1>4, <1>5, <1>10, <1>11, <1>12 DEF u

(* A creation that has come to its end: the new interface has what the *)
(* others have. *)
Complete(s, t, o) ==
  LET r == t.rif[o] IN
  /\ r.statsEn <=> r.ing # 0
  /\ r.ing # 0 <=> r.egs # 0
  /\ r.ing # 0 => r.ing # r.egs
  /\ \A c : c \in t.stats <=> c \in s.stats \/ c \in Counters(r)
  /\ Counters(r) \cap s.stats = {}
  /\ o[1] # "BRIDGE" => /\ Matches(o, r, t.hw[Id(o)])
                        /\ \A j \in DOMAIN s.hw : s.hw[j].key # t.hw[Id(o)].key
(* With it the whole state is as it should be. *)
LEMMA CompleteSound ==
  ASSUME NEW s, NEW t, NEW o, Sound(s), Grown(s, t, o), Complete(s, t, o), Modes(t),
         o[1] \in L3ifTypes
  PROVE  Sound(t)
PROOF
<1> DEFINE r == t.rif[o]
<1>1. /\ DOMAIN t.rif = DOMAIN s.rif \cup {o} /\ o \notin DOMAIN s.rif
      /\ \A x \in DOMAIN s.rif : t.rif[x] = s.rif[x]
      /\ Id(o) \notin s.l3if /\ t.l3if = s.l3if \cup {Id(o)} /\ Id(o) \notin DOMAIN s.hw
  BY DEF Grown
<1>2. Plain(t)
  BY <1>1 DEF Sound, Plain, Complete, Grown
<1>3. Pooled(t)
  BY <1>1 DEF Sound, Pooled
<1>4. Owning(t)
  <2> DEFINE C(x) == Counters(s.rif[x])
  <2>1. /\ \A c : c \in s.stats <=> \E x \in DOMAIN s.rif : c \in C(x)
        /\ \A x, y \in DOMAIN s.rif : x # y => C(x) \cap C(y) = {}
    BY DEF Sound, Owning
  <2>2. \A x \in DOMAIN s.rif : Counters(t.rif[x]) = C(x)
    BY <1>1
  <2>3. /\ \A c : c \in t.stats <=> c \in s.stats \/ c \in Counters(r)
        /\ Counters(r) \cap s.stats = {}
    BY DEF Complete
  <2> DEFINE D(x) == Counters(t.rif[x])
  <2>4. D(o) = Counters(r)
    OBVIOUS
  <2> HIDE DEF C, D, r
  <2>5. \A x \in DOMAIN s.rif : D(x) = C(x)
    BY <2>2 DEF D
  <2>6. \A c : c \in t.stats <=> \E x \in DOMAIN t.rif : c \in D(x)
    BY <1>1, <2>1, <2>3, <2>4, <2>5
  <2>7. \A x, y \in DOMAIN t.rif : x # y => D(x) \cap D(y) = {}
    BY <1>1, <2>1, <2>3, <2>4, <2>5
  <2> QED BY <2>6, <2>7 DEF Owning, D
<1>5. \A x \in DOMAIN s.rif : Id(x) # Id(o)
  BY <1>1 DEF Sound, Pooled
<1>6. /\ DOMAIN s.hw \subseteq DOMAIN t.hw /\ \A j \in DOMAIN s.hw : t.hw[j] = s.hw[j]
      /\ DOMAIN t.hw \subseteq DOMAIN s.hw \cup {Id(o)}
      /\ o[1] = "BRIDGE" => DOMAIN t.hw = DOMAIN s.hw
      /\ o[1] # "BRIDGE" => Id(o) \in DOMAIN t.hw
  BY DEF Grown
<1>7. Matched(t)
  <2>1. DOMAIN t.hw \subseteq t.l3if
    BY <1>1, <1>6 DEF Sound, Matched
  <2>2. ASSUME NEW x \in DOMAIN t.rif
        PROVE  /\ x[1] # "BRIDGE" => Id(x) \in DOMAIN t.hw
               /\ Id(x) \in DOMAIN t.hw => Matches(x, t.rif[x], t.hw[Id(x)])
    <3>1. CASE x = o
      BY <1>1, <1>6, <3>1 DEF Complete
    <3>2. CASE x \in DOMAIN s.rif
      <4>1. /\ x[1] # "BRIDGE" => Id(x) \in DOMAIN s.hw
            /\ Id(x) \in DOMAIN s.hw => Matches(x, s.rif[x], s.hw[Id(x)])
        BY <3>2 DEF Sound, Matched
      <4>2. t.rif[x] = s.rif[x] /\ Id(x) # Id(o)
        BY <1>1, <1>5, <3>2
      <4> QED BY <1>6, <4>1, <4>2
    <3> QED BY <1>1, <3>1, <3>2
  <2> QED BY <2>1, <2>2 DEF Matched
<1>8. Keyed(t)
  <2>1. \A j \in DOMAIN s.hw : o[1] # "BRIDGE" => s.hw[j].key # t.hw[Id(o)].key
    BY DEF Complete
  <2> QED BY <1>1, <1>6, <2>1 DEF Sound, Keyed
<1> QED BY <1>2, <1>3, <1>4, <1>7, <1>8 DEF Sound

(* Writes to the new object and its hardware interface alone. *)
LEMMA GrownOn ==
  ASSUME NEW s, NEW t, NEW u, NEW o, Grown(s, t, o), Framed(t, u),
         \A x \in DOMAIN s.rif : u.rif[x] = t.rif[x],
         DOMAIN u.hw = DOMAIN t.hw, \A j \in DOMAIN s.hw : u.hw[j] = t.hw[j],
         o[1] = "BRIDGE" => u.hw = t.hw
  PROVE  Grown(s, u, o)
BY DEF Grown, Framed, SameIds, SameShape
(* A stage that moves no object keeps the modes exact. *)
LEMMA ModesKept ==
  ASSUME NEW s, NEW t, Modes(s), Framed(s, t)
  PROVE  Modes(t)
PROOF
<1>1. ASSUME NEW p PROVE Subs(t, p) = Subs(s, p) /\ Phys(t, p) = Phys(s, p)
  BY DEF Subs, Phys, Framed, SameShape
<1> QED BY <1>1 DEF Modes, Framed, SamePorts

-----------------------------------------------------------------------------
(* create_rif under these rules, stage by stage. *)
Starting(q, i) ==
  /\ Clean /\ TypeInv /\ Sound(St)
  /\ q \in Requests /\ q.type \in L3ifTypes /\ i \in L3ifs \ l3ifPool
(* What the request and the id are when create_rif starts. *)
LEMMA StartFact ==
  ASSUME NEW q, NEW i, Starting(q, i)
  PROVE  /\ Good(St) /\ St \in States /\ <<q.type, i>> \in Rifs \ DOMAIN St.rif
         /\ Id(<<q.type, i>>) = i /\ <<q.type, i>>[1] = q.type
         /\ i \notin St.l3if /\ i \notin DOMAIN St.hw /\ i \in L3ifs
         /\ q.virt = FALSE /\ q.stats \in {"on", "off"}
         /\ q.stats = "on" => q.type # "BRIDGE"
         /\ HwFaults = {"none"} /\ "scl" \notin Faults
         /\ Key(q.type, q.port, q.vlan) \in Keys
PROOF
<1>1. /\ Clean /\ TypeInv /\ Sound(St) /\ q \in Requests /\ q.type \in L3ifTypes
      /\ i \in L3ifs \ l3ifPool
  BY DEF Starting
<1>2. <<q.type, i>> \in Rifs /\ Id(<<q.type, i>>) = i
  BY <1>1, RifFact DEF Id
<1>3. i \notin St.l3if
  BY <1>1, StFact
<1>4. <<q.type, i>> \notin DOMAIN St.rif
  BY <1>1, <1>2, <1>3 DEF Sound, Pooled
<1>5. i \notin DOMAIN St.hw
  BY <1>1, <1>3 DEF Sound, Matched
<1>6. q.virt = FALSE /\ q.stats \in {"on", "off"} /\ (q.stats = "on" => q.type # "BRIDGE")
  BY <1>1, RequestFact DEF Clean
<1>7. HwFaults = {"none"} /\ "scl" \notin Faults
  BY <1>1 DEF Clean, HwFaults
<1>8. Key(q.type, q.port, q.vlan) \in Keys
  BY <1>1, RequestFact, KeyFact
<1> QED BY <1>1, <1>2, <1>3, <1>4, <1>5, <1>6, <1>7, <1>8 DEF TypeInv, Good

(* Up to the object in the database. *)
LEMMA BuiltStage ==
  ASSUME NEW q, NEW i, Starting(q, i)
  PROVE  LET o == <<q.type, i>>
             s == Built(q, i)
         IN /\ Open(s, o) /\ SamePorts(St, s) /\ s.stats = St.stats /\ s.hw = St.hw
            /\ DOMAIN s.rif = DOMAIN St.rif \cup {o} /\ s.rif[o] = NewRecord(q)
            /\ \A x \in DOMAIN St.rif : s.rif[x] = St.rif[x]
            /\ s.l3if = St.l3if \cup {i} /\ s.vif = St.vif
            /\ Error1(Took(i), o) = St /\ Error2(s, o) = St
PROOF
<1> DEFINE o == <<q.type, i>>
           s0 == Took(i)
           s == Built(q, i)
<1>1. /\ Good(St) /\ St \in States /\ o \in Rifs /\ o \notin DOMAIN St.rif /\ Id(o) = i
      /\ o[1] = q.type /\ i \notin St.l3if /\ i \in L3ifs
      /\ q \in Requests /\ q.type \in L3ifTypes
  BY StartFact DEF Starting
<1> HIDE DEF o
<1>2. /\ s0 \in States /\ s0.l3if = St.l3if \cup {i} /\ s0.vif = St.vif /\ s0.rif = St.rif
      /\ s0.hw = St.hw /\ s0.stats = St.stats /\ SamePorts(St, s0)
  BY <1>1 DEF Took, States, SamePorts
<1> HIDE DEF s0
<1>3. s = BuildDb(s0, o, q)
  BY DEF Built, s0, o
<1> HIDE DEF s
<1>4. /\ s \in States /\ s.rif = Put(s0.rif, o, NewRecord(q)) /\ SameIds(s0, s)
      /\ SamePorts(s0, s) /\ s.hw = s0.hw /\ s.stats = s0.stats
  BY <1>1, <1>2, <1>3, BuildFact
<1>5. Open(s, o)
  <2>1. Good(s0)
    BY <1>1, <1>2, SameRifGood DEF SamePorts
  <2> QED BY <1>1, <1>2, <1>3, <2>1, BuildOpen
<1>6. /\ DOMAIN s.rif = DOMAIN St.rif \cup {o} /\ s.rif[o] = NewRecord(q)
      /\ \A x \in DOMAIN St.rif : s.rif[x] = St.rif[x]
  BY <1>1, <1>2, <1>4 DEF Put
<1>7. Error1(s0, o) = St
  <2> DEFINE u == Error1(s0, o)
  <2>1. /\ u \in States /\ u.l3if = s0.l3if \ {i} /\ u.rif = s0.rif /\ u.vif = s0.vif
        /\ u.hw = s0.hw /\ u.stats = s0.stats /\ SamePorts(s0, u)
    BY <1>1, <1>2, Error1Fact
  <2> HIDE DEF u
  <2>2. u.l3if = St.l3if
    BY <1>1, <1>2, <2>1
  <2>3. u = St
    BY <1>1, <1>2, <2>1, <2>2, SameState DEF SamePorts
  <2> QED BY <2>3 DEF u
<1>8. Error2(s, o) = St
  <2> DEFINE u == Error2(s, o)
  <2>1. /\ Undoes(s, u, o) /\ u.l3if = s.l3if \ {i} /\ SamePorts(s, u)
        /\ u.hw = s.hw /\ u.stats = s.stats
    BY <1>1, <1>5, Error2Fact
  <2> HIDE DEF u
  <2>2. u.rif = St.rif
    <3>1. u.rif = Drop(s.rif, o)
      BY <2>1 DEF Undoes
    <3>2. St.rif = [x \in DOMAIN St.rif |-> St.rif[x]]
      BY <1>1, RifTableFact DEF States
    <3>3. DOMAIN s.rif \ {o} = DOMAIN St.rif
      BY <1>1, <1>6
    <3> QED BY <1>6, <3>1, <3>2, <3>3 DEF Drop
  <2>3. u.l3if = St.l3if /\ u \in States /\ u.vif = St.vif
    BY <1>1, <1>2, <1>4, <2>1 DEF SameIds, Undoes, Good
  <2>4. u = St
    BY <1>1, <1>2, <1>4, <2>1, <2>2, <2>3, SameState DEF SamePorts
  <2> QED BY <2>4 DEF u
<1>9. /\ SamePorts(St, s) /\ s.stats = St.stats /\ s.hw = St.hw
      /\ s.l3if = St.l3if \cup {i} /\ s.vif = St.vif
  BY <1>2, <1>4 DEF SamePorts, SameIds
<1> QED BY <1>5, <1>6, <1>7, <1>8, <1>9 DEF o, s0, s

(* With its hardware interface. *)
LEMMA WiredStage ==
  ASSUME NEW q, NEW i, Starting(q, i)
  PROVE  LET o == <<q.type, i>>
             s == Wired(q, i)
         IN /\ Grown(St, s, o) /\ Open(s, o) /\ SamePorts(St, s) /\ s.stats = St.stats
            /\ s.rif[o] = NewRecord(q) /\ o \in DOMAIN s.rif
            /\ q.type # "BRIDGE" => s.hw[i] = NewHw(Key(q.type, q.port, q.vlan))
            /\ Error3(s, o) = St
PROOF
<1> DEFINE o == <<q.type, i>>
           key == Key(q.type, q.port, q.vlan)
           b == Built(q, i)
           s == Wired(q, i)
<1>1. /\ St \in States /\ o \in Rifs \ DOMAIN St.rif /\ Id(o) = i
      /\ o[1] = q.type /\ i \notin St.l3if /\ i \in L3ifs /\ i \notin DOMAIN St.hw
      /\ q.virt = FALSE /\ key \in Keys
  BY StartFact
<1>2. /\ Open(b, o) /\ SamePorts(St, b) /\ b.stats = St.stats /\ b.hw = St.hw
      /\ DOMAIN b.rif = DOMAIN St.rif \cup {o} /\ b.rif[o] = NewRecord(q)
      /\ \A x \in DOMAIN St.rif : b.rif[x] = St.rif[x]
      /\ b.l3if = St.l3if \cup {i} /\ b.vif = St.vif
  BY BuiltStage
<1>3. s = IF q.type = "BRIDGE" THEN b ELSE HwCreate(b, i, key)
  BY DEF Wired
<1> HIDE DEF o, key, b, s
<1>4. b \in States
  BY <1>2 DEF Open
<1>5. /\ Framed(b, s) /\ s.rif = b.rif /\ s.stats = b.stats
      /\ q.type = "BRIDGE" => s.hw = b.hw
      /\ q.type # "BRIDGE" => s.hw = Put(b.hw, i, NewHw(key))
  BY <1>1, <1>3, <1>4, NoWrite, HwCreateFact
<1>6. /\ s \in States /\ s.l3if = b.l3if /\ s.vif = b.vif /\ SamePorts(b, s)
  BY <1>5 DEF Framed, SameIds
<1>7. Open(s, o)
  BY <1>2, <1>5, FramedOpen
<1>8. SamePorts(St, s)
  BY <1>2, <1>6 DEF SamePorts
<1>9. q.type # "BRIDGE" => /\ DOMAIN s.hw = DOMAIN St.hw \cup {i} /\ s.hw[i] = NewHw(key)
                           /\ \A j \in DOMAIN St.hw : s.hw[j] = St.hw[j]
  BY <1>1, <1>2, <1>5 DEF Put
<1>10. ~s.rif[o].virt
  BY <1>1, <1>2, <1>5 DEF NewRecord
<1>11. Grown(St, s, o)
  BY <1>1, <1>2, <1>5, <1>6, <1>9, <1>10 DEF Grown
<1>12. Error3(s, o) = St
  BY <1>1, <1>2, <1>5, <1>7, <1>8, <1>11, UndoGrown
<1>13. s.rif[o] = NewRecord(q) /\ o \in DOMAIN s.rif /\ s.stats = St.stats
  BY <1>2, <1>5
<1> QED BY <1>7, <1>8, <1>9, <1>11, <1>12, <1>13 DEF o, s, key

(* The statistics of a new interface: two new ones or none. *)
Paid(q, t, o) ==
  LET r == t.rif[o] IN
  /\ q.stats = "on" <=> r.ing # 0
  /\ r.ing # 0 <=> r.egs # 0
  /\ r.ing # 0 => r.ing # r.egs
  /\ t.stats = St.stats \cup Counters(r) /\ Counters(r) \cap St.stats = {}
  /\ r.v4 = TRUE /\ r.port = q.port /\ r.vlan = q.vlan
  /\ q.type # "BRIDGE" => t.hw[Id(o)].key = Key(q.type, q.port, q.vlan)
(* Without the statistics of the new object the pool is as before. *)
LEMMA PaidBack ==
  ASSUME NEW q, NEW t, NEW o, Paid(q, t, o), St \in States
  PROVE  t.stats \ {t.rif[o].ing, t.rif[o].egs} = St.stats
PROOF
<1>1. 0 \notin St.stats
  BY L3InterfaceAssumption DEF States
<1> QED BY <1>1 DEF Paid, Counters

(* The first id alone is given back by error4. *)
LEMMA IngressStage ==
  ASSUME NEW q, NEW i, Starting(q, i), q.stats # "off", FreeStats(Wired(q, i)) # {}
  PROVE  Error4(Ingress(q, i), <<q.type, i>>) = St
PROOF
<1> DEFINE o == <<q.type, i>>
           s == Wired(q, i)
           a == FirstStats(s)
           b == IF q.type = "BRIDGE" THEN 0 ELSE a
           t == IngressWrite(s, o, a, b)
<1>1. /\ Grown(St, s, o) /\ Open(s, o) /\ SamePorts(St, s) /\ s.stats = St.stats
      /\ s.rif[o] = NewRecord(q) /\ o \in DOMAIN s.rif
  BY WiredStage
<1>2. St \in States /\ q.type # "BRIDGE" /\ q.virt = FALSE
  BY StartFact
<1>3. a \in FreeStats(s)
  BY FirstFact
<1>4. a \in StatsIds /\ a \notin St.stats /\ b = a
  BY <1>1, <1>2, <1>3 DEF FreeStats
<1>5. t = Ingress(q, i)
  BY DEF Ingress, IngressWrite
<1> HIDE DEF a, b, o, s
<1>6. s \in States
  BY <1>1 DEF Open
<1>7. /\ Framed(s, t) /\ t.rif = [s.rif EXCEPT ![o] = [s.rif[o] EXCEPT !.ing = a]]
      /\ t.hw = s.hw /\ t.stats = s.stats \cup {a}
  <2>1. s \in States /\ o \in DOMAIN s.rif /\ a \in StatsIds /\ a \in StatsIds \cup {0}
    BY <1>1, <1>4, <1>6
  <2>2. IngressWritten(s, IngressWrite(s, o, a, a), o, a, a)
    BY ONLY <2>1, IngressFact
  <2> HIDE DEF t
  <2>3. t = IngressWrite(s, o, a, a)
    BY <1>4 DEF t
  <2>4. IngressWritten(s, t, o, a, a)
    BY <2>2, <2>3
  <2> QED BY <2>4 DEF IngressWritten
<1> HIDE DEF t
<1>8. t.rif[o].ing = a /\ \A x \in DOMAIN St.rif : t.rif[x] = s.rif[x]
  <2>1. s.rif[o] \in RifRecords
    BY <1>1, <1>6, ObjectFact
  <2>2. t.rif[o] = [s.rif[o] EXCEPT !.ing = a]
    BY <1>1, <1>7
  <2>3. t.rif[o].ing = a
    BY <2>1, <2>2 DEF RifRecords
  <2>4. o \notin DOMAIN St.rif
    BY <1>1 DEF Grown
  <2> QED BY <1>1, <1>4, <1>7, <2>3, <2>4 DEF Grown
<1>9. Grown(St, t, o)
  BY <1>1, <1>7, <1>8, GrownOn
<1>10. Open(t, o) /\ SamePorts(St, t)
  BY <1>1, <1>7, FramedOpen DEF Framed, SamePorts
<1>11. t.stats \ {t.rif[o].ing} = St.stats
  BY <1>1, <1>4, <1>7, <1>8
<1>12. Error4(t, o) = St
  BY <1>2, <1>9, <1>10, <1>11, UndoGrown
<1> QED BY <1>5, <1>12 DEF o

(* With two statistics ids, or none: the point from which error5 and error6 *)
(* give back both. *)
LEMMA CountingStage ==
  ASSUME NEW q, NEW i, Starting(q, i), Enough(q, i)
  PROVE  LET o == <<q.type, i>>
             s == Counting(q, i)
         IN /\ Grown(St, s, o) /\ Open(s, o) /\ SamePorts(St, s) /\ Paid(q, s, o)
            /\ Error5(s, o) = St
PROOF
<1> DEFINE o == <<q.type, i>>
           w == Wired(q, i)
           a == FirstStats(w)
           b == SecondStats(w)
           key == Key(q.type, q.port, q.vlan)
           s == Counting(q, i)
<1>1. /\ Grown(St, w, o) /\ Open(w, o) /\ SamePorts(St, w) /\ w.stats = St.stats
      /\ w.rif[o] = NewRecord(q) /\ o \in DOMAIN w.rif
      /\ q.type # "BRIDGE" => w.hw[i] = NewHw(key)
  BY WiredStage
<1>2. /\ St \in States /\ q.stats \in {"on", "off"} /\ Id(o) = i /\ o[1] = q.type
      /\ q.stats = "on" => q.type # "BRIDGE"
  BY StartFact
<1>3. /\ q.stats = "off" => s = w
      /\ q.stats = "on" => s = CreateStats(w, o, a, b)
  BY DEF Counting
<1>4. q.stats = "on" => a \in FreeStats(w) /\ b \in FreeStats(w) \ {a}
  BY SecondFact DEF Enough
<1> HIDE DEF o, w, a, b, key, s
<1>5. w \in States
  BY <1>1 DEF Open
<1>6. ASSUME q.stats = "off"
      PROVE  Grown(St, s, o) /\ Open(s, o) /\ SamePorts(St, s) /\ Paid(q, s, o)
  <2>1. /\ w.rif[o].ing = 0 /\ w.rif[o].egs = 0 /\ w.rif[o].v4 = TRUE
        /\ w.rif[o].port = q.port /\ w.rif[o].vlan = q.vlan
    BY <1>1 DEF NewRecord
  <2>2. q.type # "BRIDGE" => w.hw[i].key = key
    BY <1>1 DEF NewHw
  <2>3. Paid(q, w, o)
    BY <1>1, <1>2, <1>6, <2>1, <2>2 DEF Paid, Counters, key
  <2> QED BY <1>1, <1>3, <1>6, <2>3
<1>7. ASSUME q.stats = "on"
      PROVE  Grown(St, s, o) /\ Open(s, o) /\ SamePorts(St, s) /\ Paid(q, s, o)
  <2>1. /\ a \in StatsIds /\ b \in StatsIds /\ a # b /\ a \notin St.stats /\ b \notin St.stats
        /\ a # 0 /\ b # 0 /\ q.type # "BRIDGE"
    BY <1>1, <1>2, <1>4, <1>7, L3InterfaceAssumption DEF FreeStats
  <2>2. Id(o) \in DOMAIN w.hw /\ DOMAIN w.hw = DOMAIN St.hw \cup {i} /\ i \notin DOMAIN St.hw
    BY <1>1, <1>2, <2>1 DEF Grown
  <2>3. Framed(w, CreateStats(w, o, a, b))
    BY <1>1, <1>5, <2>1, CreateStatsFact
  <2> DEFINE r == [w.rif[o] EXCEPT !.ing = a, !.egs = b]
             h == [w.hw[i] EXCEPT !.ing = a, !.egs = b]
  <2>4. StatsWritten(w, s, o, a, b)
    BY <1>1, <1>3, <1>5, <1>7, <2>1, <2>2, CreateStatsFields
  <2>5. /\ Framed(w, s) /\ s.rif = [w.rif EXCEPT ![o] = r]
        /\ s.stats = w.stats \cup {a, b} /\ s.hw = [w.hw EXCEPT ![i] = h]
    BY <1>2, <1>3, <1>7, <2>3, <2>4 DEF StatsWritten
  <2>6. /\ r.ing = a /\ r.egs = b /\ r.v4 = TRUE /\ r.port = q.port /\ r.vlan = q.vlan
        /\ h.key = key
    BY <1>1, <2>1 DEF NewRecord, NewHw
  <2> HIDE DEF r, h
  <2>7. o \notin DOMAIN St.rif /\ DOMAIN w.rif = DOMAIN St.rif \cup {o}
    BY <1>1 DEF Grown
  <2>8. /\ s.rif[o] = r /\ \A x \in DOMAIN St.rif : s.rif[x] = w.rif[x]
    BY <2>5, <2>7
  <2>9. s.hw[i] = h /\ DOMAIN s.hw = DOMAIN w.hw /\ \A j \in DOMAIN St.hw : s.hw[j] = w.hw[j]
    BY <2>2, <2>5
  <2>10. Grown(St, s, o)
    BY <1>1, <1>2, <2>1, <2>5, <2>8, <2>9, GrownOn
  <2>11. Open(s, o) /\ SamePorts(St, s)
    BY <1>1, <2>5, FramedOpen DEF Framed, SamePorts
  <2>12. Paid(q, s, o)
    <3>1. s.stats = St.stats \cup Counters(r) /\ Counters(r) \cap St.stats = {}
      BY <1>1, <2>1, <2>5, <2>6 DEF Counters
    <3> QED BY <1>2, <1>7, <2>1, <2>6, <2>8, <2>9, <3>1 DEF Paid, key
  <2> QED BY <2>10, <2>11, <2>12
<1>8. Grown(St, s, o) /\ Open(s, o) /\ SamePorts(St, s) /\ Paid(q, s, o)
  BY <1>2, <1>6, <1>7
<1>9. Error5(s, o) = St
  <2>1. s.stats \ {s.rif[o].ing, s.rif[o].egs} = St.stats
    BY <1>2, <1>8, PaidBack
  <2> QED BY <1>2, <1>8, <2>1, UndoGrown
<1> QED BY <1>8, <1>9 DEF o, s

(* With the port in its mode, under a key no other interface has. *)
Keyless(q) ==
  q.type = "BRIDGE" \/ \A j \in DOMAIN St.hw : St.hw[j].key # Key(q.type, q.port, q.vlan)
(* Every port mode is exact, and error6 gives back the start. *)
LEMMA EnabledStage ==
  ASSUME NEW q, NEW i, Starting(q, i), Enough(q, i), Keyless(q)
  PROVE  LET o == <<q.type, i>>
             s == Enabled(q, i)
         IN /\ Grown(St, s, o) /\ Good(s) /\ Modes(s) /\ Paid(q, s, o)
            /\ Error6(s, o) = St
            /\ q.type # "SUB_PORT" => Error5(Half(q, i), o) = St
PROOF
<1> DEFINE o == <<q.type, i>>
           t == Counting(q, i)
           s == Enabled(q, i)
           h == Half(q, i)
<1>1. /\ Grown(St, t, o) /\ Open(t, o) /\ SamePorts(St, t) /\ Paid(q, t, o)
      /\ Error5(t, o) = St
  BY CountingStage
<1>2. Good(St) /\ St \in States /\ Id(o) = i /\ o[1] = q.type /\ Sound(St)
  BY StartFact DEF Starting
<1>3. s = PortEnable(t, o) /\ h = [t EXCEPT !.ref = s.ref]
  BY DEF Enabled, Half
<1> HIDE DEF o, t, s, h
<1>4. t.rif[o].port = q.port
  BY <1>1 DEF Paid
<1>5. q.type = "PORT" => Phys(St, q.port) = {}
  <2> SUFFICES ASSUME q.type = "PORT", NEW x \in Phys(St, q.port) PROVE FALSE
    OBVIOUS
  <2>1. x \in DOMAIN St.rif /\ x[1] = "PORT" /\ St.rif[x].port = q.port
    BY DEF Phys
  <2>2. Id(x) \in DOMAIN St.hw /\ Matches(x, St.rif[x], St.hw[Id(x)])
    BY <1>2, <2>1 DEF Sound, Matched
  <2>3. St.hw[Id(x)].key = Key(q.type, q.port, q.vlan)
    BY <2>1, <2>2 DEF Matches, Key
  <2> QED BY <2>2, <2>3 DEF Keyless
<1>6. /\ Grown(St, PortEnable(t, o), o) /\ Good(PortEnable(t, o))
      /\ SameTables(t, PortEnable(t, o)) /\ Modes(PortEnable(t, o))
      /\ SamePorts(St, PortDisable(PortEnable(t, o), o))
      /\ o[1] # "SUB_PORT" => PortEnable(t, o).ref = t.ref
  <2>1. Modes(St) /\ (o[1] = "PORT" => Phys(St, t.rif[o].port) = {})
    BY <1>2, <1>4, <1>5 DEF Sound
  <2> QED BY <1>1, <1>2, <2>1, EnableGrown
<1>7. /\ Grown(St, s, o) /\ Good(s) /\ SameTables(t, s) /\ Modes(s)
      /\ SamePorts(St, PortDisable(s, o)) /\ (q.type # "SUB_PORT" => s.ref = t.ref)
  BY <1>2, <1>3, <1>6
<1>8. Paid(q, s, o)
  BY <1>1, <1>7 DEF Paid, SameTables
<1>9. Error6(s, o) = St
  <2>1. s.stats \ {s.rif[o].ing, s.rif[o].egs} = St.stats
    BY <1>2, <1>8, PaidBack
  <2> QED BY <1>2, <1>7, <2>1, UndoEnabled
<1>10. q.type # "SUB_PORT" => Error5(h, o) = St
  <2> SUFFICES ASSUME q.type # "SUB_PORT" PROVE h = t
    BY <1>1
  <2>1. t \in States
    BY <1>1 DEF Open
  <2>2. [t EXCEPT !.ref = t.ref] = t
    BY <2>1 DEF States
  <2> QED BY <1>3, <1>7, <2>2
<1> QED BY <1>7, <1>8, <1>9, <1>10 DEF o, s, h

(* The end of create_rif: the interface is complete. *)
LEMMA CreatedStage ==
  ASSUME NEW q, NEW i, Starting(q, i), Enough(q, i), Keyless(q)
  PROVE  LET o == <<q.type, i>>
             out == SetAttrHw(Asked(q, i), o, "none")
         IN /\ out.ok = TRUE /\ Good(out.s) /\ Grown(St, out.s, o) /\ Sound(out.s)
            /\ out.s.rif[o].vrf = q.vr
PROOF
<1> DEFINE o == <<q.type, i>>
           e == Enabled(q, i)
           s == Asked(q, i)
           out == SetAttrHw(s, o, "none")
           w == WriteMac(WriteProps(s, o, i), o, i)
           u == IF i \in DOMAIN s.hw THEN w ELSE s
           key == Key(q.type, q.port, q.vlan)
<1>1. Grown(St, e, o) /\ Good(e) /\ Modes(e) /\ Paid(q, e, o)
  BY EnabledStage
<1>2. /\ Good(St) /\ St \in States /\ Id(o) = i /\ o[1] = q.type /\ Sound(St)
      /\ q \in Requests /\ q.type \in L3ifTypes /\ o \notin DOMAIN St.rif
      /\ i \notin DOMAIN St.hw /\ i \notin St.l3if
      /\ q.stats \in {"on", "off"} /\ TypeInv
  BY StartFact DEF Starting
<1>3. s = WithAttrs(e, o, q)
  BY DEF Asked
<1> HIDE DEF o, e, s, out, key
<1>4. e \in States /\ o \in DOMAIN e.rif /\ ~e.rif[o].virt /\ DOMAIN e.rif = DOMAIN St.rif \cup {o}
  BY <1>1 DEF Grown
<1>5. VrMac(q.vr) \in Macs
  BY <1>2, L3InterfaceAssumption DEF TypeInv, VrGood, VrRecords, VrMac
<1>6. /\ Framed(e, s) /\ s.rif = [e.rif EXCEPT ![o] = Attributed(e.rif[o], q)]
      /\ s.hw = e.hw /\ s.stats = e.stats
  BY <1>2, <1>3, <1>4, <1>5, WithAttrsFact
<1>7. /\ s.rif[o] = Attributed(e.rif[o], q) /\ \A x \in DOMAIN St.rif : s.rif[x] = e.rif[x]
      /\ s \in States /\ o \in DOMAIN s.rif
  BY <1>2, <1>4, <1>6 DEF Framed
<1> DEFINE r == s.rif[o]
<1>8. /\ r.vrf = q.vr /\ (r.statsEn <=> q.stats = "on") /\ ~r.virt
      /\ r.ing = e.rif[o].ing /\ r.egs = e.rif[o].egs
      /\ r.port = e.rif[o].port /\ r.vlan = e.rif[o].vlan
  <2>1. e.rif[o] \in RifRecords
    BY <1>4, ObjectFact
  <2> QED BY <1>4, <1>7, <2>1 DEF Attributed, RifRecords
<1>9. /\ r.statsEn <=> r.ing # 0
      /\ r.ing # 0 <=> r.egs # 0
      /\ r.ing # 0 => r.ing # r.egs
      /\ Counters(r) = Counters(e.rif[o])
      /\ r.port = q.port /\ r.vlan = q.vlan
      /\ s.stats = St.stats \cup Counters(r) /\ Counters(r) \cap St.stats = {}
      /\ q.type # "BRIDGE" => s.hw[i].key = key
  BY <1>1, <1>2, <1>6, <1>8 DEF Paid, Counters, key
<1>10. /\ q.type = "BRIDGE" => i \notin DOMAIN s.hw /\ s.hw = St.hw
       /\ q.type # "BRIDGE" => DOMAIN s.hw = DOMAIN St.hw \cup {i}
       /\ \A j \in DOMAIN St.hw : s.hw[j] = St.hw[j]
  BY <1>1, <1>2, <1>6 DEF Grown
<1>11. out.ok = TRUE /\ out.s = u
  <2>1. SetAttrHw(s, o, "none")
           = [s |-> IF Id(o) \in DOMAIN s.hw THEN WriteMac(WriteProps(s, o, Id(o)), o, Id(o))
                    ELSE s, ok |-> TRUE]
    <3>1. o[1] # "LOOPBACK" /\ (Id(o) \in DOMAIN s.hw \/ o[1] = "BRIDGE")
      BY <1>2, <1>10 DEF L3ifTypes
    <3> QED BY <1>7, <1>8, <1>9, <3>1, SetAttrHwClean
  <2> QED BY <1>2, <2>1 DEF out
<1> HIDE DEF r
<1>12. /\ Framed(s, w) /\ w.rif = s.rif /\ w.stats = s.stats
       /\ w.hw = [s.hw EXCEPT ![i] = HwLike(s.hw[i], s.rif[o])]
  <2>1. HwWritten(s, WriteMac(WriteProps(s, o, i), o, i), o, i)
    BY <1>7, WriteFields
  <2>2. HwWritten(s, w, o, i)
    BY <2>1
  <2> HIDE DEF w
  <2> QED BY <2>2 DEF HwWritten
<1>13. /\ Framed(s, u) /\ u.rif = s.rif /\ u.stats = s.stats
       /\ q.type = "BRIDGE" => u.hw = s.hw
       /\ q.type # "BRIDGE" => u.hw = [s.hw EXCEPT ![i] = HwLike(s.hw[i], r)]
  BY <1>7, <1>10, <1>12, NoWrite DEF r
<1> HIDE DEF w, u
<1>14. Framed(e, u)
  BY <1>6, <1>13, FramedTwice
<1>15. Good(u)
  BY <1>1, <1>14, FramedGood
<1>16. Modes(u)
  BY <1>1, <1>14, ModesKept
<1>17. Grown(St, u, o)
  <2>1. \A x \in DOMAIN St.rif : u.rif[x] = e.rif[x]
    BY <1>7, <1>13
  <2>2. DOMAIN u.hw = DOMAIN e.hw
    BY <1>6, <1>13
  <2>3. \A j \in DOMAIN St.hw : u.hw[j] = e.hw[j]
    <3>1. \A j \in DOMAIN St.hw : j # i /\ j \in DOMAIN s.hw
      BY <1>2, <1>10
    <3>2. s.hw = [j \in DOMAIN s.hw |-> s.hw[j]]
      BY <1>7, HwTableFact DEF States
    <3> QED BY <1>6, <1>13, <3>1, <3>2
  <2>4. o[1] = "BRIDGE" => u.hw = e.hw
    BY <1>2, <1>6, <1>13
  <2> QED BY <1>1, <1>14, <2>1, <2>2, <2>3, <2>4, GrownOn
<1>18. q.type # "BRIDGE" =>
         /\ Matches(o, r, u.hw[i]) /\ u.hw[i].key = key
  <2> SUFFICES ASSUME q.type # "BRIDGE" PROVE Matches(o, r, u.hw[i]) /\ u.hw[i].key = key
    OBVIOUS
  <2>1. u.hw[i] = HwLike(s.hw[i], r)
    BY <1>10, <1>13
  <2>2. s.hw[i] \in HwRecords
    BY <1>7, <1>10, HwTableFact DEF States
  <2>3. /\ u.hw[i].vrf = r.vrf /\ u.hw[i].v4 = r.v4 /\ u.hw[i].macs = {r.mac}
        /\ u.hw[i].key = s.hw[i].key
    BY <2>1, <2>2 DEF HwLike, HwRecords
  <2> QED BY <1>2, <1>9, <2>3 DEF Matches, key
<1>19. u.rif[o] = r
  BY <1>13 DEF r
<1>20. Complete(St, u, o)
  <2>1. \A c : c \in u.stats <=> c \in St.stats \/ c \in Counters(r)
    BY <1>9, <1>13
  <2>2. q.type # "BRIDGE" => \A j \in DOMAIN St.hw : St.hw[j].key # u.hw[i].key
    BY <1>18 DEF Keyless, key
  <2> QED BY <1>2, <1>9, <1>18, <1>19, <2>1, <2>2 DEF Complete
<1>21. Sound(u)
  BY <1>2, <1>16, <1>17, <1>20, CompleteSound
<1>22. u.rif[o].vrf = q.vr
  BY <1>8, <1>19 DEF r
<1> QED BY <1>11, <1>15, <1>17, <1>21, <1>22 DEF o, s, out

-----------------------------------------------------------------------------
(* create_rif from the lock on: it has undone all it did, or it has left a *)
(* complete interface in a virtual router that is there. *)
Born(t) ==
  /\ Good(t) /\ Sound(t)
  /\ \E o : Grown(St, t, o) /\ t.rif[o].vrf \in DOMAIN vr
(* Nothing at all, or a complete interface. *)
LEMMA CreateClean ==
  ASSUME Clean, TypeInv, Sound(St), NEW q \in pending, CreateRif(q)
  PROVE  \/ Become(St) /\ status' = "FAILURE"
         \/ status' = "SUCCESS" /\ \E t : Become(t) /\ Born(t)
PROOF
<1>1. q \in Requests
  BY DEF TypeInv
<1>2. q.type \in L3ifTypes /\ q.type \notin VifTypes /\ q.virt = FALSE
  <2>1. q.type \in RifTypes /\ q.virt \in VirtualVals
    BY <1>1, RequestFact
  <2> QED BY <2>1 DEF Clean, L3ifTypes, VifTypes
<1>3. ~CreateVif(q) /\ ~CreateVirtual(q)
  BY <1>2 DEF CreateVif, CreateVirtual
<1>4. CASE CreateL3if(q)
  <2>1. PICK i \in L3ifs \ l3ifPool : Outcome(q, i, <<q.type, i>>)
    BY <1>4, CreateStages
  <2> DEFINE o == <<q.type, i>>
  <2>2. Starting(q, i)
    BY <1>1, <1>2 DEF Starting
  <2>3. Error1(Took(i), o) = St /\ Error2(Built(q, i), o) = St
    BY <2>2, BuiltStage
  <2>4. Error3(Wired(q, i), o) = St
    BY <2>2, WiredStage
  <2>5. q.stats # "off" /\ FreeStats(Wired(q, i)) # {} => Error4(Ingress(q, i), o) = St
    BY <2>2, IngressStage
  <2>6. /\ q.type = "BRIDGE" \/ ~KeyTaken(Took(i), Key(q.type, q.port, q.vlan)) => Keyless(q)
        /\ HwFaults = {"none"} /\ "scl" \notin Faults
    <3>1. Took(i).hw = St.hw
      BY DEF Took, St
    <3> QED BY <2>2, <3>1, StartFact DEF KeyTaken, Keyless
  <2>7. ASSUME Keyless(q), Enough(q, i)
        PROVE  /\ q.type = "PORT" \/ "scl" \in Faults => Error5(Half(q, i), o) = St
               /\ Error6(Enabled(q, i), o) = St
    BY <2>2, <2>6, <2>7, EnabledStage
  <2>8. ASSUME Keyless(q), Enough(q, i)
        PROVE  LET out == SetAttrHw(Asked(q, i), o, "none")
               IN out.ok = TRUE /\ Good(out.s) /\ Grown(St, out.s, o) /\ Sound(out.s)
                  /\ out.s.rif[o].vrf = q.vr
    BY <2>2, <2>8, CreatedStage
  <2> HIDE DEF o
  <2>9. Outcome(q, i, o)
    BY <2>1 DEF o
  <2>10. \/ Fails(St)
         \/ /\ Keyless(q) /\ Enough(q, i) /\ VrFound(q.vr)
            /\ \E f \in HwFaults :
                 LET out == SetAttrHw(Asked(q, i), o, f)
                 IN IF out.ok THEN Become(out.s) /\ status' = "SUCCESS"
                    ELSE Fails(Error6(out.s, o))
    BY <2>3, <2>4, <2>5, <2>6, <2>7, <2>9 DEF Outcome
  <2>11. CASE Fails(St)
    BY <2>11 DEF Fails
  <2>12. CASE ~Fails(St)
    <3> DEFINE out == SetAttrHw(Asked(q, i), o, "none")
    <3>1. Keyless(q) /\ Enough(q, i) /\ VrFound(q.vr)
      BY <2>10, <2>12
    <3>2. out.ok = TRUE /\ Good(out.s) /\ Grown(St, out.s, o) /\ Sound(out.s)
          /\ out.s.rif[o].vrf = q.vr
      BY <2>8, <3>1
    <3>3. IF out.ok THEN Become(out.s) /\ status' = "SUCCESS" ELSE Fails(Error6(out.s, o))
      BY <2>6, <2>10, <2>12
    <3> HIDE DEF out
    <3>4. Become(out.s) /\ status' = "SUCCESS"
      BY <3>2, <3>3
    <3>5. Born(out.s)
      BY <3>1, <3>2 DEF Born, VrFound
    <3> QED BY <3>4, <3>5
  <2> QED BY <2>11, <2>12
<1>5. CASE Become(St) /\ status' = "FAILURE"
  BY <1>5
<1> QED BY <1>3, <1>4, <1>5 DEF CreateRif

-----------------------------------------------------------------------------
(* remove_rif takes the object with all that was its own. *)
Shrunk(s, t, o) ==
  /\ t \in States /\ o \in DOMAIN s.rif /\ t.rif = Drop(s.rif, o)
  /\ t.l3if = s.l3if \ {Id(o)} /\ t.vif = s.vif /\ t.hw = Drop(s.hw, Id(o))
  /\ t.stats = s.stats \ Counters(s.rif[o])
(* The rest is as it should be. *)
LEMMA ShrunkSound ==
  ASSUME NEW s, NEW t, NEW o, Sound(s), Shrunk(s, t, o), Modes(t)
  PROVE  Sound(t)
PROOF
<1>1. /\ DOMAIN t.rif = DOMAIN s.rif \ {o} /\ o \in DOMAIN s.rif
      /\ \A x \in DOMAIN t.rif : t.rif[x] = s.rif[x]
      /\ DOMAIN t.hw = DOMAIN s.hw \ {Id(o)} /\ \A j \in DOMAIN t.hw : t.hw[j] = s.hw[j]
      /\ t.l3if = s.l3if \ {Id(o)} /\ t.stats = s.stats \ Counters(s.rif[o])
  BY DEF Shrunk, Drop
<1>2. \A x \in DOMAIN t.rif : Id(x) # Id(o)
  BY <1>1 DEF Sound, Pooled
<1>3. Plain(t)
  BY <1>1 DEF Sound, Plain
<1>4. Pooled(t)
  BY <1>1, <1>2 DEF Sound, Pooled
<1>5. Owning(t)
  <2> DEFINE C(x) == Counters(s.rif[x])
             D(x) == Counters(t.rif[x])
  <2>1. /\ \A c : c \in s.stats <=> \E x \in DOMAIN s.rif : c \in C(x)
        /\ \A x, y \in DOMAIN s.rif : x # y => C(x) \cap C(y) = {}
    BY DEF Sound, Owning
  <2>2. \A x \in DOMAIN t.rif : D(x) = C(x)
    BY <1>1
  <2>3. t.stats = s.stats \ C(o)
    BY <1>1
  <2> HIDE DEF C, D
  <2>4. \A c : c \in t.stats <=> \E x \in DOMAIN t.rif : c \in D(x)
    BY <1>1, <2>1, <2>2, <2>3
  <2>5. \A x, y \in DOMAIN t.rif : x # y => D(x) \cap D(y) = {}
    BY <1>1, <2>1, <2>2
  <2> QED BY <2>4, <2>5 DEF Owning, D
<1>6. Matched(t)
  BY <1>1, <1>2 DEF Sound, Matched
<1>7. Keyed(t)
  BY <1>1 DEF Sound, Keyed
<1> QED BY <1>3, <1>4, <1>5, <1>6, <1>7 DEF Sound

(* One physical interface for a port at most: two would share a key. *)
LEMMA OnePhys ==
  ASSUME NEW s, Sound(s), NEW p, NEW x \in Phys(s, p), NEW y \in Phys(s, p)
  PROVE  x = y
PROOF
<1>1. /\ x \in DOMAIN s.rif /\ x[1] = "PORT" /\ s.rif[x].port = p
      /\ y \in DOMAIN s.rif /\ y[1] = "PORT" /\ s.rif[y].port = p
  BY DEF Phys
<1>2. /\ Id(x) \in DOMAIN s.hw /\ Matches(x, s.rif[x], s.hw[Id(x)])
      /\ Id(y) \in DOMAIN s.hw /\ Matches(y, s.rif[y], s.hw[Id(y)])
  BY <1>1 DEF Sound, Matched
<1>3. s.hw[Id(x)].key = s.hw[Id(y)].key
  BY <1>1, <1>2 DEF Matches, Key
<1>4. Id(x) = Id(y)
  BY <1>2, <1>3 DEF Sound, Keyed
<1> QED BY <1>1, <1>4 DEF Sound, Pooled

(* The modes of the ports when an interface goes. *)
LEMMA DisableModes ==
  ASSUME NEW s, Good(s), Sound(s), NEW r, r \in States, r.rif = s.rif, SamePorts(s, r),
         NEW o \in DOMAIN s.rif, NEW t, t.rif = Drop(s.rif, o), SamePorts(PortDisable(r, o), t)
  PROVE  Modes(t)
PROOF
<1> DEFINE p == s.rif[o].port
<1>1. /\ s \in States /\ s.ref \in [Ports -> Nat] /\ IsFiniteSet(DOMAIN s.rif)
      /\ p \in Ports /\ ~s.rif[o].virt /\ r.ref = s.ref /\ r.scl = s.scl /\ r.phy = s.phy
      /\ s.scl \subseteq Ports /\ s.phy \subseteq Ports
  BY ObjectFact DEF Good, Counted, States, Sound, Plain, SamePorts
<1>2. /\ DOMAIN t.rif = DOMAIN s.rif \ {o} /\ \A x \in DOMAIN t.rif : t.rif[x] = s.rif[x]
  BY DEF Drop
<1>3. ASSUME NEW x
      PROVE  /\ Subs(t, x) = Subs(s, x) \ {o} /\ Phys(t, x) = Phys(s, x) \ {o}
             /\ o \in Subs(s, x) <=> o[1] = "SUB_PORT" /\ x = p
             /\ o \in Phys(s, x) <=> o[1] = "PORT" /\ x = p
  <2>1. Subs(t, x) = Subs(s, x) \ {o}
    BY <1>2 DEF Subs
  <2>2. Phys(t, x) = Phys(s, x) \ {o}
    BY <1>2 DEF Phys
  <2>3. o \in Subs(s, x) <=> o[1] = "SUB_PORT" /\ x = p
    BY <1>1 DEF Subs
  <2>4. o \in Phys(s, x) <=> o[1] = "PORT" /\ x = p
    BY DEF Phys
  <2> QED BY <2>1, <2>2, <2>3, <2>4
<1> HIDE DEF p
<1>4. /\ s.ref[p] \in Nat /\ s.ref[p] = Cardinality(Subs(s, p)) /\ IsFiniteSet(Subs(s, p))
  BY <1>1, SubsFinite DEF Sound, Modes
<1>5. o[1] = "SUB_PORT" =>
        /\ s.ref[p] # 0 /\ Cardinality(Subs(s, p) \ {o}) = s.ref[p] - 1
        /\ s.ref[p] = 1 <=> Subs(s, p) \ {o} = {}
  <2> SUFFICES ASSUME o[1] = "SUB_PORT"
               PROVE  /\ s.ref[p] # 0 /\ Cardinality(Subs(s, p) \ {o}) = s.ref[p] - 1
                      /\ s.ref[p] = 1 <=> Subs(s, p) \ {o} = {}
    OBVIOUS
  <2>1. o \in Subs(s, p)
    BY <1>3
  <2>2. /\ IsFiniteSet(Subs(s, p) \ {o})
        /\ Cardinality(Subs(s, p) \ {o}) = Cardinality(Subs(s, p)) - 1
    BY <1>4, <2>1, FS_RemoveElement
  <2>3. s.ref[p] # 0
    BY <1>4, <2>1, FS_EmptySet
  <2>4. Cardinality(Subs(s, p) \ {o}) = 0 <=> Subs(s, p) \ {o} = {}
    BY <2>2, FS_EmptySet
  <2> QED BY <1>4, <2>2, <2>3, <2>4
<1>6. /\ t.ref = IF o[1] = "SUB_PORT" THEN [s.ref EXCEPT ![p] = @ - 1] ELSE s.ref
      /\ t.scl = IF o[1] = "SUB_PORT" /\ s.ref[p] = 1 THEN s.scl \ {p} ELSE s.scl
      /\ t.phy = IF o[1] = "PORT" THEN s.phy \ {p} ELSE s.phy
  <2> DEFINE d == PortDisable(r, o)
  <2>1. o[1] = "SUB_PORT" => r.ref[r.rif[o].port] # 0
    BY <1>1, <1>5 DEF p
  <2>2. /\ d.ref = IF o[1] = "SUB_PORT" THEN [r.ref EXCEPT ![r.rif[o].port] = @ - 1] ELSE r.ref
        /\ d.scl = IF o[1] = "SUB_PORT" /\ r.ref[r.rif[o].port] = 1
                   THEN r.scl \ {r.rif[o].port} ELSE r.scl
        /\ d.phy = IF o[1] = "PORT" THEN r.phy \ {r.rif[o].port} ELSE r.phy
    BY <2>1, DisableFields
  <2> HIDE DEF d
  <2>3. t.ref = d.ref /\ t.scl = d.scl /\ t.phy = d.phy
    BY DEF SamePorts, d
  <2> QED BY <1>1, <2>2, <2>3 DEF p
<1>7. ASSUME NEW x \in Ports
      PROVE  /\ t.ref[x] = Cardinality(Subs(t, x))
             /\ (x \in t.scl <=> Subs(t, x) # {}) /\ (x \in t.phy <=> Phys(t, x) # {})
  <2>1. /\ s.ref[x] = Cardinality(Subs(s, x))
        /\ (x \in s.scl <=> Subs(s, x) # {}) /\ (x \in s.phy <=> Phys(s, x) # {})
    BY DEF Sound, Modes
  <2>2. t.ref[x] = Cardinality(Subs(t, x))
    <3>1. CASE o[1] = "SUB_PORT" /\ x = p
      BY <1>1, <1>3, <1>5, <1>6, <3>1
    <3>2. CASE ~(o[1] = "SUB_PORT" /\ x = p)
      <4>1. Subs(t, x) = Subs(s, x)
        BY <1>3, <3>2
      <4>2. t.ref[x] = s.ref[x]
        BY <1>1, <1>6, <3>2
      <4> QED BY <2>1, <4>1, <4>2
    <3> QED BY <3>1, <3>2
  <2>3. x \in t.scl <=> Subs(t, x) # {}
    <3>1. CASE o[1] = "SUB_PORT" /\ x = p
      BY <1>3, <1>5, <1>6, <2>1, <3>1
    <3>2. CASE ~(o[1] = "SUB_PORT" /\ x = p)
      BY <1>3, <1>6, <2>1, <3>2
    <3> QED BY <3>1, <3>2
  <2>4. x \in t.phy <=> Phys(t, x) # {}
    <3>1. CASE o[1] = "PORT" /\ x = p
      <4>1. o \in Phys(s, x)
        BY <1>3, <3>1
      <4>2. Phys(s, x) \ {o} = {}
        BY <4>1, OnePhys
      <4> QED BY <1>3, <1>6, <3>1, <4>2
    <3>2. CASE ~(o[1] = "PORT" /\ x = p)
      BY <1>3, <1>6, <2>1, <3>2
    <3> QED BY <3>1, <3>2
  <2> QED BY <2>2, <2>3, <2>4
<1> QED BY <1>7 DEF Modes

(* remove_rif, whatever it finds. *)
LEMMA RemoveClean ==
  ASSUME Clean, TypeInv, Sound(St), NEW o \in Rifs, RemoveRif(o)
  PROVE  \E t : Become(t) /\ Good(t) /\ Sound(t) /\ DOMAIN t.rif \subseteq DOMAIN rif
PROOF
<1>1. Good(St) /\ St \in States /\ St.rif = rif /\ St.hw = hw
  BY StFact DEF TypeInv, Good
<1>2. CASE Become(St)
  BY <1>1, <1>2
<1>3. CASE ~Become(St)
  <2> DEFINE s == [St EXCEPT !.l3if = @ \ {Id(o)}]
             off == PortDisable(s, o)
             gone == HwDestroy(off, Id(o))
             C == {rif[o].ing, rif[o].egs}
             less == [gone EXCEPT !.stats = @ \ C]
             w == IF rif[o].statsEn THEN less ELSE gone
             t == RemoveDb(w, o)
  <2>1. o \in DOMAIN rif => o[1] \in L3ifTypes /\ ~rif[o].virt
    BY <1>1 DEF Sound, Plain
  <2>2. ~(o[1] \in VifTypes /\ o[1] \in L3ifTypes)
    BY DEF VifTypes, L3ifTypes
  <2>3. o \in DOMAIN rif /\ Become(t)
    BY <1>3, <2>1, <2>2 DEF RemoveRif
  <2>4. /\ s \in States /\ s.l3if = St.l3if \ {Id(o)} /\ s.vif = St.vif /\ s.rif = rif
        /\ s.hw = St.hw /\ s.stats = St.stats /\ SamePorts(St, s)
    BY <1>1, GiveFact
  <2> HIDE DEF s, C
  <2>5. off \in States /\ SameTables(s, off) /\ Good(s) /\ Open(off, o)
    <3>1. Good(s)
      BY <1>1, <2>4, SameRifGood DEF SamePorts
    <3>2. ~s.rif[o].virt
      BY <2>1, <2>3, <2>4
    <3>3. Open(off, o) /\ SameTables(s, off)
      BY <2>3, <2>4, <3>1, <3>2, DisableOpen
    <3> QED BY <3>1, <3>3 DEF Open
  <2> HIDE DEF off
  <2>6. /\ Framed(off, gone) /\ gone.rif = off.rif /\ gone.hw = Drop(off.hw, Id(o))
        /\ gone.stats = off.stats
    BY <2>5, HwDestroyFact
  <2> HIDE DEF gone
  <2>7. Framed(gone, less) /\ less.rif = gone.rif /\ less.hw = gone.hw /\ less.stats = gone.stats \ C
    <3>1. gone \in States
      BY <2>6 DEF Framed
    <3>2. gone.stats \ C \in SUBSET StatsIds
      BY <3>1 DEF States
    <3> DEFINE S == gone.stats \ C
    <3>3. less = [gone EXCEPT !.stats = S]
      OBVIOUS
    <3> HIDE DEF S
    <3>4. Framed(gone, less) /\ less.rif = gone.rif /\ less.hw = gone.hw /\ less.stats = S
      BY <3>1, <3>2, <3>3, StatsWrite DEF States, S
    <3> QED BY <3>4 DEF S
  <2> HIDE DEF less
  <2>8. /\ Framed(gone, w) /\ w.rif = gone.rif /\ w.hw = gone.hw
        /\ w.stats = St.stats \ Counters(rif[o])
    <3>1. gone.stats = St.stats
      BY <2>4, <2>5, <2>6 DEF SameTables
    <3>2. 0 \notin St.stats
      BY <1>1, L3InterfaceAssumption DEF States
    <3>3. St.stats \ C = St.stats \ Counters(rif[o])
      BY <3>2 DEF Counters, C
    <3>4. ~rif[o].statsEn => Counters(rif[o]) = {}
      BY <1>1, <2>3 DEF Sound, Plain, Counters
    <3>5. Framed(gone, gone)
      BY <2>6, NoWrite DEF Framed
    <3> QED BY <2>7, <3>1, <3>3, <3>4, <3>5
  <2> HIDE DEF w
  <2>9. /\ w \in States /\ Open(w, o) /\ SameIds(off, w) /\ SamePorts(off, w)
    <3>1. Framed(off, w)
      BY <2>6, <2>8, FramedTwice
    <3> QED BY <2>5, <3>1, FramedOpen DEF Framed
  <2>10. /\ t \in States /\ t.rif = Drop(w.rif, o) /\ SameIds(w, t) /\ SamePorts(w, t)
         /\ t.hw = w.hw /\ t.stats = w.stats /\ Good(t)
    BY <2>9, RemoveFact, RemoveGood
  <2> HIDE DEF t
  <2>11. Shrunk(St, t, o)
    BY <1>1, <2>3, <2>4, <2>5, <2>6, <2>8, <2>9, <2>10 DEF Shrunk, SameTables, SameIds
  <2>12. Modes(t)
    <3>1. SamePorts(off, t)
      BY <2>9, <2>10 DEF SamePorts
    <3>2. SamePorts(PortDisable(s, o), t) /\ t.rif = Drop(St.rif, o) /\ o \in DOMAIN St.rif
      BY <1>1, <2>3, <2>11, <3>1 DEF off, Shrunk
    <3> QED BY <1>1, <2>4, <3>2, DisableModes
  <2>13. Sound(t)
    BY <2>11, <2>12, ShrunkSound
  <2>14. DOMAIN t.rif \subseteq DOMAIN rif
    BY <1>1, <2>11 DEF Shrunk, Drop
  <2> QED BY <2>3, <2>10, <2>13, <2>14
<1> QED BY <1>2, <1>3

-----------------------------------------------------------------------------
(* Attributes rewritten in place, in the objects and in hardware alike. *)
SameOwn(r, k) ==
  /\ r.ing = k.ing /\ r.egs = k.egs /\ r.statsEn = k.statsEn
  /\ r.virt = k.virt /\ r.port = k.port /\ r.vlan = k.vlan
(* Nothing of what must hold is disturbed. *)
LEMMA RewrittenSound ==
  ASSUME NEW s, NEW t, Sound(s), Framed(s, t), t.stats = s.stats,
         \A x \in DOMAIN s.rif : SameOwn(t.rif[x], s.rif[x]),
         DOMAIN t.hw = DOMAIN s.hw, \A j \in DOMAIN s.hw : t.hw[j].key = s.hw[j].key,
         \A x \in DOMAIN s.rif : Id(x) \in DOMAIN s.hw =>
           /\ t.hw[Id(x)].vrf = t.rif[x].vrf /\ t.hw[Id(x)].v4 = t.rif[x].v4
           /\ t.hw[Id(x)].macs = {t.rif[x].mac}
  PROVE  Sound(t)
PROOF
<1>1. DOMAIN t.rif = DOMAIN s.rif /\ t.l3if = s.l3if
  BY DEF Framed, SameShape, SameIds
<1>2. Plain(t)
  BY <1>1 DEF Sound, Plain, SameOwn
<1>3. Pooled(t)
  BY <1>1 DEF Sound, Pooled
<1>4. Owning(t)
  <2>1. \A x \in DOMAIN s.rif : Counters(t.rif[x]) = Counters(s.rif[x])
    BY DEF SameOwn, Counters
  <2> QED BY <1>1, <2>1 DEF Sound, Owning
<1>5. Matched(t)
  <2>1. ASSUME NEW x \in DOMAIN s.rif, Id(x) \in DOMAIN s.hw
        PROVE  Matches(x, t.rif[x], t.hw[Id(x)])
    <3>1. Matches(x, s.rif[x], s.hw[Id(x)])
      BY <2>1 DEF Sound, Matched
    <3>2. SameOwn(t.rif[x], s.rif[x]) /\ t.hw[Id(x)].key = s.hw[Id(x)].key
      BY <2>1
    <3> QED BY <2>1, <3>1, <3>2 DEF Matches, SameOwn
  <2> QED BY <1>1, <2>1 DEF Sound, Matched
<1>6. Keyed(t)
  BY DEF Sound, Keyed
<1>7. Modes(t)
  BY ModesKept DEF Sound
<1> QED BY <1>2, <1>3, <1>4, <1>5, <1>6, <1>7 DEF Sound

(* set_rif_attr: the object, then its hardware interface if it has one. *)
LEMMA SetAttrClean ==
  ASSUME Clean, NEW r \in RifRecords, NEW new \in SetAttr(r)
  PROVE  new \in RifRecords /\ SameOwn(new, r)
PROOF
<1>1. "stats" \notin RifAttrs
  BY DEF Clean
<1>2. CASE \E v \in Vrs : new = [r EXCEPT !.vrf = v]
  BY <1>2 DEF RifRecords, SameOwn
<1>3. CASE \E m \in Macs : new = [r EXCEPT !.mac = m]
  BY <1>3 DEF RifRecords, SameOwn
<1>4. CASE \E b \in BOOLEAN : new = [r EXCEPT !.v4 = b]
  BY <1>4 DEF RifRecords, SameOwn
<1> QED BY <1>1, <1>2, <1>3, <1>4 DEF SetAttr
(* The object and the hardware interface change together. *)
LEMMA SetRifClean ==
  ASSUME Clean, TypeInv, Sound(St), NEW o \in DOMAIN rif, NEW new \in SetAttr(rif[o]),
         SetRifAttr(o, new)
  PROVE  \E t : Become(t) /\ Framed(St, t) /\ Sound(t)
PROOF
<1> DEFINE s == [St EXCEPT !.rif[o] = new]
           i == Id(o)
           out == SetAttrHw(s, o, "none")
           w == WriteMac(WriteProps(s, o, i), o, i)
           u == IF i \in DOMAIN s.hw THEN w ELSE s
<1>1. Good(St) /\ St \in States /\ St.rif = rif /\ St.hw = hw
  BY StFact DEF TypeInv, Good
<1>2. rif[o] \in RifRecords
  BY <1>1, ObjectFact
<1>3. new \in RifRecords /\ SameOwn(new, rif[o])
  BY <1>2, SetAttrClean
<1>4. s = [St EXCEPT !.rif = [St.rif EXCEPT ![o] = new]]
  OBVIOUS
<1>5. Become(out.s)
  <2>1. HwFaults = {"none"}
    BY DEF Clean, HwFaults
  <2> QED BY <2>1 DEF SetRifAttr
<1> HIDE DEF s, out
<1>6. Framed(St, s) /\ s.rif = [rif EXCEPT ![o] = new] /\ s.hw = hw /\ s.stats = St.stats
  <2>1. Framed(St, s)
    BY <1>1, <1>3, <1>4, RifWrite DEF SameOwn
  <2> DEFINE f == [St.rif EXCEPT ![o] = new]
  <2>2. s = [St EXCEPT !.rif = f]
    BY <1>4
  <2>3. f = [rif EXCEPT ![o] = new]
    BY <1>1
  <2> HIDE DEF f
  <2>4. s.rif = f /\ s.hw = hw /\ s.stats = St.stats
    BY <1>1, <2>2 DEF States
  <2> QED BY <2>1, <2>3, <2>4
<1>7. s \in States /\ DOMAIN s.rif = DOMAIN rif /\ s.rif[o] = new
  BY <1>6 DEF Framed
<1>8. /\ o[1] \in L3ifTypes /\ ~new.virt
      /\ new.statsEn <=> new.ing # 0
      /\ new.ing # 0 <=> new.egs # 0
      /\ o[1] # "BRIDGE" => i \in DOMAIN hw
  BY <1>1, <1>3 DEF Sound, Plain, Matched, SameOwn
<1>9. out = [s |-> IF Id(o) \in DOMAIN s.hw THEN WriteMac(WriteProps(s, o, Id(o)), o, Id(o))
                   ELSE s, ok |-> TRUE]
  <2>1. o[1] # "LOOPBACK" /\ (Id(o) \in DOMAIN s.hw \/ o[1] = "BRIDGE")
    BY <1>6, <1>8 DEF L3ifTypes
  <2> QED BY <1>7, <1>8, <2>1, SetAttrHwClean DEF out
<1>10. out.s = u
  BY <1>9
<1>11. HwWritten(s, w, o, i)
  BY <1>7, WriteFields
<1>12. /\ Framed(s, u) /\ u.rif = s.rif /\ u.stats = s.stats
       /\ i \in DOMAIN hw => u.hw = [hw EXCEPT ![i] = HwLike(hw[i], new)]
       /\ i \notin DOMAIN hw => u.hw = hw
  <2>1. /\ Framed(s, w) /\ w.rif = s.rif /\ w.stats = s.stats
        /\ w.hw = [s.hw EXCEPT ![i] = HwLike(s.hw[i], s.rif[o])]
    <3> HIDE DEF w
    <3> QED BY <1>11 DEF HwWritten
  <2>2. Framed(s, s)
    BY <1>7, NoWrite
  <2> HIDE DEF w
  <2> QED BY <1>6, <1>7, <2>1, <2>2
<1> HIDE DEF u, w, i
<1>13. Framed(St, u) /\ u.stats = St.stats /\ u.rif = [rif EXCEPT ![o] = new]
  BY <1>6, <1>12, FramedTwice
<1>14. hw \in [DOMAIN hw -> HwRecords]
  BY <1>1, HwTableFact DEF States
<1>15. ASSUME NEW x \in DOMAIN rif
       PROVE  SameOwn(u.rif[x], rif[x]) /\ (x # o => u.rif[x] = rif[x] /\ Id(x) # i)
  <2>1. Id(x) = i => x = o
    BY <1>1 DEF Sound, Pooled, i
  <2> QED BY <1>3, <1>13, <2>1 DEF SameOwn
<1>16. i \in DOMAIN hw =>
         /\ u.hw[i].key = hw[i].key /\ u.hw[i].vrf = new.vrf /\ u.hw[i].v4 = new.v4
         /\ u.hw[i].macs = {new.mac}
  <2> SUFFICES ASSUME i \in DOMAIN hw
               PROVE  /\ u.hw[i].key = hw[i].key /\ u.hw[i].vrf = new.vrf
                      /\ u.hw[i].v4 = new.v4 /\ u.hw[i].macs = {new.mac}
    OBVIOUS
  <2>1. u.hw[i] = HwLike(hw[i], new) /\ hw[i] \in HwRecords
    BY <1>12, <1>14
  <2> QED BY <2>1 DEF HwLike, HwRecords
<1>17. DOMAIN u.hw = DOMAIN hw /\ \A j \in DOMAIN hw : j # i => u.hw[j] = hw[j]
  BY <1>12, <1>14
<1>18. ASSUME NEW x \in DOMAIN rif, Id(x) \in DOMAIN hw
       PROVE  /\ u.hw[Id(x)].vrf = u.rif[x].vrf /\ u.hw[Id(x)].v4 = u.rif[x].v4
              /\ u.hw[Id(x)].macs = {u.rif[x].mac}
  <2>1. CASE x = o
    <3>1. u.rif[o] = new
      BY <1>13
    <3> QED BY <1>16, <1>18, <2>1, <3>1 DEF i
  <2>2. CASE x # o
    <3>1. Matches(x, rif[x], hw[Id(x)])
      BY <1>1, <1>18 DEF Sound, Matched
    <3> QED BY <1>15, <1>17, <1>18, <2>2, <3>1 DEF Matches
  <2> QED BY <2>1, <2>2
<1>19. Sound(u)
  <2>1. \A j \in DOMAIN hw : u.hw[j].key = hw[j].key
    BY <1>16, <1>17
  <2> QED BY <1>1, <1>13, <1>15, <1>17, <1>18, <2>1, RewrittenSound
<1> QED BY <1>5, <1>10, <1>13, <1>19

(* The bridge port gives its interface hardware under a key no other has, *)
(* or takes it away. *)
LEMMA BridgeSound ==
  ASSUME NEW s, NEW t, NEW i, Sound(s), Framed(s, t), t.rif = s.rif, t.stats = s.stats,
         <<"BRIDGE", i>> \in DOMAIN s.rif,
         \A j \in DOMAIN t.hw : j # i => j \in DOMAIN s.hw /\ t.hw[j] = s.hw[j],
         DOMAIN s.hw \ {i} \subseteq DOMAIN t.hw,
         i \in DOMAIN t.hw =>
           /\ Matches(<<"BRIDGE", i>>, s.rif[<<"BRIDGE", i>>], t.hw[i])
           /\ \A j \in DOMAIN s.hw : j # i => s.hw[j].key # t.hw[i].key
  PROVE  Sound(t)
PROOF
<1> DEFINE o == <<"BRIDGE", i>>
<1>1. t.l3if = s.l3if /\ Id(o) = i /\ o[1] = "BRIDGE"
  BY DEF Framed, SameIds, Id
<1> HIDE DEF o
<1>2. \A x \in DOMAIN s.rif : Id(x) = i => x = o
  BY <1>1 DEF Sound, Pooled, o
<1>3. Plain(t)
  BY DEF Sound, Plain
<1>4. Pooled(t)
  BY <1>1 DEF Sound, Pooled
<1>5. Owning(t)
  BY DEF Sound, Owning
<1>6. Matched(t)
  <2>1. DOMAIN t.hw \subseteq t.l3if
    <3>1. DOMAIN s.hw \subseteq s.l3if /\ i \in s.l3if
      BY <1>1 DEF Sound, Matched, Pooled, o
    <3> QED BY <1>1, <3>1
  <2>2. ASSUME NEW x \in DOMAIN t.rif
        PROVE  /\ x[1] # "BRIDGE" => Id(x) \in DOMAIN t.hw
               /\ Id(x) \in DOMAIN t.hw => Matches(x, t.rif[x], t.hw[Id(x)])
    <3>1. CASE x = o
      BY <1>1, <3>1 DEF o
    <3>2. CASE x # o
      <4>1. Id(x) # i
        BY <1>2, <3>2
      <4>2. /\ x[1] # "BRIDGE" => Id(x) \in DOMAIN s.hw
            /\ Id(x) \in DOMAIN s.hw => Matches(x, s.rif[x], s.hw[Id(x)])
        BY DEF Sound, Matched
      <4> QED BY <4>1, <4>2
    <3> QED BY <3>1, <3>2
  <2> QED BY <2>1, <2>2 DEF Matched
<1>7. Keyed(t)
  BY DEF Sound, Keyed
<1>8. Modes(t)
  BY ModesKept DEF Sound
<1> QED BY <1>3, <1>4, <1>5, <1>6, <1>7, <1>8 DEF Sound
(* Both ways of the bridge port's call. *)
LEMMA UpdateBridgeClean ==
  ASSUME Clean, TypeInv, Sound(St), NEW i \in L3ifs, NEW vlan \in Vlans, NEW add \in BOOLEAN,
         UpdateBridgeRif(i, vlan, add)
  PROVE  \E t : Become(t) /\ Framed(St, t) /\ Sound(t)
PROOF
<1> DEFINE o == <<"BRIDGE", i>>
           key == Key("BRIDGE", 0, vlan)
           s == HwCreate(St, i, key)
           d == HwDestroy(St, i)
           out == SetAttrHw(s, o, "none")
           w == WriteMac(WriteProps(s, o, i), o, i)
<1>1. /\ Good(St) /\ St \in States /\ St.rif = rif /\ St.hw = hw /\ o \in DOMAIN rif
      /\ Id(o) = i /\ o[1] = "BRIDGE"
  BY StFact DEF TypeInv, Good, UpdateBridgeRif, Id
<1>2. \/ Become(St)
      \/ Become(d)
      \/ /\ ~KeyTaken(St, key) /\ i \notin DOMAIN hw
         /\ out.ok => Become(out.s)
         /\ ~out.ok => Become(HwDestroy(out.s, i))
  <2>1. HwFaults = {"none"}
    BY DEF Clean, HwFaults
  <2> QED BY <2>1 DEF UpdateBridgeRif
<1> HIDE DEF key, s, d, out
<1>3. CASE Become(St)
  BY <1>1, <1>3, NoWrite
<1>4. CASE Become(d)
  <2>1. Framed(St, d) /\ d.rif = rif /\ d.hw = Drop(hw, i) /\ d.stats = St.stats
    BY <1>1, HwDestroyFact DEF d
  <2>2. /\ DOMAIN d.hw = DOMAIN hw \ {i} /\ \A j \in DOMAIN d.hw : d.hw[j] = hw[j]
    BY <2>1 DEF Drop
  <2>3. Sound(d)
    BY <1>1, <2>1, <2>2, BridgeSound
  <2> QED BY <1>4, <2>1, <2>3
<1>5. CASE /\ ~KeyTaken(St, key) /\ i \notin DOMAIN hw
           /\ out.ok => Become(out.s)
           /\ ~out.ok => Become(HwDestroy(out.s, i))
  <2>1. key \in Keys
    <3>1. St.rif[o].port \in Ports
      BY <1>1, ObjectFact
    <3> QED BY <3>1, BridgeKeyFact DEF key
  <2>2. Framed(St, s) /\ s.rif = rif /\ s.hw = Put(hw, i, NewHw(key)) /\ s.stats = St.stats
    BY <1>1, <2>1, HwCreateFact DEF s
  <2>3. /\ s \in States /\ o \in DOMAIN s.rif /\ DOMAIN s.hw = DOMAIN hw \cup {i}
        /\ s.hw[i] = NewHw(key) /\ \A j \in DOMAIN hw : j # i /\ s.hw[j] = hw[j]
    BY <1>1, <1>5, <2>2 DEF Framed, Put
  <2>4. /\ ~s.rif[o].virt
        /\ s.rif[o].statsEn <=> s.rif[o].ing # 0
        /\ s.rif[o].ing # 0 <=> s.rif[o].egs # 0
    BY <1>1, <2>2 DEF Sound, Plain
  <2>5. SetAttrHw(s, o, "none")
           = [s |-> IF Id(o) \in DOMAIN s.hw THEN WriteMac(WriteProps(s, o, Id(o)), o, Id(o))
                    ELSE s, ok |-> TRUE]
    BY <1>1, <2>3, <2>4, SetAttrHwClean
  <2>6. out.ok /\ out.s = w
    BY <1>1, <2>3, <2>5 DEF out
  <2>7. HwWritten(s, w, o, i)
    BY <2>3, WriteFields
  <2> HIDE DEF w, o
  <2>8. /\ Framed(s, w) /\ w.rif = rif /\ w.stats = St.stats
        /\ w.hw = [s.hw EXCEPT ![i] = HwLike(NewHw(key), rif[o])]
    BY <2>2, <2>3, <2>7 DEF HwWritten
  <2>9. Framed(St, w)
    BY <2>2, <2>8, FramedTwice
  <2>10. /\ w.hw[i] = HwLike(NewHw(key), rif[o]) /\ DOMAIN w.hw = DOMAIN hw \cup {i}
         /\ \A j \in DOMAIN hw : w.hw[j] = hw[j]
    BY <2>3, <2>8
  <2>11. Matches(o, rif[o], w.hw[i]) /\ w.hw[i].key = key
    BY <1>1, <2>10 DEF Matches, HwLike, NewHw
  <2>12. \A j \in DOMAIN hw : hw[j].key # w.hw[i].key
    BY <1>1, <1>5, <2>11 DEF KeyTaken
  <2>13. Sound(w)
    BY <1>1, <2>8, <2>9, <2>10, <2>11, <2>12, BridgeSound DEF o
  <2> QED BY <1>5, <2>6, <2>9, <2>13
<1> QED BY <1>2, <1>3, <1>4, <1>5

(* The virtual router's attribute, written to its interfaces. *)
LEMMA SetVrClean ==
  ASSUME TypeInv, Sound(St), NEW v \in Vrs,
         (\E b \in V4Vals : SetVrV4(v, b)) \/ (\E m \in Macs : SetVrMac(v, m))
  PROVE  \E t : Become(t) /\ Framed(St, t) /\ Sound(t)
PROOF
<1>1. PICK t : Become(t) /\ Framed(St, t)
  BY SetVrFact
<1>2. /\ t.rif = rif' /\ t.hw = hw' /\ t.stats = stats' /\ stats' = stats
  BY <1>1 DEF Become, SetVrV4, SetVrMac
<1>3. St \in States /\ St.rif = rif /\ St.hw = hw /\ St.stats = stats
  BY StFact DEF TypeInv, Good
<1>4. rif \in [DOMAIN rif -> RifRecords] /\ hw \in [DOMAIN hw -> HwRecords]
  BY <1>3, RifTableFact, HwTableFact DEF States
<1>5. /\ \A x, y \in DOMAIN rif : Id(x) = Id(y) => x = y
      /\ \A x \in DOMAIN rif : Id(x) \in DOMAIN hw =>
           /\ hw[Id(x)].vrf = rif[x].vrf /\ hw[Id(x)].v4 = rif[x].v4
           /\ hw[Id(x)].macs = {rif[x].mac}
  BY <1>3 DEF Sound, Pooled, Matched, Matches
<1> DEFINE Done ==
             /\ \A x \in DOMAIN rif : SameOwn(rif'[x], rif[x])
             /\ DOMAIN hw' = DOMAIN hw /\ \A j \in DOMAIN hw : hw'[j].key = hw[j].key
             /\ \A x \in DOMAIN rif : Id(x) \in DOMAIN hw =>
                  /\ hw'[Id(x)].vrf = rif'[x].vrf /\ hw'[Id(x)].v4 = rif'[x].v4
                  /\ hw'[Id(x)].macs = {rif'[x].mac}
<1>6. ASSUME NEW S \in SUBSET InVrf(v), NEW x \in DOMAIN rif, Id(x) \in DOMAIN hw
      PROVE  x \in S <=> Id(x) \in HwOf(S)
  BY <1>5, <1>6 DEF HwOf, InVrf
<1>7. ASSUME NEW b \in V4Vals, SetVrV4(v, b), v \in DOMAIN vr
      PROVE  Done
  <2> DEFINE S == InVrf(v)
             H == HwOf(S)
  <2>1. /\ rif' = [o \in DOMAIN rif |-> IF o \in S THEN [rif[o] EXCEPT !.v4 = b] ELSE rif[o]]
        /\ hw' = [i \in DOMAIN hw |-> IF i \in H THEN [hw[i] EXCEPT !.v4 = b] ELSE hw[i]]
    BY <1>7 DEF SetVrV4
  <2>2. \A x \in DOMAIN rif : Id(x) \in DOMAIN hw => (x \in S <=> Id(x) \in H)
    BY <1>6
  <2> HIDE DEF S, H
  <2>3. \A r \in RifRecords : /\ SameOwn([r EXCEPT !.v4 = b], r)
                              /\ [r EXCEPT !.v4 = b].v4 = b /\ [r EXCEPT !.v4 = b].vrf = r.vrf
                              /\ [r EXCEPT !.v4 = b].mac = r.mac
    BY DEF RifRecords, SameOwn
  <2>4. \A h \in HwRecords : /\ [h EXCEPT !.v4 = b].key = h.key
                             /\ [h EXCEPT !.v4 = b].v4 = b /\ [h EXCEPT !.v4 = b].vrf = h.vrf
                             /\ [h EXCEPT !.v4 = b].macs = h.macs
    BY DEF HwRecords
  <2>5. \A x \in DOMAIN rif : SameOwn(rif'[x], rif[x])
    BY <1>4, <2>1, <2>3 DEF SameOwn
  <2>6. DOMAIN hw' = DOMAIN hw /\ \A j \in DOMAIN hw : hw'[j].key = hw[j].key
    BY <1>4, <2>1, <2>4
  <2>7. ASSUME NEW x \in DOMAIN rif, Id(x) \in DOMAIN hw
        PROVE  /\ hw'[Id(x)].vrf = rif'[x].vrf /\ hw'[Id(x)].v4 = rif'[x].v4
               /\ hw'[Id(x)].macs = {rif'[x].mac}
    BY <1>4, <1>5, <2>1, <2>2, <2>3, <2>4, <2>7
  <2> QED BY <2>5, <2>6, <2>7
<1>8. ASSUME NEW m \in Macs, SetVrMac(v, m), v \in DOMAIN vr
      PROVE  Done
  <2>1. PICK S \in SUBSET InVrf(v) :
          /\ rif' = [o \in DOMAIN rif |-> IF o \in S THEN [rif[o] EXCEPT !.mac = m] ELSE rif[o]]
          /\ hw' = [i \in DOMAIN hw |-> IF i \in HwOf(S) THEN [hw[i] EXCEPT !.macs = {m}]
                                        ELSE hw[i]]
    BY <1>8 DEF SetVrMac
  <2> DEFINE H == HwOf(S)
  <2>2. \A x \in DOMAIN rif : Id(x) \in DOMAIN hw => (x \in S <=> Id(x) \in H)
    BY <1>6
  <2>0. hw' = [i \in DOMAIN hw |-> IF i \in H THEN [hw[i] EXCEPT !.macs = {m}] ELSE hw[i]]
    BY <2>1
  <2> HIDE DEF H
  <2>3. \A r \in RifRecords : /\ SameOwn([r EXCEPT !.mac = m], r)
                              /\ [r EXCEPT !.mac = m].mac = m /\ [r EXCEPT !.mac = m].vrf = r.vrf
                              /\ [r EXCEPT !.mac = m].v4 = r.v4
    BY DEF RifRecords, SameOwn
  <2>4. \A h \in HwRecords : /\ [h EXCEPT !.macs = {m}].key = h.key
                             /\ [h EXCEPT !.macs = {m}].macs = {m}
                             /\ [h EXCEPT !.macs = {m}].vrf = h.vrf
                             /\ [h EXCEPT !.macs = {m}].v4 = h.v4
    BY DEF HwRecords
  <2>5. \A x \in DOMAIN rif : SameOwn(rif'[x], rif[x])
    BY <1>4, <2>1, <2>3 DEF SameOwn
  <2>6. DOMAIN hw' = DOMAIN hw /\ \A j \in DOMAIN hw : hw'[j].key = hw[j].key
    BY <1>4, <2>0, <2>4
  <2>7. ASSUME NEW x \in DOMAIN rif, Id(x) \in DOMAIN hw
        PROVE  /\ hw'[Id(x)].vrf = rif'[x].vrf /\ hw'[Id(x)].v4 = rif'[x].v4
               /\ hw'[Id(x)].macs = {rif'[x].mac}
    BY <1>4, <1>5, <2>0, <2>1, <2>2, <2>3, <2>4, <2>7
  <2> QED BY <2>5, <2>6, <2>7
<1>9. CASE v \in DOMAIN vr
  <2>1. Done
    BY <1>7, <1>8, <1>9
  <2>2. Sound(t)
    BY <1>1, <1>2, <1>3, <2>1, RewrittenSound
  <2> QED BY <1>1, <2>2
<1>10. CASE v \notin DOMAIN vr
  <2>1. UNCHANGED <<rif, hw>>
    BY <1>10 DEF SetVrV4, SetVrMac
  <2>2. Done
    BY <1>5, <2>1 DEF SameOwn
  <2>3. Sound(t)
    BY <1>1, <1>2, <1>3, <2>2, RewrittenSound
  <2> QED BY <1>1, <2>3
<1> QED BY <1>9, <1>10

-----------------------------------------------------------------------------
(* Every step under these rules keeps what holds; what comes to life does so*)
(* in a virtual router that is there, and a creation that fails leaves *)
(* nothing behind. *)
Alive == \A o \in DOMAIN rif' \ DOMAIN rif : rif'[o].vrf \in DOMAIN vr
Undone ==
  status' # "SUCCESS" /\ Cardinality(pending') < Cardinality(pending) =>
    UNCHANGED <<rif, l3ifPool, vifPool, hw, stats, subIfRef, sclEn, phyIfEn>>
SoundInv == Sound(St) /\ IsFiniteSet(pending)
(* One step per action of the specification. *)
LEMMA StepSound ==
  Clean /\ TypeInv /\ SoundInv /\ [Next]_vars => SoundInv' /\ Alive /\ Undone
PROOF
<1> SUFFICES ASSUME Clean, TypeInv, SoundInv, [Next]_vars
             PROVE  SoundInv' /\ Alive /\ Undone
  OBVIOUS
<1>1. /\ Sound(St) /\ IsFiniteSet(pending) /\ Good(St) /\ St.rif = rif
      /\ Cardinality(pending) \in Nat
  BY StFact, FS_CardinalityType DEF SoundInv, TypeInv
<1>2. ASSUME NEW t, Become(t), Good(t), Sound(t) PROVE Sound(St') /\ rif' = t.rif
  <2>1. St' = t
    BY <1>2, BecomeFact DEF Good
  <2> QED BY <1>2, <2>1 DEF Become
<1>3. ASSUME pending' = pending PROVE Undone /\ IsFiniteSet(pending')
  BY <1>1, <1>3 DEF Undone
<1>4. ASSUME NEW t, Become(t), Good(t), Sound(t), DOMAIN t.rif \subseteq DOMAIN rif,
             pending' = pending
      PROVE  SoundInv' /\ Alive /\ Undone
  BY <1>2, <1>3, <1>4 DEF SoundInv, Alive
<1>5. ASSUME NEW t, Become(t), Framed(St, t), Sound(t), pending' = pending
      PROVE  SoundInv' /\ Alive /\ Undone
  <2>1. Good(t) /\ DOMAIN t.rif \subseteq DOMAIN rif
    BY <1>1, <1>5, FramedGood DEF Framed, SameShape
  <2> QED BY <1>4, <1>5, <2>1
<1>6. ASSUME St' = St, rif' = rif PROVE Sound(St') /\ Alive
  BY <1>1, <1>6 DEF Alive
<1>7. CASE CreateVr
  <2>1. St' = St /\ rif' = rif /\ pending' = pending
    BY <1>7, UnchangedSt DEF CreateVr
  <2> QED BY <1>3, <1>6, <2>1 DEF SoundInv
<1>8. CASE \E v \in Vrs : RemoveVr(v)
  <2>1. PICK v \in Vrs : RemoveVr(v)
    BY <1>8
  <2>2. St' = St /\ rif' = rif /\ pending' = pending
    BY <2>1, UnchangedSt DEF RemoveVr
  <2> QED BY <1>3, <1>6, <2>2 DEF SoundInv
<1>9. CASE (\E v \in Vrs, b \in V4Vals : SetVrV4(v, b)) \/ (\E v \in Vrs, m \in Macs : SetVrMac(v, m))
  <2>1. PICK v \in Vrs : (\E b \in V4Vals : SetVrV4(v, b)) \/ (\E m \in Macs : SetVrMac(v, m))
    BY <1>9
  <2>2. \E t : Become(t) /\ Framed(St, t) /\ Sound(t)
    BY <1>1, <2>1, SetVrClean
  <2>3. pending' = pending
    BY <2>1 DEF SetVrV4, SetVrMac
  <2> QED BY <1>5, <2>2, <2>3
<1>10. CASE \E q \in Requests : RifAttrCheck(q)
  <2>1. PICK q \in Requests : RifAttrCheck(q)
    BY <1>10
  <2>2. St' = St /\ rif' = rif
    BY <2>1, UnchangedSt DEF RifAttrCheck
  <2>3. pending' = pending \/ pending' = pending \cup {q}
    BY <2>1 DEF RifAttrCheck
  <2>4. CASE pending' = pending
    BY <1>3, <1>6, <2>2, <2>4 DEF SoundInv
  <2>5. CASE pending' = pending \cup {q} /\ pending' # pending
    <3>1. IsFiniteSet(pending \cup {q}) /\ Cardinality(pending \cup {q}) = Cardinality(pending) + 1
      BY <1>1, <2>5, FS_AddElement
    <3>2. ~(Cardinality(pending') < Cardinality(pending))
      BY <1>1, <2>5, <3>1
    <3> QED BY <1>6, <2>2, <2>5, <3>1, <3>2 DEF SoundInv, Undone
  <2> QED BY <2>3, <2>4, <2>5
<1>11. CASE \E q \in pending : CreateRif(q)
  <2>1. PICK q \in pending : CreateRif(q)
    BY <1>11
  <2>2. IsFiniteSet(pending')
    BY <1>1, <2>1, FS_RemoveElement DEF CreateRif
  <2>3. CASE Become(St)
    <3>1. UNCHANGED <<rif, l3ifPool, vifPool, hw, stats, subIfRef, sclEn, phyIfEn>>
      BY <2>3, StFact DEF Become
    <3>2. St' = St
      BY <3>1, UnchangedSt
    <3> QED BY <1>6, <2>2, <3>1, <3>2 DEF SoundInv, Undone
  <2>4. CASE ~Become(St)
    <3>1. status' = "SUCCESS" /\ \E t : Become(t) /\ Born(t)
      BY <1>1, <2>1, <2>4, CreateClean
    <3>2. PICK t : Become(t) /\ Born(t)
      BY <3>1
    <3>3. Good(t) /\ Sound(t)
      BY <3>2 DEF Born
    <3>4. PICK o : Grown(St, t, o) /\ t.rif[o].vrf \in DOMAIN vr
      BY <3>2 DEF Born
    <3>5. DOMAIN t.rif = DOMAIN rif \cup {o}
      BY <1>1, <3>4 DEF Grown
    <3>6. Sound(St') /\ rif' = t.rif
      BY <1>2, <3>2, <3>3
    <3> QED BY <2>2, <3>1, <3>4, <3>5, <3>6 DEF SoundInv, Alive, Undone
  <2> QED BY <2>3, <2>4
<1>12. CASE \E o \in Rifs : RemoveRif(o)
  <2>1. PICK o \in Rifs : RemoveRif(o)
    BY <1>12
  <2>2. pending' = pending
    BY <2>1 DEF RemoveRif
  <2> QED BY <1>1, <1>4, <2>1, <2>2, RemoveClean
<1>13. CASE \E o \in DOMAIN rif : \E new \in SetAttr(rif[o]) : SetRifAttr(o, new)
  <2>1. PICK o \in DOMAIN rif : \E new \in SetAttr(rif[o]) : SetRifAttr(o, new)
    BY <1>13
  <2>2. PICK new \in SetAttr(rif[o]) : SetRifAttr(o, new)
    BY <2>1
  <2>3. pending' = pending
    BY <2>2 DEF SetRifAttr
  <2> QED BY <1>1, <1>5, <2>2, <2>3, SetRifClean
<1>14. CASE \E i \in L3ifs, vlan \in Vlans, add \in BOOLEAN : UpdateBridgeRif(i, vlan, add)
  <2>1. PICK i \in L3ifs, vlan \in Vlans, add \in BOOLEAN : UpdateBridgeRif(i, vlan, add)
    BY <1>14
  <2>2. pending' = pending
    BY <2>1 DEF UpdateBridgeRif
  <2> QED BY <1>1, <1>5, <2>1, <2>2, UpdateBridgeClean
<1>15. CASE UNCHANGED vars
  <2>1. St' = St /\ rif' = rif /\ pending' = pending
    BY <1>15, UnchangedSt DEF vars
  <2> QED BY <1>3, <1>6, <2>1 DEF SoundInv
<1> QED BY <1>7, <1>8, <1>9, <1>10, <1>11, <1>12, <1>13, <1>14, <1>15 DEF Next

(* At the start there is nothing to be wrong. *)
LEMMA InitSound == Init => SoundInv
PROOF
<1> SUFFICES ASSUME Init PROVE SoundInv
  OBVIOUS
<1>1. /\ St.rif = << >> /\ St.l3if = {} /\ St.vif = {} /\ St.hw = << >> /\ St.stats = {}
      /\ St.ref = [p \in Ports |-> 0] /\ St.scl = {} /\ St.phy = {} /\ DOMAIN << >> = {}
  BY StFact DEF Init
<1>2. Plain(St) /\ Pooled(St) /\ Owning(St) /\ Matched(St) /\ Keyed(St)
  BY <1>1 DEF Plain, Pooled, Owning, Matched, Keyed
<1>3. Modes(St)
  <2>1. ASSUME NEW p PROVE Subs(St, p) = {} /\ Phys(St, p) = {}
    BY <1>1 DEF Subs, Phys
  <2>2. Cardinality({}) = 0
    BY FS_EmptySet
  <2> QED BY <1>1, <2>1, <2>2 DEF Modes
<1>4. IsFiniteSet(pending)
  BY FS_EmptySet DEF Init
<1> QED BY <1>2, <1>3, <1>4 DEF SoundInv, Sound

-----------------------------------------------------------------------------
(* A set of numbers handed out one to an object, none twice. *)
LEMMA ImageCounted ==
  ASSUME NEW S, IsFiniteSet(S), NEW f, \A x, y \in S : f[x] = f[y] => x = y
  PROVE  /\ IsFiniteSet({f[x] : x \in S})
         /\ Cardinality({f[x] : x \in S}) = Cardinality(S)
PROOF
<1> DEFINE T == {f[x] : x \in S}
           g == [x \in S |-> f[x]]
<1>1. g \in Bijection(S, T)
  <2>1. g \in [S -> T]
    OBVIOUS
  <2>2. \A x, y \in S : g[x] = g[y] => x = y
    OBVIOUS
  <2>3. \A z \in T : \E x \in S : g[x] = z
    OBVIOUS
  <2> HIDE DEF g, T
  <2> QED BY <2>1, <2>2, <2>3 DEF Bijection, Injection, Surjection, IsInjective
<1> HIDE DEF g, T
<1>2. ExistsBijection(S, T)
  BY <1>1 DEF ExistsBijection
<1>3. IsFiniteSet(T) /\ Cardinality(T) = Cardinality(S)
  BY <1>2, FS_Bijection
<1> QED BY <1>3 DEF T

(* What holds is what the runs check. *)
LEMMA SoundObjects ==
  ASSUME Sound(St)
  PROVE  OfL3if = DOMAIN rif /\ Real = DOMAIN rif /\ St.rif = rif
BY StFact DEF Sound, Plain, OfL3if, Real
(* The L3IF pool: as many ids as objects. *)
LEMMA SoundPools == TypeInv /\ Sound(St) /\ VifPoolExact => PoolsExact
PROOF
<1> SUFFICES ASSUME TypeInv, Sound(St), VifPoolExact PROVE PoolsExact
  OBVIOUS
<1>1. OfL3if = DOMAIN rif /\ IsFiniteSet(DOMAIN rif)
  BY SoundObjects, StFact DEF TypeInv, Good, Counted
<1>2. l3ifPool = {Id(x) : x \in DOMAIN rif} /\ \A x, y \in DOMAIN rif : Id(x) = Id(y) => x = y
  BY StFact DEF Sound, Pooled
<1>3. Cardinality({Id(x) : x \in DOMAIN rif}) = Cardinality(DOMAIN rif)
  BY <1>1, <1>2, IdsCounted
<1> QED BY <1>1, <1>2, <1>3 DEF PoolsExact
(* The two tables: an interface for an object, field by field. *)
LEMMA SoundHw == Sound(St) => HwMatchesDb
PROOF
<1> SUFFICES ASSUME Sound(St) PROVE HwMatchesDb
  OBVIOUS
<1>1. OfL3if = DOMAIN rif /\ Real = DOMAIN rif
  BY SoundObjects
<1>2. /\ DOMAIN hw \subseteq {Id(x) : x \in DOMAIN rif}
      /\ \A x \in DOMAIN rif : x[1] # "BRIDGE" => Id(x) \in DOMAIN hw
      /\ \A x \in DOMAIN rif : Id(x) \in DOMAIN hw => Matches(x, rif[x], hw[Id(x)])
  BY StFact DEF Sound, Matched, Pooled
<1> QED BY <1>1, <1>2 DEF HwMatchesDb, Matches
(* The ports: counted, looked up and in phy_if mode. *)
LEMMA SoundModes == Sound(St) => PortModeExact
PROOF
<1> SUFFICES ASSUME Sound(St) PROVE PortModeExact
  OBVIOUS
<1>1. Real = DOMAIN rif /\ \A x \in DOMAIN rif : ~rif[x].virt
  BY SoundObjects DEF Sound, Plain
<1>2. ASSUME NEW p
      PROVE  /\ Subs(St, p) = {o \in Real : o[1] = "SUB_PORT" /\ rif[o].port = p}
             /\ Phys(St, p) = {o \in Real : o[1] = "PORT" /\ rif[o].port = p}
  BY <1>1, StFact DEF Subs, Phys
<1>3. \A p \in Ports : /\ subIfRef[p] = Cardinality(Subs(St, p))
                       /\ p \in sclEn <=> Subs(St, p) # {}
                       /\ p \in phyIfEn <=> Phys(St, p) # {}
  BY StFact DEF Sound, Modes
<1> QED BY <1>2, <1>3 DEF PortModeExact
(* The statistics: two for each interface that counts. *)
LEMMA SoundStats == TypeInv /\ Sound(St) => StatsExact
PROOF
<1> SUFFICES ASSUME TypeInv, Sound(St) PROVE StatsExact
  OBVIOUS
<1> DEFINE Own == {x \in DOMAIN rif : rif[x].ing # 0}
           f == [x \in DOMAIN rif |-> rif[x].ing]
           g == [x \in DOMAIN rif |-> rif[x].egs]
           A == {f[x] : x \in Own}
           B == {g[x] : x \in Own}
<1>1. Real = DOMAIN rif /\ IsFiniteSet(DOMAIN rif)
  BY SoundObjects, StFact DEF TypeInv, Good, Counted
<1>2. /\ \A x \in DOMAIN rif : rif[x].ing # 0 <=> rif[x].egs # 0
      /\ \A x \in DOMAIN rif : rif[x].ing # 0 => rif[x].ing # rif[x].egs
  BY StFact DEF Sound, Plain
<1>3. /\ \A c : c \in stats <=> \E x \in DOMAIN rif : c \in Counters(rif[x])
      /\ \A x, y \in DOMAIN rif : x # y => Counters(rif[x]) \cap Counters(rif[y]) = {}
  BY StFact DEF Sound, Owning
<1>4. stats = (UNION {{rif[o].ing, rif[o].egs} : o \in Real}) \ {0}
  <2> DEFINE U == UNION {{rif[o].ing, rif[o].egs} : o \in Real}
  <2>1. ASSUME NEW c PROVE c \in U <=> \E x \in DOMAIN rif : c \in {rif[x].ing, rif[x].egs}
    BY <1>1
  <2> HIDE DEF U
  <2>2. ASSUME NEW c PROVE c \in stats <=> c \in U /\ c # 0
    BY <1>3, <2>1 DEF Counters
  <2>3. stats = U \ {0}
    BY <2>2
  <2> QED BY <2>3 DEF U
<1>5. stats = A \cup B
  BY <1>2, <1>3 DEF Counters
<1>6. A \cap B = {}
  BY <1>2, <1>3 DEF Counters
<1>7. IsFiniteSet(Own)
  BY <1>1, FS_Subset
<1>8. \A x, y \in Own : f[x] = f[y] => x = y
  BY <1>3 DEF Counters
<1>9. \A x, y \in Own : g[x] = g[y] => x = y
  BY <1>2, <1>3 DEF Counters
<1>10. Own = {o \in Real : rif[o].ing # 0}
  BY <1>1
<1> HIDE DEF Own, f, g
<1>11. /\ IsFiniteSet(A) /\ Cardinality(A) = Cardinality(Own)
       /\ IsFiniteSet(B) /\ Cardinality(B) = Cardinality(Own)
  BY <1>7, <1>8, <1>9, ImageCounted
<1> HIDE DEF A, B
<1>12. Cardinality(Own) \in Nat
  BY <1>7, FS_CardinalityType
<1>13. Cardinality(A \cup B) = 2 * Cardinality(Own)
  <2>1. Cardinality(A \cap B) = 0
    BY <1>6, FS_EmptySet
  <2>2. Cardinality(A \cup B) = Cardinality(A) + Cardinality(B) - Cardinality(A \cap B)
    BY <1>11, FS_Union
  <2> QED BY <1>11, <1>12, <2>1, <2>2
<1> QED BY <1>1, <1>2, <1>4, <1>5, <1>10, <1>13 DEF StatsExact

-----------------------------------------------------------------------------
(* Under the rules of Clean, whatever else fails and however the calls *)
(* interleave. First the invariant all of them rest on. *)
LEMMA AlwaysSound == Clean /\ Spec => [](TypeInv /\ SoundInv) /\ [][Alive /\ Undone]_vars
PROOF
<1>1. Spec => []TypeInv
  BY InitTyped, StepTyped, PTL DEF Spec
<1>2. Clean' <=> Clean
  BY DEF Clean
<1>3. Init => SoundInv
  BY InitSound
<1>4. Clean /\ TypeInv /\ SoundInv /\ [Next]_vars => SoundInv' /\ Alive /\ Undone
  BY StepSound
<1> QED BY <1>1, <1>2, <1>3, <1>4, PTL DEF Spec

(* No two interfaces share an id, and no id is lost: the pools hold exactly *)
(* the ids of the live objects (ctc_sai_db_alloc_id and ctc_sai_db_free_id *)
(* on every path of create_rif and remove_rif). *)
THEOREM PoolsSound == Clean /\ Spec => []PoolsExact
PROOF
<1>1. Clean => BuildsVifs
  BY DEF Clean, BuildsVifs, L3ifTypes, VifTypes
<1>2. TypeInv /\ SoundInv /\ VifPoolExact => PoolsExact
  BY SoundPools DEF SoundInv
<1> QED BY <1>1, <1>2, AlwaysSound, VifPoolSound, PTL

(* Every hardware interface has an object, every object but a bridge's has *)
(* its hardware interface, and what set_attr_hw, traverse_set and the bridge*)
(* port write there is what the object says. *)
THEOREM HwSound == Clean /\ Spec => []HwMatchesDb
PROOF
<1>1. SoundInv => HwMatchesDb
  BY SoundHw DEF SoundInv
<1> QED BY <1>1, AlwaysSound, PTL

(* The live statistics ids are exactly those of the interfaces that count, *)
(* two for each: error4, error5, error6 and remove_rif leak none. *)
THEOREM StatsSound == Clean /\ Spec => []StatsExact
PROOF
<1>1. TypeInv /\ SoundInv => StatsExact
  BY SoundStats DEF SoundInv
<1> QED BY <1>1, AlwaysSound, PTL

(* sub_if_ref_cnt is the number of sub-interfaces of the port, the SCL *)
(* lookup is on while there is one, and phy_if mode while there is a *)
(* physical interface (error5, error6 and remove_rif). *)
THEOREM ModesSound == Clean /\ Spec => []PortModeExact
PROOF
<1>1. SoundInv => PortModeExact
  BY SoundModes DEF SoundInv
<1> QED BY <1>1, AlwaysSound, PTL

(* An interface comes to life only in a virtual router that is there, though*)
(* create_rif checks it before it takes the lock. *)
THEOREM BornInLiveVr == Clean /\ Spec => CreatedInLiveVr
PROOF
<1>1. [Alive /\ Undone]_vars => [\A o \in DOMAIN rif' \ DOMAIN rif : rif'[o].vrf \in DOMAIN vr]_vars
  BY DEF Alive
<1> QED BY <1>1, AlwaysSound, PTL DEF CreatedInLiveVr

(* A create_rif that fails, at whatever call, leaves the tables, the pools, *)
(* the statistics and the modes of the ports as it found them. *)
THEOREM FailuresUndone == Clean /\ Spec => FailedCreateUndone
PROOF
<1>1. [Alive /\ Undone]_vars =>
        [status' # "SUCCESS" /\ Cardinality(pending') < Cardinality(pending) =>
           UNCHANGED <<rif, l3ifPool, vifPool, hw, stats, subIfRef, sclEn, phyIfEn>>]_vars
  BY DEF Undone
<1> QED BY <1>1, AlwaysSound, PTL DEF FailedCreateUndone
=============================================================================
