--------------------------- MODULE PlatformProofs ---------------------------
(***************************************************************************)
(* Safety theorems about the parts of Platform, for every set of objects, *)
(* ports and attribute values that satisfies the parts' assumptions. One *)
(* section per part that is not in QosProofs: its inductive invariant, the *)
(* lemma that it holds at first, one lemma per call that keeps it, and what*)
(* it gives. The theorems about Platform follow at the end, since each of *)
(* its steps is a step of one part that leaves the others alone. *)
(***************************************************************************)
EXTENDS Platform, QosProofs, FiniteSetTheorems, WellFoundedInduction, SequenceTheorems,
        TLAPS

-----------------------------------------------------------------------------
(* L2Domain *)
Insts == StpIds \cup {0}
VlanRecords ==
  [vid : Nat, stp : Insts, stats : BOOLEAN, flood : [FloodTypes -> FloodControls]]
StpRecords == [live : BOOLEAN, bits : SUBSET Nat, count : Nat]
FloodBits == [drop : BOOLEAN, copy : BOOLEAN]
DomTyped ==
  /\ vlanDb \in [Fids -> VlanRecords]
  /\ stpDb \in [StpIds -> StpRecords]
  /\ hwStp \in [Fids -> Insts]
  /\ hwFlood \in [Fids -> [FloodTypes -> FloodBits]]
  /\ missAct \in [FloodTypes -> PacketActions]
  /\ bridgeDb \subseteq Fids
(* Ids: a VLAN never has the 802.1Q number of a bridge, or the removal of *)
(* one would take the chip's VLAN from the other. *)
IdsInv ==
  /\ IdsOwned
  /\ \A f \in Vlans : vlanDb[f].vid \notin bridgeDb
(* Instances: a finite number of VLANs, which the count bounds. *)
InstInv == IsFiniteSet(Vlans) /\ InstanceKept
(* Flooding: only a VLAN has a type that was not written. *)
FloodInv == FloodExact /\ unapplied \subseteq Vlans \X FloodTypes
DomInv == DomTyped /\ IdsInv /\ InstInv /\ FloodInv

(* It holds before the first call. *)
LEMMA DomInitially == DomInit => DomInv
PROOF
<1> SUFFICES ASSUME DomInit PROVE DomInv
  OBVIOUS
<1> USE DomainAssumption
<1>1. DomTyped
  BY DEF DomInit, DomTyped, VlanRecords, StpRecords, FloodBits, NoVlan, NoStp, Quiet, Insts, FloodControls, PacketActions
<1>2. Vlans = {1} /\ vlanDb[1].vid = 1 /\ vlanDb[1].stp = 0 /\ ~vlanDb[1].stats
  BY DEF DomInit, Vlans, NoVlan
<1>3. IdsInv
  <2>1. {vlanDb[f].vid : f \in Vlans} = {1} /\ {g \in Vlans : vlanDb[g].stats} = {}
    BY <1>2
  <2>2. UNION {StatsOf(f) : f \in {g \in Vlans : vlanDb[g].stats}} = {}
    BY <2>1
  <2> QED BY <1>2, <2>1, <2>2 DEF DomInit, IdsInv, IdsOwned
<1>4. InstInv
  <2>1. \A s \in StpIds : {f \in Vlans : vlanDb[f].stp = s} = {}
    BY <1>2
  <2>2. IsFiniteSet(Vlans)
    BY <1>2, FS_Singleton
  <2>3. \A f \in Vlans : StpFound(vlanDb[f].stp) /\ hwStp[f] = vlanDb[f].stp
    BY <1>2 DEF DomInit, StpFound
  <2>4. Cardinality({}) = 0
    BY FS_EmptySet
  <2>5. \A s \in StpIds : stpDb[s].count = 0
    BY DEF DomInit, NoStp
  <2>6. \A s \in StpIds : stpDb[s].count >= Cardinality({f \in Vlans : vlanDb[f].stp = s})
    <3>1. \A s \in StpIds : Cardinality({f \in Vlans : vlanDb[f].stp = s}) = 0
      BY <2>1, <2>4
    <3> QED BY <2>5, <3>1
  <2> QED BY <2>2, <2>3, <2>6 DEF InstInv, InstanceKept
<1>5. FloodInv
  BY <1>2 DEF DomInit, FloodInv, FloodExact
<1> QED BY <1>1, <1>3, <1>4, <1>5 DEF DomInv

(* A counter is out exactly for a VLAN that counts. *)
LEMMA CountersOwned ==
  (hwStats = UNION {StatsOf(f) : f \in {g \in Vlans : vlanDb[g].stats}})
    <=> \A x : x \in hwStats <=> \E f \in Vlans : vlanDb[f].stats /\ x \in StatsOf(f)
OBVIOUS

-----------------------------------------------------------------------------
(* create_vlan as far as it goes to the end. *)
Made(f, vid, stats, s, flood) ==
  /\ f \notin fidPool /\ vid \notin hwVlan /\ StpFound(s)
  /\ vlanDb' = [vlanDb EXCEPT ![f] =
       [vid |-> vid, stp |-> s, stats |-> stats,
        flood |-> [t \in FloodTypes |-> IF t \in DOMAIN flood THEN flood[t] ELSE "ALL"]]]
  /\ stpDb' = Bind(stpDb, vid, s)
  /\ hwStp' = [hwStp EXCEPT ![f] = s]
  /\ fidPool' = fidPool \cup {f} /\ hwVlan' = hwVlan \cup {vid}
  /\ hwStats' = IF stats THEN hwStats \cup StatsOf(f) ELSE hwStats
  /\ hwFlood' = [hwFlood EXCEPT ![f] = [t \in FloodTypes |->
       IF t \in DOMAIN flood THEN UnknownPktAction(missAct[t], flood[t]) ELSE Quiet]]
  /\ unapplied' = unapplied \cup ({f} \X (FloodTypes \ DOMAIN flood))
  /\ UNCHANGED <<bridgeDb, freed, missAct>>

(* Binding counts one more, unbinding one less. *)
LEMMA BindTyped ==
  ASSUME NEW db \in [StpIds -> StpRecords], NEW vid \in Nat, NEW s \in Insts
  PROVE  /\ Bind(db, vid, s) \in [StpIds -> StpRecords]
         /\ \A r \in StpIds : /\ Bind(db, vid, s)[r].live = db[r].live
                              /\ Bind(db, vid, s)[r].count = IF r = s THEN db[r].count + 1 ELSE db[r].count
PROOF
<1> USE DomainAssumption
<1>1. CASE s = 0
  BY <1>1 DEF Bind
<1>2. CASE s # 0
  BY <1>2 DEF Bind, StpRecords, Insts
<1> QED BY <1>1, <1>2

(* Unbinding a VLAN that is counted takes one from the count. *)
LEMMA UnbindTyped ==
  ASSUME NEW db \in [StpIds -> StpRecords], NEW vid \in Nat, NEW s \in Insts,
         s # 0 => db[s].count > 0
  PROVE  /\ Unbind(db, vid, s) \in [StpIds -> StpRecords]
         /\ \A r \in StpIds : /\ Unbind(db, vid, s)[r].live = db[r].live
                              /\ Unbind(db, vid, s)[r].count = IF r = s THEN db[r].count - 1 ELSE db[r].count
PROOF
<1> USE DomainAssumption
<1>1. CASE s = 0
  BY <1>1 DEF Unbind
<1>2. CASE s # 0
  BY <1>2 DEF Unbind, StpRecords, Insts
<1> QED BY <1>1, <1>2

(* What the chip is told to do with an unknown packet is a drop bit and a *)
(* copy bit. *)
LEMMA ActionBits ==
  ASSUME NEW a, NEW c
  PROVE  UnknownPktAction(a, c) \in FloodBits
BY DEF UnknownPktAction, FloodBits

(* A VLAN is put in an instance by the count first. *)
Of(s) == {f \in Vlans : vlanDb[f].stp = s}

(* No STP instance counts fewer VLANs than are in it. *)
LEMMA Occupied ==
  ASSUME DomInv
  PROVE  \A s \in StpIds : /\ IsFiniteSet(Of(s)) /\ Cardinality(Of(s)) \in Nat
                           /\ stpDb[s].count >= Cardinality(Of(s)) /\ stpDb[s].count \in Nat
                           /\ Of(s) # {} => Cardinality(Of(s)) > 0
PROOF
<1>1. \A s \in StpIds : IsFiniteSet(Of(s))
  BY FS_Subset DEF DomInv, InstInv, Of
<1>2. \A s \in StpIds : Cardinality(Of(s)) \in Nat /\ (Of(s) # {} => Cardinality(Of(s)) # 0)
  BY <1>1, FS_CardinalityType, FS_EmptySet
<1>3. \A s \in StpIds : stpDb[s].count \in Nat /\ stpDb[s].count >= Cardinality(Of(s))
  BY DEF DomInv, InstInv, InstanceKept, DomTyped, StpRecords, Of
<1> QED BY <1>1, <1>2, <1>3

(* A VLAN that is made keeps the invariant. *)
LEMMA MadeKeeps ==
  ASSUME DomInv, NEW f \in Fids, NEW vid \in Vids, NEW stats \in BOOLEAN, NEW s \in Insts,
         NEW T \in SUBSET FloodTypes, NEW flood \in [T -> FloodControls],
         Made(f, vid, stats, s, flood)
  PROVE  DomInv'
PROOF
<1> USE DomainAssumption
<1> DEFINE fl == [t \in FloodTypes |-> IF t \in DOMAIN flood THEN flood[t] ELSE "ALL"]
           r == [vid |-> vid, stp |-> s, stats |-> stats, flood |-> fl]
<1>1. r \in VlanRecords /\ vid \in Nat \ {0}
  BY DEF VlanRecords, FloodControls
<1>2. DomTyped'
  <2>1. vlanDb' \in [Fids -> VlanRecords]
    BY <1>1 DEF Made, DomInv, DomTyped
  <2>2. stpDb' \in [StpIds -> StpRecords]
    BY <1>1, BindTyped DEF Made, DomInv, DomTyped
  <2>3. hwFlood' \in [Fids -> [FloodTypes -> FloodBits]]
    BY ActionBits DEF Made, DomInv, DomTyped, Quiet, FloodBits
  <2> QED BY <2>1, <2>2, <2>3 DEF Made, DomInv, DomTyped
<1>3. Vlans' = Vlans \cup {f} /\ f \notin Vlans /\ f \notin bridgeDb
  BY <1>1 DEF Made, DomInv, DomTyped, IdsInv, IdsOwned, Vlans
<1>4. /\ vlanDb'[f].vid = vid /\ vlanDb'[f].stp = s /\ vlanDb'[f].stats = stats
      /\ \A g \in Fids \ {f} : vlanDb'[g] = vlanDb[g] /\ hwStp'[g] = hwStp[g]
      /\ hwStp'[f] = s
  BY DEF Made, DomInv, DomTyped
<1>5. Vlans \subseteq Fids
  BY DEF Vlans
<1>6. IdsInv'
  <2>1. hwVlan' = {vlanDb'[g].vid : g \in Vlans'} \cup bridgeDb'
    BY <1>3, <1>4, <1>5 DEF Made, DomInv, IdsInv, IdsOwned
  <2>2. \A g, h \in Vlans' : vlanDb'[g].vid = vlanDb'[h].vid => g = h
    BY <1>3, <1>4, <1>5 DEF Made, DomInv, IdsInv, IdsOwned
  <2>3. \A x : x \in hwStats' <=> \E g \in Vlans' : vlanDb'[g].stats /\ x \in StatsOf(g)
    BY <1>3, <1>4, <1>5, CountersOwned DEF Made, DomInv, IdsInv, IdsOwned
  <2>4. hwStats' = UNION {StatsOf(g) : g \in {h \in Vlans' : vlanDb'[h].stats}}
    BY <2>3
  <2>5. \A g \in Vlans' : vlanDb'[g].vid \notin bridgeDb'
    BY <1>3, <1>4, <1>5 DEF Made, DomInv, IdsInv, IdsOwned
  <2>6. fidPool' = Vlans' \cup bridgeDb' /\ Vlans' \cap bridgeDb' = {}
    BY <1>3 DEF Made, DomInv, IdsInv, IdsOwned
  <2> QED BY <2>1, <2>2, <2>4, <2>5, <2>6 DEF IdsInv, IdsOwned
<1>7. InstInv'
  <2>1. IsFiniteSet(Vlans')
    BY <1>3, FS_AddElement DEF DomInv, InstInv
  <2>2. \A g \in Vlans' : (vlanDb'[g].stp # 0 => stpDb'[vlanDb'[g].stp].live) /\ hwStp'[g] = vlanDb'[g].stp
    <3>1. \A q \in StpIds : stpDb'[q].live = stpDb[q].live
      BY <1>1, BindTyped DEF Made, DomInv, DomTyped
    <3>2. \A g \in Vlans : vlanDb[g].stp \in Insts
      BY <1>5 DEF DomInv, DomTyped, VlanRecords
    <3> QED BY <1>3, <1>4, <1>5, <3>1, <3>2, ZenonT(40) DEF Made, DomInv, InstInv, InstanceKept, StpFound, Insts
  <2>3. ASSUME NEW q \in StpIds PROVE stpDb'[q].count >= Cardinality(Of(q)')
    <3>1. Of(q)' = IF q = s THEN Of(q) \cup {f} ELSE Of(q)
      BY <1>3, <1>4, <1>5 DEF Of
    <3>2. f \notin Of(q)
      BY <1>3 DEF Of
    <3>3. Cardinality(Of(q) \cup {f}) = Cardinality(Of(q)) + 1
      BY <3>2, Occupied, FS_AddElement
    <3> QED BY <1>1, <3>1, <3>3, Occupied, BindTyped, SMTT(30) DEF Made, DomInv, DomTyped
  <2> QED BY <2>1, <2>2, <2>3 DEF InstInv, InstanceKept, StpFound, Of
<1>8. FloodInv'
  <2>1. \A t \in FloodTypes : <<f, t>> \notin unapplied
    BY <1>3 DEF DomInv, FloodInv
  <2>2. ASSUME NEW t \in FloodTypes
        PROVE  hwFlood'[f][t] = IF <<f, t>> \in unapplied' THEN Quiet
                                ELSE UnknownPktAction(missAct'[t], vlanDb'[f].flood[t])
    <3>1. vlanDb'[f].flood[t] = IF t \in DOMAIN flood THEN flood[t] ELSE "ALL"
      BY DEF Made, DomInv, DomTyped
    <3>2. hwFlood'[f][t] = IF t \in DOMAIN flood THEN UnknownPktAction(missAct[t], flood[t]) ELSE Quiet
      BY DEF Made, DomInv, DomTyped
    <3>3. <<f, t>> \in unapplied' <=> t \notin DOMAIN flood
      BY <2>1 DEF Made
    <3> QED BY <3>1, <3>2, <3>3 DEF Made
  <2>3. ASSUME NEW g \in Vlans, NEW t \in FloodTypes
        PROVE  hwFlood'[g][t] = IF <<g, t>> \in unapplied' THEN Quiet
                                ELSE UnknownPktAction(missAct'[t], vlanDb'[g].flood[t])
    BY <1>3, <1>4, <1>5 DEF Made, DomInv, DomTyped, FloodInv, FloodExact
  <2>4. unapplied' \subseteq Vlans' \X FloodTypes
    BY <1>3 DEF Made, DomInv, FloodInv
  <2> QED BY <1>3, <2>2, <2>3, <2>4 DEF FloodInv, FloodExact
<1> QED BY <1>2, <1>6, <1>7, <1>8 DEF DomInv

(* remove_vlan. *)
LEMMA RemoveVlanKeeps ==
  ASSUME DomInv, NEW f \in Fids, RemoveVlan(f)
  PROVE  DomInv'
PROOF
<1> USE DomainAssumption
<1>1. NoVlan \in VlanRecords /\ vlanDb[f] \in VlanRecords
  BY DEF VlanRecords, FloodControls, NoVlan, Insts, DomInv, DomTyped
<1>2. /\ f \in Vlans /\ Vlans' = Vlans \ {f} /\ Vlans \subseteq Fids
      /\ \A g \in Fids \ {f} : vlanDb'[g] = vlanDb[g]
  BY <1>1 DEF RemoveVlan, DomInv, DomTyped, Vlans, NoVlan
<1> DEFINE s == vlanDb[f].stp
<1>3. s # 0 => stpDb[s].count > 0 /\ f \in Of(s)
  <2>1. s \in Insts /\ (s # 0 => s \in StpIds) /\ f \in Of(s)
    BY <1>1, <1>2 DEF Of, VlanRecords, Insts
  <2> QED BY <2>1, Occupied
<1>4. /\ stpDb' \in [StpIds -> StpRecords]
      /\ \A q \in StpIds : /\ stpDb'[q].live = stpDb[q].live
                           /\ stpDb'[q].count = IF q = s THEN stpDb[q].count - 1 ELSE stpDb[q].count
  BY <1>1, <1>3, UnbindTyped DEF RemoveVlan, DomInv, DomTyped, VlanRecords
<1>5. DomTyped'
  BY <1>1, <1>4 DEF RemoveVlan, DomInv, DomTyped
<1>6. IdsInv'
  <2>1. hwVlan' = {vlanDb'[g].vid : g \in Vlans'} \cup bridgeDb'
    BY <1>2 DEF RemoveVlan, DomInv, IdsInv, IdsOwned
  <2>2. \A x : x \in hwStats' <=> \E g \in Vlans' : vlanDb'[g].stats /\ x \in StatsOf(g)
    BY <1>2, CountersOwned DEF RemoveVlan, DomInv, IdsInv, IdsOwned, StatsOf
  <2>3. hwStats' = UNION {StatsOf(g) : g \in {h \in Vlans' : vlanDb'[h].stats}}
    BY <2>2
  <2>4. fidPool' = Vlans' \cup bridgeDb' /\ Vlans' \cap bridgeDb' = {}
    BY <1>2 DEF RemoveVlan, DomInv, IdsInv, IdsOwned
  <2>5. /\ \A g, h \in Vlans' : vlanDb'[g].vid = vlanDb'[h].vid => g = h
        /\ \A g \in Vlans' : vlanDb'[g].vid \notin bridgeDb'
    BY <1>2 DEF RemoveVlan, DomInv, IdsInv, IdsOwned
  <2> QED BY <2>1, <2>3, <2>4, <2>5 DEF IdsInv, IdsOwned
<1>7. InstInv'
  <2>1. IsFiniteSet(Vlans')
    BY <1>2, FS_RemoveElement DEF DomInv, InstInv
  <2>2. \A g \in Vlans' : (vlanDb'[g].stp # 0 => stpDb'[vlanDb'[g].stp].live) /\ hwStp'[g] = vlanDb'[g].stp
    BY <1>1, <1>2, <1>4, ZenonT(40) DEF RemoveVlan, DomInv, DomTyped, InstInv, InstanceKept, StpFound, Insts, VlanRecords
  <2>3. ASSUME NEW q \in StpIds PROVE stpDb'[q].count >= Cardinality(Of(q)')
    <3>1. Of(q)' = Of(q) \ {f} /\ (q # s => f \notin Of(q))
      BY <1>2 DEF Of
    <3>2. CASE q = s
      <4>1. Cardinality(Of(q) \ {f}) = Cardinality(Of(q)) - 1
        BY <1>3, <3>2, Occupied, FS_RemoveElement, DomainAssumption
      <4> QED BY <1>4, <3>1, <3>2, <4>1, Occupied
    <3>3. CASE q # s
      <4>1. Of(q)' = Of(q)
        BY <3>1, <3>3
      <4> QED BY <1>4, <3>3, <4>1, Occupied
    <3> QED BY <3>2, <3>3
  <2> QED BY <2>1, <2>2, <2>3 DEF InstInv, InstanceKept, StpFound, Of
<1>8. FloodInv'
  BY <1>2 DEF RemoveVlan, DomInv, FloodInv, FloodExact
<1> QED BY <1>5, <1>6, <1>7, <1>8 DEF DomInv

(* The attributes leave the ids alone: the VLANs, their numbers, the chip's *)
(* VLANs. *)
LEMMA SetVlanStpKeeps ==
  ASSUME DomInv, NEW f \in Fids, NEW s \in Insts, SetVlanStp(f, s)
  PROVE  DomInv'
PROOF
<1> USE DomainAssumption
<1>1. vlanDb[f] \in VlanRecords /\ vlanDb' \in [Fids -> VlanRecords]
  BY DEF SetVlanStp, DomInv, DomTyped, VlanRecords
<1>2. /\ f \in Vlans /\ Vlans' = Vlans /\ Vlans \subseteq Fids
      /\ \A g \in Fids \ {f} : vlanDb'[g] = vlanDb[g]
      /\ \A g \in Fids : /\ vlanDb'[g].vid = vlanDb[g].vid /\ vlanDb'[g].stats = vlanDb[g].stats
                         /\ vlanDb'[g].flood = vlanDb[g].flood
      /\ vlanDb'[f].stp = s
  BY DEF SetVlanStp, DomInv, DomTyped, Vlans, VlanRecords
<1>3. /\ stpDb' \in [StpIds -> StpRecords]
      /\ \A q \in StpIds : /\ stpDb'[q].live = stpDb[q].live
                           /\ stpDb'[q].count = IF q = s THEN stpDb[q].count + 1 ELSE stpDb[q].count
  <2>1. stpDb' = Bind(stpDb, vlanDb[f].vid, s) /\ stpDb \in [StpIds -> StpRecords]
    BY DEF SetVlanStp, DomInv, DomTyped
  <2>2. vlanDb[f].vid \in Nat
    BY <1>1 DEF VlanRecords
  <2>3. PICK v \in Nat : v = vlanDb[f].vid
    BY <2>2
  <2> QED BY <2>1, <2>3, BindTyped
<1>4. DomTyped'
  BY <1>1, <1>3 DEF SetVlanStp, DomInv, DomTyped
<1>5. IdsInv'
  <2>1. {vlanDb'[g].vid : g \in Vlans'} = {vlanDb[g].vid : g \in Vlans}
    BY <1>2
  <2>2. {g \in Vlans' : vlanDb'[g].stats} = {g \in Vlans : vlanDb[g].stats}
    BY <1>2
  <2> QED BY <1>2, <2>1, <2>2 DEF SetVlanStp, DomInv, IdsInv, IdsOwned
<1>6. InstInv'
  <2>2. \A g \in Vlans' : (vlanDb'[g].stp # 0 => stpDb'[vlanDb'[g].stp].live) /\ hwStp'[g] = vlanDb'[g].stp
    BY <1>1, <1>2, <1>3 DEF SetVlanStp, DomInv, DomTyped, InstInv, InstanceKept, StpFound, Insts, VlanRecords
  <2>3. ASSUME NEW q \in StpIds PROVE stpDb'[q].count >= Cardinality(Of(q)')
    <3>1. CASE q = s
      <4>1. Of(q)' = Of(q) \cup {f}
        BY <1>2, <3>1 DEF Of
      <4>2. /\ Cardinality(Of(q) \cup {f}) = IF f \in Of(q) THEN Cardinality(Of(q))
                                              ELSE Cardinality(Of(q)) + 1
            /\ Cardinality(Of(q)) \in Nat
        BY Occupied, FS_AddElement
      <4>3. stpDb'[q].count = stpDb[q].count + 1 /\ stpDb[q].count >= Cardinality(Of(q))
            /\ stpDb[q].count \in Nat
        BY <1>3, <3>1, Occupied
      <4> QED BY <4>1, <4>2, <4>3
    <3>2. CASE q # s
      <4>1. Of(q)' \subseteq Of(q)
        BY <1>2, <3>2 DEF Of
      <4>2. Cardinality(Of(q)') <= Cardinality(Of(q)) /\ Cardinality(Of(q)') \in Nat
        BY <4>1, Occupied, FS_Subset, FS_CardinalityType
      <4>3. stpDb'[q].count = stpDb[q].count /\ stpDb[q].count >= Cardinality(Of(q))
            /\ stpDb[q].count \in Nat /\ Cardinality(Of(q)) \in Nat
        BY <1>3, <3>2, Occupied
      <4> QED BY <4>2, <4>3
    <3> QED BY <3>1, <3>2
  <2> QED BY <1>2, <2>2, <2>3 DEF DomInv, InstInv, InstanceKept, StpFound, Of
<1>7. FloodInv'
  BY <1>2 DEF SetVlanStp, DomInv, FloodInv, FloodExact
<1> QED BY <1>4, <1>5, <1>6, <1>7 DEF DomInv

(* What the other attributes, which write no instance, leave alone. *)
SameInsts ==
  /\ Vlans' = Vlans /\ UNCHANGED <<stpDb, hwStp, bridgeDb, fidPool, hwVlan>>
  /\ \A g \in Vlans : vlanDb'[g].vid = vlanDb[g].vid /\ vlanDb'[g].stp = vlanDb[g].stp

(* A call that leaves VLANs, STP instances and their counts alone. *)
LEMMA SameInstsKeep ==
  ASSUME DomInv, SameInsts
  PROVE  /\ InstInv'
         /\ hwStats' = UNION {StatsOf(f) : f \in {g \in Vlans' : vlanDb'[g].stats}} => IdsInv'
PROOF
<1>1. \A q : {f \in Vlans' : vlanDb'[f].stp = q} = {f \in Vlans : vlanDb[f].stp = q}
  BY DEF SameInsts
<1>2. \A s : StpFound(s)' <=> StpFound(s)
  BY DEF SameInsts, StpFound
<1>3. {vlanDb'[g].vid : g \in Vlans'} = {vlanDb[g].vid : g \in Vlans}
  BY DEF SameInsts
<1> QED BY <1>1, <1>2, <1>3, SMTT(30) DEF SameInsts, DomInv, InstInv, InstanceKept, IdsInv, IdsOwned

(* The flood control of a VLAN. *)
LEMMA SetVlanFloodKeeps ==
  ASSUME DomInv, NEW f \in Fids, NEW t \in FloodTypes, NEW c \in FloodControls, SetVlanFlood(f, t, c)
  PROVE  DomInv'
PROOF
<1>1. vlanDb[f] \in VlanRecords /\ vlanDb' \in [Fids -> VlanRecords]
  BY DEF SetVlanFlood, DomInv, DomTyped, VlanRecords
<1>2. /\ f \in Vlans /\ Vlans' = Vlans /\ Vlans \subseteq Fids
      /\ \A g \in Fids : /\ vlanDb'[g].vid = vlanDb[g].vid /\ vlanDb'[g].stats = vlanDb[g].stats
                         /\ vlanDb'[g].stp = vlanDb[g].stp
                         /\ vlanDb'[g].flood = IF g = f THEN [vlanDb[f].flood EXCEPT ![t] = c] ELSE vlanDb[g].flood
  BY DEF SetVlanFlood, DomInv, DomTyped, Vlans, VlanRecords
<1>3. DomTyped'
  BY <1>1, ActionBits DEF SetVlanFlood, DomInv, DomTyped
<1>4. SameInsts
  BY <1>2 DEF SetVlanFlood, SameInsts
<1>5. {g \in Vlans' : vlanDb'[g].stats} = {g \in Vlans : vlanDb[g].stats}
  BY <1>2
<1>6. IdsInv' /\ InstInv'
  BY <1>4, <1>5, SameInstsKeep DEF SetVlanFlood, DomInv, IdsInv, IdsOwned
<1>7. FloodInv'
  <2>1. unapplied' \subseteq Vlans' \X FloodTypes
    BY <1>2 DEF SetVlanFlood, DomInv, FloodInv
  <2>2. ASSUME NEW g \in Vlans, NEW u \in FloodTypes
        PROVE  hwFlood'[g][u] = IF <<g, u>> \in unapplied' THEN Quiet
                                ELSE UnknownPktAction(missAct'[u], vlanDb'[g].flood[u])
    <3>1. vlanDb[f].flood \in [FloodTypes -> FloodControls]
      BY <1>1 DEF VlanRecords
    <3>2. hwFlood'[g][u] = IF g = f /\ u = t THEN UnknownPktAction(missAct[t], c) ELSE hwFlood[g][u]
      BY <1>2 DEF SetVlanFlood, DomInv, DomTyped
    <3>3. vlanDb'[g].flood[u] = IF g = f /\ u = t THEN c ELSE vlanDb[g].flood[u]
      BY <1>2, <3>1
    <3>4. <<g, u>> \in unapplied' <=> <<g, u>> \in unapplied /\ ~(g = f /\ u = t)
      BY DEF SetVlanFlood
    <3> QED BY <3>2, <3>3, <3>4 DEF SetVlanFlood, DomInv, FloodInv, FloodExact
  <2> QED BY <1>2, <2>1, <2>2 DEF FloodInv, FloodExact
<1> QED BY <1>3, <1>6, <1>7 DEF DomInv

(* The statistics of a VLAN. *)
LEMMA SetVlanStatsKeeps ==
  ASSUME DomInv, NEW f \in Fids, NEW on \in BOOLEAN, SetVlanStats(f, on)
  PROVE  DomInv'
PROOF
<1>1. vlanDb[f] \in VlanRecords /\ vlanDb' \in [Fids -> VlanRecords]
  BY DEF SetVlanStats, DomInv, DomTyped, VlanRecords
<1>2. /\ f \in Vlans /\ Vlans' = Vlans /\ Vlans \subseteq Fids
      /\ \A g \in Fids : /\ vlanDb'[g].vid = vlanDb[g].vid /\ vlanDb'[g].flood = vlanDb[g].flood
                         /\ vlanDb'[g].stp = vlanDb[g].stp
                         /\ vlanDb'[g].stats = IF g = f THEN on ELSE vlanDb[g].stats
  BY DEF SetVlanStats, DomInv, DomTyped, Vlans, VlanRecords
<1>3. DomTyped'
  BY <1>1 DEF SetVlanStats, DomInv, DomTyped
<1>4. SameInsts
  BY <1>2 DEF SetVlanStats, SameInsts
<1>5. \A x : x \in hwStats' <=> \E g \in Vlans' : vlanDb'[g].stats /\ x \in StatsOf(g)
  BY <1>2, CountersOwned DEF SetVlanStats, DomInv, IdsInv, IdsOwned, StatsOf
<1>6. hwStats' = UNION {StatsOf(g) : g \in {h \in Vlans' : vlanDb'[h].stats}}
  BY <1>5
<1>7. IdsInv' /\ InstInv'
  BY <1>4, <1>6, SameInstsKeep
<1>8. FloodInv'
  BY <1>2 DEF SetVlanStats, DomInv, FloodInv, FloodExact
<1> QED BY <1>3, <1>7, <1>8 DEF DomInv

(* The miss action of the switch, applied to every VLAN. *)
LEMMA SetMissActionKeeps ==
  ASSUME DomInv, NEW t \in FloodTypes, NEW a \in MissActs, SetMissAction(t, a)
  PROVE  DomInv'
PROOF
<1>1. DomTyped'
  BY ActionBits, DomainAssumption DEF SetMissAction, DomInv, DomTyped
<1>2. Vlans' = Vlans /\ Vlans \subseteq Fids /\ vlanDb' = vlanDb
  BY DEF SetMissAction, Vlans
<1>3. SameInsts
  BY <1>2 DEF SetMissAction, SameInsts
<1>4. IdsInv' /\ InstInv'
  BY <1>2, <1>3, SameInstsKeep DEF SetMissAction, DomInv, IdsInv, IdsOwned
<1>5. FloodInv'
  <2>1. unapplied' \subseteq Vlans' \X FloodTypes
    BY <1>2 DEF SetMissAction, DomInv, FloodInv
  <2>2. ASSUME NEW g \in Vlans, NEW u \in FloodTypes
        PROVE  hwFlood'[g][u] = IF <<g, u>> \in unapplied' THEN Quiet
                                ELSE UnknownPktAction(missAct'[u], vlanDb'[g].flood[u])
    <3>1. hwFlood'[g][u] = IF u = t THEN UnknownPktAction(a, vlanDb[g].flood[t]) ELSE hwFlood[g][u]
      BY <1>2 DEF SetMissAction, DomInv, DomTyped
    <3>2. missAct'[u] = IF u = t THEN a ELSE missAct[u]
      BY DEF SetMissAction, DomInv, DomTyped
    <3>3. <<g, u>> \in unapplied' <=> <<g, u>> \in unapplied /\ u # t
      BY DEF SetMissAction
    <3> QED BY <1>2, <3>1, <3>2, <3>3 DEF DomInv, FloodInv, FloodExact
  <2> QED BY <1>2, <2>1, <2>2 DEF FloodInv, FloodExact
<1> QED BY <1>1, <1>4, <1>5 DEF DomInv

(* Bridges: their fids are no VLANs'. *)
LEMMA BridgesKeep ==
  ASSUME DomInv, NEW f \in Fids, CreateBridge(f) \/ RemoveBridge(f)
  PROVE  DomInv'
PROOF
<1>1. CASE UNCHANGED domVars
  BY <1>1 DEF domVars, DomInv, DomTyped, IdsInv, IdsOwned, InstInv, InstanceKept, FloodInv, FloodExact,
       Vlans, StpFound
<1>2. CASE ~UNCHANGED domVars
  <2>1. /\ UNCHANGED <<vlanDb, stpDb, missAct, hwStp, hwStats, unapplied>>
        /\ Vlans' = Vlans /\ Vlans \subseteq Fids
    BY <1>2 DEF CreateBridge, RemoveBridge, Vlans
  <2>2. \A g \in Vlans : hwFlood'[g] = hwFlood[g]
    <3>1. f \notin fidPool => f \notin Vlans
      BY DEF DomInv, IdsInv, IdsOwned
    <3> QED BY <1>2, <2>1, <3>1 DEF CreateBridge, RemoveBridge, DomInv, DomTyped
  <2>3. DomTyped'
    <3>1. [t \in FloodTypes |-> Quiet] \in [FloodTypes -> FloodBits]
      BY DEF Quiet, FloodBits
    <3>2. hwFlood' \in [Fids -> [FloodTypes -> FloodBits]]
      BY <1>2, <3>1 DEF CreateBridge, RemoveBridge, DomInv, DomTyped
    <3> QED BY <1>2, <3>2 DEF CreateBridge, RemoveBridge, DomInv, DomTyped
  <2>4. InstInv'
    BY <2>1 DEF DomInv, InstInv, InstanceKept, StpFound
  <2>5. IdsInv'
    BY <1>2, <2>1 DEF CreateBridge, RemoveBridge, DomInv, IdsInv, IdsOwned
  <2>6. FloodInv'
    BY <2>1, <2>2 DEF DomInv, FloodInv, FloodExact
  <2> QED BY <2>3, <2>4, <2>5, <2>6 DEF DomInv
<1> QED BY <1>1, <1>2

(* The flood control of a bridge. *)
LEMMA SetBridgeFloodKeeps ==
  ASSUME DomInv, NEW f \in Fids, NEW t \in FloodTypes, NEW c \in FloodControls, SetBridgeFlood(f, t, c)
  PROVE  DomInv'
PROOF
<1>1. f \notin Vlans /\ Vlans' = Vlans /\ Vlans \subseteq Fids
  BY DEF SetBridgeFlood, DomInv, IdsInv, IdsOwned, Vlans
<1>2. DomTyped'
  <2>1. [hwFlood[f][t] EXCEPT !.drop = (c = "NONE")] \in FloodBits
    <3>1. PICK x \in FloodBits : x = hwFlood[f][t]
      BY DEF DomInv, DomTyped
    <3>2. (c = "NONE") \in BOOLEAN
      OBVIOUS
    <3> QED BY <3>1, <3>2, Zenon DEF FloodBits
  <2>2. hwFlood' \in [Fids -> [FloodTypes -> FloodBits]]
    BY <2>1 DEF SetBridgeFlood, DomInv, DomTyped
  <2> QED BY <2>2 DEF SetBridgeFlood, DomInv, DomTyped
<1>3. \A g \in Vlans : hwFlood'[g] = hwFlood[g]
  BY <1>1 DEF SetBridgeFlood, DomInv, DomTyped
<1>4. SameInsts
  BY <1>1 DEF SetBridgeFlood, SameInsts
<1>5. IdsInv' /\ InstInv'
  BY <1>1, <1>4, SameInstsKeep DEF SetBridgeFlood, DomInv, IdsInv, IdsOwned
<1>6. FloodInv'
  BY <1>1, <1>3 DEF SetBridgeFlood, DomInv, FloodInv, FloodExact
<1> QED BY <1>2, <1>5, <1>6 DEF DomInv

(* remove_stp: a count of zero means that no VLAN is in the instance. *)
LEMMA StpKeeps ==
  ASSUME DomInv, NEW s \in StpIds, CreateStp(s) \/ RemoveStp(s)
  PROVE  DomInv'
PROOF
<1> USE DomainAssumption
<1>1. /\ UNCHANGED <<vlanDb, bridgeDb, freed, fidPool, missAct, hwVlan, hwFlood, hwStp, hwStats, unapplied>>
      /\ Vlans' = Vlans
  BY DEF CreateStp, RemoveStp, Vlans
<1>2. DomTyped'
  <2>1. NoStp \in StpRecords /\ [NoStp EXCEPT !.live = TRUE] \in StpRecords
    BY DEF NoStp, StpRecords
  <2> QED BY <2>1, ZenonT(40) DEF CreateStp, RemoveStp, DomInv, DomTyped
<1>3. Of(s) = {} 
  <2>1. CASE CreateStp(s)
    BY <2>1 DEF CreateStp, DomInv, InstInv, InstanceKept, StpFound, Of
  <2>2. CASE RemoveStp(s)
    BY <2>2, Occupied DEF RemoveStp
  <2> QED BY <2>1, <2>2
<1>4. /\ \A q \in StpIds \ {s} : stpDb'[q] = stpDb[q]
      /\ stpDb'[s].count = 0
  BY DEF CreateStp, RemoveStp, NoStp, DomInv, DomTyped
<1>5. InstInv'
  <2>1. \A g \in Vlans' : (vlanDb'[g].stp # 0 => stpDb'[vlanDb'[g].stp].live) /\ hwStp'[g] = vlanDb'[g].stp
    <3>1. \A g \in Vlans : vlanDb[g].stp \in Insts /\ vlanDb[g].stp # s
      BY <1>3 DEF Of, DomInv, DomTyped, Vlans, VlanRecords
    <3> QED BY <1>1, <1>4, <3>1 DEF DomInv, InstInv, InstanceKept, StpFound, Insts
  <2>2. ASSUME NEW q \in StpIds PROVE stpDb'[q].count >= Cardinality(Of(q)')
    <3>1. Of(q)' = Of(q)
      BY <1>1 DEF Of
    <3> QED BY <1>3, <1>4, <3>1, Occupied, FS_EmptySet
  <2> QED BY <1>1, <2>1, <2>2 DEF DomInv, InstInv, InstanceKept, StpFound, Of
<1>6. IdsInv' /\ FloodInv'
  BY <1>1 DEF DomInv, IdsInv, IdsOwned, FloodInv, FloodExact
<1> QED BY <1>2, <1>5, <1>6 DEF DomInv

(* Every call on VLANs, bridges and STP instances keeps the invariant. *)
LEMMA DomCallsKeep == DomInv /\ [DomNext]_domVars => DomInv'
PROOF
<1> SUFFICES ASSUME DomInv, [DomNext]_domVars PROVE DomInv'
  OBVIOUS
<1>1. CASE UNCHANGED domVars
  BY <1>1 DEF domVars, DomInv, DomTyped, IdsInv, IdsOwned, InstInv, InstanceKept, FloodInv, FloodExact,
       Vlans, StpFound
<1>2. ASSUME NEW f \in Fids, NEW v \in Vids, NEW early \in BOOLEAN, NEW stats \in BOOLEAN,
             NEW s \in StpIds \cup {0}, NEW T \in SUBSET FloodTypes, NEW flood \in [T -> FloodControls],
             CreateVlan(f, v, early, stats, s, flood)
      PROVE  DomInv'
  <2>1. CASE UNCHANGED domVars
    BY <1>1, <2>1
  <2>2. CASE UNCHANGED <<vlanDb, bridgeDb, stpDb, fidPool, missAct, hwVlan, hwFlood, hwStp, hwStats, unapplied>>
    BY <2>2 DEF DomInv, DomTyped, IdsInv, IdsOwned, InstInv, InstanceKept, FloodInv, FloodExact, Vlans, StpFound
  <2>3. CASE Made(f, v, stats, s, flood)
    BY <2>3, MadeKeeps DEF Insts
  <2> QED BY <1>2, <2>1, <2>2, <2>3 DEF CreateVlan, CreateFails, Made
<1>3. CASE \E f \in Fids : RemoveVlan(f) \/ CreateBridge(f) \/ RemoveBridge(f)
  BY <1>3, RemoveVlanKeeps, BridgesKeep
<1>4. CASE \E f \in Fids, s \in StpIds \cup {0} : SetVlanStp(f, s)
  BY <1>4, SetVlanStpKeeps DEF Insts
<1>5. CASE \E f \in Fids, t \in FloodTypes, c \in FloodControls :
             SetVlanFlood(f, t, c) \/ SetBridgeFlood(f, t, c)
  BY <1>5, SetVlanFloodKeeps, SetBridgeFloodKeeps
<1>6. CASE \E f \in Fids, on \in BOOLEAN : SetVlanStats(f, on)
  BY <1>6, SetVlanStatsKeeps
<1>7. CASE \E t \in FloodTypes, a \in MissActs : SetMissAction(t, a)
  BY <1>7, SetMissActionKeeps
<1>8. CASE \E s \in StpIds : CreateStp(s) \/ RemoveStp(s)
  BY <1>8, StpKeeps
<1> QED BY <1>1, <1>2, <1>3, <1>4, <1>5, <1>6, <1>7, <1>8 DEF DomNext

(* What the invariant says of the domains and of flooding. *)
LEMMA DomGives == DomInv => DomainsExact /\ FloodExact
BY DEF DomInv, IdsInv, InstInv, FloodInv, DomainsExact

-----------------------------------------------------------------------------
(* Traps *)
GroupRecords == [live : BOOLEAN, admin : BOOLEAN, queue : Nat]
TrapRecords == [ref : Nat, grp : TrapGroups \cup {0}, action : Actions, entry : EntryIds \cup {0}]
EntryRecords == [reason : SUBSET (Reasons \cup UserReasons), drop : BOOLEAN]
TrapTyped ==
  /\ groups \in [TrapGroups -> GroupRecords]
  /\ traps \in [Reasons -> TrapRecords]
  /\ userTraps \in [UserReasons -> EntryIds \cup {0}]
  /\ entryIds \subseteq EntryIds
  /\ hwQueue \in [Reasons -> Nat]
  /\ hwEntry \in [EntryIds -> EntryRecords]
(* A trap there is has a group there is, and an ordinary one an entry of *)
(* its own under an id the pool holds; a trap there is not is empty. *)
TrapOk(r) ==
  /\ traps[r].ref = 0 => traps[r] = NoTrap
  /\ traps[r].ref > 0 => traps[r].grp \in TrapGroups /\ groups[traps[r].grp].live
  /\ r \in SpecialReasons => traps[r].entry = 0
  /\ r \in NormalReasons /\ traps[r].ref > 0 =>
       /\ traps[r].entry \in entryIds
       /\ hwEntry[traps[r].entry].reason = {r}
       /\ r \notin refused => hwEntry[traps[r].entry].drop = Drops(traps[r].action)
UserOk(r) ==
  userTraps[r] # 0 => /\ userTraps[r] \in entryIds
                      /\ hwEntry[userTraps[r]].reason = {r}
QueueOk(r) ==
  r \notin requeued =>
    hwQueue[r] = IF traps[r].ref = 0 THEN 0 ELSE QueueIn(groups, traps[r].grp)
Owns(r, e) ==
  \/ r \in NormalReasons /\ traps[r].ref > 0 /\ traps[r].entry = e
  \/ r \in UserReasons /\ userTraps[r] = e
EntryOk(e) ==
  hwEntry[e] # NoEntry => /\ e \in entryIds
                          /\ e \in abandoned \/ \E r : hwEntry[e].reason = {r} /\ Owns(r, e)
TrapInv ==
  /\ TrapTyped
  /\ \A r \in Reasons : TrapOk(r) /\ QueueOk(r)
  /\ \A r \in UserReasons : UserOk(r)
  /\ \A e \in EntryIds : EntryOk(e)

(* An entry has one owner, so its reason is all of them. *)
LEMMA OneOwner ==
  ASSUME TrapInv, NEW e \in EntryIds \ abandoned, hwEntry[e] # NoEntry
  PROVE  hwEntry[e].reason = {r \in NormalReasons : traps[r].ref > 0 /\ traps[r].entry = e}
                               \cup {r \in UserReasons : userTraps[r] = e}
PROOF
<1> USE TrapAssumption
<1>1. PICK r : hwEntry[e].reason = {r} /\ Owns(r, e)
  BY DEF TrapInv, EntryOk
<1>2. ASSUME NEW q, Owns(q, e) PROVE q = r
  <2>1. CASE q \in NormalReasons /\ traps[q].ref > 0 /\ traps[q].entry = e
    <3>1. TrapOk(q)
      BY <2>1 DEF TrapInv, Reasons
    <3> QED BY <1>1, <2>1, <3>1 DEF TrapOk
  <2>2. CASE q \in UserReasons /\ userTraps[q] = e
    <3>1. UserOk(q) /\ e # 0
      BY <2>2 DEF TrapInv
    <3> QED BY <1>1, <2>2, <3>1 DEF UserOk
  <2> QED BY <1>2, <2>1, <2>2 DEF Owns
<1> QED BY <1>1, <1>2 DEF Owns

(* What the invariant says of the traps. *)
LEMMA TrapGives == TrapInv => TrapsExact
PROOF
<1> SUFFICES ASSUME TrapInv PROVE TrapsExact
  OBVIOUS
<1> USE TrapAssumption
<1>1. \A r \in Reasons \ requeued :
        hwQueue[r] = IF traps[r].ref = 0 THEN 0 ELSE QueueIn(groups, traps[r].grp)
  BY DEF TrapInv, QueueOk
<1>2. ASSUME NEW r \in NormalReasons \ refused, traps[r].ref > 0
      PROVE  hwEntry[traps[r].entry] = [reason |-> {r}, drop |-> Drops(traps[r].action)]
  <2>1. TrapOk(r) /\ hwEntry \in [EntryIds -> EntryRecords] /\ entryIds \subseteq EntryIds
    BY DEF TrapInv, TrapTyped, Reasons
  <2>2. PICK e \in EntryIds : e = traps[r].entry
    BY <1>2, <2>1 DEF TrapOk
  <2>3. hwEntry[e].reason = {r} /\ hwEntry[e].drop = Drops(traps[r].action)
    BY <1>2, <2>1, <2>2 DEF TrapOk
  <2>4. hwEntry[e] = [reason |-> hwEntry[e].reason, drop |-> hwEntry[e].drop]
    BY <2>1 DEF EntryRecords
  <2> QED BY <2>2, <2>3, <2>4
<1>3. \A e \in EntryIds : hwEntry[e] # NoEntry => e \in entryIds
  BY DEF TrapInv, EntryOk
<1> QED BY <1>1, <1>2, <1>3, OneOwner DEF TrapsExact

(* It holds before the first call. *)
LEMMA TrapInitially == TrapInit => TrapInv
PROOF
<1> SUFFICES ASSUME TrapInit PROVE TrapInv
  OBVIOUS
<1> USE TrapAssumption
<1>1. NoGroup \in GroupRecords /\ NoTrap \in TrapRecords /\ NoEntry \in EntryRecords
  BY DEF NoGroup, NoTrap, NoEntry, GroupRecords, TrapRecords, EntryRecords, Actions
<1>2. TrapTyped
  BY <1>1 DEF TrapInit, TrapTyped
<1>3. NoTrap.ref = 0 /\ NoTrap.entry = 0
  BY DEF NoTrap
<1> QED BY <1>2, <1>3 DEF TrapInit, TrapInv, TrapOk, QueueOk, UserOk, EntryOk

(* The frames. A step that leaves a trap, its group's state, its entry and *)
(* its queue alone keeps what holds of it. *)
SameTrap(r) ==
  /\ traps'[r] = traps[r] /\ (r \in refused' <=> r \in refused)
  /\ traps[r].ref > 0 => groups'[traps[r].grp].live
  /\ r \in NormalReasons /\ traps[r].ref > 0 =>
       traps[r].entry \in entryIds' /\ hwEntry'[traps[r].entry] = hwEntry[traps[r].entry]

(* A trap whose record, entry and queue stay is as it was. *)
LEMMA SameTrapKept ==
  ASSUME NEW r, TrapOk(r), SameTrap(r)
  PROVE  TrapOk(r)'
BY DEF TrapOk, SameTrap
SameUser(r) ==
  /\ userTraps'[r] = userTraps[r]
  /\ userTraps[r] # 0 => userTraps[r] \in entryIds' /\ hwEntry'[userTraps[r]] = hwEntry[userTraps[r]]

(* A user-defined trap whose record and entry stay is as it was. *)
LEMMA SameUserKept ==
  ASSUME NEW r, UserOk(r), SameUser(r)
  PROVE  UserOk(r)'
BY DEF UserOk, SameUser
SameEntry(e) ==
  /\ hwEntry'[e] = hwEntry[e] /\ (e \in entryIds => e \in entryIds')
  /\ e \in abandoned => e \in abandoned'
  /\ \A r : Owns(r, e) => Owns(r, e)'

(* An entry whose users and chip state stay is as it was. *)
LEMMA SameEntryKept ==
  ASSUME NEW e, EntryOk(e), SameEntry(e)
  PROVE  EntryOk(e)'
BY DEF EntryOk, SameEntry
SameQueue(r) ==
  /\ hwQueue'[r] = hwQueue[r] /\ (r \notin requeued' => r \notin requeued)
  /\ traps'[r].ref = 0 <=> traps[r].ref = 0
  /\ traps[r].ref # 0 => QueueIn(groups', traps'[r].grp) = QueueIn(groups, traps[r].grp)

(* A queue whose trap and group stay is as it was. *)
LEMMA SameQueueKept ==
  ASSUME NEW r, QueueOk(r), SameQueue(r)
  PROVE  QueueOk(r)'
BY DEF QueueOk, SameQueue

(* The new id is one the pool has. *)
LEMMA FreeEntryFact ==
  ASSUME EntryIds \ entryIds # {}
  PROVE  FreeEntry \in EntryIds /\ FreeEntry \notin entryIds /\ FreeEntry # 0
BY MinFact, TrapAssumption DEF FreeEntry

-----------------------------------------------------------------------------

(* create_hostif_trap_group and its removal. *)
LEMMA GroupsKeep ==
  ASSUME TrapInv, NEW g \in TrapGroups,
         (\E admin \in BOOLEAN, q \in CpuQueues : CreateTrapGroup(g, admin, q)) \/ RemoveTrapGroup(g)
  PROVE  TrapInv'
PROOF
<1> USE TrapAssumption
<1>1. /\ UNCHANGED <<traps, userTraps, entryIds, hwQueue, hwEntry, requeued, refused, abandoned>>
      /\ \A h \in TrapGroups \ {g} : groups'[h] = groups[h]
      /\ \A r \in Reasons : traps[r].ref > 0 => traps[r].grp # g
      /\ groups' \in [TrapGroups -> GroupRecords]
  <2>1. /\ NoGroup \in GroupRecords
        /\ \A admin \in BOOLEAN, q \in CpuQueues :
             [live |-> TRUE, admin |-> admin, queue |-> q] \in GroupRecords
    BY DEF NoGroup, GroupRecords
  <2>2. \A r \in Reasons : TrapOk(r)
    BY DEF TrapInv
  <2>3. groups' \in [TrapGroups -> GroupRecords] /\ \A h \in TrapGroups \ {g} : groups'[h] = groups[h]
    BY <2>1 DEF CreateTrapGroup, RemoveTrapGroup, TrapInv, TrapTyped
  <2>4. \A r \in Reasons : traps[r].ref > 0 => traps[r].grp # g
    BY <2>2 DEF CreateTrapGroup, RemoveTrapGroup, TrapOk
  <2> QED BY <2>3, <2>4 DEF CreateTrapGroup, RemoveTrapGroup
<1>2. TrapTyped'
  BY <1>1 DEF TrapInv, TrapTyped
<1>3. ASSUME NEW r \in Reasons PROVE TrapOk(r)' /\ QueueOk(r)'
  <2>1. TrapOk(r) /\ QueueOk(r) /\ traps[r].ref \in Nat
    BY DEF TrapInv, TrapTyped, TrapRecords
  <2>2. SameTrap(r)
    BY <1>1, <2>1 DEF SameTrap, TrapOk
  <2>3. traps[r].ref # 0 => traps[r].grp \in TrapGroups \ {g}
    BY <1>1, <2>1 DEF TrapOk
  <2>4. SameQueue(r)
    BY <1>1, <2>1, <2>3 DEF SameQueue, QueueIn
  <2> QED BY <2>1, <2>2, <2>4, SameTrapKept, SameQueueKept
<1>4. \A r \in UserReasons : UserOk(r)'
  BY <1>1 DEF TrapInv, UserOk
<1>5. \A e \in EntryIds : EntryOk(e)'
  BY <1>1 DEF TrapInv, EntryOk, Owns
<1> QED BY <1>2, <1>3, <1>4, <1>5 DEF TrapInv

(* The attributes of a trap group, applied to each of its traps. *)
LEMMA SetTrapGroupAttrKeeps ==
  ASSUME TrapInv, NEW g \in TrapGroups, NEW admin \in BOOLEAN, NEW q \in CpuQueues,
         SetTrapGroupAttr(g, admin, q)
  PROVE  TrapInv'
PROOF
<1> USE TrapAssumption
<1>1. /\ UNCHANGED <<traps, userTraps, commonIds, entryIds, hwEntry, refused, abandoned>>
      /\ hwQueue' = [r \in Reasons |-> IF r \in InGroup(g) THEN QueueIn(groups', g) ELSE hwQueue[r]]
      /\ requeued' = requeued \ InGroup(g) /\ groups[g].live
  BY DEF SetTrapGroupAttr
<1>2. /\ \A h \in TrapGroups \ {g} : groups'[h] = groups[h]
      /\ groups'[g].live /\ groups' \in [TrapGroups -> GroupRecords]
  BY DEF SetTrapGroupAttr, TrapInv, TrapTyped, GroupRecords
<1>3. TrapTyped'
  <2>1. \A h \in TrapGroups : QueueIn(groups', h) \in Nat
    BY <1>2 DEF QueueIn, GroupRecords
  <2> QED BY <1>1, <1>2, <2>1 DEF TrapInv, TrapTyped
<1>4. ASSUME NEW r \in Reasons PROVE TrapOk(r)' /\ QueueOk(r)'
  <2>1. TrapOk(r) /\ QueueOk(r) /\ traps[r].ref \in Nat
    BY DEF TrapInv, TrapTyped, TrapRecords
  <2>2. SameTrap(r)
    BY <1>1, <1>2, <2>1 DEF SameTrap, TrapOk
  <2>3. CASE r \in InGroup(g)
    <3>1. traps[r].ref > 0 /\ traps[r].grp = g /\ traps' = traps
      BY <1>1, <2>3 DEF InGroup
    <3>2. hwQueue'[r] = QueueIn(groups', g)
      BY <1>1, <2>3
    <3>3. traps'[r].ref # 0 /\ traps'[r].grp = g
      BY <2>1, <3>1
    <3>4. QueueOk(r)'
      BY <3>2, <3>3 DEF QueueOk, QueueIn
    <3>5. TrapOk(r)'
      BY <2>1, <2>2, SameTrapKept
    <3> QED BY <3>4, <3>5
  <2>4. CASE r \notin InGroup(g)
    <3>1. SameQueue(r)
      <4>1. traps[r].ref # 0 => traps[r].grp \in TrapGroups \ {g}
        BY <2>1, <2>4 DEF InGroup, TrapOk
      <4>2. traps[r].ref # 0 => QueueIn(groups', traps'[r].grp) = QueueIn(groups, traps[r].grp)
        BY <1>1, <1>2, <4>1 DEF QueueIn
      <4>3. hwQueue'[r] = hwQueue[r] /\ (r \notin requeued' => r \notin requeued)
        BY <1>1, <2>4
      <4> QED BY <1>1, <4>2, <4>3 DEF SameQueue
    <3>2. QueueOk(r)'
      BY <2>1, <3>1, SameQueueKept
    <3>3. TrapOk(r)'
      BY <2>1, <2>2, SameTrapKept
    <3> QED BY <3>2, <3>3
  <2> QED BY <2>3, <2>4
<1>5. \A r \in UserReasons : UserOk(r)'
  BY <1>1 DEF TrapInv, UserOk
<1>6. \A e \in EntryIds : EntryOk(e)'
  BY <1>1 DEF TrapInv, EntryOk, Owns
<1> QED BY <1>3, <1>4, <1>5, <1>6 DEF TrapInv

(* create_hostif_trap of a reason that has no trap, one that has an entry *)
(* and one that has none; and one more creation of a trap. *)
LEMMA CreateTrapKeeps ==
  ASSUME TrapInv, NEW r \in Reasons, NEW g \in TrapGroups, NEW action \in Actions,
         CreateTrap(r, g, action)
  PROVE  TrapInv'
PROOF
<1> USE TrapAssumption
<1> DEFINE e == IF NeedsEntry(r) THEN FreeEntry ELSE 0
           again == traps[r].ref > 0
           fresh == [ref |-> 1, grp |-> g, action |-> action, entry |-> e]
<1>1. /\ groups[g].live /\ CanAddEntry(r) 
      /\ entryIds' = entryIds \cup ({e} \ {0})
      /\ hwQueue' = [hwQueue EXCEPT ![r] = QueueIn(groups, g)]
      /\ traps' = [traps EXCEPT ![r] = IF again THEN [traps[r] EXCEPT !.ref = @ + 1] ELSE fresh]
      /\ requeued' = IF again /\ QueueIn(groups, g) # QueueIn(groups, traps[r].grp)
                     THEN requeued \cup {r} ELSE requeued \ {r}
      /\ IF again THEN DropEntry(e)
         ELSE /\ hwEntry' = IF e = 0 THEN hwEntry
                            ELSE [hwEntry EXCEPT ![e] = [reason |-> {r}, drop |-> Drops(action)]]
      /\ UNCHANGED <<groups, userTraps, refused, abandoned>>
  BY DEF CreateTrap
<1>2. /\ e \in EntryIds \cup {0} /\ e \notin entryIds
      /\ NeedsEntry(r) <=> r \in NormalReasons
      /\ e = 0 <=> r \in SpecialReasons
      /\ e # 0 => hwEntry[e] = NoEntry
  <2>1. 0 \notin entryIds
    BY DEF TrapInv, TrapTyped
  <2>2. NeedsEntry(r) <=> r \in NormalReasons
    BY DEF NeedsEntry, Reasons
  <2>3. NeedsEntry(r) => e \in EntryIds /\ e \notin entryIds /\ e # 0
    BY <1>1, FreeEntryFact DEF CanAddEntry
  <2> QED BY <2>1, <2>2, <2>3 DEF TrapInv, EntryOk, NeedsEntry
<1>3. \A x \in Reasons : TrapOk(x) /\ QueueOk(x) /\ traps[x] \in TrapRecords
  BY DEF TrapInv, TrapTyped
<1>4. QueueIn(groups, g) \in Nat
  BY DEF QueueIn, TrapInv, TrapTyped, GroupRecords
<1>5. fresh \in TrapRecords
  BY <1>2 DEF TrapRecords
<1> HIDE DEF e, fresh
<1>6. /\ traps' \in [Reasons -> TrapRecords]
      /\ \A x \in Reasons \ {r} : traps'[x] = traps[x]
      /\ again => /\ traps'[r].ref = traps[r].ref + 1 /\ traps'[r].grp = traps[r].grp
                  /\ traps'[r].action = traps[r].action /\ traps'[r].entry = traps[r].entry
      /\ ~again => traps'[r] = fresh
  <2>1. again => [traps[r] EXCEPT !.ref = @ + 1] \in TrapRecords
    BY <1>3 DEF TrapRecords
  <2>2. traps \in [Reasons -> TrapRecords]
    BY DEF TrapInv, TrapTyped
  <2>3. CASE again
    <3>1. traps' = [traps EXCEPT ![r] = [traps[r] EXCEPT !.ref = @ + 1]]
      BY <1>1, <2>3
    <3> QED BY <1>3, <2>1, <2>2, <2>3, <3>1 DEF TrapRecords
  <2>4. CASE ~again
    <3>1. traps' = [traps EXCEPT ![r] = fresh]
      BY <1>1, <2>4
    <3> QED BY <1>5, <2>2, <2>4, <3>1
  <2> QED BY <2>3, <2>4
<1>7. /\ fresh.ref = 1 /\ fresh.grp = g /\ fresh.action = action /\ fresh.entry = e
  BY DEF fresh
<1>8. /\ hwEntry' \in [EntryIds -> EntryRecords]
      /\ \A x \in EntryIds : x # e => hwEntry'[x] = hwEntry[x]
      /\ ~again /\ e # 0 => hwEntry'[e] = [reason |-> {r}, drop |-> Drops(action)]
      /\ again /\ e # 0 => hwEntry'[e] = NoEntry
  <2>1. hwEntry \in [EntryIds -> EntryRecords] /\ NoEntry \in EntryRecords
    BY DEF TrapInv, TrapTyped, NoEntry, EntryRecords
  <2>2. [reason |-> {r}, drop |-> Drops(action)] \in EntryRecords
    BY DEF EntryRecords, Drops
  <2> QED BY <1>1, <1>2, <2>1, <2>2 DEF DropEntry
<1>9. TrapTyped'
  BY <1>1, <1>2, <1>4, <1>6, <1>8 DEF TrapInv, TrapTyped
<1>10. ASSUME NEW x \in Reasons, x # r PROVE TrapOk(x)' /\ QueueOk(x)'
  <2>1. SameTrap(x) /\ SameQueue(x)
    BY <1>1, <1>2, <1>3, <1>6, <1>8, <1>10 DEF SameTrap, SameQueue, TrapOk, TrapInv, TrapTyped
  <2> QED BY <1>3, <2>1, SameTrapKept, SameQueueKept
<1>11. TrapOk(r)' /\ QueueOk(r)'
  <2>1. hwQueue'[r] = QueueIn(groups, g)
    BY <1>1 DEF TrapInv, TrapTyped
  <2>2. CASE again
    <3>1. QueueOk(r)'
      BY <1>1, <1>3, <1>6, <2>1, <2>2 DEF QueueOk, TrapRecords
    <3>2. r \in NormalReasons => traps[r].entry \in entryIds /\ traps[r].entry # e
      BY <1>2, <1>3, <2>2 DEF TrapOk
    <3>3. r \in NormalReasons => hwEntry'[traps[r].entry] = hwEntry[traps[r].entry]
      BY <1>8, <3>2 DEF TrapInv, TrapTyped
    <3>4. traps[r].ref \in Nat /\ traps[r].ref > 0 /\ traps'[r].ref = traps[r].ref + 1 /\ TrapOk(r)
      BY <1>3, <1>6, <2>2 DEF TrapRecords
    <3>5. TrapOk(r)'
      BY <1>1, <1>6, <2>2, <3>2, <3>3, <3>4 DEF TrapOk
    <3> QED BY <3>1, <3>5
  <2>3. CASE ~again
    <3>1. QueueOk(r)'
      BY <1>1, <1>6, <1>7, <2>1, <2>3 DEF QueueOk
    <3>2. r \in NormalReasons => e \in entryIds' /\ e # 0
      BY <1>1, <1>2 DEF NeedsEntry
    <3> QED BY <1>1, <1>2, <1>6, <1>7, <1>8, <2>3, <3>1, <3>2 DEF TrapOk
  <2> QED BY <2>2, <2>3
<1>12. ASSUME NEW x \in UserReasons PROVE UserOk(x)'
  <2>1. UserOk(x) /\ SameUser(x)
    BY <1>1, <1>2, <1>8 DEF TrapInv, TrapTyped, UserOk, SameUser
  <2> QED BY <2>1, SameUserKept
<1>13. ASSUME NEW x \in EntryIds PROVE EntryOk(x)'
  <2>1. CASE x = e /\ again
    BY <1>8, <2>1 DEF EntryOk
  <2>2. CASE x = e /\ ~again
    <3>1. r \in NormalReasons /\ e \in entryIds'
      BY <1>1, <1>2, <2>2 DEF Reasons
    <3>2. Owns(r, x)'
      BY <1>6, <1>7, <2>2, <3>1 DEF Owns
    <3> QED BY <1>8, <2>2, <3>1, <3>2 DEF EntryOk
  <2>3. CASE x # e
    <3>1. ASSUME NEW y, Owns(y, x) PROVE Owns(y, x)'
      <4>1. CASE y = r
        BY <1>1, <1>3, <1>6, <2>3, <3>1, <4>1 DEF Owns, TrapRecords
      <4>2. CASE y # r
        BY <1>1, <1>6, <3>1, <4>2 DEF Owns, Reasons
      <4> QED BY <4>1, <4>2
    <3>2. EntryOk(x) /\ SameEntry(x)
      BY <1>1, <1>8, <2>3, <3>1 DEF TrapInv, SameEntry
    <3> QED BY <3>2, SameEntryKept
  <2> QED BY <2>1, <2>2, <2>3
<1> QED BY <1>9, <1>10, <1>11, <1>12, <1>13 DEF TrapInv

(* A refused creation loses an id and touches nothing else. *)
LEMMA CreateTrapRefusedKeeps ==
  ASSUME TrapInv, NEW r \in Reasons, NEW g \in TrapGroups, CreateTrapRefused(r, g)
  PROVE  TrapInv'
PROOF
<1>1. /\ UNCHANGED <<groups, traps, userTraps, hwQueue, hwEntry, requeued, refused, abandoned>>
      /\ entryIds \subseteq entryIds' /\ entryIds' \subseteq EntryIds
  BY FreeEntryFact DEF CreateTrapRefused, CanAddEntry, TrapInv, TrapTyped
<1> QED BY <1>1 DEF TrapInv, TrapTyped, TrapOk, QueueOk, UserOk, EntryOk, Owns

(* remove_hostif_trap: the last one takes the entry with it. *)
LEMMA RemoveTrapKeeps ==
  ASSUME TrapInv, NEW r \in Reasons, RemoveTrap(r)
  PROVE  TrapInv'
PROOF
<1> USE TrapAssumption
<1>1. \A x \in Reasons : TrapOk(x) /\ QueueOk(x) /\ traps[x] \in TrapRecords
  BY DEF TrapInv, TrapTyped
<1>2. /\ UNCHANGED <<groups, userTraps, entryIds, abandoned>>
      /\ traps \in [Reasons -> TrapRecords] /\ traps[r].ref > 0 /\ traps[r].ref \in Nat
  BY DEF RemoveTrap, TrapInv, TrapTyped, TrapRecords
<1> DEFINE last == traps[r].ref = 1
           e == traps[r].entry
<1>3. e \in EntryIds \cup {0} /\ (e = 0 <=> r \in SpecialReasons) /\ (e # 0 => r \in NormalReasons)
  BY <1>1, <1>2 DEF TrapRecords, TrapOk, Reasons, TrapInv, TrapTyped
<1>4. CASE ~last
  <2>1. /\ traps' = [traps EXCEPT ![r].ref = @ - 1]
        /\ UNCHANGED <<hwQueue, hwEntry, requeued, refused, abandoned>> /\ traps[r].ref > 1
    BY <1>2, <1>4 DEF RemoveTrap
  <2>2. [traps[r] EXCEPT !.ref = @ - 1] \in TrapRecords
    BY <1>1, <2>1 DEF TrapRecords
  <2>3. traps' = [traps EXCEPT ![r] = [traps[r] EXCEPT !.ref = @ - 1]]
    BY <2>1
  <2>4. /\ traps' \in [Reasons -> TrapRecords]
        /\ \A x \in Reasons \ {r} : traps'[x] = traps[x]
        /\ traps'[r].ref = traps[r].ref - 1 /\ traps'[r].grp = traps[r].grp
        /\ traps'[r].action = traps[r].action /\ traps'[r].entry = traps[r].entry
    BY <1>1, <1>2, <2>2, <2>3 DEF TrapRecords
  <2>5. TrapTyped'
    BY <1>2, <2>1, <2>4 DEF TrapInv, TrapTyped
  <2>6. \A x \in Reasons : /\ (traps'[x].ref = 0 <=> traps[x].ref = 0)
                           /\ (traps'[x].ref > 0 <=> traps[x].ref > 0)
    BY <1>2, <2>1, <2>4
  <2>7. \A x \in Reasons : /\ traps'[x].grp = traps[x].grp /\ traps'[x].action = traps[x].action
                           /\ traps'[x].entry = traps[x].entry
    BY <2>4
  <2>8. \A x \in Reasons : TrapOk(x)'
    <3> SUFFICES ASSUME NEW x \in Reasons PROVE TrapOk(x)'
      OBVIOUS
    <3>1. CASE x = r
      BY <1>1, <1>2, <2>1, <2>4, <2>6, <3>1 DEF TrapOk
    <3>2. CASE x # r
      BY <1>1, <1>2, <2>1, <2>4, <3>2 DEF TrapOk
    <3> QED BY <3>1, <3>2
  <2>9. \A x \in Reasons : QueueOk(x)'
    BY <1>1, <1>2, <2>1, <2>6, <2>7 DEF QueueOk, QueueIn
  <2>10. \A x \in UserReasons : UserOk(x)'
    BY <1>2, <2>1 DEF TrapInv, UserOk
  <2>11. \A x \in EntryIds : EntryOk(x)'
    BY <1>2, <2>1, <2>6, <2>7 DEF TrapInv, EntryOk, Owns, Reasons
  <2> QED BY <2>5, <2>8, <2>9, <2>10, <2>11 DEF TrapInv
<1>5. CASE last
  <2>1. /\ traps' = [traps EXCEPT ![r] = NoTrap] /\ hwQueue' = [hwQueue EXCEPT ![r] = 0]
        /\ hwEntry' = IF e = 0 THEN hwEntry ELSE [hwEntry EXCEPT ![e] = NoEntry]
        /\ requeued' = requeued \ {r} /\ refused' = refused \ {r}
    BY <1>2, <1>5 DEF RemoveTrap, DropEntry
  <2>2. /\ NoTrap \in TrapRecords /\ NoEntry \in EntryRecords /\ NoTrap.ref = 0 /\ NoTrap.entry = 0
    BY DEF NoTrap, TrapRecords, NoEntry, EntryRecords, Actions
  <2>3. TrapTyped'
    BY <1>2, <2>1, <2>2 DEF TrapInv, TrapTyped
  <2>4. /\ \A x \in Reasons \ {r} : traps'[x] = traps[x]
        /\ \A x \in EntryIds : x # e => hwEntry'[x] = hwEntry[x]
        /\ e # 0 => hwEntry'[e] = NoEntry
        /\ traps'[r] = NoTrap
    BY <1>2, <1>3, <2>1 DEF TrapInv, TrapTyped
  <2>5. ASSUME NEW x \in Reasons, x # r PROVE TrapOk(x)' /\ QueueOk(x)'
    <3>1. x \in NormalReasons /\ traps[x].ref > 0 => traps[x].entry # e
      BY <1>1, <1>2, <1>3, <2>5, ZenonT(40) DEF TrapOk, TrapInv, TrapTyped
    <3>2. TrapOk(x) /\ QueueOk(x) /\ entryIds \subseteq EntryIds
      BY <1>1 DEF TrapInv, TrapTyped
    <3>3. SameTrap(x)
      BY <1>2, <2>1, <2>4, <2>5, <3>1, <3>2 DEF SameTrap, TrapOk
    <3>4. SameQueue(x)
      BY <1>2, <2>1, <2>4, <2>5, <3>1 DEF SameQueue, TrapInv, TrapTyped
    <3> QED BY <3>2, <3>3, <3>4, SameTrapKept, SameQueueKept
  <2>6. TrapOk(r)' /\ QueueOk(r)'
    BY <2>1, <2>2, <2>4 DEF TrapOk, QueueOk, TrapInv, TrapTyped
  <2>7. ASSUME NEW x \in UserReasons PROVE UserOk(x)'
    <3>1. userTraps[x] # 0 => userTraps[x] # e
      <4>1. r \in NormalReasons /\ e # 0 => hwEntry[e].reason = {r}
        BY <1>1, <1>2 DEF TrapOk
      <4>2. userTraps[x] # 0 => hwEntry[userTraps[x]].reason = {x}
        BY <2>7 DEF TrapInv, UserOk
      <4>3. r # x
        BY <2>7
      <4> QED BY <1>3, <4>1, <4>2, <4>3
    <3>2. UserOk(x) /\ SameUser(x)
      BY <1>2, <2>4, <3>1 DEF TrapInv, UserOk, SameUser, TrapTyped
    <3> QED BY <3>2, SameUserKept
  <2>8. ASSUME NEW x \in EntryIds PROVE EntryOk(x)'
    <3>1. CASE x = e
      BY <2>4, <3>1 DEF EntryOk
    <3>2. CASE x # e
      <4>1. \A y : Owns(y, x) => Owns(y, x)'
        BY <1>2, <2>1, <2>4, <3>2 DEF Owns, Reasons
      <4>2. EntryOk(x) /\ SameEntry(x)
        BY <1>2, <2>4, <3>2, <4>1 DEF TrapInv, SameEntry
      <4> QED BY <4>2, SameEntryKept
    <3> QED BY <3>1, <3>2
  <2> QED BY <2>3, <2>5, <2>6, <2>7, <2>8 DEF TrapInv
<1> QED BY <1>4, <1>5

(* set_trap_property. *)
LEMMA SetActionKeeps ==
  ASSUME TrapInv, NEW r \in Reasons, NEW action \in Actions, SetAction(r, action)
  PROVE  TrapInv'
PROOF
<1> USE TrapAssumption
<1>1. \A x \in Reasons : TrapOk(x) /\ QueueOk(x) /\ traps[x] \in TrapRecords
  BY DEF TrapInv, TrapTyped
<1> DEFINE e == traps[r].entry
<1>2. /\ UNCHANGED <<groups, userTraps, entryIds, hwQueue, requeued, abandoned>>
      /\ traps \in [Reasons -> TrapRecords] /\ traps[r].ref > 0
      /\ traps' = [traps EXCEPT ![r] = [traps[r] EXCEPT !.action = action]]
  BY DEF SetAction, TrapInv, TrapTyped
<1>3. [traps[r] EXCEPT !.action = action] \in TrapRecords
  BY <1>1 DEF TrapRecords
<1>4. /\ traps' \in [Reasons -> TrapRecords]
      /\ \A x \in Reasons : /\ x # r => traps'[x] = traps[x]
                            /\ traps'[x].ref = traps[x].ref /\ traps'[x].grp = traps[x].grp
                            /\ traps'[x].entry = traps[x].entry
      /\ traps'[r].action = action
  BY <1>1, <1>2, <1>3 DEF TrapRecords
<1>5. NeedsEntry(r) <=> r \in NormalReasons
  BY DEF NeedsEntry, Reasons
<1>6. r \in NormalReasons => e \in EntryIds /\ e \in entryIds /\ hwEntry[e].reason = {r} /\ hwEntry[e] \in EntryRecords
  BY <1>1, <1>2 DEF TrapOk, TrapInv, TrapTyped
<1>7. \/ UNCHANGED <<hwEntry, refused>> /\ r \in SpecialReasons
      \/ UNCHANGED hwEntry /\ refused' = refused \cup {r} /\ r \in NormalReasons
      \/ /\ hwEntry' = [hwEntry EXCEPT ![e] = [hwEntry[e] EXCEPT !.drop = Drops(action)]]
         /\ refused' = refused \ {r} /\ r \in NormalReasons
  BY <1>5, <1>6 DEF SetAction, Reasons, TrapInv, TrapTyped
<1>8. /\ hwEntry' \in [EntryIds -> EntryRecords]
      /\ \A x \in EntryIds : /\ hwEntry'[x].reason = hwEntry[x].reason
                             /\ x # e \/ r \in SpecialReasons => hwEntry'[x] = hwEntry[x]
      /\ r \in NormalReasons /\ r \notin refused' => hwEntry'[e].drop = Drops(action)
      /\ \A x \in Reasons \ {r} : x \in refused' <=> x \in refused
  <2>1. hwEntry \in [EntryIds -> EntryRecords]
    BY DEF TrapInv, TrapTyped
  <2>2. CASE UNCHANGED <<hwEntry, refused>> /\ r \in SpecialReasons
    BY <2>1, <2>2
  <2>4. CASE UNCHANGED hwEntry /\ refused' = refused \cup {r} /\ r \in NormalReasons
    BY <2>1, <2>4
  <2>3. CASE hwEntry' = [hwEntry EXCEPT ![e] = [hwEntry[e] EXCEPT !.drop = Drops(action)]] /\ refused' = refused \ {r} /\ r \in NormalReasons
    <3>1. Drops(action) \in BOOLEAN
      BY DEF Drops
    <3>2. PICK h \in EntryRecords : h = hwEntry[e]
      BY <1>6, <2>3
    <3>3. PICK n : n = [h EXCEPT !.drop = Drops(action)]
      OBVIOUS
    <3>4. n \in EntryRecords /\ n.reason = h.reason /\ n.drop = Drops(action)
      BY <3>1, <3>3 DEF EntryRecords
    <3> QED BY <1>6, <2>1, <2>3, <3>2, <3>3, <3>4
  <2> QED BY <1>7, <2>2, <2>3, <2>4
<1>9. TrapTyped'
  BY <1>2, <1>4, <1>8 DEF TrapInv, TrapTyped
<1>10. ASSUME NEW x \in Reasons PROVE TrapOk(x)' /\ QueueOk(x)'
  <2>1. QueueOk(x)'
    BY <1>1, <1>2, <1>4 DEF QueueOk, QueueIn
  <2>2. CASE x = r
    BY <1>1, <1>2, <1>4, <1>6, <1>8, <2>1, <2>2 DEF TrapOk
  <2>3. CASE x # r
    <3>1. x \in NormalReasons /\ traps[x].ref > 0 /\ r \in NormalReasons => traps[x].entry # e
      BY <1>1, <1>6, <2>3 DEF TrapOk
    <3>2. x \in NormalReasons /\ traps[x].ref > 0 => hwEntry'[traps[x].entry] = hwEntry[traps[x].entry]
      BY <1>1, <1>8, <3>1 DEF TrapOk, TrapInv, TrapTyped, Reasons
    <3>3. SameTrap(x)
      BY <1>1, <1>2, <1>4, <1>8, <2>3, <3>2 DEF SameTrap, TrapOk
    <3> QED BY <1>1, <2>1, <3>3, SameTrapKept
  <2> QED BY <2>1, <2>2, <2>3
<1>11. ASSUME NEW x \in UserReasons PROVE UserOk(x)'
  <2>1. UserOk(x)
    BY DEF TrapInv
  <2>2. userTraps[x] # 0 /\ r \in NormalReasons => userTraps[x] # e
    BY <1>6, <2>1 DEF UserOk
  <2>3. SameUser(x)
    BY <1>2, <1>8, <2>1, <2>2 DEF SameUser, UserOk, TrapInv, TrapTyped, Reasons
  <2> QED BY <2>1, <2>3, SameUserKept
<1>12. ASSUME NEW x \in EntryIds PROVE EntryOk(x)'
  <2>1. EntryOk(x) /\ hwEntry[x] \in EntryRecords
    BY DEF TrapInv, TrapTyped
  <2>2. \A y : Owns(y, x) => Owns(y, x)'
    BY <1>2, <1>4 DEF Owns, Reasons
  <2>3. CASE hwEntry[x] = NoEntry
    <3>1. r \in NormalReasons => x # e
      BY <1>6, <2>3 DEF NoEntry
    <3> QED BY <1>8, <2>3, <3>1 DEF EntryOk, Reasons
  <2>4. CASE hwEntry[x] # NoEntry
    BY <1>2, <1>8, <2>1, <2>2, <2>4 DEF EntryOk
  <2> QED BY <2>3, <2>4
<1> QED BY <1>9, <1>10, <1>11, <1>12 DEF TrapInv

(* What writes the queue of one trap, and perhaps its group. *)
LEMMA QueueWritten ==
  ASSUME TrapInv, NEW r \in Reasons, NEW g \in TrapGroups, groups[g].live, traps[r].ref > 0,
         UNCHANGED <<groups, userTraps, entryIds, hwEntry, refused, abandoned>>,
         traps' = [traps EXCEPT ![r].grp = g],
         \E q \in Nat : hwQueue' = [hwQueue EXCEPT ![r] = q],
         r \notin requeued' => hwQueue'[r] = QueueIn(groups, g),
         \A x \in Reasons \ {r} : x \notin requeued' => x \notin requeued
  PROVE  TrapInv'
PROOF
<1> USE TrapAssumption
<1>1. \A x \in Reasons : TrapOk(x) /\ QueueOk(x) /\ traps[x] \in TrapRecords
  BY DEF TrapInv, TrapTyped
<1>2. [traps[r] EXCEPT !.grp = g] \in TrapRecords
  BY <1>1 DEF TrapRecords
<1>3. traps' = [traps EXCEPT ![r] = [traps[r] EXCEPT !.grp = g]] /\ traps \in [Reasons -> TrapRecords]
  BY DEF TrapInv, TrapTyped
<1>4. /\ traps' \in [Reasons -> TrapRecords]
      /\ \A x \in Reasons : /\ x # r => traps'[x] = traps[x]
                            /\ traps'[x].ref = traps[x].ref /\ traps'[x].action = traps[x].action
                            /\ traps'[x].entry = traps[x].entry
      /\ traps'[r].grp = g
  BY <1>1, <1>2, <1>3 DEF TrapRecords
<1>5. TrapTyped'
  BY <1>4 DEF TrapInv, TrapTyped
<1>6. ASSUME NEW x \in Reasons PROVE TrapOk(x)' /\ QueueOk(x)'
  <2>1. CASE x = r
    <3>1. TrapOk(r)'
      BY <1>1, <1>4 DEF TrapOk
    <3>2. QueueIn(groups, g) = QueueIn(groups', g)
      BY DEF QueueIn
    <3>3. traps'[r].ref # 0 /\ traps'[r].grp = g
      BY <1>1, <1>4 DEF TrapRecords
    <3>4. QueueOk(r)'
      BY <3>2, <3>3 DEF QueueOk, QueueIn
    <3> QED BY <2>1, <3>1, <3>4
  <2>2. CASE x # r
    <3>1. hwQueue'[x] = hwQueue[x]
      BY <2>2 DEF TrapInv, TrapTyped
    <3>2. SameTrap(x) /\ SameQueue(x)
      BY <1>1, <1>4, <2>2, <3>1 DEF SameTrap, SameQueue, TrapOk
    <3> QED BY <1>1, <3>2, SameTrapKept, SameQueueKept
  <2> QED BY <2>1, <2>2
<1>7. \A x \in UserReasons : UserOk(x)'
  BY DEF TrapInv, UserOk
<1>8. \A x \in EntryIds : EntryOk(x)'
  BY <1>4 DEF TrapInv, EntryOk, Owns, Reasons
<1> QED BY <1>5, <1>6, <1>7, <1>8 DEF TrapInv

(* The group of a trap. *)
LEMMA SetGroupKeeps ==
  ASSUME TrapInv, NEW r \in Reasons,
         \E g \in TrapGroups : SetTrapGroup(r, g)
  PROVE  TrapInv'
PROOF
<1> USE TrapAssumption
<1>1. \A h \in TrapGroups : QueueIn(groups, h) \in Nat
  BY DEF QueueIn, TrapInv, TrapTyped, GroupRecords
<1>2. TrapOk(r) /\ traps \in [Reasons -> TrapRecords] /\ hwQueue \in [Reasons -> Nat]
  BY DEF TrapInv, TrapTyped
<1>3. ASSUME NEW g \in TrapGroups, SetTrapGroup(r, g) PROVE TrapInv'
  <2> DEFINE q == IF NeedsEntry(r) /\ traps[r].action = "COPY" THEN 0 ELSE QueueIn(groups, g)
  <2>1. q \in Nat /\ hwQueue' = [hwQueue EXCEPT ![r] = q] /\ hwQueue'[r] = q
    BY <1>1, <1>2, <1>3 DEF SetTrapGroup
  <2>2. r \notin requeued' => q = QueueIn(groups, g)
    BY <1>3 DEF SetTrapGroup
  <2> HIDE DEF q
  <2>3. /\ groups[g].live /\ traps[r].ref > 0
        /\ UNCHANGED <<groups, userTraps, entryIds, hwEntry, refused, abandoned>>
        /\ traps' = [traps EXCEPT ![r].grp = g]
        /\ \A x \in Reasons \ {r} : x \notin requeued' => x \notin requeued
    BY <1>3 DEF SetTrapGroup
  <2> QED BY <2>1, <2>2, <2>3, QueueWritten
<1> QED BY <1>3

-----------------------------------------------------------------------------
(* User-defined traps. *)
LEMMA CreateUserTrapKeeps ==
  ASSUME TrapInv, NEW r \in UserReasons, CreateUserTrap(r)
  PROVE  TrapInv'
PROOF
<1> USE TrapAssumption
<1> DEFINE e == FreeEntry
<1>1. e \in EntryIds /\ e \notin entryIds /\ e # 0
  BY FreeEntryFact DEF CreateUserTrap, CanAddEntry, NeedsEntry, Reasons
<1> HIDE DEF e
<1>2. /\ userTraps' = [userTraps EXCEPT ![r] = e] /\ entryIds' = entryIds \cup {e}
      /\ hwEntry' = [hwEntry EXCEPT ![e] = [reason |-> {r}, drop |-> TRUE]]
      /\ UNCHANGED <<groups, traps, hwQueue, requeued, refused, abandoned>> /\ userTraps[r] = 0
  BY DEF CreateUserTrap, e
<1>3. [reason |-> {r}, drop |-> TRUE] \in EntryRecords
  BY DEF EntryRecords
<1>4. TrapTyped'
  BY <1>1, <1>2, <1>3 DEF TrapInv, TrapTyped
<1>5. /\ hwEntry'[e].reason = {r}
      /\ \A x \in EntryIds \ {e} : hwEntry'[x] = hwEntry[x]
      /\ userTraps'[r] = e /\ \A x \in UserReasons \ {r} : userTraps'[x] = userTraps[x]
  BY <1>1, <1>2 DEF TrapInv, TrapTyped
<1>6. ASSUME NEW x \in Reasons PROVE TrapOk(x)' /\ QueueOk(x)'
  <2>1. TrapOk(x) /\ QueueOk(x) /\ entryIds \subseteq EntryIds
    BY DEF TrapInv, TrapTyped
  <2>2. SameTrap(x) /\ SameQueue(x)
    BY <1>1, <1>2, <1>5, <2>1 DEF SameTrap, SameQueue, TrapOk
  <2> QED BY <2>1, <2>2, SameTrapKept, SameQueueKept
<1>7. ASSUME NEW x \in UserReasons PROVE UserOk(x)'
  <2>1. CASE x = r
    BY <1>2, <1>5, <2>1 DEF UserOk
  <2>2. CASE x # r
    <3>1. UserOk(x) /\ SameUser(x)
      BY <1>1, <1>2, <1>5, <2>2 DEF TrapInv, UserOk, SameUser, TrapTyped
    <3> QED BY <3>1, SameUserKept
  <2> QED BY <2>1, <2>2
<1>8. ASSUME NEW x \in EntryIds PROVE EntryOk(x)'
  <2>1. CASE x = e
    <3>1. Owns(r, x)'
      BY <1>5, <2>1 DEF Owns
    <3> QED BY <1>2, <1>5, <2>1, <3>1 DEF EntryOk
  <2>2. CASE x # e
    <3>1. \A y : Owns(y, x) => Owns(y, x)'
      BY <1>2, <1>5 DEF Owns
    <3>2. EntryOk(x) /\ SameEntry(x)
      BY <1>2, <1>5, <2>2, <3>1 DEF TrapInv, SameEntry
    <3> QED BY <3>2, SameEntryKept
  <2> QED BY <2>1, <2>2
<1> QED BY <1>4, <1>6, <1>7, <1>8 DEF TrapInv

(* A creation that ends without a record: its entry has no owner. *)
LEMMA CreateTrapUnfinishedKeeps ==
  ASSUME TrapInv, NEW r \in Reasons, CreateTrapUnfinished(r)
  PROVE  TrapInv'
PROOF
<1> USE TrapAssumption
<1> DEFINE e == FreeEntry
<1>1. e \in EntryIds /\ e \notin entryIds /\ e # 0
  BY FreeEntryFact DEF CreateTrapUnfinished, CanAddEntry
<1> HIDE DEF e
<1>2. /\ entryIds' = entryIds \cup {e} /\ abandoned' = abandoned \cup {e}
      /\ hwEntry' = [hwEntry EXCEPT ![e] = [reason |-> {r}, drop |-> FALSE]]
      /\ UNCHANGED <<groups, traps, userTraps, hwQueue, requeued, refused>>
  BY DEF CreateTrapUnfinished, e
<1>3. [reason |-> {r}, drop |-> FALSE] \in EntryRecords
  BY DEF EntryRecords
<1>4. TrapTyped'
  BY <1>1, <1>2, <1>3 DEF TrapInv, TrapTyped
<1>5. \A x \in EntryIds \ {e} : hwEntry'[x] = hwEntry[x]
  BY <1>1, <1>2 DEF TrapInv, TrapTyped
<1>6. ASSUME NEW x \in Reasons PROVE TrapOk(x)' /\ QueueOk(x)'
  <2>1. TrapOk(x) /\ QueueOk(x) /\ entryIds \subseteq EntryIds
    BY DEF TrapInv, TrapTyped
  <2>2. SameTrap(x) /\ SameQueue(x)
    BY <1>1, <1>2, <1>5, <2>1 DEF SameTrap, SameQueue, TrapOk
  <2> QED BY <2>1, <2>2, SameTrapKept, SameQueueKept
<1>7. ASSUME NEW x \in UserReasons PROVE UserOk(x)'
  <2>1. UserOk(x) /\ SameUser(x)
    BY <1>1, <1>2, <1>5 DEF TrapInv, UserOk, SameUser, TrapTyped
  <2> QED BY <2>1, SameUserKept
<1>8. ASSUME NEW x \in EntryIds PROVE EntryOk(x)'
  <2>1. CASE x = e
    BY <1>2, <2>1 DEF EntryOk
  <2>2. CASE x # e
    <3>1. EntryOk(x) /\ SameEntry(x)
      BY <1>2, <1>5, <2>2 DEF TrapInv, SameEntry, Owns
    <3> QED BY <3>1, SameEntryKept
  <2> QED BY <2>1, <2>2
<1> QED BY <1>4, <1>6, <1>7, <1>8 DEF TrapInv

(* The removal of a user-defined trap. *)
LEMMA RemoveUserTrapKeeps ==
  ASSUME TrapInv, NEW r \in UserReasons, RemoveUserTrap(r)
  PROVE  TrapInv'
PROOF
<1> USE TrapAssumption
<1> DEFINE e == userTraps[r]
<1>1. e \in EntryIds /\ e \in entryIds /\ e # 0 /\ hwEntry[e].reason = {r}
  BY DEF RemoveUserTrap, TrapInv, TrapTyped, UserOk
<1>2. /\ userTraps' = [userTraps EXCEPT ![r] = 0]
      /\ hwEntry' = [hwEntry EXCEPT ![e] = NoEntry]
      /\ UNCHANGED <<groups, traps, entryIds, hwQueue, requeued, refused, abandoned>>
  BY <1>1 DEF RemoveUserTrap, DropEntry
<1>3. NoEntry \in EntryRecords
  BY DEF EntryRecords, NoEntry
<1>4. TrapTyped'
  BY <1>1, <1>2, <1>3 DEF TrapInv, TrapTyped
<1>5. /\ hwEntry'[e] = NoEntry
      /\ \A x \in EntryIds \ {e} : hwEntry'[x] = hwEntry[x]
      /\ userTraps'[r] = 0 /\ \A x \in UserReasons \ {r} : userTraps'[x] = userTraps[x]
  BY <1>1, <1>2 DEF TrapInv, TrapTyped
<1>6. ASSUME NEW x \in Reasons PROVE TrapOk(x)' /\ QueueOk(x)'
  <2>1. TrapOk(x) /\ QueueOk(x) /\ entryIds \subseteq EntryIds
    BY DEF TrapInv, TrapTyped
  <2>2. x \in NormalReasons /\ traps[x].ref > 0 => traps[x].entry # e
    BY <1>1, <2>1 DEF TrapOk
  <2>3. SameTrap(x) /\ SameQueue(x)
    BY <1>1, <1>2, <1>5, <2>1, <2>2 DEF SameTrap, SameQueue, TrapOk
  <2> QED BY <2>1, <2>3, SameTrapKept, SameQueueKept
<1>7. ASSUME NEW x \in UserReasons PROVE UserOk(x)'
  <2>1. CASE x = r
    BY <1>5, <2>1 DEF UserOk
  <2>2. CASE x # r
    <3>1. UserOk(x)
      BY DEF TrapInv
    <3>2. userTraps[x] # 0 => userTraps[x] # e
      BY <1>1, <2>2, <3>1 DEF UserOk
    <3>3. SameUser(x)
      BY <1>1, <1>2, <1>5, <2>2, <3>1, <3>2 DEF TrapInv, UserOk, SameUser, TrapTyped
    <3> QED BY <3>1, <3>3, SameUserKept
  <2> QED BY <2>1, <2>2
<1>8. ASSUME NEW x \in EntryIds PROVE EntryOk(x)'
  <2>1. CASE x = e
    BY <1>5, <2>1 DEF EntryOk
  <2>2. CASE x # e
    <3>1. \A y : Owns(y, x) => Owns(y, x)'
      BY <1>2, <1>5, <2>2 DEF Owns
    <3>2. EntryOk(x) /\ SameEntry(x)
      BY <1>2, <1>5, <2>2, <3>1 DEF TrapInv, SameEntry
    <3> QED BY <3>2, SameEntryKept
  <2> QED BY <2>1, <2>2
<1> QED BY <1>4, <1>6, <1>7, <1>8 DEF TrapInv

(* Warm boot: the ids of the traps' records are the ids in the chip. *)
LEMMA ReloadTrapsKeeps ==
  ASSUME TrapInv, ReloadTraps
  PROVE  TrapInv'
PROOF
<1> USE TrapAssumption
<1>1. /\ UNCHANGED <<groups, traps, userTraps, hwQueue, hwEntry, requeued, refused, abandoned>>
      /\ entryIds' = {traps[r].entry : r \in Reasons} \ {0}
      /\ abandoned = {} /\ \A r \in UserReasons : userTraps[r] = 0
  BY DEF ReloadTraps
<1>2. TrapTyped'
  BY <1>1 DEF TrapInv, TrapTyped, TrapRecords
<1>3. ASSUME NEW r \in Reasons PROVE TrapOk(r)' /\ QueueOk(r)'
  <2>1. TrapOk(r) /\ QueueOk(r) /\ 0 \notin entryIds
    BY DEF TrapInv, TrapTyped
  <2>2. r \in NormalReasons /\ traps[r].ref > 0 => traps[r].entry \in entryIds'
    BY <1>1, <2>1 DEF TrapOk
  <2> QED BY <1>1, <2>1, <2>2 DEF TrapOk, QueueOk, QueueIn
<1>4. \A r \in UserReasons : UserOk(r)'
  BY <1>1 DEF UserOk
<1>5. ASSUME NEW e \in EntryIds PROVE EntryOk(e)'
  <2>1. EntryOk(e)
    BY DEF TrapInv
  <2>2. ASSUME NEW r, Owns(r, e) PROVE Owns(r, e)' /\ e \in entryIds'
    BY <1>1, <2>2 DEF Owns, Reasons
  <2> QED BY <1>1, <2>1, <2>2 DEF EntryOk
<1> QED BY <1>2, <1>3, <1>4, <1>5 DEF TrapInv

(* Every call on traps and their groups keeps the invariant. *)
LEMMA TrapCallsKeep == TrapInv /\ [TrapNext]_trapVars => TrapInv'
PROOF
<1> SUFFICES ASSUME TrapInv, [TrapNext]_trapVars PROVE TrapInv'
  OBVIOUS
<1>1. CASE UNCHANGED trapVars
  BY <1>1 DEF trapVars, TrapInv, TrapTyped, TrapOk, QueueOk, QueueIn, UserOk, EntryOk, Owns
<1>2. CASE ReloadTraps
  BY <1>2, ReloadTrapsKeeps
<1>3. CASE \E g \in TrapGroups, admin \in BOOLEAN, q \in CpuQueues :
             CreateTrapGroup(g, admin, q) \/ SetTrapGroupAttr(g, admin, q)
  BY <1>3, GroupsKeep, SetTrapGroupAttrKeeps
<1>4. CASE \E g \in TrapGroups : RemoveTrapGroup(g)
  BY <1>4, GroupsKeep
<1>5. CASE \E r \in Reasons, g \in TrapGroups, action \in Actions : CreateTrap(r, g, action)
  BY <1>5, CreateTrapKeeps
<1>6. CASE \E r \in Reasons, g \in TrapGroups : CreateTrapRefused(r, g) \/ SetTrapGroup(r, g)
  BY <1>6, CreateTrapRefusedKeeps, SetGroupKeeps
<1>7. CASE \E r \in Reasons, action \in Actions : SetAction(r, action)
  BY <1>7, SetActionKeeps
<1>8. CASE \E r \in Reasons : RemoveTrap(r) \/ CreateTrapUnfinished(r)
  BY <1>8, RemoveTrapKeeps, CreateTrapUnfinishedKeeps
<1>9. CASE \E r \in UserReasons : CreateUserTrap(r) \/ RemoveUserTrap(r)
  BY <1>9, CreateUserTrapKeeps, RemoveUserTrapKeeps
<1> QED BY <1>1, <1>2, <1>3, <1>4, <1>5, <1>6, <1>7, <1>8, <1>9 DEF TrapNext

-----------------------------------------------------------------------------
(* Host interfaces *)
Directions == {"none", "rx", "tx"}
MaybeObject == HifObjects \cup {NoObject}
PacketRecords == [dir : Directions, at : MaybeObject, fd : Fds \cup {0}, raced : BOOLEAN, out : MaybeObject]
HifTyped ==
  /\ hostifs \in [HifObjects -> Fds \cup {0}]
  /\ openFds \in [Fds -> MaybeObject]
  /\ watched \subseteq Fds
  /\ lagPorts \in [HifPorts -> HifLags \cup {NoObject}]
  /\ lagCb \subseteq HifLags
  /\ pkt \in PacketRecords
(* A live interface and its open descriptor name one another, and only open *)
(* descriptors are watched. *)
FdOk(o) == Live(o) => openFds[hostifs[o]] = o /\ hostifs[o] \in watched
OpenOk(f) ==
  /\ openFds[f] # NoObject => hostifs[openFds[f]] = f
  /\ f \in watched => openFds[f] # NoObject
(* The trapping of a live interface is on, and that of a LAG's members while *)
(* the LAG tells of them. *)
CpuOk(o) == Live(o) /\ o \notin darkened => o \in toCpu
CbOk(l) ==
  l \in lagCb => /\ Live(l)
                 /\ \A p \in HifPorts : lagPorts[p] = l /\ p \notin darkened => p \in toCpu
(* The interface a packet was found for still has the packet's descriptor, *)
(* unless it was removed meanwhile. *)
PktOk ==
  /\ pkt.at = NoObject => pkt.dir = "none" /\ pkt.out = NoObject
  /\ pkt.at # NoObject => pkt.fd \in Fds
  /\ pkt.at # NoObject /\ ~pkt.raced => hostifs[pkt.at] = pkt.fd
  /\ pkt.out # NoObject /\ ~pkt.raced => pkt.out = pkt.at
FdsOk ==
  /\ \A o \in HifObjects : FdOk(o)
  /\ \A f \in Fds : OpenOk(f)
TrappingOk ==
  /\ \A o \in HifObjects : CpuOk(o)
  /\ \A l \in HifLags : CbOk(l)
HifInv == HifTyped /\ FdsOk /\ TrappingOk /\ PktOk

(* What the invariant says of the interfaces and of the packet. *)
LEMMA HifGives == HifInv => HostIfsExact
PROOF
<1> SUFFICES ASSUME HifInv PROVE HostIfsExact
  OBVIOUS
<1>1. \A o \in HifObjects : Live(o) => openFds[hostifs[o]] = o /\ hostifs[o] \in watched
  BY DEF HifInv, FdsOk, FdOk
<1>2. \A o \in HifObjects \ darkened : Live(o) => o \in toCpu
  BY DEF HifInv, TrappingOk, CpuOk
<1>3. \A l \in lagCb : Live(l) /\ \A p \in TrappedMembers(l) \ darkened : p \in toCpu
  BY DEF HifInv, TrappingOk, CbOk, HifTyped, TrappedMembers
<1> QED BY <1>1, <1>2, <1>3 DEF HostIfsExact, HifInv, PktOk

(* The packet that is not there. *)
LEMMA IdlePacket == Idle \in PacketRecords /\ Idle.at = NoObject /\ Idle.dir = "none" /\ Idle.out = NoObject
BY DEF Idle, PacketRecords, Directions, MaybeObject

(* It holds before the first call. *)
LEMMA HifInitially == HifInit => HifInv
PROOF
<1> SUFFICES ASSUME HifInit PROVE HifInv
  OBVIOUS
<1> USE HostIfAssumption
<1>1. HifTyped
  BY IdlePacket DEF HifInit, HifTyped, MaybeObject
<1>2. \A o \in HifObjects : ~Live(o)
  BY DEF HifInit, Live
<1>3. FdsOk
  BY <1>2 DEF HifInit, FdsOk, FdOk, OpenOk
<1>4. TrappingOk
  BY <1>2 DEF HifInit, TrappingOk, CpuOk, CbOk
<1>5. PktOk
  BY IdlePacket DEF HifInit, PktOk
<1> QED BY <1>1, <1>3, <1>4, <1>5 DEF HifInv

(* The descriptor a new socket gets is free. *)
LEMMA FreeFdFact ==
  ASSUME FreeFds # {}
  PROVE  Min(FreeFds) \in Fds /\ openFds[Min(FreeFds)] = NoObject
BY MinFact, HostIfAssumption DEF FreeFds

(* create_hostif. *)
LEMMA CreateHostIfKeeps ==
  ASSUME HifInv, NEW o \in HifObjects, CreateHostIf(o)
  PROVE  HifInv'
PROOF
<1> USE HostIfAssumption
<1> DEFINE f == Min(FreeFds)
           on == IF o \in HifLags THEN TrappedMembers(o) \cup {o} ELSE {o}
<1>1. f \in Fds /\ openFds[f] = NoObject
  BY FreeFdFact DEF CreateHostIf
<1>2. o \in on /\ (o \in HifLags => \A p \in HifPorts : lagPorts[p] = o => p \in on)
  BY DEF TrappedMembers
<1>3. /\ ~Live(o)
      /\ hostifs' = [hostifs EXCEPT ![o] = f] /\ openFds' = [openFds EXCEPT ![f] = o]
      /\ watched' = watched \cup {f}
      /\ lagCb' = IF o \in HifLags THEN lagCb \cup {o} ELSE lagCb
      /\ toCpu' = toCpu \cup on /\ darkened' = darkened \ on
      /\ UNCHANGED <<lagPorts, pkt>>
  BY DEF CreateHostIf
<1> HIDE DEF f, on
<1>4. /\ hostifs'[o] = f /\ \A x \in HifObjects \ {o} : hostifs'[x] = hostifs[x]
      /\ openFds'[f] = o /\ \A x \in Fds \ {f} : openFds'[x] = openFds[x]
  BY <1>1, <1>3 DEF HifInv, HifTyped
<1>5. HifTyped'
  BY <1>1, <1>3 DEF HifInv, HifTyped, MaybeObject
<1>6. ASSUME NEW x \in HifObjects PROVE FdOk(x)'
  <2>1. CASE x = o
    BY <1>3, <1>4, <2>1 DEF FdOk
  <2>2. CASE x # o
    <3>1. FdOk(x) /\ (Live(x)' <=> Live(x)) /\ (Live(x) => hostifs[x] \in Fds \ {f})
      BY <1>1, <1>4, <2>2 DEF HifInv, FdsOk, FdOk, Live, HifTyped
    <3> QED BY <1>3, <1>4, <2>2, <3>1 DEF FdOk
  <2> QED BY <2>1, <2>2
<1>7. ASSUME NEW x \in Fds PROVE OpenOk(x)'
  <2>1. CASE x = f
    BY <1>4, <2>1 DEF OpenOk
  <2>2. CASE x # f
    <3>1. OpenOk(x) /\ openFds[x] \in MaybeObject
      BY DEF HifInv, FdsOk, HifTyped
    <3>2. openFds[x] # o
      BY <1>3, <3>1 DEF OpenOk, Live
    <3> QED BY <1>3, <1>4, <2>2, <3>1, <3>2 DEF OpenOk, MaybeObject
  <2> QED BY <2>1, <2>2
<1>8. ASSUME NEW x \in HifObjects PROVE CpuOk(x)'
  BY <1>2, <1>3, <1>4 DEF HifInv, TrappingOk, CpuOk, Live
<1>9. ASSUME NEW l \in HifLags PROVE CbOk(l)'
  <2>1. CbOk(l) /\ o \in HifObjects /\ l \in HifObjects /\ f # 0
    BY <1>1 DEF HifInv, TrappingOk, HifObjects
  <2>2. l \in lagCb' => Live(l)'
    BY <1>3, <1>4, <2>1 DEF CbOk, Live
  <2>3. ASSUME l \in lagCb', NEW p \in HifPorts, lagPorts'[p] = l, p \notin darkened'
        PROVE  p \in toCpu'
    BY <1>2, <1>3, <2>1, <2>3 DEF CbOk
  <2> QED BY <2>2, <2>3 DEF CbOk
<1>10. PktOk'
  <2>1. pkt.at # NoObject /\ ~pkt.raced => pkt.at # o /\ pkt.at \in HifObjects
    BY <1>3 DEF HifInv, PktOk, Live, HifTyped, PacketRecords, MaybeObject
  <2> QED BY <1>3, <1>4, <2>1 DEF HifInv, PktOk
<1> QED BY <1>5, <1>6, <1>7, <1>8, <1>9, <1>10 DEF HifInv, FdsOk, TrappingOk

(* What leaves interfaces, descriptors and the packet alone, and may switch *)
(* trapping on and off. *)
LEMMA OnlyTrapping ==
  ASSUME HifInv, UNCHANGED <<hostifs, openFds, watched, pkt>>,
         HifTyped', TrappingOk'
  PROVE  HifInv'
BY DEF HifInv, FdsOk, FdOk, OpenOk, PktOk, Live

(* An interface created a second time. *)
LEMMA CreateHostIfAgainKeeps ==
  ASSUME HifInv, NEW o \in HifObjects, CreateHostIfAgain(o)
  PROVE  HifInv'
PROOF
<1> USE HostIfAssumption
<1>1. PICK off : /\ toCpu' = toCpu \ off /\ darkened' = darkened \cup off
                 /\ lagCb' = lagCb \ {o}
                 /\ UNCHANGED <<hostifs, openFds, watched, lagPorts, pkt>>
  BY DEF CreateHostIfAgain
<1>2. HifTyped'
  BY <1>1 DEF HifInv, HifTyped
<1>3. \A x \in HifObjects : CpuOk(x)'
  BY <1>1 DEF HifInv, TrappingOk, CpuOk, Live
<1>4. \A l \in HifLags : CbOk(l)'
  BY <1>1 DEF HifInv, TrappingOk, CbOk, Live
<1> QED BY <1>1, <1>2, <1>3, <1>4, OnlyTrapping DEF TrappingOk

(* remove_hostif. *)
LEMMA RemoveHostIfKeeps ==
  ASSUME HifInv, NEW o \in HifObjects, RemoveHostIf(o)
  PROVE  HifInv'
PROOF
<1> USE HostIfAssumption
<1> DEFINE f == hostifs[o]
           off == IF o \in HifLags THEN (IF o \in lagCb THEN TrappedMembers(o) ELSE {}) \cup {o}
                  ELSE IF o \in HifVlans THEN {o} ELSE {}
<1>1. f \in Fds /\ f # 0 /\ openFds[f] = o
  BY DEF RemoveHostIf, HifInv, HifTyped, FdsOk, FdOk, Live
<1>2. \A p \in HifPorts : p \in off => p # o
  BY DEF HifObjects
<1>3. /\ hostifs' = [hostifs EXCEPT ![o] = 0] /\ openFds' = [openFds EXCEPT ![f] = NoObject]
      /\ watched' = watched \ {f}
      /\ toCpu' = toCpu \ off /\ darkened' = darkened \cup (off \ {o})
      /\ lagCb' = lagCb \ {o}
      /\ pkt' = [pkt EXCEPT !.raced = @ \/ pkt.at = o]
      /\ UNCHANGED lagPorts
  BY DEF RemoveHostIf
<1> HIDE DEF off
<1>4. /\ hostifs'[o] = 0 /\ \A x \in HifObjects \ {o} : hostifs'[x] = hostifs[x]
      /\ openFds'[f] = NoObject /\ \A x \in Fds \ {f} : openFds'[x] = openFds[x]
  BY <1>1, <1>3 DEF HifInv, HifTyped
<1>5. /\ pkt' \in PacketRecords /\ pkt'.at = pkt.at /\ pkt'.fd = pkt.fd
      /\ pkt'.dir = pkt.dir /\ pkt'.out = pkt.out
      /\ pkt'.raced <=> (pkt.raced \/ pkt.at = o)
  <2>1. PICK old \in PacketRecords : old = pkt
    BY DEF HifInv, HifTyped
  <2>2. (old.raced \/ old.at = o) \in BOOLEAN
    BY Zenon
  <2>3. PICK raced \in BOOLEAN : raced = (old.raced \/ old.at = o)
    BY <2>2, Zenon
  <2>4. pkt' = [old EXCEPT !.raced = raced]
    BY <1>3, <2>1, <2>3, Zenon
  <2>5. /\ pkt' \in PacketRecords /\ pkt'.at = old.at /\ pkt'.fd = old.fd
        /\ pkt'.dir = old.dir /\ pkt'.out = old.out /\ pkt'.raced = raced
    BY <2>4 DEF PacketRecords
  <2> QED BY <2>1, <2>3, <2>5, Zenon
<1>6. HifTyped'
  BY <1>1, <1>3, <1>5 DEF HifInv, HifTyped, MaybeObject
<1>7. ASSUME NEW x \in HifObjects PROVE FdOk(x)'
  <2>1. CASE x = o
    BY <1>4, <2>1 DEF FdOk, Live
  <2>2. CASE x # o
    <3>1. FdOk(x) /\ (Live(x)' <=> Live(x)) /\ hostifs'[x] = hostifs[x]
      BY <1>4, <2>2 DEF HifInv, FdsOk, Live
    <3>2. Live(x) => hostifs[x] \in Fds \ {f}
      BY <1>1, <2>2, <3>1 DEF FdOk, Live, HifInv, HifTyped
    <3> QED BY <1>3, <1>4, <3>1, <3>2 DEF FdOk
  <2> QED BY <2>1, <2>2
<1>8. ASSUME NEW x \in Fds PROVE OpenOk(x)'
  <2>1. CASE x = f
    BY <1>3, <1>4, <2>1 DEF OpenOk
  <2>2. CASE x # f
    <3>1. OpenOk(x) /\ openFds[x] \in MaybeObject
      BY DEF HifInv, FdsOk, HifTyped
    <3>2. openFds[x] # o
      BY <1>1, <2>2, <3>1 DEF OpenOk
    <3> QED BY <1>3, <1>4, <2>2, <3>1, <3>2 DEF OpenOk, MaybeObject
  <2> QED BY <2>1, <2>2
<1>9. ASSUME NEW x \in HifObjects PROVE CpuOk(x)'
  BY <1>3, <1>4 DEF HifInv, TrappingOk, CpuOk, Live
<1>10. ASSUME NEW l \in HifLags PROVE CbOk(l)'
  <2>1. CbOk(l) /\ l \in HifObjects
    BY DEF HifInv, TrappingOk, HifObjects
  <2>2. l \in lagCb' => Live(l)'
    BY <1>3, <1>4, <2>1 DEF CbOk, Live
  <2>3. ASSUME l \in lagCb', NEW p \in HifPorts, lagPorts'[p] = l, p \notin darkened'
        PROVE  p \in toCpu'
    BY <1>2, <1>3, <2>1, <2>3 DEF CbOk
  <2> QED BY <2>2, <2>3 DEF CbOk
<1>11. PktOk'
  <2>1. pkt.at # NoObject => pkt.at \in HifObjects
    BY DEF HifInv, HifTyped, PacketRecords, MaybeObject
  <2>2. PktOk
    BY DEF HifInv
  <2>3. pkt'.at # NoObject /\ ~pkt'.raced => hostifs'[pkt'.at] = pkt'.fd
    BY <1>4, <1>5, <2>1, <2>2 DEF PktOk
  <2> QED BY <1>5, <2>2, <2>3 DEF PktOk
<1> QED BY <1>6, <1>7, <1>8, <1>9, <1>10, <1>11 DEF HifInv, FdsOk, TrappingOk

(* hostif_lag_member_change_cb_fn. *)
LEMMA LagMembersKeep ==
  ASSUME HifInv, NEW p \in HifPorts, (\E l \in HifLags : JoinLag(p, l)) \/ LeaveLag(p)
  PROVE  HifInv'
PROOF
<1> USE HostIfAssumption
<1>1. CASE LeaveLag(p)
  <2>1. /\ lagPorts' = [lagPorts EXCEPT ![p] = NoObject]
        /\ \/ toCpu' = toCpu \ {p} /\ darkened' = darkened \cup {p}
           \/ UNCHANGED <<toCpu, darkened>>
        /\ UNCHANGED <<hostifs, openFds, watched, lagCb, pkt>>
    BY <1>1 DEF LeaveLag
  <2>2. HifTyped'
    BY <2>1 DEF HifInv, HifTyped
  <2>3. \A x \in HifObjects : CpuOk(x)'
    BY <2>1 DEF HifInv, TrappingOk, CpuOk, Live
  <2>4. \A x \in HifPorts, l \in HifLags : lagPorts'[x] = l => lagPorts[x] = l
    BY <2>1 DEF HifInv, HifTyped, HifObjects
  <2>5. \A l \in HifLags : CbOk(l)'
    BY <2>1, <2>4 DEF HifInv, TrappingOk, CbOk, Live
  <2> QED BY <2>1, <2>2, <2>3, <2>5, OnlyTrapping DEF TrappingOk
<1>2. ASSUME NEW l \in HifLags, JoinLag(p, l) PROVE HifInv'
  <2>1. /\ lagPorts' = [lagPorts EXCEPT ![p] = l]
        /\ l \in lagCb => toCpu' = toCpu \cup {p} /\ darkened' = darkened \ {p}
        /\ l \notin lagCb => UNCHANGED <<toCpu, darkened>>
        /\ UNCHANGED <<hostifs, openFds, watched, lagCb, pkt>>
    BY <1>2 DEF JoinLag
  <2>2. HifTyped'
    BY <2>1 DEF HifInv, HifTyped
  <2>3. \A x \in HifObjects : CpuOk(x)'
    BY <2>1 DEF HifInv, TrappingOk, CpuOk, Live
  <2>4. lagPorts'[p] = l /\ \A x \in HifPorts \ {p} : lagPorts'[x] = lagPorts[x]
    BY <2>1 DEF HifInv, HifTyped
  <2>5. ASSUME NEW m \in HifLags PROVE CbOk(m)'
    <3>1. CbOk(m) /\ (Live(m)' <=> Live(m))
      BY <2>1 DEF HifInv, TrappingOk, Live
    <3>2. ASSUME m \in lagCb', NEW x \in HifPorts, lagPorts'[x] = m, x \notin darkened'
          PROVE  x \in toCpu'
      <4>1. CASE x = p
        BY <2>1, <2>4, <3>2, <4>1
      <4>2. CASE x # p
        BY <2>1, <2>4, <3>1, <3>2, <4>2 DEF CbOk
      <4> QED BY <4>1, <4>2
    <3> QED BY <2>1, <3>1, <3>2 DEF CbOk
  <2> QED BY <2>1, <2>2, <2>3, <2>5, OnlyTrapping DEF TrappingOk
<1> QED BY <1>1, <1>2

(* The packet: only it changes. *)
LEMMA OnlyPacket ==
  ASSUME HifInv, UNCHANGED <<hostifs, openFds, watched, lagPorts, lagCb, toCpu, darkened>>,
         pkt' \in PacketRecords, PktOk'
  PROVE  HifInv'
BY DEF HifInv, HifTyped, FdsOk, FdOk, OpenOk, TrappingOk, CpuOk, CbOk, Live

(* The steps of the receive callback and of the transmit thread. *)
LEMMA PacketKeeps ==
  ASSUME HifInv,
         \/ \E p \in HifPorts, v \in HifVlans, tab \in Tables : RxLookup(p, v, tab)
         \/ RxWrite \/ (\E f \in Fds : TxRead(f)) \/ TxSend \/ PacketDone
  PROVE  HifInv'
PROOF
<1> USE HostIfAssumption
<1>1. ASSUME pkt' = Idle, UNCHANGED <<hostifs, openFds, watched, lagPorts, lagCb, toCpu, darkened>>
      PROVE  HifInv'
  BY <1>1, IdlePacket, OnlyPacket DEF PktOk
<1>2. ASSUME NEW dir \in {"rx", "tx"}, NEW o \in HifObjects, NEW f \in Fds, hostifs[o] = f,
             pkt' = [dir |-> dir, at |-> o, fd |-> f, raced |-> FALSE, out |-> NoObject],
             UNCHANGED <<hostifs, openFds, watched, lagPorts, lagCb, toCpu, darkened>>
      PROVE  HifInv'
  <2>1. /\ pkt' \in PacketRecords
        /\ pkt'.at = o /\ pkt'.fd = f /\ pkt'.out = NoObject
    BY <1>2 DEF PacketRecords, Directions, MaybeObject
  <2>2. PktOk'
    BY <1>2, <2>1 DEF PktOk
  <2> QED BY <1>2, <2>1, <2>2, OnlyPacket
<1>3. ASSUME NEW out \in HifObjects, pkt.at # NoObject, ~pkt.raced => out = pkt.at,
             pkt' = [pkt EXCEPT !.out = out],
             UNCHANGED <<hostifs, openFds, watched, lagPorts, lagCb, toCpu, darkened>>
      PROVE  HifInv'
  <2>1. PICK old \in PacketRecords : old = pkt
    BY DEF HifInv, HifTyped
  <2>2. /\ pkt' \in PacketRecords
        /\ pkt'.at = pkt.at /\ pkt'.fd = pkt.fd /\ pkt'.out = out /\ pkt'.raced = pkt.raced
    BY <1>3, <2>1 DEF PacketRecords, MaybeObject
  <2>3. PktOk'
    BY <1>3, <2>2 DEF PktOk, HifInv
  <2> QED BY <1>3, <2>2, <2>3, OnlyPacket
<1>4. ASSUME NEW p \in HifPorts, NEW v \in HifVlans, NEW tab \in Tables, RxLookup(p, v, tab)
      PROVE  HifInv'
  <2> DEFINE o == HostIfOf(Source(p), v)
  <2>1. Source(p) \in HifObjects
    BY DEF Source, HifInv, HifTyped, HifObjects
  <2>2. o \in HifObjects /\ hostifs[o] \in Fds
    BY <1>4, <2>1 DEF RxLookup, HostIfOf, Live, HifInv, HifTyped, HifObjects
  <2>3. pkt' = [dir |-> "rx", at |-> o, fd |-> hostifs[o], raced |-> FALSE, out |-> NoObject]
        /\ UNCHANGED <<hostifs, openFds, watched, lagPorts, lagCb, toCpu, darkened>>
    BY <1>4 DEF RxLookup
  <2> HIDE DEF o
  <2> QED BY <1>2, <2>2, <2>3
<1>5. CASE RxWrite
  <2>1. /\ pkt.at # NoObject /\ pkt.fd \in Fds
        /\ ~pkt.raced => hostifs[pkt.at] = pkt.fd /\ pkt.at \in HifObjects
    BY <1>5 DEF RxWrite, HifInv, PktOk, HifTyped, PacketRecords, MaybeObject
  <2>2. ~pkt.raced => openFds[pkt.fd] = pkt.at
    BY <2>1 DEF HifInv, FdsOk, FdOk, Live
  <2>3. openFds[pkt.fd] \in MaybeObject
    BY <2>1 DEF HifInv, HifTyped
  <2>4. CASE openFds[pkt.fd] = NoObject
    BY <1>1, <1>5, <2>4 DEF RxWrite
  <2>5. CASE openFds[pkt.fd] # NoObject
    <3>1. openFds[pkt.fd] \in HifObjects
      BY <2>3, <2>5 DEF MaybeObject
    <3>2. pkt' = [pkt EXCEPT !.out = openFds[pkt.fd]]
          /\ UNCHANGED <<hostifs, openFds, watched, lagPorts, lagCb, toCpu, darkened>>
      BY <1>5, <2>5 DEF RxWrite
    <3> QED BY <1>3, <2>1, <2>2, <3>1, <3>2
  <2> QED BY <2>4, <2>5
<1>6. ASSUME NEW f \in Fds, TxRead(f) PROVE HifInv'
  <2>1. openFds[f] \in HifObjects /\ hostifs[openFds[f]] = f
    BY <1>6 DEF TxRead, HifInv, HifTyped, MaybeObject, FdsOk, OpenOk
  <2>2. pkt' = [dir |-> "tx", at |-> openFds[f], fd |-> f, raced |-> FALSE, out |-> NoObject]
        /\ UNCHANGED <<hostifs, openFds, watched, lagPorts, lagCb, toCpu, darkened>>
    BY <1>6 DEF TxRead, Idle
  <2> QED BY <1>2, <2>1, <2>2
<1>7. CASE TxSend
  <2> DEFINE found == {o \in HifObjects : hostifs[o] = pkt.fd}
  <2>1. /\ pkt.at # NoObject /\ pkt.fd \in Fds
        /\ ~pkt.raced => hostifs[pkt.at] = pkt.fd /\ pkt.at \in HifObjects
    BY <1>7 DEF TxSend, HifInv, PktOk, HifTyped, PacketRecords, MaybeObject
  <2>2. \A o \in found : o = openFds[pkt.fd]
    BY <2>1 DEF HifInv, FdsOk, FdOk, Live
  <2>3. UNCHANGED <<hostifs, openFds, watched, lagPorts, lagCb, toCpu, darkened>>
    BY <1>7 DEF TxSend
  <2>4. CASE found = {}
    BY <1>1, <1>7, <2>3, <2>4 DEF TxSend
  <2>5. CASE found # {}
    <3>1. PICK out \in found : out = (CHOOSE o \in found : TRUE)
      BY <2>5
    <3>2. pkt' = [pkt EXCEPT !.out = out]
      BY <1>7, <2>5, <3>1 DEF TxSend
    <3>3. ~pkt.raced => out = pkt.at
      BY <2>1, <2>2, <3>1
    <3> QED BY <1>3, <2>1, <2>3, <3>1, <3>2, <3>3
  <2> QED BY <2>4, <2>5
<1>8. CASE PacketDone
  BY <1>1, <1>8 DEF PacketDone
<1> QED BY <1>4, <1>5, <1>6, <1>7, <1>8

(* Every call and every step of a packet keeps the invariant. *)
LEMMA HifCallsKeep == HifInv /\ [HifNext]_hifVars => HifInv'
PROOF
<1> SUFFICES ASSUME HifInv, [HifNext]_hifVars PROVE HifInv'
  OBVIOUS
<1>1. CASE UNCHANGED hifVars
  BY <1>1 DEF hifVars, HifInv, HifTyped, FdsOk, FdOk, OpenOk, TrappingOk, CpuOk, CbOk, PktOk, Live
<1>2. CASE \E o \in HifObjects : CreateHostIf(o) \/ CreateHostIfAgain(o) \/ RemoveHostIf(o)
  BY <1>2, CreateHostIfKeeps, CreateHostIfAgainKeeps, RemoveHostIfKeeps
<1>3. CASE \/ \E p \in HifPorts, l \in HifLags : JoinLag(p, l)
           \/ \E p \in HifPorts : LeaveLag(p)
  BY <1>3, LagMembersKeep
<1>4. CASE \/ \E p \in HifPorts, v \in HifVlans, tab \in Tables : RxLookup(p, v, tab)
           \/ RxWrite \/ (\E f \in Fds : TxRead(f)) \/ TxSend \/ PacketDone
  BY <1>4, PacketKeeps
<1> QED BY <1>1, <1>2, <1>3, <1>4 DEF HifNext

-----------------------------------------------------------------------------
(* ACL bindings *)
AclObjects == AclTables \cup AclGroups
AclEntryRecs == [tab : AclTables \cup {0}, prio : Nat, lprio : Nat, on : BOOLEAN]
HwEntryRecs == [prio : Nat, on : BOOLEAN, late : BOOLEAN]
AclTyped ==
  /\ members \in [AclGroups -> Seq(AclTables)]
  /\ entries \in [AclEntries -> AclEntryRecs]
  /\ bindPoints \in [AclObjects -> SUBSET AclPoints]
  /\ boundOid \in [AclPoints -> AclObjects \cup {0}]
  /\ hwTable \in [AclPoints -> [AclTables -> Nat]]
  /\ hwAcl \in [AclPoints -> [AclEntries -> HwEntryRecs]]
  /\ lookups \in [AclPoints -> SUBSET Nat]
(* A list has a table once, and no more than there are blocks; a priority *)
(* is never 0. *)
ListOk(ms) ==
  /\ ms \in Seq(AclTables) /\ Len(ms) <= BlockNum
  /\ \A i, j \in 1..Len(ms) : ms[i] = ms[j] => i = j
RecordOk(e) ==
  /\ entries[e].tab = 0 => entries[e].prio = 0
  /\ entries[e].tab # 0 => entries[e].prio # 0 /\ entries[e].lprio # 0
(* What is at a port, whatever happened there: no table but those of what *)
(* it is bound to and no entry but theirs. What the history says is missing *)
(* is an entry of such a table. The blocks looked up are those of what the *)
(* port is bound to, unless the members changed. *)
NothingElse(p) ==
  /\ \A t \in AclTables : hwTable[p][t] # NoBlock => TableAtPort(p, t)
  /\ \A e \in AclEntries : hwAcl[p][e].prio # 0 =>
       entries[e].tab # 0 /\ hwTable[p][entries[e].tab] # NoBlock
  /\ \A e \in AclEntries : <<p, e>> \in missing =>
       entries[e].tab # 0 /\ TableAtPort(p, entries[e].tab)
LookupsOk(p) ==
  p \notin bent => lookups[p] = IF boundOid[p] = 0 THEN {}
                                ELSE LookupBlocks(boundOid[p], MembersOf(boundOid[p]))
PortOk(p) ==
  /\ ListsExact(p) /\ NothingElse(p) /\ LookupsOk(p) /\ TablesInstalled(p) /\ LookedUp(p)
  /\ \A e \in AclEntries : EntryInstalled(p, e)
AclInv ==
  /\ AclTyped
  /\ \A g \in AclGroups : ListOk(members[g])
  /\ \A e \in AclEntries : RecordOk(e)
  /\ \A p \in AclPoints \ bothStages : PortOk(p)

(* Lists of members: adding at the front, removing at a place. *)
LEMMA PlaceFact ==
  ASSUME NEW ms \in Seq(AclTables), NEW t \in ToSet(ms)
  PROVE  PlaceOf(ms, t) \in 1..Len(ms) /\ ms[PlaceOf(ms, t)] = t
BY DEF PlaceOf, ToSet

(* A table put before the members of a group. *)
LEMMA AddedList ==
  ASSUME NEW ms, ListOk(ms), NEW t \in AclTables, t \notin ToSet(ms), Len(ms) < BlockNum
  PROVE  ListOk(<<t>> \o ms) /\ ToSet(<<t>> \o ms) = {t} \cup ToSet(ms)
PROOF
<1> DEFINE n == <<t>> \o ms
<1>0. Len(ms) \in Nat /\ BlockNum \in Nat
  BY AclAssumption DEF ListOk
<1>1. /\ n \in Seq(AclTables) /\ Len(n) = Len(ms) + 1
      /\ \A i \in 1..Len(n) : n[i] = IF i = 1 THEN t ELSE ms[i - 1]
  BY DEF ListOk
<1> HIDE DEF n
<1>2. \A i \in 1..Len(ms) : ms[i] \in ToSet(ms) /\ ms[i] = n[i + 1]
  BY <1>0, <1>1 DEF ToSet, ListOk
<1>3. \A i, j \in 1..Len(n) : n[i] = n[j] => i = j
  <2> SUFFICES ASSUME NEW i \in 1..Len(n), NEW j \in 1..Len(n), n[i] = n[j] PROVE i = j
    OBVIOUS
  <2>1. CASE i = 1 \/ j = 1
    BY <1>0, <1>1, <1>2, <2>1
  <2>2. CASE i # 1 /\ j # 1
    <3>1. i - 1 \in 1..Len(ms) /\ j - 1 \in 1..Len(ms)
      BY <1>0, <1>1, <2>2
    <3>2. ms[i - 1] = ms[j - 1]
      BY <1>1, <2>2
    <3>3. i - 1 = j - 1
      BY <3>1, <3>2 DEF ListOk
    <3> QED BY <1>0, <1>1, <3>3
  <2> QED BY <2>1, <2>2
<1>4. ToSet(n) = {t} \cup ToSet(ms)
  <2>1. ToSet(n) \subseteq {t} \cup ToSet(ms)
    BY <1>0, <1>1, <1>2 DEF ToSet
  <2>2. t \in ToSet(n)
    BY <1>0, <1>1 DEF ToSet
  <2>3. \A i \in 1..Len(ms) : i + 1 \in 1..Len(n) /\ ms[i] = n[i + 1]
    <3> SUFFICES ASSUME NEW i \in 1..Len(ms) PROVE i + 1 \in 1..Len(n) /\ ms[i] = n[i + 1]
      OBVIOUS
    <3>1. i + 1 \in 1..Len(n) /\ i + 1 # 1 /\ (i + 1) - 1 = i
      BY <1>0, <1>1
    <3> QED BY <1>1, <3>1
  <2>4. DOMAIN n = 1..Len(n) /\ DOMAIN ms = 1..Len(ms)
    BY <1>1 DEF ListOk
  <2>5. ToSet(ms) \subseteq ToSet(n)
    BY <2>3, <2>4 DEF ToSet
  <2> QED BY <2>1, <2>2, <2>5
<1>5. ListOk(n)
  BY <1>0, <1>1, <1>3 DEF ListOk
<1> QED BY <1>4, <1>5 DEF n

(* A table taken out of the members of a group. *)
LEMMA RemovedList ==
  ASSUME NEW ms, ListOk(ms), NEW t \in ToSet(ms)
  PROVE  ListOk(RemoveAt(ms, PlaceOf(ms, t))) /\ ToSet(RemoveAt(ms, PlaceOf(ms, t))) = ToSet(ms) \ {t}
PROOF
<1>1. PICK k \in 1..Len(ms) : k = PlaceOf(ms, t) /\ ms[k] = t
  BY PlaceFact DEF ListOk
<1>2. ms \in Seq(AclTables) /\ Len(ms) \in Nat /\ BlockNum \in Nat /\ Len(ms) <= BlockNum
  BY AclAssumption DEF ListOk
<1> DEFINE a == SubSeq(ms, 1, k - 1)
           b == SubSeq(ms, k + 1, Len(ms))
           n == a \o b
<1>3. /\ a \in Seq(AclTables) /\ Len(a) = k - 1
      /\ \A i \in 1..(k - 1) : a[i] = ms[i]
  BY <1>1, <1>2
<1>4. /\ b \in Seq(AclTables) /\ Len(b) = Len(ms) - k
      /\ \A i \in 1..(Len(ms) - k) : b[i] = ms[i + k]
  BY <1>1, <1>2
<1> HIDE DEF a, b
<1>5. /\ n \in Seq(AclTables) /\ Len(n) = Len(ms) - 1
      /\ \A i \in 1..Len(n) : n[i] = IF i < k THEN ms[i] ELSE ms[i + 1]
  <2>1. n \in Seq(AclTables) /\ Len(n) = Len(a) + Len(b)
    <3>1. a \in Seq(AclTables) /\ b \in Seq(AclTables)
      BY <1>3, <1>4
    <3> QED BY <3>1
  <2>2. Len(n) = Len(ms) - 1
    BY <1>1, <1>2, <1>3, <1>4, <2>1
  <2>3. ASSUME NEW i \in 1..Len(n) PROVE n[i] = IF i < k THEN ms[i] ELSE ms[i + 1]
    <3>1. n[i] = IF i <= Len(a) THEN a[i] ELSE b[i - Len(a)]
      BY <1>3, <1>4, <2>1
    <3>2. CASE i < k
      BY <1>1, <1>3, <3>1, <3>2
    <3>3. CASE ~(i < k)
      <4>1. i - (k - 1) \in 1..(Len(ms) - k) /\ (i - (k - 1)) + k = i + 1 /\ ~(i <= k - 1)
        BY <1>1, <1>2, <2>2, <3>3
      <4> QED BY <1>3, <1>4, <3>1, <3>3, <4>1
    <3> QED BY <3>2, <3>3
  <2> QED BY <2>1, <2>2, <2>3
<1> HIDE DEF n
<1>6. \A i, j \in 1..Len(n) : n[i] = n[j] => i = j
  <2> SUFFICES ASSUME NEW i \in 1..Len(n), NEW j \in 1..Len(n), n[i] = n[j] PROVE i = j
    OBVIOUS
  <2>1. \A x, y \in 1..Len(ms) : ms[x] = ms[y] => x = y
    BY DEF ListOk
  <2> QED BY <1>1, <1>2, <1>5, <2>1
<1>7. ToSet(n) = ToSet(ms) \ {t}
  <2>1. ASSUME NEW i \in 1..Len(n) PROVE n[i] \in ToSet(ms) /\ n[i] # t
    <3>1. PICK x \in 1..Len(ms) : x # k /\ n[i] = ms[x]
      <4>1. CASE i < k
        BY <1>1, <1>2, <1>5, <4>1
      <4>2. CASE ~(i < k)
        <5>1. i + 1 \in 1..Len(ms) /\ i + 1 # k /\ n[i] = ms[i + 1]
          BY <1>1, <1>2, <1>5, <4>2
        <5> QED BY <5>1
      <4> QED BY <4>1, <4>2
    <3>2. DOMAIN ms = 1..Len(ms)
      BY <1>2
    <3> QED BY <1>1, <3>1, <3>2 DEF ListOk, ToSet
  <2>2. ASSUME NEW x \in 1..Len(ms), ms[x] # t PROVE \E i \in 1..Len(n) : n[i] = ms[x]
    <3>1. CASE x < k
      BY <1>1, <1>2, <1>5, <3>1
    <3>2. CASE x > k
      <4>1. x - 1 \in 1..Len(n) /\ ~(x - 1 < k) /\ (x - 1) + 1 = x
        BY <1>1, <1>2, <1>5, <3>2
      <4> QED BY <1>5, <4>1
    <3> QED BY <1>1, <2>2, <3>1, <3>2
  <2>3. DOMAIN n = 1..Len(n) /\ DOMAIN ms = 1..Len(ms)
    BY <1>2, <1>5
  <2>4. ToSet(n) \subseteq ToSet(ms) \ {t}
    BY <2>1, <2>3 DEF ToSet
  <2>5. ToSet(ms) \ {t} \subseteq ToSet(n)
    BY <2>2, <2>3 DEF ToSet
  <2> QED BY <2>4, <2>5
<1>8. ListOk(n)
  BY <1>2, <1>5, <1>6 DEF ListOk
<1> QED BY <1>1, <1>7, <1>8 DEF RemoveAt, n, a, b

(* Blocks have numbers, other than the one for none, and a table's block is *)
(* one that is looked up. *)
LEMMA BlockFact ==
  ASSUME NEW o \in AclObjects, NEW ms, ListOk(ms)
  PROVE  /\ LookupBlocks(o, ms) \subseteq Nat
         /\ \A t \in (IF o \in AclGroups THEN ToSet(ms) ELSE {o}) :
              /\ HwBlock(o, ms, t) \in Nat /\ HwBlock(o, ms, t) # NoBlock
              /\ HwBlock(o, ms, t) \in LookupBlocks(o, ms)
PROOF
<1> DEFINE base == BlockBase(o)
<1>1. base \in {100, 1, 5}
  BY DEF BlockBase
<1>2. ms \in Seq(AclTables) /\ Len(ms) \in Nat /\ Len(ms) <= 90
  BY AclAssumption DEF ListOk
<1>3. ASSUME NEW t \in ToSet(ms)
      PROVE  RankIn(ms, t) \in 0..89 /\ BlockIn(o, ms, t) = base + RankIn(ms, t)
  <2>1. PlaceOf(ms, t) \in 1..Len(ms)
    BY <1>2, PlaceFact
  <2>2. RankIn(ms, t) \in 0..89
    <3>1. PICK l : l = Len(ms)
      OBVIOUS
    <3>2. l \in Nat /\ l <= 90 /\ PlaceOf(ms, t) \in 1..l
      BY <1>2, <2>1, <3>1
    <3>4. PICK i \in 1..l : i = PlaceOf(ms, t)
      BY <3>2
    <3>3. RankIn(ms, t) = l - i
      BY <3>1, <3>4 DEF RankIn
    <3> QED BY <3>2, <3>3
  <2> QED BY <2>2 DEF BlockIn
<1>4. CASE o \notin AclGroups
  BY <1>1, <1>4 DEF LookupBlocks, HwBlock, NoBlock
<1>5. CASE o \in AclGroups
  <2>1. LookupBlocks(o, ms) = {BlockIn(o, ms, t) : t \in ToSet(ms)}
    BY <1>5 DEF LookupBlocks
  <2>2. LookupBlocks(o, ms) \subseteq Nat
    BY <1>1, <1>3, <2>1
  <2>3. ASSUME NEW t \in ToSet(ms)
        PROVE  /\ HwBlock(o, ms, t) \in Nat /\ HwBlock(o, ms, t) # NoBlock
               /\ HwBlock(o, ms, t) \in LookupBlocks(o, ms)
    <3>1. CASE o \notin SequentialGroups
      <4>1. HwBlock(o, ms, t) = base + RankIn(ms, t)
        BY <1>3, <1>5, <3>1 DEF HwBlock
      <4> QED BY <1>1, <1>3, <2>1, <4>1 DEF NoBlock
    <3>2. CASE o \in SequentialGroups
      <4>1. HwBlock(o, ms, t) = base
        BY <3>2 DEF HwBlock
      <4>2. Len(ms) \in 1..Len(ms)
        BY <1>2, PlaceFact
      <4>3. PICK u \in ToSet(ms) : u = ms[Len(ms)]
        BY <1>2, <4>2 DEF ToSet
      <4>4. PlaceOf(ms, u) = Len(ms)
        BY <1>2, <4>2, <4>3, PlaceFact DEF ListOk
      <4>5. BlockIn(o, ms, u) = base
        BY <1>1, <1>2, <1>3, <4>4 DEF RankIn
      <4> QED BY <1>1, <2>1, <4>1, <4>5 DEF NoBlock
    <3> QED BY <3>1, <3>2
  <2> QED BY <1>5, <2>2, <2>3
<1> QED BY <1>4, <1>5

(* What the invariant says of the ports. *)
LEMMA AclGives == AclInv => AclExact
BY DEF AclInv, PortOk, AclExact

(* It holds before the first call. *)
LEMMA AclInitially == AclInit => AclInv
PROOF
<1> SUFFICES ASSUME AclInit PROVE AclInv
  OBVIOUS
<1> USE AclAssumption
<1>1. NoAclEntry \in AclEntryRecs /\ NoHwEntry \in HwEntryRecs /\ NoAclEntry.tab = 0 /\ NoAclEntry.prio = 0 /\ NoHwEntry.prio = 0
  BY DEF NoAclEntry, NoHwEntry, AclEntryRecs, HwEntryRecs
<1>2. << >> \in Seq(AclTables) /\ Len(<< >>) = 0
  OBVIOUS
<1>3. ListOk(<< >>)
  BY <1>2 DEF ListOk
<1>4. AclTyped
  BY <1>1, <1>2 DEF AclInit, AclTyped, AclObjects, NoBlock
<1>5. (\A g \in AclGroups : ListOk(members[g])) /\ \A e \in AclEntries : RecordOk(e)
  BY <1>1, <1>3 DEF AclInit, RecordOk
<1>6. ASSUME NEW p \in AclPoints PROVE PortOk(p)
  <2>1. /\ boundOid[p] = 0 /\ \A t \in AclTables : hwTable[p][t] = NoBlock
        /\ \A e \in AclEntries : hwAcl[p][e] = NoHwEntry /\ entries[e] = NoAclEntry
        /\ lookups[p] = {} /\ missing = {} /\ \A o \in AclObjects : bindPoints[o] = {}
    BY DEF AclInit, AclObjects
  <2>2. ListsExact(p)
    BY <2>1 DEF ListsExact, AclObjects
  <2>3. NothingElse(p) /\ LookupsOk(p) /\ TablesInstalled(p) /\ LookedUp(p)
    BY <1>1, <2>1 DEF NothingElse, LookupsOk, TablesInstalled, TableAtPort, LookedUp
  <2>4. \A e \in AclEntries : EntryInstalled(p, e)
    BY <1>1, <2>1 DEF EntryInstalled, TableAtPort
  <2> QED BY <2>2, <2>3, <2>4 DEF PortOk
<1> QED BY <1>4, <1>5, <1>6 DEF AclInv

-----------------------------------------------------------------------------
(* The ports an entry of a table is installed at are those that are bound *)
(* to it or to a group of it. *)
LEMMA PointsFact ==
  ASSUME AclInv, bothStages = {}, NEW t \in AclTables
  PROVE  PointsOf(t) \subseteq AclPoints /\ \A p \in AclPoints : p \in PointsOf(t) <=> TableAtPort(p, t)
PROOF
<1>1. \A g \in GroupsOf(t) : g \in AclGroups /\ g \in AclObjects /\ t \in ToSet(members[g])
  BY DEF GroupsOf, AclObjects
<1>2. PointsOf(t) \subseteq AclPoints
  BY <1>1 DEF PointsOf, AclInv, AclTyped, AclObjects
<1>3. ASSUME NEW p \in AclPoints PROVE p \in PointsOf(t) <=> TableAtPort(p, t)
  <2>1. ListsExact(p) /\ boundOid[p] \in AclObjects \cup {0}
    BY <1>3 DEF AclInv, PortOk, AclTyped
  <2>2. \A o \in AclObjects : p \in bindPoints[o] <=> boundOid[p] = o
    BY <2>1 DEF ListsExact, AclObjects
  <2>3. 0 \notin AclObjects /\ t \notin AclGroups
    BY AclAssumption DEF AclObjects
  <2>4. p \in PointsOf(t) <=> p \in bindPoints[t] \/ \E g \in AclGroups : t \in ToSet(members[g]) /\ p \in bindPoints[g]
    BY DEF PointsOf, GroupsOf
  <2>5. TableAtPort(p, t) <=> \/ boundOid[p] = t
                              \/ boundOid[p] \in AclGroups /\ t \in ToSet(members[boundOid[p]])
    BY <2>1, <2>3 DEF TableAtPort, TablesOf, AclObjects
  <2> QED BY <2>2, <2>4, <2>5 DEF AclObjects
<1> QED BY <1>2, <1>3

(* The frame of a port: nothing of it changes, nor the members of what it is *)
(* bound to, nor any entry. *)
SamePort(p) ==
  /\ boundOid'[p] = boundOid[p] /\ hwTable'[p] = hwTable[p] /\ hwAcl'[p] = hwAcl[p]
  /\ lookups'[p] = lookups[p]
  /\ \A o \in AclObjects : p \in bindPoints'[o] <=> p \in bindPoints[o]
  /\ (p \in stripped' <=> p \in stripped) /\ (p \in bent' <=> p \in bent)
  /\ \A e \in AclEntries : <<p, e>> \in missing' <=> <<p, e>> \in missing
  /\ boundOid[p] \in AclGroups => members'[boundOid[p]] = members[boundOid[p]]
  /\ entries' = entries

(* A port no call touched is as it was. *)
LEMMA SamePortKept ==
  ASSUME NEW p, PortOk(p), SamePort(p)
  PROVE  PortOk(p)'
PROOF
<1>1. \A t : TableAtPort(p, t)' <=> TableAtPort(p, t)
  BY DEF SamePort, TableAtPort, TablesOf
<1>2. boundOid[p] # 0 => LookupBlocks(boundOid[p], MembersOf(boundOid[p]))'
                           = LookupBlocks(boundOid[p], MembersOf(boundOid[p]))
  <2>1. boundOid'[p] = boundOid[p] /\ MembersOf(boundOid[p])' = MembersOf(boundOid[p])
    BY DEF SamePort, MembersOf
  <2> QED BY <2>1
<1>3. ListsExact(p)'
  BY DEF PortOk, SamePort, ListsExact, AclObjects
<1>4. NothingElse(p)'
  BY <1>1 DEF PortOk, SamePort, NothingElse
<1>5. LookupsOk(p)'
  BY <1>2 DEF PortOk, SamePort, LookupsOk
<1>6. TablesInstalled(p)'
  <2>1. TablesInstalled(p) /\ hwTable'[p] = hwTable[p] /\ (p \in stripped' <=> p \in stripped)
    BY DEF PortOk, SamePort
  <2> QED BY <1>1, <2>1 DEF TablesInstalled, TableAtPort
<1>7. LookedUp(p)'
  BY DEF PortOk, SamePort, LookedUp
<1>8. ASSUME NEW e \in AclEntries PROVE EntryInstalled(p, e)'
  <2>1. EntryInstalled(p, e)
    BY DEF PortOk
  <2> QED BY <1>1, <2>1 DEF SamePort, EntryInstalled
<1> QED BY <1>3, <1>4, <1>5, <1>6, <1>7, <1>8 DEF PortOk

(* A step at one port. *)
LEMMA OnePort ==
  ASSUME AclInv, bothStages = {}, NEW p \in AclPoints,
         AclTyped', \A g \in AclGroups : ListOk(members'[g]), \A e \in AclEntries : RecordOk(e)',
         \A q \in AclPoints \ {p} : SamePort(q),
         p \notin bothStages' => PortOk(p)'
  PROVE  AclInv'
PROOF
<1>1. ASSUME NEW q \in AclPoints \ bothStages' PROVE PortOk(q)'
  <2>1. CASE q = p
    BY <1>1, <2>1
  <2>2. CASE q # p
    BY <1>1, <2>2, SamePortKept DEF AclInv
  <2> QED BY <2>1, <2>2
<1>2. (\A g \in AclGroups : ListOk(members[g]))'
  OBVIOUS
<1> QED BY <1>1, <1>2 DEF AclInv

(* A port in which just what it is bound to has been installed, and a port *)
(* that is bound to nothing. *)
FreshEntry(e) == [prio |-> entries[e].lprio, on |-> entries[e].on, late |-> FALSE]

(* A port with its object installed anew. *)
LEMMA PortFilled ==
  ASSUME NEW p \in AclPoints, NEW o \in AclObjects, NEW ms, NEW ts, AclTyped',
         boundOid'[p] = o, ListsExact(p)', MembersOf(o)' = ms, TablesOf(o)' = ts, ListOk(ms),
         \A t \in AclTables : hwTable'[p][t] = IF t \in ts THEN HwBlock(o, ms, t) ELSE NoBlock,
         \A e \in AclEntries : IF entries'[e].tab \in ts THEN hwAcl'[p][e] = FreshEntry(e)'
                               ELSE hwAcl'[p][e].prio = 0,
         \A e \in AclEntries : RecordOk(e)' /\ <<p, e>> \notin missing',
         p \notin bent' => lookups'[p] = LookupBlocks(o, ms)
  PROVE  PortOk(p)'
PROOF
<1>1. o # 0 /\ 0 \notin AclTables
  BY AclAssumption DEF AclObjects
<1>2. \A t : TableAtPort(p, t)' <=> t \in ts
  BY <1>1 DEF TableAtPort
<1>3. ts = IF o \in AclGroups THEN ToSet(ms) ELSE {o}
  BY DEF TablesOf, MembersOf
<1>4. \A t \in ts : HwBlock(o, ms, t) # NoBlock /\ HwBlock(o, ms, t) \in LookupBlocks(o, ms)
  BY <1>3, BlockFact
<1>5. ts \subseteq AclTables
  BY <1>3 DEF ListOk, ToSet, AclObjects
<1>6. \A t \in AclTables : hwTable'[p][t] # NoBlock <=> t \in ts
  BY <1>4
<1>7. ASSUME NEW e \in AclEntries
      PROVE  /\ hwAcl'[p][e].prio # 0 <=> entries'[e].tab \in ts
             /\ hwAcl'[p][e].prio # 0 => hwAcl'[p][e] = FreshEntry(e)'
             /\ entries'[e].tab \in ts => entries'[e].tab # 0 /\ entries'[e].tab \in AclTables
  <2>1. RecordOk(e)'
    OBVIOUS
  <2>2. entries'[e].tab \in ts => hwAcl'[p][e].prio = entries'[e].lprio /\ entries'[e].tab # 0
    <3> SUFFICES ASSUME entries'[e].tab \in ts
                 PROVE  hwAcl'[p][e].prio = entries'[e].lprio /\ entries'[e].tab # 0
      OBVIOUS
    <3>1. hwAcl'[p][e] = [prio |-> entries'[e].lprio, on |-> entries'[e].on, late |-> FALSE]
      BY DEF FreshEntry
    <3> QED BY <1>1, <1>5, <3>1
  <2> QED BY <1>5, <2>1, <2>2 DEF RecordOk
<1>8. NothingElse(p)'
  BY <1>2, <1>6, <1>7 DEF NothingElse
<1>9. LookupsOk(p)'
  <2>1. p \notin bent' => lookups'[p] = LookupBlocks(boundOid'[p], MembersOf(o)')
    OBVIOUS
  <2> QED BY <1>1, <2>1 DEF LookupsOk
<1>10. TablesInstalled(p)'
  BY <1>2, <1>6 DEF TablesInstalled, TableAtPort
<1>11. LookedUp(p)'
  <2>1. boundOid'[p] # 0
    BY <1>1
  <2>2. p \notin bent' => \A t \in AclTables : hwTable'[p][t] # NoBlock => hwTable'[p][t] \in lookups'[p]
    BY <1>4, <1>6
  <2> QED BY <2>1, <2>2 DEF LookedUp
<1>12. ASSUME NEW e \in AclEntries PROVE EntryInstalled(p, e)'
  <2>1. <<p, e>> \notin missing'
    OBVIOUS
  <2>2. hwAcl'[p][e].prio # 0 => hwAcl'[p][e].on = entries'[e].on /\ hwAcl'[p][e].prio = entries'[e].lprio /\ hwAcl'[p][e].late = FALSE
    <3> SUFFICES ASSUME hwAcl'[p][e].prio # 0
                 PROVE  hwAcl'[p][e].on = entries'[e].on /\ hwAcl'[p][e].prio = entries'[e].lprio /\ hwAcl'[p][e].late = FALSE
      OBVIOUS
    <3>1. hwAcl'[p][e] = [prio |-> entries'[e].lprio, on |-> entries'[e].on, late |-> FALSE]
      BY <1>7 DEF FreshEntry
    <3> QED BY <3>1
  <2>3. hwAcl'[p][e].prio # 0 <=> entries'[e].tab # 0 /\ TableAtPort(p, entries[e].tab)' /\ <<p, e>> \notin missing'
    BY <1>1, <1>2, <1>7, <2>1
  <2> QED BY <2>2, <2>3 DEF EntryInstalled
<1> QED BY <1>8, <1>9, <1>10, <1>11, <1>12 DEF PortOk

(* A port with nothing bound and nothing installed. *)
LEMMA PortBare ==
  ASSUME NEW p \in AclPoints, AclTyped', boundOid'[p] = 0, ListsExact(p)',
         \A t \in AclTables : hwTable'[p][t] = NoBlock,
         \A e \in AclEntries : hwAcl'[p][e].prio = 0 /\ <<p, e>> \notin missing',
         p \notin bent' => lookups'[p] = {}
  PROVE  PortOk(p)'
PROOF
<1>1. \A t : ~TableAtPort(p, t)'
  BY DEF TableAtPort
<1>2. NothingElse(p)' /\ LookupsOk(p)' /\ TablesInstalled(p)' /\ LookedUp(p)'
  BY <1>1 DEF NothingElse, LookupsOk, TablesInstalled, TableAtPort, LookedUp
<1>3. \A e \in AclEntries : EntryInstalled(p, e)'
  BY <1>1 DEF EntryInstalled, TableAtPort
<1> QED BY <1>2, <1>3 DEF PortOk

(* The effects on the chip. *)
LEMMA TornDownFact ==
  ASSUME AclTyped, NEW p \in AclPoints, NEW ts, TornDown(p, ts)
  PROVE  /\ hwTable' \in [AclPoints -> [AclTables -> Nat]]
         /\ hwAcl' \in [AclPoints -> [AclEntries -> HwEntryRecs]]
         /\ \A q \in AclPoints \ {p} : hwTable'[q] = hwTable[q] /\ hwAcl'[q] = hwAcl[q]
         /\ \A t \in AclTables : hwTable'[p][t] = IF t \in ts THEN NoBlock ELSE hwTable[p][t]
         /\ \A e \in AclEntries : hwAcl'[p][e] =
              IF entries[e].tab \in ts /\ hwTable[p][entries[e].tab] # NoBlock THEN NoHwEntry ELSE hwAcl[p][e]
PROOF
<1>1. hwTable \in [AclPoints -> [AclTables -> Nat]] /\ hwAcl \in [AclPoints -> [AclEntries -> HwEntryRecs]]
  BY DEF AclTyped
<1>2. NoHwEntry \in HwEntryRecs /\ NoBlock \in Nat
  BY DEF NoHwEntry, HwEntryRecs, NoBlock
<1> DEFINE tab == [t \in AclTables |-> IF t \in ts THEN NoBlock ELSE hwTable[p][t]]
           ents == [e \in AclEntries |->
              IF entries[e].tab \in ts /\ hwTable[p][entries[e].tab] # NoBlock THEN NoHwEntry ELSE hwAcl[p][e]]
<1>3. hwTable' = [hwTable EXCEPT ![p] = tab] /\ hwAcl' = [hwAcl EXCEPT ![p] = ents]
  BY DEF TornDown
<1>4. tab \in [AclTables -> Nat] /\ ents \in [AclEntries -> HwEntryRecs]
  BY <1>1, <1>2
<1>5. /\ \A t \in AclTables : tab[t] = IF t \in ts THEN NoBlock ELSE hwTable[p][t]
      /\ \A e \in AclEntries : ents[e] =
              IF entries[e].tab \in ts /\ hwTable[p][entries[e].tab] # NoBlock THEN NoHwEntry ELSE hwAcl[p][e]
  OBVIOUS
<1> HIDE DEF tab, ents
<1> QED BY <1>1, <1>3, <1>4, <1>5

ChipHas(p, o, ms, ts) ==
  /\ hwTable' \in [AclPoints -> [AclTables -> Nat]]
  /\ hwAcl' \in [AclPoints -> [AclEntries -> HwEntryRecs]]
  /\ \A q \in AclPoints \ {p} : hwTable'[q] = hwTable[q] /\ hwAcl'[q] = hwAcl[q]
  /\ \A t \in AclTables : hwTable'[p][t] = IF t \in ts THEN HwBlock(o, ms, t) ELSE hwTable[p][t]
  /\ \A e \in AclEntries : hwAcl'[p][e] = IF entries[e].tab \in ts THEN FreshEntry(e) ELSE hwAcl[p][e]

(* The installation of an object fills the chip with its tables and *)
(* entries. *)
LEMMA InstalledFact ==
  ASSUME AclTyped, NEW p \in AclPoints, NEW o \in AclObjects, NEW ms, ListOk(ms), Installed(p, o, ms),
         NEW ts, o \in AclGroups => ts = ToSet(ms), o \notin AclGroups => ts = {o}
  PROVE  ChipHas(p, o, ms, ts)
PROOF
<1>1. hwTable \in [AclPoints -> [AclTables -> Nat]] /\ hwAcl \in [AclPoints -> [AclEntries -> HwEntryRecs]]
  BY DEF AclTyped
<1>2. \A t \in ts : HwBlock(o, ms, t) \in Nat
  BY BlockFact
<1>3. \A e \in AclEntries : FreshEntry(e) \in HwEntryRecs
  BY DEF FreshEntry, HwEntryRecs, AclTyped, AclEntryRecs
<1> DEFINE tab == [t \in AclTables |-> IF t \in ts THEN HwBlock(o, ms, t) ELSE hwTable[p][t]]
           ents == [e \in AclEntries |-> IF entries[e].tab \in ts THEN FreshEntry(e) ELSE hwAcl[p][e]]
<1>4. hwTable' = [hwTable EXCEPT ![p] = tab] /\ hwAcl' = [hwAcl EXCEPT ![p] = ents]
  BY DEF Installed, FreshEntry
<1>5. tab \in [AclTables -> Nat] /\ ents \in [AclEntries -> HwEntryRecs]
  BY <1>1, <1>2, <1>3
<1>6. /\ \A t \in AclTables : tab[t] = IF t \in ts THEN HwBlock(o, ms, t) ELSE hwTable[p][t]
      /\ \A e \in AclEntries : ents[e] = IF entries[e].tab \in ts THEN FreshEntry(e) ELSE hwAcl[p][e]
  OBVIOUS
<1> HIDE DEF tab, ents
<1> QED BY <1>1, <1>4, <1>5, <1>6 DEF ChipHas

(* What a port bound to nothing, or to o, has before the step. *)
LEMMA PortHas ==
  ASSUME AclInv, bothStages = {}, NEW p \in AclPoints
  PROVE  /\ PortOk(p) /\ AclTyped
         /\ \A o \in AclObjects : p \in bindPoints[o] <=> boundOid[p] = o
         /\ \A t \in AclTables : hwTable[p][t] # NoBlock => boundOid[p] # 0 /\ t \in TablesOf(boundOid[p])
         /\ \A e \in AclEntries : hwAcl[p][e].prio # 0 =>
              /\ boundOid[p] # 0 /\ entries[e].tab \in TablesOf(boundOid[p])
              /\ hwTable[p][entries[e].tab] # NoBlock
         /\ \A e \in AclEntries : <<p, e>> \in missing => boundOid[p] # 0 /\ entries[e].tab \in TablesOf(boundOid[p])
PROOF
<1>1. PortOk(p) /\ AclTyped
  BY DEF AclInv
<1>2. \A o \in AclObjects : p \in bindPoints[o] <=> boundOid[p] = o
  BY <1>1 DEF PortOk, ListsExact, AclObjects
<1>3. \A t \in AclTables : hwTable[p][t] # NoBlock => boundOid[p] # 0 /\ t \in TablesOf(boundOid[p])
  BY <1>1 DEF PortOk, NothingElse, TableAtPort
<1>4. \A e \in AclEntries : <<p, e>> \in missing => boundOid[p] # 0 /\ entries[e].tab \in TablesOf(boundOid[p])
  BY <1>1 DEF PortOk, NothingElse, TableAtPort
<1>5. \A e \in AclEntries : hwAcl[p][e].prio # 0 =>
        entries[e].tab \in AclTables /\ hwTable[p][entries[e].tab] # NoBlock
  BY <1>1 DEF PortOk, NothingElse, AclTyped, AclEntryRecs
<1> QED BY <1>1, <1>2, <1>3, <1>4, <1>5

(* The tables of an object are its members, or itself. *)
LEMMA TablesOfFact ==
  ASSUME AclInv, NEW o \in AclObjects
  PROVE  /\ TablesOf(o) \subseteq AclTables /\ ListOk(MembersOf(o)) /\ 0 \notin TablesOf(o)
         /\ TablesOf(o) = IF o \in AclGroups THEN ToSet(MembersOf(o)) ELSE {o}
PROOF
<1>1. o \in AclGroups => ListOk(members[o])
  BY DEF AclInv
<1>2. << >> \in Seq(AclTables) /\ Len(<< >>) = 0
  OBVIOUS
<1>3. ListOk(<< >>)
  BY <1>2, AclAssumption DEF ListOk
<1>4. o \in AclGroups => ToSet(members[o]) \subseteq AclTables
  BY <1>1 DEF ListOk, ToSet
<1> QED BY <1>1, <1>3, <1>4, AclAssumption DEF TablesOf, MembersOf, AclObjects

-----------------------------------------------------------------------------
(* Tables, groups and the members of groups that are not bound. *)
LEMMA NoPort ==
  ASSUME AclInv, AclTyped', \A g \in AclGroups : ListOk(members'[g]), \A e \in AclEntries : RecordOk(e)',
         UNCHANGED bothStages, \A q \in AclPoints : SamePort(q)
  PROVE  AclInv'
PROOF
<1>1. \A q \in AclPoints \ bothStages' : PortOk(q)'
  BY SamePortKept DEF AclInv
<1>2. (\A g \in AclGroups : ListOk(members[g]))'
  OBVIOUS
<1> QED BY <1>1, <1>2 DEF AclInv

(* A call that touches neither records nor chip. *)
LEMMA AclObjectsKeep ==
  ASSUME AclInv, UNCHANGED <<members, entries, bindPoints, boundOid, chipVars, aclHist>>
  PROVE  AclInv'
PROOF
<1>1. UNCHANGED <<members, entries, bindPoints, boundOid, hwTable, hwAcl, lookups, missing, bothStages, stripped, bent>>
  BY DEF chipVars, aclHist
<1>2. \A q \in AclPoints : SamePort(q)
  BY <1>1 DEF SamePort
<1>3. AclTyped' /\ \A e \in AclEntries : RecordOk(e)'
  BY <1>1 DEF AclInv, AclTyped, RecordOk
<1>4. \A g \in AclGroups : ListOk(members'[g])
  BY <1>1 DEF AclInv
<1> QED BY <1>1, <1>2, <1>3, <1>4, NoPort

(* A member added to a group that is bound nowhere. *)
LEMMA AddMemberKeeps ==
  ASSUME AclInv, bothStages = {}, NEW g \in AclGroups, NEW t \in AclTables, AddMember(g, t)
  PROVE  AclInv'
PROOF
<1>1. /\ UNCHANGED <<entries, bindPoints, boundOid, hwTable, hwAcl, lookups, missing, bothStages, stripped, bent>>
      /\ members' = [members EXCEPT ![g] = <<t>> \o members[g]]
      /\ bindPoints[g] = {} /\ t \notin ToSet(members[g]) /\ Len(members[g]) < BlockNum
  BY DEF AddMember, CanJoin, chipVars, aclHist, AclInv, AclTyped
<1>2. ListOk(<<t>> \o members[g])
  BY <1>1, AddedList DEF AclInv
<1>3. \A x \in AclGroups : members'[x] = IF x = g THEN <<t>> \o members[g] ELSE members[x]
  BY <1>1 DEF AclInv, AclTyped
<1>4. \A x \in AclGroups : ListOk(members'[x])
  BY <1>2, <1>3 DEF AclInv
<1>5. AclTyped'
  BY <1>1, <1>2 DEF AclInv, AclTyped, ListOk
<1>6. ASSUME NEW q \in AclPoints PROVE SamePort(q)
  <2>1. g \in AclObjects
    BY DEF AclObjects
  <2>2. boundOid[q] # g
    BY <1>1, <2>1, PortHas
  <2> QED BY <1>1, <1>3, <2>2 DEF SamePort
<1>7. \A e \in AclEntries : RecordOk(e)'
  BY <1>1 DEF AclInv, RecordOk
<1> QED BY <1>1, <1>4, <1>5, <1>6, <1>7, NoPort

(* A port whose group a new member tore down. *)
LEMMA PortStripped ==
  ASSUME NEW p \in AclPoints, AclTyped', ListsExact(p)', p \in stripped', p \in bent',
         \A t \in AclTables : hwTable'[p][t] = NoBlock,
         \A e \in AclEntries : hwAcl'[p][e].prio = 0 /\ <<p, e>> \notin missing'
  PROVE  PortOk(p)'
PROOF
<1>1. NothingElse(p)' /\ LookupsOk(p)' /\ TablesInstalled(p)' /\ LookedUp(p)'
  BY DEF NothingElse, LookupsOk, TablesInstalled, LookedUp
<1>2. \A e \in AclEntries : EntryInstalled(p, e)'
  BY DEF EntryInstalled
<1> QED BY <1>1, <1>2 DEF PortOk

(* A member added to a bound group. *)
LEMMA AddMemberBoundKeeps ==
  ASSUME AclInv, bothStages = {}, NEW g \in AclGroups, NEW t \in AclTables, NEW p \in AclPoints,
         NEW room \in BOOLEAN, AddMemberBound(g, t, p, room)
  PROVE  AclInv'
PROOF
<1> DEFINE ms == <<t>> \o members[g]
           ts == ToSet(ms)
           ok == CanInstall(p, ts, room)
<1>1. /\ ok => Installed(p, g, ms) /\ members' = [members EXCEPT ![g] = ms]
      /\ ~ok => TornDown(p, ts) /\ members' = members /\ stripped' = stripped \cup {p}
      /\ ok => stripped' = stripped
      /\ bent' = bent \cup {p} /\ missing' = {pe \in missing : pe[1] # p}
      /\ UNCHANGED <<entries, bindPoints, boundOid, lookups, bothStages>>
      /\ t \notin ToSet(members[g]) /\ Len(members[g]) < BlockNum /\ bindPoints[g] = {p}
  BY DEF AddMemberBound, CanJoin
<1>2. ListOk(ms) /\ ts = {t} \cup ToSet(members[g])
  BY <1>1, AddedList DEF AclInv
<1> HIDE DEF ms, ts, ok
<1>3. /\ g \in AclObjects /\ TablesOf(g) = ToSet(members[g]) /\ boundOid[p] = g
      /\ \A q \in AclPoints \ {p} : boundOid[q] # g
  BY <1>1, PortHas DEF AclObjects, TablesOf
<1>4. /\ hwTable' \in [AclPoints -> [AclTables -> Nat]]
      /\ hwAcl' \in [AclPoints -> [AclEntries -> HwEntryRecs]]
      /\ \A q \in AclPoints \ {p} : hwTable'[q] = hwTable[q] /\ hwAcl'[q] = hwAcl[q]
  <2>1. ts = IF g \in AclGroups THEN ToSet(ms) ELSE {g}
    BY DEF ts
  <2>2. CASE ok
    <3>1. AclTyped /\ ListOk(ms) /\ g \in AclObjects /\ Installed(p, g, ms) /\ g \in AclGroups
      BY <1>1, <1>2, <1>3, <2>2 DEF AclInv
    <3>2. ChipHas(p, g, ms, ts)
      BY <2>1, <3>1, InstalledFact
    <3> QED BY <3>2 DEF ChipHas
  <2>3. CASE ~ok
    BY <1>1, <2>3, TornDownFact DEF AclInv
  <2> QED BY <2>2, <2>3
<1>5. \A x \in AclGroups : members'[x] = IF x = g /\ ok THEN ms ELSE members[x]
  BY <1>1 DEF AclInv, AclTyped
<1>6. \A x \in AclGroups : ListOk(members'[x])
  BY <1>2, <1>5 DEF AclInv
<1>7. AclTyped'
  <2>1. members' \in [AclGroups -> Seq(AclTables)]
    BY <1>1, <1>2 DEF AclInv, AclTyped, ListOk
  <2> QED BY <1>1, <1>4, <2>1 DEF AclInv, AclTyped
<1>8. \A e \in AclEntries : RecordOk(e)'
  BY <1>1 DEF AclInv, RecordOk
<1>9. ASSUME NEW q \in AclPoints \ {p} PROVE SamePort(q)
  BY <1>1, <1>3, <1>4, <1>5 DEF SamePort
<1>10. \A e \in AclEntries : <<p, e>> \notin missing'
  BY <1>1
<1>11. ListsExact(p)'
  BY <1>1, PortHas DEF ListsExact, PortOk
<1>12. PortOk(p)'
  <2>1. CASE ok
    <3>1. ts = IF g \in AclGroups THEN ToSet(ms) ELSE {g}
      BY DEF ts
    <3>0. AclTyped /\ ListOk(ms) /\ g \in AclObjects /\ Installed(p, g, ms)
      BY <1>1, <1>2, <1>3, <2>1 DEF AclInv
    <3>2. /\ \A x \in AclTables : hwTable'[p][x] = IF x \in ts THEN HwBlock(g, ms, x) ELSE hwTable[p][x]
          /\ \A e \in AclEntries : hwAcl'[p][e] = IF entries[e].tab \in ts THEN FreshEntry(e) ELSE hwAcl[p][e]
      <4>1. ChipHas(p, g, ms, ts)
        BY <3>0, <3>1, InstalledFact
      <4> QED BY <4>1 DEF ChipHas
    <3>3. \A x \in AclTables : hwTable'[p][x] = IF x \in ts THEN HwBlock(g, ms, x) ELSE NoBlock
      BY <1>2, <1>3, <3>2, PortHas
    <3>4. \A e \in AclEntries : IF entries'[e].tab \in ts THEN hwAcl'[p][e] = FreshEntry(e)'
                                ELSE hwAcl'[p][e].prio = 0
      BY <1>1, <1>2, <1>3, <3>2, PortHas DEF FreshEntry
    <3>5. MembersOf(g)' = ms /\ TablesOf(g)' = ts
      BY <1>5, <2>1 DEF MembersOf, TablesOf, ts
    <3> QED BY <1>1, <1>2, <1>3, <1>7, <1>8, <1>10, <1>11, <3>3, <3>4, <3>5, PortFilled
  <2>2. CASE ~ok
    <3>1. /\ \A x \in AclTables : hwTable'[p][x] = IF x \in ts THEN NoBlock ELSE hwTable[p][x]
          /\ \A e \in AclEntries : hwAcl'[p][e] =
               IF entries[e].tab \in ts /\ hwTable[p][entries[e].tab] # NoBlock THEN NoHwEntry ELSE hwAcl[p][e]
      BY <1>1, <2>2, TornDownFact DEF AclInv
    <3>2. \A x \in AclTables : hwTable'[p][x] = NoBlock
      BY <1>2, <1>3, <3>1, PortHas
    <3>3. \A e \in AclEntries : hwAcl'[p][e].prio = 0
      BY <1>2, <1>3, <3>1, PortHas DEF NoHwEntry
    <3> QED BY <1>1, <1>7, <1>10, <1>11, <2>2, <3>2, <3>3, PortStripped
  <2> QED BY <2>1, <2>2
<1> QED BY <1>6, <1>7, <1>8, <1>9, <1>12, OnePort

(* A member removed. *)
LEMMA RemoveMemberKeeps ==
  ASSUME AclInv, bothStages = {}, NEW g \in AclGroups, NEW t \in AclTables, RemoveMember(g, t)
  PROVE  AclInv'
PROOF
<1> DEFINE ms == RemoveAt(members[g], PlaceOf(members[g], t))
           ps == bindPoints[g]
<1>1. /\ t \in ToSet(members[g]) /\ members' = [members EXCEPT ![g] = ms]
      /\ hwTable' = [p \in AclPoints |-> IF p \in ps THEN [hwTable[p] EXCEPT ![t] = NoBlock] ELSE hwTable[p]]
      /\ hwAcl' = [p \in AclPoints |-> [e \in AclEntries |->
           IF p \in ps /\ entries[e].tab = t /\ hwTable[p][t] # NoBlock THEN NoHwEntry ELSE hwAcl[p][e]]]
      /\ missing' = {pe \in missing : ~(pe[1] \in ps /\ entries[pe[2]].tab = t)}
      /\ bent' = bent \cup ps
      /\ UNCHANGED <<entries, bindPoints, boundOid, lookups, bothStages, stripped>>
  BY DEF RemoveMember
<1>2. ListOk(ms) /\ ToSet(ms) = ToSet(members[g]) \ {t}
  BY <1>1, RemovedList DEF AclInv
<1> HIDE DEF ms, ps
<1>3. /\ AclTyped /\ g \in AclObjects /\ TablesOf(g) = ToSet(members[g])
      /\ \A q \in AclPoints : q \in ps <=> boundOid[q] = g
  BY PortHas DEF AclObjects, TablesOf, ps, AclInv
<1>4. NoHwEntry \in HwEntryRecs /\ NoBlock \in Nat /\ NoHwEntry.prio = 0
  BY DEF NoHwEntry, HwEntryRecs, NoBlock
<1>5. \A p \in AclPoints : [hwTable[p] EXCEPT ![t] = NoBlock] \in [AclTables -> Nat]
  BY <1>3, <1>4 DEF AclTyped
<1>6. \A p \in AclPoints : [e \in AclEntries |->
           IF p \in ps /\ entries[e].tab = t /\ hwTable[p][t] # NoBlock THEN NoHwEntry ELSE hwAcl[p][e]]
             \in [AclEntries -> HwEntryRecs]
  BY <1>3, <1>4 DEF AclTyped
<1>7. AclTyped'
  <2>1. hwTable' \in [AclPoints -> [AclTables -> Nat]]
    BY <1>1, <1>3, <1>5 DEF AclTyped
  <2>2. hwAcl' \in [AclPoints -> [AclEntries -> HwEntryRecs]]
    BY <1>1, <1>6
  <2>3. members' \in [AclGroups -> Seq(AclTables)]
    BY <1>1, <1>2, <1>3 DEF AclTyped, ListOk
  <2> QED BY <1>1, <1>3, <2>1, <2>2, <2>3 DEF AclTyped
<1>8. \A x \in AclGroups : members'[x] = IF x = g THEN ms ELSE members[x]
  BY <1>1, <1>3 DEF AclTyped
<1>9. (\A x \in AclGroups : ListOk(members'[x])) /\ \A e \in AclEntries : RecordOk(e)'
  BY <1>1, <1>2, <1>8 DEF AclInv, RecordOk
<1>10. ASSUME NEW p \in AclPoints, p \notin ps PROVE PortOk(p)'
  <2>1. hwTable'[p] = hwTable[p]
    BY <1>1, <1>10
  <2>2. hwAcl'[p] = hwAcl[p]
    <3>1. hwAcl'[p] = [e \in AclEntries |-> hwAcl[p][e]]
      BY <1>1, <1>10
    <3> QED BY <1>3, <3>1 DEF AclTyped
  <2>3. SamePort(p)
    BY <1>1, <1>3, <1>8, <1>10, <2>1, <2>2 DEF SamePort
  <2> QED BY <2>3, PortHas, SamePortKept
<1>11. ASSUME NEW p \in AclPoints, p \in ps PROVE PortOk(p)'
  <2>1. boundOid[p] = g /\ p \in bent' /\ g # 0 /\ PortOk(p)
    BY <1>1, <1>3, <1>11, PortHas, AclAssumption
  <2>2. \A x : TableAtPort(p, x) <=> x \in TablesOf(g)
    BY <2>1 DEF TableAtPort
  <2>3. \A x : TableAtPort(p, x)' <=> x \in TablesOf(g) /\ x # t
    BY <1>1, <1>2, <1>3, <1>8, <2>1 DEF TableAtPort, TablesOf
  <2>4. \A x \in AclTables : hwTable'[p][x] = IF x = t THEN NoBlock ELSE hwTable[p][x]
    BY <1>1, <1>3, <1>11 DEF AclTyped
  <2>5. \A e \in AclEntries : hwAcl'[p][e] = IF entries[e].tab = t /\ hwTable[p][t] # NoBlock THEN NoHwEntry ELSE hwAcl[p][e]
    BY <1>1, <1>11
  <2>6. \A e \in AclEntries : <<p, e>> \in missing' <=> <<p, e>> \in missing /\ entries[e].tab # t
    BY <1>1, <1>11
  <2>7. \A e \in AclEntries : entries[e].tab \in AclTables \cup {0}
    BY <1>3 DEF AclTyped, AclEntryRecs
  <2>8. ListsExact(p)'
    BY <1>1, <2>1 DEF PortOk, ListsExact
  <2>9. NothingElse(p)'
    <3>1. \A x \in AclTables : hwTable'[p][x] # NoBlock => TableAtPort(p, x)'
      BY <2>1, <2>2, <2>3, <2>4 DEF PortOk, NothingElse
    <3>2. \A e \in AclEntries : hwAcl'[p][e].prio # 0 => entries[e].tab # 0 /\ hwTable'[p][entries[e].tab] # NoBlock
      BY <1>4, <2>1, <2>4, <2>5, <2>7 DEF PortOk, NothingElse
    <3>3. \A e \in AclEntries : <<p, e>> \in missing' => entries[e].tab # 0 /\ entries[e].tab \in TablesOf(g) /\ entries[e].tab # t
      BY <2>1, <2>2, <2>6 DEF PortOk, NothingElse
    <3> QED BY <1>1, <2>3, <3>1, <3>2, <3>3 DEF NothingElse
  <2>10. LookupsOk(p)' /\ LookedUp(p)'
    BY <2>1 DEF LookupsOk, LookedUp
  <2>11. TablesInstalled(p)'
    <3>1. p \notin stripped => \A x \in AclTables : (hwTable[p][x] # NoBlock) <=> x \in TablesOf(g)
      BY <2>1, <2>2 DEF PortOk, TablesInstalled, TableAtPort
    <3>2. p \notin stripped => \A x \in AclTables : (hwTable'[p][x] # NoBlock) <=> TableAtPort(p, x)'
      BY <2>3, <2>4, <3>1
    <3> QED BY <1>1, <3>2 DEF TablesInstalled, TableAtPort
  <2>12. ASSUME NEW e \in AclEntries PROVE EntryInstalled(p, e)'
    <3>1. EntryInstalled(p, e) /\ TablesInstalled(p)
      BY <2>1 DEF PortOk
    <3>2. CASE entries[e].tab = t
      <4>1. p \notin stripped => hwTable[p][t] # NoBlock
        BY <1>1, <1>3, <2>2, <3>1 DEF TablesInstalled
      <4>2. p \notin stripped' => hwAcl'[p][e].prio = 0
        BY <1>1, <1>4, <2>5, <3>2, <4>1
      <4>3. ~TableAtPort(p, entries[e].tab)'
        BY <1>1, <2>3, <3>2
      <4> QED BY <4>2, <4>3 DEF EntryInstalled
    <3>3. CASE entries[e].tab # t
      <4>1. hwAcl'[p][e] = hwAcl[p][e] /\ (<<p, e>> \in missing' <=> <<p, e>> \in missing)
        BY <2>5, <2>6, <3>3
      <4>2. TableAtPort(p, entries[e].tab)' <=> TableAtPort(p, entries[e].tab)
        BY <1>1, <2>2, <2>3, <3>3
      <4> QED BY <1>1, <3>1, <4>1, <4>2 DEF EntryInstalled
    <3> QED BY <3>2, <3>3
  <2> QED BY <2>8, <2>9, <2>10, <2>11, <2>12 DEF PortOk
<1>12. (\A x \in AclGroups : ListOk(members[x]))'
  BY <1>9
<1> QED BY <1>7, <1>9, <1>10, <1>11, <1>12 DEF AclInv

-----------------------------------------------------------------------------
(* A step at one entry, at every port. *)
LEMMA EntryKeeps ==
  ASSUME AclInv, bothStages = {}, NEW e \in AclEntries,
         UNCHANGED <<members, bindPoints, boundOid, hwTable, lookups, bothStages, stripped, bent>>,
         entries' \in [AclEntries -> AclEntryRecs], hwAcl' \in [AclPoints -> [AclEntries -> HwEntryRecs]],
         RecordOk(e)', \A d \in AclEntries \ {e} : entries'[d] = entries[d],
         \A p \in AclPoints : \A d \in AclEntries \ {e} :
           hwAcl'[p][d] = hwAcl[p][d] /\ (<<p, d>> \in missing' <=> <<p, d>> \in missing),
         \A p \in AclPoints :
           /\ hwAcl'[p][e].prio # 0 => entries'[e].tab # 0 /\ hwTable[p][entries'[e].tab] # NoBlock
           /\ <<p, e>> \in missing' => entries'[e].tab # 0 /\ TableAtPort(p, entries'[e].tab)
           /\ EntryInstalled(p, e)'
  PROVE  AclInv'
PROOF
<1>1. AclTyped' /\ \A g \in AclGroups : ListOk(members'[g])
  BY DEF AclInv, AclTyped
<1>2. \A d \in AclEntries : RecordOk(d)'
  BY DEF AclInv, RecordOk
<1>3. ASSUME NEW p \in AclPoints PROVE PortOk(p)'
  <2>1. PortOk(p)
    BY DEF AclInv
  <2>2. \A t : TableAtPort(p, t)' <=> TableAtPort(p, t)
    BY DEF TableAtPort, TablesOf
  <2>3. ListsExact(p)'
    BY <2>1 DEF PortOk, ListsExact
  <2>4. NothingElse(p)'
    <3>1. \A t \in AclTables : hwTable'[p][t] # NoBlock => TableAtPort(p, t)'
      BY <2>1, <2>2 DEF PortOk, NothingElse
    <3>2. \A d \in AclEntries : hwAcl'[p][d].prio # 0 => entries'[d].tab # 0 /\ hwTable[p][entries'[d].tab] # NoBlock
      BY <2>1 DEF PortOk, NothingElse
    <3>3. \A d \in AclEntries : <<p, d>> \in missing' => entries'[d].tab # 0 /\ TableAtPort(p, entries'[d].tab)
      BY <2>1 DEF PortOk, NothingElse
    <3> QED BY <2>2, <3>1, <3>2, <3>3 DEF NothingElse
  <2>5. LookupsOk(p)'
    <3>1. MembersOf(boundOid[p])' = MembersOf(boundOid[p]) /\ boundOid'[p] = boundOid[p]
      BY DEF MembersOf
    <3> QED BY <2>1, <3>1 DEF PortOk, LookupsOk
  <2>6. TablesInstalled(p)'
    <3>1. TablesInstalled(p) /\ hwTable'[p] = hwTable[p] /\ (p \in stripped' <=> p \in stripped)
      BY <2>1 DEF PortOk
    <3> QED BY <2>2, <3>1 DEF TablesInstalled, TableAtPort
  <2>7. LookedUp(p)'
    BY <2>1 DEF PortOk, LookedUp
  <2>8. ASSUME NEW d \in AclEntries PROVE EntryInstalled(p, d)'
    <3>1. CASE d = e
      BY <3>1
    <3>2. CASE d # e
      <4>1. EntryInstalled(p, d)
        BY <2>1 DEF PortOk
      <4>2. /\ entries'[d] = entries[d] /\ hwAcl'[p][d] = hwAcl[p][d] /\ (<<p, d>> \in missing' <=> <<p, d>> \in missing)
            /\ (p \in stripped' <=> p \in stripped)
        BY <3>2
      <4>3. TableAtPort(p, entries[d].tab)' <=> TableAtPort(p, entries[d].tab)
        BY <2>2, <4>2
      <4> QED BY <4>1, <4>2, <4>3 DEF EntryInstalled
    <3> QED BY <3>1, <3>2
  <2> QED BY <2>3, <2>4, <2>5, <2>6, <2>7, <2>8 DEF PortOk
<1>4. (\A g \in AclGroups : ListOk(members[g]))'
  BY <1>1
<1> QED BY <1>1, <1>2, <1>3, <1>4 DEF AclInv

(* Where an entry is in the chip: at ports its table is at. *)
LEMMA EntryPoints ==
  ASSUME AclInv, bothStages = {}, NEW e \in AclEntries, NEW p \in AclPoints
  PROVE  /\ entries[e].tab \in AclTables \cup {0} /\ 0 \notin AclTables
         /\ entries[e].tab = 0 => hwAcl[p][e].prio = 0 /\ <<p, e>> \notin missing
         /\ entries[e].tab # 0 =>
              /\ p \in PointsOf(entries[e].tab) <=> TableAtPort(p, entries[e].tab)
              /\ ~TableAtPort(p, entries[e].tab) => hwAcl[p][e].prio = 0 /\ <<p, e>> \notin missing
         /\ hwAcl[p][e].prio # 0 => hwTable[p][entries[e].tab] # NoBlock
         /\ EntryInstalled(p, e) /\ RecordOk(e)
PROOF
<1>1. NothingElse(p) /\ EntryInstalled(p, e) /\ RecordOk(e) /\ AclTyped
  BY DEF AclInv, PortOk
<1>2. entries[e].tab \in AclTables \cup {0} /\ 0 \notin AclTables
  BY <1>1, AclAssumption DEF AclTyped, AclEntryRecs
<1>3. entries[e].tab # 0 => (p \in PointsOf(entries[e].tab) <=> TableAtPort(p, entries[e].tab))
  BY <1>2, PointsFact
<1> QED BY <1>1, <1>2, <1>3 DEF NothingElse

(* create_acl_entry. *)
LEMMA CreateAclEntryKeeps ==
  ASSUME AclInv, bothStages = {}, NEW e \in AclEntries, NEW t \in AclTables, NEW n \in AclPrios,
         NEW room \in BOOLEAN, CreateAclEntry(e, t, n, room)
  PROVE  AclInv'
PROOF
<1> DEFINE ps == PointsOf(t)
           rcd == [tab |-> t, prio |-> n, lprio |-> n, on |-> TRUE]
           new == [prio |-> n, on |-> TRUE, late |-> TRUE]
<1>1. /\ entries[e].tab = 0 /\ \A p \in ps : hwTable[p][t] # NoBlock
      /\ entries' = [entries EXCEPT ![e] = rcd]
      /\ hwAcl' = [p \in AclPoints |-> IF p \in ps /\ room THEN [hwAcl[p] EXCEPT ![e] = new] ELSE hwAcl[p]]
      /\ missing' = IF room THEN missing ELSE missing \cup (ps \X {e})
      /\ UNCHANGED <<members, bindPoints, boundOid, hwTable, lookups, bothStages, stripped, bent>>
  BY DEF CreateAclEntry
<1>2. n \in Nat /\ n # 0 /\ t # 0
  BY AclAssumption
<1>3. rcd \in AclEntryRecs /\ rcd.tab = t /\ rcd.prio = n /\ rcd.lprio = n /\ rcd.on = TRUE
  BY <1>2 DEF AclEntryRecs
<1>4. new \in HwEntryRecs /\ new.prio = n /\ new.on = TRUE /\ new.late = TRUE
  BY <1>2 DEF HwEntryRecs
<1> HIDE DEF rcd, new, ps
<1>5. /\ AclTyped /\ ps \subseteq AclPoints /\ \A p \in AclPoints : p \in ps <=> TableAtPort(p, t)
  BY PointsFact DEF ps, AclInv
<1>6. entries' \in [AclEntries -> AclEntryRecs] /\ entries'[e] = rcd /\ \A d \in AclEntries \ {e} : entries'[d] = entries[d]
  BY <1>1, <1>3, <1>5 DEF AclTyped
<1>7. \A p \in AclPoints : /\ [hwAcl[p] EXCEPT ![e] = new] \in [AclEntries -> HwEntryRecs]
                           /\ [hwAcl[p] EXCEPT ![e] = new][e] = new
                           /\ \A d \in AclEntries \ {e} : [hwAcl[p] EXCEPT ![e] = new][d] = hwAcl[p][d]
  BY <1>4, <1>5 DEF AclTyped
<1>8. hwAcl' \in [AclPoints -> [AclEntries -> HwEntryRecs]]
  BY <1>1, <1>5, <1>7 DEF AclTyped
<1>9. RecordOk(e)'
  BY <1>2, <1>3, <1>6 DEF RecordOk
<1>10. ASSUME NEW p \in AclPoints
       PROVE  /\ \A d \in AclEntries \ {e} : hwAcl'[p][d] = hwAcl[p][d] /\ (<<p, d>> \in missing' <=> <<p, d>> \in missing)
              /\ hwAcl'[p][e].prio # 0 => entries'[e].tab # 0 /\ hwTable[p][entries'[e].tab] # NoBlock
              /\ <<p, e>> \in missing' => entries'[e].tab # 0 /\ TableAtPort(p, entries'[e].tab)
              /\ EntryInstalled(p, e)'
  <2>1. hwAcl[p][e].prio = 0 /\ <<p, e>> \notin missing
    BY <1>1, EntryPoints
  <2>2. \A d \in AclEntries : <<p, d>> \in missing' <=> <<p, d>> \in missing \/ (~room /\ d = e /\ p \in ps)
    BY <1>1
  <2>3. hwAcl'[p] = IF p \in ps /\ room THEN [hwAcl[p] EXCEPT ![e] = new] ELSE hwAcl[p]
    BY <1>1
  <2>4. \A d \in AclEntries \ {e} : hwAcl'[p][d] = hwAcl[p][d]
    BY <1>7, <2>3
  <2>5. p \in ps /\ room => hwAcl'[p][e] = new
    BY <1>7, <2>3
  <2>6. ~(p \in ps /\ room) => hwAcl'[p][e].prio = 0
    BY <2>1, <2>3
  <2>7. entries'[e].tab = t /\ entries'[e].prio = n /\ entries'[e].on = TRUE
    BY <1>3, <1>6
  <2>8. TableAtPort(p, entries[e].tab)' <=> p \in ps
    <3>1. TableAtPort(p, entries[e].tab)' <=> TableAtPort(p, t)
      BY <1>1, <2>7 DEF TableAtPort, TablesOf
    <3> QED BY <1>5, <3>1
  <2>9. EntryInstalled(p, e)'
    <3>1. hwAcl'[p][e].prio # 0 <=> p \in ps /\ room
      BY <1>2, <1>4, <2>5, <2>6
    <3>2. p \in ps => (<<p, e>> \in missing' <=> ~room)
      BY <2>1, <2>2
    <3>3. hwAcl'[p][e].prio # 0 <=> entries'[e].tab # 0 /\ TableAtPort(p, entries[e].tab)' /\ <<p, e>> \notin missing'
      BY <1>2, <2>7, <2>8, <3>1, <3>2
    <3>4. hwAcl'[p][e].prio # 0 => hwAcl'[p][e].on = entries'[e].on /\ hwAcl'[p][e].prio = entries'[e].prio
      BY <1>4, <2>5, <2>7, <3>1
    <3> QED BY <3>3, <3>4 DEF EntryInstalled
  <2>10. hwAcl'[p][e].prio # 0 => entries'[e].tab # 0 /\ hwTable[p][entries'[e].tab] # NoBlock
    BY <1>1, <1>2, <2>6, <2>7
  <2>11. <<p, e>> \in missing' => entries'[e].tab # 0 /\ TableAtPort(p, entries'[e].tab)
    BY <1>2, <1>5, <2>1, <2>2, <2>7
  <2> QED BY <2>2, <2>4, <2>9, <2>10, <2>11
<1> QED BY <1>1, <1>6, <1>8, <1>9, <1>10, EntryKeeps

(* remove_acl_entry. *)
LEMMA RemoveAclEntryKeeps ==
  ASSUME AclInv, bothStages = {}, NEW e \in AclEntries, RemoveAclEntry(e)
  PROVE  AclInv'
PROOF
<1> DEFINE ps == PointsOf(entries[e].tab)
<1>1. /\ entries[e].tab # 0 /\ entries' = [entries EXCEPT ![e] = NoAclEntry]
      /\ hwAcl' = [p \in AclPoints |-> IF p \in ps THEN [hwAcl[p] EXCEPT ![e] = NoHwEntry] ELSE hwAcl[p]]
      /\ missing' = {pe \in missing : pe[2] # e}
      /\ UNCHANGED <<members, bindPoints, boundOid, hwTable, lookups, bothStages, stripped, bent>>
  BY DEF RemoveAclEntry
<1>2. /\ NoAclEntry \in AclEntryRecs /\ NoHwEntry \in HwEntryRecs
      /\ NoAclEntry.tab = 0 /\ NoAclEntry.prio = 0 /\ NoHwEntry.prio = 0
  BY DEF NoAclEntry, NoHwEntry, AclEntryRecs, HwEntryRecs
<1> HIDE DEF ps
<1>3. AclTyped
  BY DEF AclInv
<1>4. entries' \in [AclEntries -> AclEntryRecs] /\ entries'[e] = NoAclEntry /\ \A d \in AclEntries \ {e} : entries'[d] = entries[d]
  BY <1>1, <1>2, <1>3 DEF AclTyped
<1>5. \A p \in AclPoints : /\ [hwAcl[p] EXCEPT ![e] = NoHwEntry] \in [AclEntries -> HwEntryRecs]
                           /\ [hwAcl[p] EXCEPT ![e] = NoHwEntry][e] = NoHwEntry
                           /\ \A d \in AclEntries \ {e} : [hwAcl[p] EXCEPT ![e] = NoHwEntry][d] = hwAcl[p][d]
  BY <1>2, <1>3 DEF AclTyped
<1>6. hwAcl' \in [AclPoints -> [AclEntries -> HwEntryRecs]]
  BY <1>1, <1>3, <1>5 DEF AclTyped
<1>7. RecordOk(e)'
  BY <1>2, <1>4 DEF RecordOk
<1>8. ASSUME NEW p \in AclPoints
       PROVE  /\ \A d \in AclEntries \ {e} : hwAcl'[p][d] = hwAcl[p][d] /\ (<<p, d>> \in missing' <=> <<p, d>> \in missing)
              /\ hwAcl'[p][e].prio # 0 => entries'[e].tab # 0 /\ hwTable[p][entries'[e].tab] # NoBlock
              /\ <<p, e>> \in missing' => entries'[e].tab # 0 /\ TableAtPort(p, entries'[e].tab)
              /\ EntryInstalled(p, e)'
  <2>1. hwAcl'[p] = IF p \in ps THEN [hwAcl[p] EXCEPT ![e] = NoHwEntry] ELSE hwAcl[p]
    BY <1>1
  <2>2. \A d \in AclEntries : <<p, d>> \in missing' <=> <<p, d>> \in missing /\ d # e
    BY <1>1
  <2>3. \A d \in AclEntries \ {e} : hwAcl'[p][d] = hwAcl[p][d]
    BY <1>5, <2>1
  <2>4. p \notin ps => hwAcl[p][e].prio = 0
    BY <1>1, EntryPoints DEF ps
  <2>5. hwAcl'[p][e].prio = 0
    BY <1>2, <1>5, <2>1, <2>4
  <2>6. EntryInstalled(p, e)'
    BY <1>2, <1>4, <2>5 DEF EntryInstalled
  <2> QED BY <2>2, <2>3, <2>5, <2>6
<1> QED BY <1>1, <1>4, <1>6, <1>7, <1>8, EntryKeeps

(* An update of the entry e, to the record rcd, and of its SDK entries: the *)
(* SDK entry of each port the table is at. *)
LEMMA EntryUpdateKeeps ==
  ASSUME AclInv, bothStages = {}, NEW e \in AclEntries, CanUpdate(e),
         UNCHANGED <<members, bindPoints, boundOid, hwTable, lookups, missing, bothStages, stripped, bent>>,
         NEW rcd \in AclEntryRecs, entries' = [entries EXCEPT ![e] = rcd],
         rcd.tab = entries[e].tab, rcd.prio # 0, rcd.lprio # 0,
         NEW hw \in [AclPoints -> HwEntryRecs],
         hwAcl' = [p \in AclPoints |-> IF p \in PointsOf(entries[e].tab)
                                         THEN [hwAcl[p] EXCEPT ![e] = hw[p]] ELSE hwAcl[p]],
         \A p \in PointsOf(entries[e].tab) \cap AclPoints :
           hw[p].prio # 0 /\ (EntryInstalled(p, e) =>
             (p \notin stripped =>
               hw[p].on = rcd.on /\ (hw[p].prio = rcd.prio \/ (~hw[p].late /\ rcd.prio # rcd.lprio))))
  PROVE  AclInv'
PROOF
<1> DEFINE ps == PointsOf(entries[e].tab)
<1>1. /\ entries[e].tab # 0 /\ \A p \in ps : hwAcl[p][e].prio # 0
      /\ hwAcl' = [p \in AclPoints |-> IF p \in ps THEN [hwAcl[p] EXCEPT ![e] = hw[p]] ELSE hwAcl[p]]
  BY DEF CanUpdate
<1> HIDE DEF ps
<1>3. AclTyped
  BY DEF AclInv
<1>4. entries' \in [AclEntries -> AclEntryRecs] /\ entries'[e] = rcd /\ \A d \in AclEntries \ {e} : entries'[d] = entries[d]
  BY <1>3 DEF AclTyped
<1>5. \A p \in AclPoints : /\ [hwAcl[p] EXCEPT ![e] = hw[p]] \in [AclEntries -> HwEntryRecs]
                           /\ [hwAcl[p] EXCEPT ![e] = hw[p]][e] = hw[p]
                           /\ \A d \in AclEntries \ {e} : [hwAcl[p] EXCEPT ![e] = hw[p]][d] = hwAcl[p][d]
  BY <1>3 DEF AclTyped
<1>6. hwAcl' \in [AclPoints -> [AclEntries -> HwEntryRecs]]
  BY <1>1, <1>3, <1>5 DEF AclTyped
<1>7. RecordOk(e)'
  BY <1>1, <1>4 DEF RecordOk
<1>8. ASSUME NEW p \in AclPoints
       PROVE  /\ \A d \in AclEntries \ {e} : hwAcl'[p][d] = hwAcl[p][d] /\ (<<p, d>> \in missing' <=> <<p, d>> \in missing)
              /\ hwAcl'[p][e].prio # 0 => entries'[e].tab # 0 /\ hwTable[p][entries'[e].tab] # NoBlock
              /\ <<p, e>> \in missing' => entries'[e].tab # 0 /\ TableAtPort(p, entries'[e].tab)
              /\ EntryInstalled(p, e)'
  <2>1. hwAcl'[p] = IF p \in ps THEN [hwAcl[p] EXCEPT ![e] = hw[p]] ELSE hwAcl[p]
    BY <1>1
  <2>3. \A d \in AclEntries \ {e} : hwAcl'[p][d] = hwAcl[p][d]
    BY <1>5, <2>1
  <2>4. p \in ps => hwAcl'[p][e] = hw[p] /\ hwAcl[p][e].prio # 0 /\ hw[p].prio # 0
    BY <1>1, <1>5, <2>1 DEF ps
  <2>5. p \in ps <=> TableAtPort(p, entries[e].tab)
    BY <1>1, EntryPoints DEF ps
  <2>6. p \notin ps => hwAcl'[p][e].prio = 0 /\ <<p, e>> \notin missing'
    BY <1>1, <2>1, <2>5, EntryPoints
  <2>7. TableAtPort(p, entries[e].tab)' <=> p \in ps
    <3>1. TableAtPort(p, entries[e].tab)' <=> TableAtPort(p, entries[e].tab)
      BY <1>4 DEF TableAtPort, TablesOf
    <3> QED BY <2>5, <3>1
  <2>8. hwAcl'[p][e].prio # 0 => entries'[e].tab # 0 /\ hwTable[p][entries'[e].tab] # NoBlock
    <3>1. hwAcl[p][e].prio # 0 => hwTable[p][entries[e].tab] # NoBlock
      BY EntryPoints
    <3> QED BY <1>1, <1>4, <2>4, <2>6, <3>1
  <2>9. <<p, e>> \in missing' => entries'[e].tab # 0 /\ TableAtPort(p, entries'[e].tab)
    BY <1>1, <1>4, <2>5, <2>6
  <2>10. EntryInstalled(p, e)'
    <3>1. EntryInstalled(p, e)
      BY EntryPoints
    <3>2. p \notin stripped => (hwAcl'[p][e].prio # 0 <=> p \in ps /\ <<p, e>> \notin missing')
      <4>1. p \in ps /\ p \notin stripped => <<p, e>> \notin missing
        BY <2>4, <3>1 DEF EntryInstalled
      <4> QED BY <2>4, <2>6, <4>1
    <3>3. p \notin stripped' => (hwAcl'[p][e].prio # 0 <=> entries'[e].tab # 0 /\ TableAtPort(p, entries[e].tab)' /\ <<p, e>> \notin missing')
      BY <1>1, <1>4, <2>7, <3>2
    <3>4. p \in ps /\ p \notin stripped => hw[p].on = rcd.on /\ (hw[p].prio = rcd.prio \/ (~hw[p].late /\ rcd.prio # rcd.lprio))
      BY <3>1 DEF ps
    <3>5. p \notin stripped' /\ hwAcl'[p][e].prio # 0 =>
            /\ hwAcl'[p][e].on = entries'[e].on
            /\ hwAcl'[p][e].prio = entries'[e].prio \/ (~hwAcl'[p][e].late /\ entries'[e].prio # entries'[e].lprio)
      BY <1>4, <2>4, <2>6, <3>4
    <3> QED BY <3>3, <3>5 DEF EntryInstalled
  <2> QED BY <2>3, <2>8, <2>9, <2>10
<1> QED BY <1>4, <1>6, <1>7, <1>8, EntryKeeps

(* The priority of an entry. *)
LEMMA SetPriorityKeeps ==
  ASSUME AclInv, bothStages = {}, NEW e \in AclEntries, NEW n \in AclPrios, SetPriority(e, n)
  PROVE  AclInv'
PROOF
<1> DEFINE ps == PointsOf(entries[e].tab)
           rcd == [entries[e] EXCEPT !.prio = n]
           hw == [p \in AclPoints |-> [hwAcl[p][e] EXCEPT !.prio = n, !.late = TRUE]]
<1>1. /\ CanUpdate(e) /\ AclTyped
      /\ UNCHANGED <<members, bindPoints, boundOid, hwTable, lookups, missing, bothStages, stripped, bent>>
  BY DEF SetPriority, aclHist, AclInv
<1>2. n \in Nat /\ n # 0
  BY AclAssumption
<1>3. entries[e] \in AclEntryRecs /\ \A p \in AclPoints : hwAcl[p][e] \in HwEntryRecs
  BY <1>1 DEF AclTyped
<1>4. /\ rcd \in AclEntryRecs /\ rcd.tab = entries[e].tab /\ rcd.prio = n /\ rcd.lprio = entries[e].lprio
      /\ rcd.on = entries[e].on
  BY <1>2, <1>3 DEF AclEntryRecs
<1>5. ASSUME NEW p \in AclPoints
      PROVE  hw[p] \in HwEntryRecs /\ hw[p].prio = n /\ hw[p].on = hwAcl[p][e].on
  BY <1>2, <1>3 DEF HwEntryRecs
<1>6. hw \in [AclPoints -> HwEntryRecs]
  BY <1>5
<1>7. entries' = [entries EXCEPT ![e] = rcd]
  BY <1>1 DEF SetPriority, AclTyped
<1>8. hwAcl' = [p \in AclPoints |-> IF p \in ps THEN [hwAcl[p] EXCEPT ![e] = hw[p]] ELSE hwAcl[p]]
  <2>1. ASSUME NEW p \in AclPoints
        PROVE  [hwAcl[p] EXCEPT ![e].prio = n, ![e].late = TRUE] = [hwAcl[p] EXCEPT ![e] = hw[p]]
    BY <1>1, <1>3 DEF AclTyped, HwEntryRecs
  <2> QED BY <2>1 DEF SetPriority
<1> HIDE DEF rcd, hw
<1>9. entries[e].tab # 0 /\ entries[e].lprio # 0
  BY <1>1 DEF CanUpdate, AclInv, RecordOk
<1>10. ASSUME NEW p \in PointsOf(entries[e].tab) \cap AclPoints
       PROVE  /\ hw[p].prio # 0
              /\ EntryInstalled(p, e) => (p \notin stripped =>
                   hw[p].on = rcd.on /\ (hw[p].prio = rcd.prio \/ (~hw[p].late /\ rcd.prio # rcd.lprio)))
  <2>1. hwAcl[p][e].prio # 0
    BY <1>1 DEF CanUpdate
  <2>2. EntryInstalled(p, e) /\ p \notin stripped => hwAcl[p][e].on = entries[e].on
    BY <2>1 DEF EntryInstalled
  <2> QED BY <1>2, <1>4, <1>5, <2>2
<1> QED BY <1>1, <1>2, <1>4, <1>6, <1>7, <1>8, <1>9, <1>10, EntryUpdateKeeps

(* The admin state of an entry. *)
LEMMA SetAdminStateKeeps ==
  ASSUME AclInv, bothStages = {}, NEW e \in AclEntries, SetAdminState(e)
  PROVE  AclInv'
PROOF
<1> DEFINE ps == PointsOf(entries[e].tab)
<1>1. /\ CanUpdate(e) /\ AclTyped
      /\ UNCHANGED <<members, bindPoints, boundOid, hwTable, lookups, missing, bothStages, stripped, bent>>
  BY DEF SetAdminState, aclHist, AclInv
<1>2. PICK b \in BOOLEAN : b = ~entries[e].on
  OBVIOUS
<1> DEFINE rcd == [entries[e] EXCEPT !.on = b]
           hw == [p \in AclPoints |-> [hwAcl[p][e] EXCEPT !.on = b]]
<1>3. entries[e] \in AclEntryRecs /\ \A p \in AclPoints : hwAcl[p][e] \in HwEntryRecs
  BY <1>1 DEF AclTyped
<1>4. /\ rcd \in AclEntryRecs /\ rcd.tab = entries[e].tab /\ rcd.prio = entries[e].prio
      /\ rcd.lprio = entries[e].lprio /\ rcd.on = b
  BY <1>3 DEF AclEntryRecs
<1>5. ASSUME NEW p \in AclPoints
      PROVE  hw[p] \in HwEntryRecs /\ hw[p].prio = hwAcl[p][e].prio /\ hw[p].on = b /\ hw[p].late = hwAcl[p][e].late
  BY <1>3 DEF HwEntryRecs
<1>6. hw \in [AclPoints -> HwEntryRecs]
  BY <1>5
<1>7. entries' = [entries EXCEPT ![e] = rcd]
  <2>1. entries' = [entries EXCEPT ![e].on = b]
    BY <1>2, Zenon DEF SetAdminState
  <2> QED BY <1>1, <2>1 DEF AclTyped
<1>8. hwAcl' = [p \in AclPoints |-> IF p \in ps THEN [hwAcl[p] EXCEPT ![e] = hw[p]] ELSE hwAcl[p]]
  <2>1. hwAcl' = [p \in AclPoints |-> IF p \in ps THEN [hwAcl[p] EXCEPT ![e].on = b] ELSE hwAcl[p]]
    BY <1>2, Zenon DEF SetAdminState
  <2>2. ASSUME NEW p \in AclPoints
        PROVE  [hwAcl[p] EXCEPT ![e].on = b] = [hwAcl[p] EXCEPT ![e] = hw[p]]
    BY <1>1, <1>3 DEF AclTyped, HwEntryRecs
  <2> QED BY <2>1, <2>2
<1> HIDE DEF rcd, hw
<1>9. entries[e].tab # 0 /\ entries[e].lprio # 0 /\ entries[e].prio # 0
  BY <1>1 DEF CanUpdate, AclInv, RecordOk
<1>10. ASSUME NEW p \in PointsOf(entries[e].tab) \cap AclPoints
       PROVE  /\ hw[p].prio # 0
              /\ EntryInstalled(p, e) => (p \notin stripped =>
                   hw[p].on = rcd.on /\ (hw[p].prio = rcd.prio \/ (~hw[p].late /\ rcd.prio # rcd.lprio)))
  <2>1. hwAcl[p][e].prio # 0
    BY <1>1 DEF CanUpdate
  <2>2. EntryInstalled(p, e) /\ p \notin stripped =>
          hwAcl[p][e].prio = entries[e].prio \/ (~hwAcl[p][e].late /\ entries[e].prio # entries[e].lprio)
    BY <2>1 DEF EntryInstalled
  <2> QED BY <1>4, <1>5, <2>1, <2>2
<1> QED BY <1>1, <1>4, <1>6, <1>7, <1>8, <1>9, <1>10, EntryUpdateKeeps

-----------------------------------------------------------------------------
(* Bindings: the lists of bind points say what each port is bound to. *)
LEMMA ListsFact ==
  ASSUME NEW p \in AclPoints, NEW o \in AclObjects \cup {0}, boundOid'[p] = o,
         \A x \in AclObjects : p \in bindPoints'[x] <=> x = o
  PROVE  ListsExact(p)'
BY DEF ListsExact, AclObjects

(* A port bound. *)
LEMMA BindAclKeeps ==
  ASSUME AclInv, bothStages = {}, NEW p \in AclPoints, NEW o \in AclObjects, BindAcl(p, o)
  PROVE  AclInv'
PROOF
<1> DEFINE ms == MembersOf(o)
           ts == TablesOf(o)
           lb == LookupBlocks(o, ms)
<1>1. /\ boundOid[p] = 0 /\ Installed(p, o, ms)
      /\ lookups' = [lookups EXCEPT ![p] = lookups[p] \cup lb]
      /\ bindPoints' = [bindPoints EXCEPT ![o] = bindPoints[o] \cup {p}]
      /\ boundOid' = [boundOid EXCEPT ![p] = o]
      /\ UNCHANGED <<members, entries, missing, bothStages, stripped, bent>>
  BY DEF BindAcl, aclHist, AclInv, AclTyped
<1>2. ts = (IF o \in AclGroups THEN ToSet(ms) ELSE {o}) /\ ListOk(ms) /\ ts \subseteq AclTables /\ 0 \notin ts
  BY TablesOfFact
<1>3. MembersOf(o)' = ms /\ TablesOf(o)' = ts
  BY <1>1 DEF MembersOf, TablesOf
<1>4. lb \subseteq Nat
  BY <1>2, BlockFact
<1> HIDE DEF ms, ts, lb
<1>5. AclTyped /\ PortOk(p)
  BY PortHas
<1>6. /\ hwTable' \in [AclPoints -> [AclTables -> Nat]]
      /\ hwAcl' \in [AclPoints -> [AclEntries -> HwEntryRecs]]
      /\ \A q \in AclPoints \ {p} : hwTable'[q] = hwTable[q] /\ hwAcl'[q] = hwAcl[q]
      /\ \A x \in AclTables : hwTable'[p][x] = IF x \in ts THEN HwBlock(o, ms, x) ELSE hwTable[p][x]
      /\ \A e \in AclEntries : hwAcl'[p][e] = IF entries[e].tab \in ts THEN FreshEntry(e) ELSE hwAcl[p][e]
  <2>1. AclTyped /\ ListOk(ms) /\ Installed(p, o, ms) /\ o \in AclObjects /\ p \in AclPoints
    BY <1>1, <1>2, <1>5
  <2>2. (o \in AclGroups => ts = ToSet(ms)) /\ (o \notin AclGroups => ts = {o})
    BY <1>2
  <2>3. ChipHas(p, o, ms, ts)
    BY <2>1, <2>2, InstalledFact
  <2> QED BY <2>3 DEF ChipHas
<1>7. AclTyped'
  <2>1. lookups' \in [AclPoints -> SUBSET Nat] /\ boundOid' \in [AclPoints -> AclObjects \cup {0}]
    BY <1>1, <1>4, <1>5 DEF AclTyped
  <2>2. bindPoints' \in [AclObjects -> SUBSET AclPoints]
    BY <1>1, <1>5 DEF AclTyped
  <2> QED BY <1>1, <1>5, <1>6, <2>1, <2>2 DEF AclTyped
<1>8. \A x \in AclObjects : bindPoints'[x] = IF x = o THEN bindPoints[o] \cup {p} ELSE bindPoints[x]
  BY <1>1, <1>5 DEF AclTyped
<1>9. (\A g \in AclGroups : ListOk(members'[g])) /\ \A e \in AclEntries : RecordOk(e)'
  BY <1>1 DEF AclInv, RecordOk
<1>10. ASSUME NEW q \in AclPoints \ {p} PROVE SamePort(q)
  <2>1. \A x \in AclObjects : q \in bindPoints'[x] <=> q \in bindPoints[x]
    BY <1>8
  <2> QED BY <1>1, <1>5, <1>6, <2>1 DEF SamePort, AclTyped
<1>11. PortOk(p)'
  <2>1. boundOid'[p] = o /\ lookups'[p] = lookups[p] \cup lb
    BY <1>1, <1>5 DEF AclTyped
  <2>2. ListsExact(p)'
    <3>1. \A x \in AclObjects : p \notin bindPoints[x]
      <4>1. 0 \notin AclObjects
        BY AclAssumption DEF AclObjects
      <4> QED BY <1>1, <4>1, PortHas
    <3>2. \A x \in AclObjects : p \in bindPoints'[x] <=> x = o
      BY <1>8, <3>1
    <3> QED BY <2>1, <3>2, ListsFact
  <2>3. \A x \in AclTables : hwTable'[p][x] = IF x \in ts THEN HwBlock(o, ms, x) ELSE NoBlock
    BY <1>1, <1>6, PortHas
  <2>4. \A e \in AclEntries : IF entries'[e].tab \in ts THEN hwAcl'[p][e] = FreshEntry(e)'
                              ELSE hwAcl'[p][e].prio = 0
    BY <1>1, <1>6, PortHas DEF FreshEntry
  <2>5. \A e \in AclEntries : <<p, e>> \notin missing'
    BY <1>1, PortHas
  <2>6. p \notin bent' => lookups'[p] = LookupBlocks(o, ms)
    <3>1. p \notin bent => lookups[p] = {}
      BY <1>1, <1>5 DEF PortOk, LookupsOk
    <3> QED BY <1>1, <2>1, <3>1 DEF lb
  <2>7. \A e \in AclEntries : RecordOk(e)' /\ <<p, e>> \notin missing'
    BY <1>9, <2>5
  <2>8. AclTyped' /\ ListOk(ms) /\ boundOid'[p] = o
    BY <1>2, <1>7, <2>1
  <2> QED BY <1>3, <2>2, <2>3, <2>4, <2>6, <2>7, <2>8, PortFilled
<1> QED BY <1>7, <1>9, <1>10, <1>11, OnePort

(* A port bound where it already is. *)
LEMMA BindRefusedKeeps ==
  ASSUME AclInv, bothStages = {}, NEW p \in AclPoints, NEW o \in AclObjects, BindRefused(p, o)
  PROVE  AclInv'
PROOF
<1> DEFINE ts == TablesOf(o)
           lb == LookupBlocks(o, MembersOf(o))
<1>1. /\ boundOid[p] = 0 /\ TornDown(p, ts)
      /\ lookups' = [lookups EXCEPT ![p] = lookups[p] \ lb]
      /\ UNCHANGED <<members, entries, bindPoints, boundOid, missing, bothStages, stripped, bent>>
  BY DEF BindRefused, aclHist, AclInv, AclTyped
<1> HIDE DEF ts, lb
<1>2. AclTyped /\ PortOk(p)
  BY PortHas
<1>3. /\ hwTable' \in [AclPoints -> [AclTables -> Nat]]
      /\ hwAcl' \in [AclPoints -> [AclEntries -> HwEntryRecs]]
      /\ \A q \in AclPoints \ {p} : hwTable'[q] = hwTable[q] /\ hwAcl'[q] = hwAcl[q]
      /\ \A t \in AclTables : hwTable'[p][t] = IF t \in ts THEN NoBlock ELSE hwTable[p][t]
      /\ \A e \in AclEntries : hwAcl'[p][e] =
           IF entries[e].tab \in ts /\ hwTable[p][entries[e].tab] # NoBlock THEN NoHwEntry ELSE hwAcl[p][e]
  BY <1>1, <1>2, TornDownFact
<1>4. AclTyped'
  <2>1. lookups' \in [AclPoints -> SUBSET Nat]
    BY <1>1, <1>2 DEF AclTyped
  <2> QED BY <1>1, <1>2, <1>3, <2>1 DEF AclTyped
<1>5. (\A g \in AclGroups : ListOk(members'[g])) /\ \A e \in AclEntries : RecordOk(e)'
  BY <1>1 DEF AclInv, RecordOk
<1>6. ASSUME NEW q \in AclPoints \ {p} PROVE SamePort(q)
  BY <1>1, <1>2, <1>3 DEF SamePort, AclTyped
<1>7. PortOk(p)'
  <2>1. ListsExact(p)'
    BY <1>1, <1>2 DEF PortOk, ListsExact
  <2>2. \A t \in AclTables : hwTable'[p][t] = NoBlock
    BY <1>1, <1>3, PortHas
  <2>3. \A e \in AclEntries : hwAcl'[p][e].prio = 0 /\ <<p, e>> \notin missing'
    BY <1>1, <1>3, PortHas DEF NoHwEntry
  <2>4. p \notin bent' => lookups'[p] = {}
    <3>1. p \notin bent => lookups[p] = {}
      BY <1>1, <1>2 DEF PortOk, LookupsOk
    <3> QED BY <1>1, <1>2, <3>1 DEF AclTyped
  <2> QED BY <1>1, <1>4, <2>1, <2>2, <2>3, <2>4, PortBare
<1> QED BY <1>4, <1>5, <1>6, <1>7, OnePort

(* A port unbound. *)
LEMMA UnbindAclKeeps ==
  ASSUME AclInv, bothStages = {}, NEW p \in AclPoints, UnbindAcl(p)
  PROVE  AclInv'
PROOF
<1> DEFINE o == boundOid[p]
           ts == TablesOf(o)
           left == lookups[p] \ LookupBlocks(o, MembersOf(o))
<1>1. /\ o # 0 /\ TornDown(p, ts) /\ lookups' = [lookups EXCEPT ![p] = left]
      /\ bindPoints' = [bindPoints EXCEPT ![o] = @ \ {p}]
      /\ boundOid' = [boundOid EXCEPT ![p] = 0]
      /\ missing' = {pe \in missing : ~(pe[1] = p /\ entries[pe[2]].tab \in ts)}
      /\ stripped' = stripped \ {p} /\ bent' = IF left = {} THEN bent \ {p} ELSE bent
      /\ UNCHANGED <<members, entries, bothStages>>
  BY DEF UnbindAcl
<1>2. AclTyped /\ PortOk(p) /\ o \in AclObjects /\ 0 \notin AclObjects
  BY <1>1, PortHas, AclAssumption DEF AclTyped, AclObjects
<1>3. p \notin bent => left = {}
  BY <1>1, <1>2 DEF PortOk, LookupsOk
<1>4. left \subseteq Nat
  BY <1>2 DEF AclTyped
<1>5. /\ \A t \in AclTables : hwTable[p][t] # NoBlock => t \in ts
      /\ \A e \in AclEntries : hwAcl[p][e].prio # 0 => entries[e].tab \in ts /\ hwTable[p][entries[e].tab] # NoBlock
      /\ \A e \in AclEntries : <<p, e>> \in missing => entries[e].tab \in ts
      /\ \A x \in AclObjects : p \in bindPoints[x] <=> x = o
  BY PortHas
<1> HIDE DEF o, ts, left
<1>6. /\ hwTable' \in [AclPoints -> [AclTables -> Nat]]
      /\ hwAcl' \in [AclPoints -> [AclEntries -> HwEntryRecs]]
      /\ \A q \in AclPoints \ {p} : hwTable'[q] = hwTable[q] /\ hwAcl'[q] = hwAcl[q]
      /\ \A t \in AclTables : hwTable'[p][t] = IF t \in ts THEN NoBlock ELSE hwTable[p][t]
      /\ \A e \in AclEntries : hwAcl'[p][e] =
           IF entries[e].tab \in ts /\ hwTable[p][entries[e].tab] # NoBlock THEN NoHwEntry ELSE hwAcl[p][e]
  BY <1>1, <1>2, TornDownFact
<1>7. \A x \in AclObjects : bindPoints'[x] = IF x = o THEN bindPoints[o] \ {p} ELSE bindPoints[x]
  BY <1>1, <1>2 DEF AclTyped
<1>8. AclTyped'
  <2>1. lookups' \in [AclPoints -> SUBSET Nat] /\ boundOid' \in [AclPoints -> AclObjects \cup {0}]
    BY <1>1, <1>2, <1>4 DEF AclTyped
  <2>2. bindPoints' \in [AclObjects -> SUBSET AclPoints]
    BY <1>1, <1>2 DEF AclTyped
  <2> QED BY <1>1, <1>2, <1>6, <2>1, <2>2 DEF AclTyped
<1>9. (\A g \in AclGroups : ListOk(members'[g])) /\ \A e \in AclEntries : RecordOk(e)'
  BY <1>1 DEF AclInv, RecordOk
<1>10. ASSUME NEW q \in AclPoints \ {p} PROVE SamePort(q)
  <2>1. \A x \in AclObjects : q \in bindPoints'[x] <=> q \in bindPoints[x]
    BY <1>7
  <2>2. (q \in stripped' <=> q \in stripped) /\ (q \in bent' <=> q \in bent)
    BY <1>1
  <2>3. \A e \in AclEntries : <<q, e>> \in missing' <=> <<q, e>> \in missing
    BY <1>1
  <2> QED BY <1>1, <1>2, <1>6, <2>1, <2>2, <2>3 DEF SamePort, AclTyped
<1>11. PortOk(p)'
  <2>1. boundOid'[p] = 0 /\ lookups'[p] = left
    BY <1>1, <1>2 DEF AclTyped
  <2>2. ListsExact(p)'
    <3>1. \A x \in AclObjects : p \in bindPoints'[x] <=> x = 0
      BY <1>2, <1>5, <1>7
    <3> QED BY <2>1, <3>1, ListsFact
  <2>3. \A t \in AclTables : hwTable'[p][t] = NoBlock
    BY <1>5, <1>6
  <2>4. \A e \in AclEntries : hwAcl'[p][e].prio = 0
    BY <1>5, <1>6 DEF NoHwEntry
  <2>5. \A e \in AclEntries : <<p, e>> \notin missing'
    BY <1>1, <1>5
  <2>6. p \notin bent' => lookups'[p] = {}
    BY <1>1, <1>3, <2>1
  <2> QED BY <1>8, <2>1, <2>2, <2>3, <2>4, <2>5, <2>6, PortBare
<1> QED BY <1>8, <1>9, <1>10, <1>11, OnePort

(* A port bound from one object to another. *)
LEMMA RebindKeeps ==
  ASSUME AclInv, bothStages = {}, NEW p \in AclPoints, NEW o \in AclObjects, NEW room \in BOOLEAN,
         Rebind(p, o, room)
  PROVE  AclInv'
PROOF
<1> DEFINE old == boundOid[p]
           ms == MembersOf(o)
           ts == TablesOf(old)
           ns == TablesOf(o)
           can == CanInstall(p, ns \ ts, room) /\ (room \/ UNION {EntriesOf(t) : t \in ns} = {})
           left == lookups[p] \ LookupBlocks(old, MembersOf(old))
           lb == LookupBlocks(o, ms)
<1>0. PICK ok \in BOOLEAN : ok <=> can
  OBVIOUS
<1> DEFINE tab == [t \in AclTables |->
             IF t \in ns /\ ok THEN HwBlock(o, ms, t) ELSE IF t \in ts \cup ns THEN NoBlock ELSE hwTable[p][t]]
           ents == [e \in AclEntries |-> IF entries[e].tab \in ns /\ ok THEN FreshEntry(e)
                      ELSE IF entries[e].tab \in ts \cup ns THEN NoHwEntry ELSE hwAcl[p][e]]
           bps == IF ok THEN bindPoints[o] \cup {p} ELSE bindPoints[o]
           looks == IF ok THEN left \cup lb ELSE left \ lb
<1>2. AclTyped /\ PortOk(p)
  BY PortHas
<1>1. /\ old \notin {0, o}
      /\ hwTable' = [hwTable EXCEPT ![p] = tab] /\ hwAcl' = [hwAcl EXCEPT ![p] = ents]
      /\ lookups' = [lookups EXCEPT ![p] = looks]
      /\ bindPoints' = [[bindPoints EXCEPT ![old] = bindPoints[old] \ {p}] EXCEPT ![o] = bps]
      /\ boundOid' = [boundOid EXCEPT ![p] = IF ok THEN o ELSE 0]
      /\ missing' = {pe \in missing : pe[1] # p}
      /\ stripped' = stripped \ {p} /\ bent' = IF left = {} THEN bent \ {p} ELSE bent
      /\ UNCHANGED <<members, entries, bothStages>>
  <2>1. /\ old \notin {0, o} /\ missing' = {pe \in missing : pe[1] # p}
        /\ stripped' = stripped \ {p} /\ bent' = IF left = {} THEN bent \ {p} ELSE bent
        /\ UNCHANGED <<members, entries, bothStages>>
    BY DEF Rebind
  <2>2. hwTable' = [hwTable EXCEPT ![p] = tab]
    BY <1>0 DEF Rebind
  <2>3. hwAcl' = [hwAcl EXCEPT ![p] = ents]
    BY <1>0 DEF Rebind, FreshEntry
  <2>4. lookups' = [lookups EXCEPT ![p] = looks]
    BY <1>0 DEF Rebind
  <2>5. boundOid' = [boundOid EXCEPT ![p] = IF ok THEN o ELSE 0]
    BY <1>0 DEF Rebind
  <2>6. bindPoints' = [[bindPoints EXCEPT ![old] = bindPoints[old] \ {p}] EXCEPT ![o] = bps]
    BY <1>0, <1>2, <2>1 DEF Rebind, AclTyped
  <2> QED BY <2>1, <2>2, <2>3, <2>4, <2>5, <2>6
<1>3. /\ ns = (IF o \in AclGroups THEN ToSet(ms) ELSE {o}) /\ ListOk(ms) /\ ns \subseteq AclTables /\ 0 \notin ns
  BY TablesOfFact
<1>4. MembersOf(o)' = ms /\ TablesOf(o)' = ns
  BY <1>1 DEF MembersOf, TablesOf
<1>5. lb \subseteq Nat /\ \A t \in ns : HwBlock(o, ms, t) \in Nat
  BY <1>3, BlockFact
<1>6. p \notin bent => left = {}
  BY <1>1, <1>2 DEF PortOk, LookupsOk
<1>7. left \subseteq Nat /\ looks \subseteq Nat
  BY <1>2, <1>5 DEF AclTyped
<1>8. /\ \A t \in AclTables : hwTable[p][t] # NoBlock => t \in ts
      /\ \A e \in AclEntries : hwAcl[p][e].prio # 0 => entries[e].tab \in ts /\ hwTable[p][entries[e].tab] # NoBlock
      /\ \A x \in AclObjects : p \in bindPoints[x] <=> x = old
  BY PortHas
<1>9. old \in AclObjects /\ 0 \notin AclObjects
  BY <1>1, <1>2, AclAssumption DEF AclTyped, AclObjects
<1>10. NoHwEntry \in HwEntryRecs /\ NoBlock \in Nat /\ \A e \in AclEntries : FreshEntry(e) \in HwEntryRecs
  BY <1>2 DEF NoHwEntry, HwEntryRecs, NoBlock, FreshEntry, AclTyped, AclEntryRecs
<1> HIDE DEF old, ms, ts, ns, can, left, lb
<1>11. tab \in [AclTables -> Nat] /\ ents \in [AclEntries -> HwEntryRecs]
  BY <1>2, <1>5, <1>10 DEF AclTyped
<1>12. /\ \A t \in AclTables : tab[t] =
            IF t \in ns /\ ok THEN HwBlock(o, ms, t) ELSE IF t \in ts \cup ns THEN NoBlock ELSE hwTable[p][t]
       /\ \A e \in AclEntries : ents[e] = IF entries[e].tab \in ns /\ ok THEN FreshEntry(e)
                      ELSE IF entries[e].tab \in ts \cup ns THEN NoHwEntry ELSE hwAcl[p][e]
  OBVIOUS
<1> HIDE DEF tab, ents
<1>13. \A x \in AclObjects : bindPoints'[x] = IF x = o THEN bps ELSE IF x = old THEN bindPoints[old] \ {p} ELSE bindPoints[x]
  BY <1>1, <1>2, <1>9 DEF AclTyped
<1>14. AclTyped'
  <2>1. lookups' \in [AclPoints -> SUBSET Nat] /\ boundOid' \in [AclPoints -> AclObjects \cup {0}]
    BY <1>1, <1>2, <1>7 DEF AclTyped
  <2>2. bindPoints' \in [AclObjects -> SUBSET AclPoints]
    BY <1>1, <1>2, <1>9 DEF AclTyped
  <2>3. hwTable' \in [AclPoints -> [AclTables -> Nat]] /\ hwAcl' \in [AclPoints -> [AclEntries -> HwEntryRecs]]
    BY <1>1, <1>2, <1>11 DEF AclTyped
  <2> QED BY <1>1, <1>2, <2>1, <2>2, <2>3 DEF AclTyped
<1>15. (\A g \in AclGroups : ListOk(members'[g])) /\ \A e \in AclEntries : RecordOk(e)'
  BY <1>1 DEF AclInv, RecordOk
<1>16. ASSUME NEW q \in AclPoints \ {p} PROVE SamePort(q)
  <2>1. \A x \in AclObjects : q \in bindPoints'[x] <=> q \in bindPoints[x]
    BY <1>13
  <2>2. (q \in stripped' <=> q \in stripped) /\ (q \in bent' <=> q \in bent)
    BY <1>1
  <2>3. \A e \in AclEntries : <<q, e>> \in missing' <=> <<q, e>> \in missing
    BY <1>1
  <2>4. boundOid'[q] = boundOid[q] /\ hwTable'[q] = hwTable[q] /\ hwAcl'[q] = hwAcl[q] /\ lookups'[q] = lookups[q]
    BY <1>1, <1>2 DEF AclTyped
  <2> QED BY <1>1, <2>1, <2>2, <2>3, <2>4 DEF SamePort
<1>17. PortOk(p)'
  <2>1. /\ boundOid'[p] = (IF ok THEN o ELSE 0) /\ lookups'[p] = looks
        /\ hwTable'[p] = tab /\ hwAcl'[p] = ents
    BY <1>1, <1>2 DEF AclTyped
  <2>2. ListsExact(p)'
    <3>1. \A x \in AclObjects : p \in bindPoints'[x] <=> x = IF ok THEN o ELSE 0
      <4>1. old # o
        BY <1>1
      <4>2. p \notin bindPoints[o]
        BY <1>8, <4>1
      <4> QED BY <1>8, <1>9, <1>13, <4>1, <4>2
    <3> QED BY <2>1, <3>1, ListsFact
  <2>3. \A e \in AclEntries : <<p, e>> \notin missing'
    BY <1>1
  <2>4. p \notin bent' => left = {}
    BY <1>1, <1>6
  <2>5. CASE ok
    <3>1. \A x \in AclTables : hwTable'[p][x] = IF x \in ns THEN HwBlock(o, ms, x) ELSE NoBlock
      BY <1>8, <1>12, <2>1, <2>5
    <3>2. \A e \in AclEntries : IF entries'[e].tab \in ns THEN hwAcl'[p][e] = FreshEntry(e)'
                                ELSE hwAcl'[p][e].prio = 0
      BY <1>1, <1>8, <1>12, <2>1, <2>5 DEF FreshEntry, NoHwEntry
    <3>3. p \notin bent' => lookups'[p] = LookupBlocks(o, ms)
      BY <2>1, <2>4, <2>5 DEF lb
    <3>4. \A e \in AclEntries : RecordOk(e)' /\ <<p, e>> \notin missing'
      BY <1>15, <2>3
    <3>5. AclTyped' /\ ListOk(ms) /\ boundOid'[p] = o
      BY <1>3, <1>14, <2>1, <2>5
    <3> QED BY <1>4, <2>2, <3>1, <3>2, <3>3, <3>4, <3>5, PortFilled
  <2>6. CASE ~ok
    <3>1. \A x \in AclTables : hwTable'[p][x] = NoBlock
      BY <1>8, <1>12, <2>1, <2>6
    <3>2. \A e \in AclEntries : hwAcl'[p][e].prio = 0
      BY <1>8, <1>12, <2>1, <2>6 DEF NoHwEntry
    <3>3. p \notin bent' => lookups'[p] = {}
      BY <2>1, <2>4, <2>6
    <3>4. boundOid'[p] = 0 /\ \A e \in AclEntries : hwAcl'[p][e].prio = 0 /\ <<p, e>> \notin missing'
      BY <2>1, <2>3, <2>6, <3>2
    <3> QED BY <1>14, <2>2, <3>1, <3>3, <3>4, PortBare
  <2> QED BY <2>5, <2>6
<1> QED BY <1>14, <1>15, <1>16, <1>17, OnePort

(* A port bound at both stages, after which nothing is promised. *)
LEMMA BindOtherStageKeeps ==
  ASSUME AclInv, bothStages = {}, NEW p \in AclPoints, NEW o \in AclObjects, NEW room \in BOOLEAN,
         BindOtherStage(p, o, room)
  PROVE  AclInv'
PROOF
<1> DEFINE ms == MembersOf(o)
           ts == TablesOf(o)
           lb == LookupBlocks(o, ms)
           can == CanInstall(p, ts, room)
<1>0. PICK ok \in BOOLEAN : ok <=> can
  OBVIOUS
<1> DEFINE looks == IF ok THEN lookups[p] \cup lb ELSE lookups[p] \ lb
<1>1. /\ ok => Installed(p, o, ms)
      /\ ~ok => TornDown(p, ts)
      /\ lookups' = [lookups EXCEPT ![p] = looks]
      /\ ok => bindPoints' = [bindPoints EXCEPT ![o] = bindPoints[o] \cup {p}]
      /\ ~ok => bindPoints' = bindPoints
      /\ bothStages' = bothStages \cup {p}
      /\ UNCHANGED <<members, entries, boundOid, missing, stripped, bent>>
  <2>1. lookups' = [lookups EXCEPT ![p] = looks]
    BY <1>0 DEF BindOtherStage
  <2>2. ok => bindPoints' = [bindPoints EXCEPT ![o] = bindPoints[o] \cup {p}]
    BY <1>0 DEF BindOtherStage, AclInv, AclTyped
  <2> QED BY <1>0, <2>1, <2>2 DEF BindOtherStage
<1>2. AclTyped
  BY PortHas
<1>3. ts = (IF o \in AclGroups THEN ToSet(ms) ELSE {o}) /\ ListOk(ms)
  BY TablesOfFact
<1>4. lb \subseteq Nat
  BY <1>3, BlockFact
<1>5. looks \subseteq Nat
  BY <1>2, <1>4 DEF AclTyped
<1> HIDE DEF ms, ts, lb, can, looks
<1>6. /\ hwTable' \in [AclPoints -> [AclTables -> Nat]]
      /\ hwAcl' \in [AclPoints -> [AclEntries -> HwEntryRecs]]
      /\ \A q \in AclPoints \ {p} : hwTable'[q] = hwTable[q] /\ hwAcl'[q] = hwAcl[q]
  <2>1. CASE ok
    <3>1. AclTyped /\ ListOk(ms) /\ Installed(p, o, ms) /\ o \in AclObjects /\ p \in AclPoints
      BY <1>1, <1>2, <1>3, <2>1
    <3>2. (o \in AclGroups => ts = ToSet(ms)) /\ (o \notin AclGroups => ts = {o})
      BY <1>3
    <3>3. ChipHas(p, o, ms, ts)
      BY <3>1, <3>2, InstalledFact
    <3> QED BY <3>3 DEF ChipHas
  <2>2. CASE ~ok
    BY <1>1, <1>2, <2>2, TornDownFact
  <2> QED BY <2>1, <2>2
<1>7. \A q \in AclPoints \ {p} : \A x \in AclObjects : q \in bindPoints'[x] <=> q \in bindPoints[x]
  BY <1>1, <1>2 DEF AclTyped
<1>8. AclTyped'
  <2>1. lookups' \in [AclPoints -> SUBSET Nat]
    BY <1>1, <1>2, <1>5 DEF AclTyped
  <2>2. bindPoints' \in [AclObjects -> SUBSET AclPoints]
    <3>1. CASE ok
      BY <1>1, <1>2, <3>1 DEF AclTyped
    <3>2. CASE ~ok
      BY <1>1, <1>2, <3>2 DEF AclTyped
    <3> QED BY <3>1, <3>2
  <2> QED BY <1>1, <1>2, <1>6, <2>1, <2>2 DEF AclTyped
<1>9. (\A g \in AclGroups : ListOk(members'[g])) /\ \A e \in AclEntries : RecordOk(e)'
  BY <1>1 DEF AclInv, RecordOk
<1>10. ASSUME NEW q \in AclPoints \ {p} PROVE SamePort(q)
  BY <1>1, <1>2, <1>6, <1>7 DEF SamePort, AclTyped
<1>11. p \in bothStages'
  BY <1>1
<1> QED BY <1>8, <1>9, <1>10, <1>11, OnePort

-----------------------------------------------------------------------------
(* Every step. *)
LEMMA AclCallsKeep == AclInv /\ [AclNext]_aclVars => AclInv'
PROOF
<1> SUFFICES ASSUME AclInv, [AclNext]_aclVars PROVE AclInv'
  OBVIOUS
<1>1. ASSUME UNCHANGED aclVars PROVE AclInv'
  BY <1>1, AclObjectsKeep DEF aclVars, chipVars, aclHist
<1>2. ASSUME Followed, NEW t \in AclTables, CreateAclTable(t) \/ RemoveAclTable(t) PROVE AclInv'
  BY <1>2, AclObjectsKeep DEF CreateAclTable, RemoveAclTable
<1>3. ASSUME Followed, NEW g \in AclGroups, CreateAclGroup(g) \/ RemoveAclGroup(g) PROVE AclInv'
  BY <1>3, AclObjectsKeep DEF CreateAclGroup, RemoveAclGroup
<1>4. ASSUME Followed, NEW g \in AclGroups, NEW t \in AclTables, AddMember(g, t) \/ RemoveMember(g, t)
      PROVE  AclInv'
  BY <1>4, AddMemberKeeps, RemoveMemberKeeps DEF Followed
<1>5. ASSUME Followed, NEW g \in AclGroups, NEW t \in AclTables, NEW p \in AclPoints, NEW room \in BOOLEAN,
             AddMemberBound(g, t, p, room)
      PROVE  AclInv'
  BY <1>5, AddMemberBoundKeeps DEF Followed
<1>6. ASSUME Followed, NEW e \in AclEntries, NEW t \in AclTables, NEW n \in AclPrios, NEW room \in BOOLEAN,
             CreateAclEntry(e, t, n, room)
      PROVE  AclInv'
  BY <1>6, CreateAclEntryKeeps DEF Followed
<1>7. ASSUME Followed, NEW e \in AclEntries, RemoveAclEntry(e) \/ SetAdminState(e) PROVE AclInv'
  BY <1>7, RemoveAclEntryKeeps, SetAdminStateKeeps DEF Followed
<1>8. ASSUME Followed, NEW e \in AclEntries, NEW n \in AclPrios, SetPriority(e, n) PROVE AclInv'
  BY <1>8, SetPriorityKeeps DEF Followed
<1>9. ASSUME Followed, NEW p \in AclPoints, UnbindAcl(p) PROVE AclInv'
  BY <1>9, UnbindAclKeeps DEF Followed
<1>10. ASSUME Followed, NEW p \in AclPoints, NEW o \in AclObjects, BindAcl(p, o) \/ BindRefused(p, o) PROVE AclInv'
  BY <1>10, BindAclKeeps, BindRefusedKeeps DEF Followed
<1>11. ASSUME Followed, NEW p \in AclPoints, NEW o \in AclObjects, NEW room \in BOOLEAN,
              Rebind(p, o, room) \/ BindOtherStage(p, o, room)
       PROVE  AclInv'
  BY <1>11, RebindKeeps, BindOtherStageKeeps DEF Followed
<1> QED BY <1>1, <1>2, <1>3, <1>4, <1>5, <1>6, <1>7, <1>8, <1>9, <1>10, <1>11 DEF AclNext, AclObjects

-----------------------------------------------------------------------------
(* ACL actions *)
ChipActs == [drop : BOOLEAN, cpu : {"no", "trap", "plain"}]
EntryRecs ==
  [live : BOOLEAN, pa : ActionKinds \cup {"NONE"}, trap : BOOLEAN, multi : BOOLEAN,
   ctr : {"none", "held", "loose"}, rng : BOOLEAN]
RefRecs == [live : BOOLEAN, ref : Nat]
Nothing == [first |-> Absent, rest |-> Absent]

(* What a record maps to is an action of the chip. *)
LEMMA MappedTyped == ASSUME NEW r \in EntryRecs PROVE Mapped(r) \in ChipActs
PROOF
<1>1. Discards(r.pa) \in BOOLEAN
  BY DEF Discards
<1>2. NoActs \in ChipActs
  BY DEF NoActs, ChipActs
<1>3. PICK d \in BOOLEAN : d = Discards(r.pa)
  BY <1>1, Zenon
<1>4. PICK c \in {"no", "trap", "plain"} : c = IF ~Copies(r.pa) THEN "no" ELSE IF r.trap THEN "trap" ELSE "plain"
  OBVIOUS
<1>5. [drop |-> d, cpu |-> c] \in ChipActs
  BY DEF ChipActs
<1> QED BY <1>2, <1>3, <1>4, <1>5, Zenon DEF Mapped

(* An action with its drop bit set or cleared. *)
LEMMA DropUpdated ==
  ASSUME NEW a \in ChipActs, NEW d \in BOOLEAN
  PROVE  [a EXCEPT !.drop = d] \in ChipActs /\ [a EXCEPT !.drop = d] = [drop |-> d, cpu |-> a.cpu]
BY DEF ChipActs

(* An action with its copy to the CPU changed. *)
LEMMA CpuUpdated ==
  ASSUME NEW a \in ChipActs, NEW c \in {"no", "trap", "plain"}
  PROVE  /\ [a EXCEPT !.cpu = c] \in ChipActs /\ [a EXCEPT !.cpu = c].cpu = c
         /\ [a EXCEPT !.cpu = c] = [drop |-> a.drop, cpu |-> c]
BY DEF ChipActs

(* The updates, each as a record of its own. *)
LEMMA UpdatesTyped ==
  ASSUME NEW a \in ChipActs, NEW r \in EntryRecs
  PROVE  /\ WithDrop(a) \in ChipActs /\ WithDrop(a) = [drop |-> TRUE, cpu |-> a.cpu]
         /\ NoDrop(a) \in ChipActs /\ NoDrop(a) = [drop |-> FALSE, cpu |-> a.cpu]
         /\ NoCopy(a) \in ChipActs /\ NoCopy(a).cpu = "no" /\ NoCopy(a) = [drop |-> a.drop, cpu |-> "no"]
         /\ WithCopy(a, r) \in ChipActs /\ WithCopy(a, r).cpu = (IF r.trap THEN "trap" ELSE "plain")
         /\ WithCopy(a, r) = [drop |-> a.drop, cpu |-> IF r.trap THEN "trap" ELSE "plain"]
PROOF
<1>1. TRUE \in BOOLEAN /\ FALSE \in BOOLEAN
  OBVIOUS
<1>2. WithDrop(a) = [drop |-> TRUE, cpu |-> a.cpu] /\ WithDrop(a) \in ChipActs
  BY <1>1, DropUpdated, Zenon DEF WithDrop
<1>3. NoDrop(a) = [drop |-> FALSE, cpu |-> a.cpu] /\ NoDrop(a) \in ChipActs
  BY <1>1, DropUpdated, Zenon DEF NoDrop
<1>4. NoCopy(a) = [drop |-> a.drop, cpu |-> "no"] /\ NoCopy(a) \in ChipActs /\ NoCopy(a).cpu = "no"
  BY CpuUpdated DEF NoCopy
<1>5. PICK c \in {"trap", "plain"} : c = IF r.trap THEN "trap" ELSE "plain"
  OBVIOUS
<1>6. WithCopy(a, r) = [a EXCEPT !.cpu = c]
  BY <1>5, Zenon DEF WithCopy
<1>7. c \in {"no", "trap", "plain"}
  OBVIOUS
<1>8. WithCopy(a, r) = [drop |-> a.drop, cpu |-> c] /\ WithCopy(a, r) \in ChipActs /\ WithCopy(a, r).cpu = c
  <2>1. PICK n : n = [a EXCEPT !.cpu = c]
    OBVIOUS
  <2>2. n \in ChipActs /\ n.cpu = c /\ n = [drop |-> a.drop, cpu |-> c]
    BY <1>7, <2>1, CpuUpdated
  <2>3. WithCopy(a, r) = n
    BY <1>6, <2>1, Zenon
  <2> QED BY <2>2, <2>3, Zenon
<1> QED BY <1>2, <1>3, <1>4, <1>5, <1>8, Zenon

(* What an update of the packet action leaves is an action of the chip. *)
LEMMA ChangedTyped ==
  ASSUME NEW a \in ChipActs, NEW r \in EntryRecs, NEW pa \in ActionKinds
  PROVE  Changed(a, r, pa) \in ChipActs
BY UpdatesTyped, ActAssumption DEF Changed

(* A full action leaves in the chip what the record then says. *)
LEMMA FullAction ==
  ASSUME NEW a \in ChipActs, NEW r \in EntryRecs, NEW pa \in ActionKinds,
         ~IsPartial(pa), ~Refuses(r, pa), ~(r.trap /\ ~Copies(pa))
  PROVE  Changed(a, r, pa) = Mapped([r EXCEPT !.pa = pa])
PROOF
<1> USE ActAssumption
<1>1. pa \in {"TRAP", "LOG", "DENY", "TRANSIT"}
  BY DEF IsPartial
<1> DEFINE n == [r EXCEPT !.pa = pa]
<1>2. n.pa = pa /\ n.trap = r.trap
  BY DEF EntryRecs
<1> HIDE DEF n
<1>3. ~(n.trap /\ ~Copies(n.pa))
  BY <1>2, Zenon
<1>4. Mapped(n) = [drop |-> Discards(pa), cpu |-> IF ~Copies(pa) THEN "no" ELSE IF r.trap THEN "trap" ELSE "plain"]
  BY <1>2, <1>3, Zenon DEF Mapped
<1>9. Discards(pa) \in BOOLEAN
  BY DEF Discards
<1>10. PICK w \in ChipActs : w = WithCopy(a, r) /\ w.cpu = (IF r.trap THEN "trap" ELSE "plain")
  <2>1. WithCopy(a, r) \in ChipActs
    BY UpdatesTyped
  <2>2. WithCopy(a, r).cpu = (IF r.trap THEN "trap" ELSE "plain")
    BY UpdatesTyped
  <2> QED BY <2>1, <2>2, Zenon
<1>11. PICK k \in ChipActs : k = NoCopy(a) /\ k.cpu = "no"
  BY UpdatesTyped, Zenon
<1>5. CASE pa = "TRAP"
  <2>1. Changed(a, r, pa) = WithDrop(WithCopy(a, r)) 
    BY <1>5 DEF Changed, Refuses
  <2>2. Copies(pa) /\ Discards(pa)
    BY <1>5 DEF Copies, Discards
  <2>3. Discards(pa) = TRUE
    BY <2>2, <1>9, Zenon
  <2>4. Changed(a, r, pa) = [drop |-> TRUE, cpu |-> w.cpu]
    BY <2>1, <1>10, <1>11, UpdatesTyped, Zenon
  <2> QED BY <1>4, <1>10, <1>11, <2>2, <2>3, <2>4, Zenon DEF n
<1>6. CASE pa = "LOG"
  <2>1. Changed(a, r, pa) = NoDrop(WithCopy(a, r)) 
    BY <1>6 DEF Changed, Refuses
  <2>2. Copies(pa) /\ ~Discards(pa)
    BY <1>6 DEF Copies, Discards
  <2>3. Discards(pa) = FALSE
    BY <2>2, <1>9, Zenon
  <2>4. Changed(a, r, pa) = [drop |-> FALSE, cpu |-> w.cpu]
    BY <2>1, <1>10, <1>11, UpdatesTyped, Zenon
  <2> QED BY <1>4, <1>10, <1>11, <2>2, <2>3, <2>4, Zenon DEF n
<1>7. CASE pa = "DENY"
  <2>1. Changed(a, r, pa) = WithDrop(NoCopy(a)) 
    BY <1>7 DEF Changed, Refuses
  <2>2. ~Copies(pa) /\ Discards(pa)
    BY <1>7 DEF Copies, Discards
  <2>3. Discards(pa) = TRUE
    BY <2>2, <1>9, Zenon
  <2>4. Changed(a, r, pa) = [drop |-> TRUE, cpu |-> k.cpu]
    BY <2>1, <1>10, <1>11, UpdatesTyped, Zenon
  <2> QED BY <1>4, <1>10, <1>11, <2>2, <2>3, <2>4, Zenon DEF n
<1>8. CASE pa = "TRANSIT"
  <2>1. Changed(a, r, pa) = NoDrop(NoCopy(a)) 
    BY <1>8 DEF Changed, Refuses
  <2>2. ~Copies(pa) /\ ~Discards(pa)
    BY <1>8 DEF Copies, Discards
  <2>3. Discards(pa) = FALSE
    BY <2>2, <1>9, Zenon
  <2>4. Changed(a, r, pa) = [drop |-> FALSE, cpu |-> k.cpu]
    BY <2>1, <1>10, <1>11, UpdatesTyped, Zenon
  <2> QED BY <1>4, <1>10, <1>11, <2>2, <2>3, <2>4, Zenon DEF n
<1> QED BY <1>1, <1>5, <1>6, <1>7, <1>8

Places == [first : ChipActs \cup {Absent}, rest : ChipActs \cup {Absent}]
ActTyped ==
  /\ rec \in EntryRecs
  /\ acts \in [ActPoints -> Places]
  /\ actBound \subseteq ActPoints
  /\ counter \in RefRecs
  /\ range \in RefRecs
(* The entry is at the bound ports, and only there; what the record does not *)
(* say is marked; an entry's counter and range are live and counted. *)
PointOk(q) ==
  /\ rec.live /\ q \in actBound =>
       acts[q].first \in ChipActs /\ (~rec.multi => acts[q].rest = Absent)
  /\ ~(rec.live /\ q \in actBound) => acts[q] = Nothing
ExactOk(q) == ~partial /\ rec.live /\ q \in actBound => acts[q] = Fresh(rec)
RefsOk ==
  /\ ~rec.live => rec = NoRec
  /\ rec.ctr = "held" => counter.live /\ counter.ref > 0
  /\ rec.rng => range.live /\ range.ref = 1
  /\ ~rec.rng => range.ref = 0
ActInv ==
  /\ ActTyped
  /\ \A q \in ActPoints : PointOk(q) /\ ExactOk(q)
  /\ RefsOk

(* An entry that is at no port. *)
LEMMA NothingTyped == Nothing \in Places /\ Absent.cpu = "absent" /\ Absent \notin ChipActs
PROOF
<1>1. Absent.cpu = "absent"
  BY DEF Absent
<1>2. \A a \in ChipActs : a.cpu # "absent"
  BY DEF ChipActs
<1> QED BY <1>1, <1>2 DEF Nothing, Places

(* The record of an entry that is not there. *)
LEMMA NoRecFact ==
  /\ NoRec \in EntryRecs /\ ~NoRec.live /\ ~NoRec.rng /\ NoRec.ctr = "none"
BY DEF NoRec, EntryRecs

(* An entry installed anew does what its record says. *)
LEMMA FreshTyped ==
  ASSUME NEW r \in EntryRecs
  PROVE  /\ Fresh(r) \in Places /\ Fresh(r).first \in ChipActs
         /\ ~r.multi => Fresh(r) = [first |-> Mapped(r), rest |-> Absent]
         /\ ~r.multi => Fresh(r).rest = Absent
PROOF
<1>1. PICK m \in ChipActs : m = Mapped(r)
  BY MappedTyped
<1>2. PICK k \in ChipActs \cup {Absent} : k = IF r.multi THEN m ELSE Absent
  OBVIOUS
<1>3. [first |-> m, rest |-> k] \in Places /\ [first |-> m, rest |-> k].first = m /\ [first |-> m, rest |-> k].rest = k
  BY DEF Places
<1>4. Fresh(r) = [first |-> m, rest |-> k]
  BY <1>1, <1>2, Zenon DEF Fresh
<1>5. ~r.multi => k = Absent
  BY <1>2, Zenon
<1> QED BY <1>1, <1>3, <1>4, <1>5, Zenon

(* What the invariant says of the entry and its references. *)
LEMMA ActGives == ActInv => ActionsExact
PROOF
<1> SUFFICES ASSUME ActInv PROVE ActionsExact
  OBVIOUS
<1>1. ASSUME ~partial, NEW q \in ActPoints
      PROVE  acts[q] = IF rec.live /\ q \in actBound THEN Fresh(rec) ELSE [first |-> Absent, rest |-> Absent]
  BY <1>1, Zenon DEF ActInv, PointOk, ExactOk, Nothing
<1>2. ASSUME NEW q \in ActPoints
      PROVE  (acts[q].first.cpu # "absent") = (rec.live /\ q \in actBound)
  <2>1. PointOk(q)
    BY DEF ActInv
  <2>2. CASE rec.live /\ q \in actBound
    <3>1. acts[q].first.cpu # "absent"
      BY <2>1, <2>2 DEF PointOk, ChipActs
    <3> QED BY <2>2, <3>1
  <2>3. CASE ~(rec.live /\ q \in actBound)
    <3>1. acts[q].first.cpu = "absent"
      BY <2>1, <2>3, NothingTyped DEF PointOk, Nothing
    <3> QED BY <2>3, <3>1
  <2> QED BY <2>2, <2>3
<1>3. rec.live => /\ rec.ctr = "held" => counter.live /\ counter.ref > 0
                  /\ rec.rng => range.live /\ range.ref = 1
  BY DEF ActInv, RefsOk
<1> QED BY <1>1, <1>2, <1>3, Zenon DEF ActionsExact

(* It holds before the first call. *)
LEMMA ActInitially == ActInit => ActInv
PROOF
<1> SUFFICES ASSUME ActInit PROVE ActInv
  OBVIOUS
<1>1. /\ rec = NoRec /\ actBound = {} /\ acts = [q \in ActPoints |-> Nothing]
      /\ counter = [live |-> FALSE, ref |-> 0] /\ range = [live |-> FALSE, ref |-> 0]
  BY DEF ActInit, Nothing
<1>2. [live |-> FALSE, ref |-> 0] \in RefRecs
  BY DEF RefRecs
<1>3. ActTyped
  BY <1>1, <1>2, NothingTyped, NoRecFact DEF ActTyped
<1>4. \A q \in ActPoints : PointOk(q) /\ ExactOk(q)
  BY <1>1 DEF PointOk, ExactOk
<1>5. RefsOk
  BY <1>1, NoRecFact DEF RefsOk
<1> QED BY <1>3, <1>4, <1>5 DEF ActInv

-----------------------------------------------------------------------------
(* set_acl_entry_info: a live entry becomes another with the same *)
(* references, and the first SDK entry at each bound port changes with it. *)
LEMMA UpdateKeeps ==
  ASSUME ActInv, NEW n \in EntryRecs, NEW first, Update(n, first),
         n.live, n.multi = rec.multi, n.ctr = rec.ctr, n.rng = rec.rng,
         \A q \in actBound : first[q] \in ChipActs,
         \A q \in actBound : ~partial' => ~rec.multi /\ first[q] = Mapped(n)
  PROVE  ActInv'
PROOF
<1>1. /\ rec' = n /\ rec.live /\ UNCHANGED <<actBound, counter, range>>
      /\ acts' = [q \in ActPoints |-> IF q \in actBound THEN [acts[q] EXCEPT !.first = first[q]] ELSE acts[q]]
  BY DEF Update
<1>2. acts \in [ActPoints -> Places] /\ actBound \subseteq ActPoints
  BY DEF ActInv, ActTyped
<1>3. ASSUME NEW q \in actBound
      PROVE  /\ acts'[q] \in Places /\ acts'[q].first = first[q] /\ acts'[q].rest = acts[q].rest
             /\ acts'[q] = [first |-> first[q], rest |-> acts[q].rest]
  <2>1. first[q] \in ChipActs /\ acts[q] \in Places /\ acts'[q] = [acts[q] EXCEPT !.first = first[q]]
    BY <1>1, <1>2, <1>3
  <2> QED BY <2>1 DEF Places
<1>4. \A q \in ActPoints : q \notin actBound => acts'[q] = acts[q]
  BY <1>1, <1>2
<1>5. ActTyped'
  <2>1. \A q \in ActPoints : acts'[q] \in Places
    BY <1>2, <1>3, <1>4
  <2>2. acts' \in [ActPoints -> Places]
    BY <1>1, <2>1
  <2> QED BY <1>1, <2>2 DEF ActInv, ActTyped
<1>6. ASSUME NEW q \in ActPoints PROVE PointOk(q)'
  <2>1. PointOk(q)
    BY DEF ActInv
  <2>2. CASE q \in actBound
    <3>1. ~n.multi => ~rec.multi
      BY Zenon
    <3> QED BY <1>1, <1>3, <2>1, <2>2, <3>1 DEF PointOk
  <2>3. CASE q \notin actBound
    BY <1>1, <1>4, <2>1, <2>3 DEF PointOk
  <2> QED BY <2>2, <2>3
<1>7. ASSUME NEW q \in ActPoints PROVE ExactOk(q)'
  <2> SUFFICES ASSUME ~partial', q \in actBound PROVE acts'[q] = Fresh(n)
    BY <1>1, Zenon DEF ExactOk, Fresh, Mapped
  <2>1. PointOk(q)
    BY DEF ActInv
  <2>2. ~rec.multi /\ first[q] = Mapped(n) /\ acts[q].rest = Absent
    BY <1>1, <2>1 DEF PointOk
  <2>3. ~n.multi
    BY <2>2, Zenon
  <2>4. Fresh(n) = [first |-> Mapped(n), rest |-> Absent]
    BY <2>3, FreshTyped
  <2>5. acts'[q] = [first |-> first[q], rest |-> acts[q].rest]
    BY <1>3
  <2> QED BY <2>2, <2>4, <2>5, Zenon
<1>8. RefsOk'
  <2>1. RefsOk
    BY DEF ActInv
  <2> QED BY <1>1, <2>1, Zenon DEF RefsOk
<1> QED BY <1>5, <1>6, <1>7, <1>8 DEF ActInv

(* The packet action set. *)
LEMMA SetPacketActionKeeps ==
  ASSUME ActInv, NEW pa \in ActionKinds, SetPacketAction(pa)
  PROVE  ActInv'
PROOF
<1> DEFINE n == [rec EXCEPT !.pa = pa]
           first == [q \in ActPoints |-> Changed(acts[q].first, rec, pa)]
<1>1. /\ Update(n, first)
      /\ partial' = (actBound # {} /\ (rec.multi \/ IsPartial(pa) \/ Refuses(rec, pa) \/ (rec.trap /\ ~Copies(pa))))
  BY DEF SetPacketAction
<1>2. rec \in EntryRecs /\ rec.live /\ actBound \subseteq ActPoints
  BY <1>1 DEF Update, ActInv, ActTyped
<1>3. /\ n \in EntryRecs /\ n.live = rec.live /\ n.multi = rec.multi /\ n.ctr = rec.ctr /\ n.rng = rec.rng
  BY <1>2 DEF EntryRecs
<1>4. ASSUME NEW q \in actBound PROVE first[q] \in ChipActs
  <2>1. acts[q].first \in ChipActs
    BY <1>2 DEF ActInv, PointOk
  <2> QED BY <1>2, <2>1, ChangedTyped
<1>5. ASSUME NEW q \in actBound, ~partial' PROVE ~rec.multi /\ first[q] = Mapped(n)
  <2>1. acts[q].first \in ChipActs
    BY <1>2 DEF ActInv, PointOk
  <2>2. ~rec.multi /\ ~IsPartial(pa) /\ ~Refuses(rec, pa) /\ ~(rec.trap /\ ~Copies(pa))
    BY <1>1, <1>5, Zenon
  <2>3. Changed(acts[q].first, rec, pa) = Mapped(n)
    BY <1>2, <2>1, <2>2, FullAction
  <2> QED BY <1>2, <2>2, <2>3
<1>6. n.live
  BY <1>2, <1>3, Zenon
<1> HIDE DEF n, first
<1> QED BY <1>1, <1>3, <1>4, <1>5, <1>6, UpdateKeeps

(* The packet action disabled. *)
LEMMA ClearPacketActionKeeps ==
  ASSUME ActInv, ClearPacketAction
  PROVE  ActInv'
PROOF
<1> DEFINE n == [rec EXCEPT !.pa = "NONE"]
           first == [q \in ActPoints |-> IF rec.trap THEN acts[q].first ELSE NoActs]
<1>1. Update(n, first) /\ partial' = (actBound # {} /\ (rec.multi \/ rec.trap))
  BY DEF ClearPacketAction
<1>2. rec \in EntryRecs /\ rec.live /\ actBound \subseteq ActPoints
  BY <1>1 DEF Update, ActInv, ActTyped
<1>3. /\ n \in EntryRecs /\ n.live = rec.live /\ n.multi = rec.multi /\ n.ctr = rec.ctr /\ n.rng = rec.rng
      /\ n.pa = "NONE" /\ n.trap = rec.trap
  BY <1>2 DEF EntryRecs
<1>4. ASSUME NEW q \in actBound PROVE first[q] \in ChipActs
  <2>1. acts[q].first \in ChipActs /\ NoActs \in ChipActs
    BY <1>2 DEF ActInv, PointOk, NoActs, ChipActs
  <2> QED BY <1>2, <2>1
<1>5. ASSUME NEW q \in actBound, ~partial' PROVE ~rec.multi /\ first[q] = Mapped(n)
  <2>1. ~rec.multi /\ ~rec.trap
    BY <1>1, <1>5, Zenon
  <2>2. first[q] = NoActs
    BY <1>2, <2>1
  <2>3. ~Copies(n.pa) /\ ~Discards(n.pa) /\ ~n.trap
    BY <1>3, <2>1 DEF Copies, Discards
  <2>4. Discards(n.pa) = FALSE
    BY <2>3 DEF Discards
  <2>5. Mapped(n) = NoActs
    BY <2>3, <2>4, Zenon DEF Mapped, NoActs
  <2> QED BY <2>1, <2>2, <2>5
<1>6. n.live
  BY <1>2, <1>3, Zenon
<1> HIDE DEF n, first
<1> QED BY <1>1, <1>3, <1>4, <1>5, <1>6, UpdateKeeps

(* What the record and the chip say of a trap and a copy, before and after. *)
LEMMA UserTrapMapped ==
  ASSUME NEW r \in EntryRecs, Copies(r.pa), NEW a \in ChipActs, a = Mapped(r), NEW t \in BOOLEAN
  PROVE  Mapped([r EXCEPT !.trap = t]) = [a EXCEPT !.cpu = IF t THEN "trap" ELSE "plain"]
PROOF
<1>1. PICK n \in EntryRecs : n = [r EXCEPT !.trap = t] /\ n.pa = r.pa /\ n.trap = t
  <2>1. [r EXCEPT !.trap = t] \in EntryRecs /\ [r EXCEPT !.trap = t].pa = r.pa
    BY DEF EntryRecs
  <2>2. [r EXCEPT !.trap = t].trap = t
    BY DEF EntryRecs
  <2> QED BY <2>1, <2>2, Zenon
<1>2. Mapped(r) = [drop |-> Discards(r.pa), cpu |-> IF r.trap THEN "trap" ELSE "plain"]
  BY Zenon DEF Mapped
<1>3. Mapped(n) = [drop |-> Discards(r.pa), cpu |-> IF t THEN "trap" ELSE "plain"]
  BY <1>1, Zenon DEF Mapped
<1>4. Discards(r.pa) \in BOOLEAN
  BY DEF Discards
<1>5. PICK d \in BOOLEAN : d = Discards(r.pa)
  BY <1>4, Zenon
<1>6. PICK c : c = IF r.trap THEN "trap" ELSE "plain"
  OBVIOUS
<1>7. a = [drop |-> d, cpu |-> c]
  BY <1>2, <1>5, <1>6, Zenon
<1>8. a.drop = d
  BY <1>7
<1>9. PICK k \in {"no", "trap", "plain"} : k = IF t THEN "trap" ELSE "plain"
  OBVIOUS
<1>10. [a EXCEPT !.cpu = k] = [drop |-> a.drop, cpu |-> k]
  BY CpuUpdated
<1> QED BY <1>1, <1>3, <1>5, <1>8, <1>9, <1>10, Zenon

(* The user-defined trap of the entry set or cleared. *)
LEMMA UserTrapKeeps ==
  ASSUME ActInv, SetUserTrap \/ ClearUserTrap
  PROVE  ActInv'
PROOF
<1>1. rec \in EntryRecs /\ rec.live /\ actBound \subseteq ActPoints
  BY DEF SetUserTrap, ClearUserTrap, Update, ActInv, ActTyped
<1>2. ASSUME NEW t \in BOOLEAN, NEW first, Update([rec EXCEPT !.trap = t], first),
             partial' = (actBound # {} /\ (partial \/ rec.multi \/ ~Copies(rec.pa))),
             \A q \in ActPoints : \/ first[q] = [acts[q].first EXCEPT !.cpu = IF t THEN "trap" ELSE "plain"]
                                  \/ ~Copies(rec.pa) /\ first[q] = acts[q].first
      PROVE  ActInv'
  <2> DEFINE n == [rec EXCEPT !.trap = t]
  <2>1. /\ n \in EntryRecs /\ n.live = rec.live /\ n.multi = rec.multi /\ n.ctr = rec.ctr /\ n.rng = rec.rng
    BY <1>1 DEF EntryRecs
  <2>2. PICK k \in {"no", "trap", "plain"} : k = IF t THEN "trap" ELSE "plain"
    OBVIOUS
  <2>3. ASSUME NEW q \in actBound PROVE first[q] \in ChipActs
    <3>1. acts[q].first \in ChipActs /\ [acts[q].first EXCEPT !.cpu = k] \in ChipActs
      BY <1>1, CpuUpdated DEF ActInv, PointOk
    <3> QED BY <1>1, <1>2, <2>2, <3>1, Zenon
  <2>4. ASSUME NEW q \in actBound, ~partial' PROVE ~rec.multi /\ first[q] = Mapped(n)
    <3>1. ~partial /\ ~rec.multi /\ Copies(rec.pa)
      BY <1>2, <2>4, Zenon
    <3>2. acts[q].first \in ChipActs /\ acts[q] = Fresh(rec)
      BY <1>1, <3>1 DEF ActInv, PointOk, ExactOk
    <3>3. acts[q].first = Mapped(rec)
      BY <3>2 DEF Fresh
    <3>4. Mapped(n) = [acts[q].first EXCEPT !.cpu = IF t THEN "trap" ELSE "plain"]
      BY <1>1, <3>1, <3>2, <3>3, UserTrapMapped
    <3> QED BY <1>1, <1>2, <3>1, <3>4, Zenon
  <2>5. n.live
    BY <1>1, <2>1, Zenon
  <2> HIDE DEF n
  <2>6. Update(n, first)
    BY <1>2 DEF n
  <2> QED BY <2>1, <2>3, <2>4, <2>5, <2>6, UpdateKeeps
<1>3. TRUE \in BOOLEAN /\ FALSE \in BOOLEAN
  OBVIOUS
<1>4. CASE SetUserTrap
  <2> DEFINE first == [q \in ActPoints |-> IF Copies(rec.pa) THEN [acts[q].first EXCEPT !.cpu = "trap"] ELSE acts[q].first]
  <2>1. \A q \in ActPoints : \/ first[q] = [acts[q].first EXCEPT !.cpu = IF TRUE THEN "trap" ELSE "plain"]
                             \/ ~Copies(rec.pa) /\ first[q] = acts[q].first
    OBVIOUS
  <2>2. /\ Update([rec EXCEPT !.trap = TRUE], first)
        /\ partial' = (actBound # {} /\ (partial \/ rec.multi \/ ~Copies(rec.pa)))
    BY <1>4 DEF SetUserTrap
  <2> HIDE DEF first
  <2> QED BY <1>2, <1>3, <2>1, <2>2, Zenon
<1>5. CASE ClearUserTrap
  <2> DEFINE first == [q \in ActPoints |-> [acts[q].first EXCEPT !.cpu = "plain"]]
  <2>1. \A q \in ActPoints : \/ first[q] = [acts[q].first EXCEPT !.cpu = IF FALSE THEN "trap" ELSE "plain"]
                             \/ ~Copies(rec.pa) /\ first[q] = acts[q].first
    OBVIOUS
  <2>2. /\ Update([rec EXCEPT !.trap = FALSE], first)
        /\ partial' = (actBound # {} /\ (partial \/ rec.multi \/ ~Copies(rec.pa)))
    BY <1>5 DEF ClearUserTrap
  <2> HIDE DEF first
  <2> QED BY <1>2, <1>3, <2>1, <2>2, Zenon
<1> QED BY <1>4, <1>5

-----------------------------------------------------------------------------
(* The entry's creation and removal, and the ports. *)
LEMMA CreateEntryKeeps ==
  ASSUME ActInv, NEW pa \in ActionKinds \cup {"NONE"}, NEW trap \in BOOLEAN, NEW multi \in BOOLEAN,
         NEW ctr \in BOOLEAN, NEW rng \in BOOLEAN, CreateEntry(pa, trap, multi, ctr, rng)
  PROVE  ActInv'
PROOF
<1> DEFINE n == [live |-> TRUE, pa |-> pa, trap |-> trap, multi |-> multi,
                 ctr |-> IF ctr THEN "held" ELSE "none", rng |-> rng]
<1>1. /\ rec' = n /\ ~rec.live /\ UNCHANGED actBound
      /\ acts' = [q \in ActPoints |-> IF q \in actBound THEN Fresh(rec') ELSE acts[q]]
      /\ ctr => counter.live /\ counter' = [counter EXCEPT !.ref = @ + 1]
      /\ ~ctr => counter' = counter
      /\ rng => range.live /\ range' = [range EXCEPT !.ref = @ + 1]
      /\ ~rng => range' = range
  BY DEF CreateEntry
<1>2. PICK c \in {"none", "held", "loose"} : c = IF ctr THEN "held" ELSE "none"
  OBVIOUS
<1>3. n = [live |-> TRUE, pa |-> pa, trap |-> trap, multi |-> multi, ctr |-> c, rng |-> rng]
  BY <1>2, Zenon
<1>4. /\ n \in EntryRecs /\ n.live = TRUE /\ n.ctr = c /\ n.rng = rng
  BY <1>3 DEF EntryRecs
<1>5. /\ counter \in RefRecs /\ range \in RefRecs /\ RefsOk /\ acts \in [ActPoints -> Places]
      /\ actBound \subseteq ActPoints
  BY DEF ActInv, ActTyped
<1>6. /\ [counter EXCEPT !.ref = @ + 1] \in RefRecs /\ [counter EXCEPT !.ref = @ + 1].live = counter.live
      /\ [counter EXCEPT !.ref = @ + 1].ref > 0
      /\ [range EXCEPT !.ref = @ + 1] \in RefRecs /\ [range EXCEPT !.ref = @ + 1].live = range.live
      /\ [range EXCEPT !.ref = @ + 1].ref = range.ref + 1
  BY <1>5 DEF RefRecs
<1> HIDE DEF n
<1>7. range.ref = 0
  BY <1>1, <1>5, NoRecFact DEF RefsOk
<1>8. RefsOk'
  <2>1. rec'.live
    BY <1>1, <1>4, Zenon
  <2>2. rec'.ctr = "held" => counter'.live /\ counter'.ref > 0
    <3>1. rec'.ctr = "held" => ctr
      BY <1>1, <1>2, <1>4
    <3> QED BY <1>1, <1>6, <3>1
  <2>3. rec'.rng => range'.live /\ range'.ref = 1
    <3>1. rec'.rng => rng
      BY <1>1, <1>4, Zenon
    <3>2. rng => range'.ref = 0 + 1 /\ range'.live
      BY <1>1, <1>6, <1>7
    <3> QED BY <3>1, <3>2
  <2>4. ~rec'.rng => range'.ref = 0
    <3>1. ~rec'.rng => ~rng
      BY <1>1, <1>4, Zenon
    <3> QED BY <1>1, <1>7, <3>1
  <2> QED BY <2>1, <2>2, <2>3, <2>4 DEF RefsOk
<1>9. \A q \in ActPoints : acts'[q] = IF q \in actBound THEN Fresh(n) ELSE acts[q]
  BY <1>1
<1>10. Fresh(n) \in Places /\ Fresh(n).first \in ChipActs /\ (~n.multi => Fresh(n).rest = Absent)
  BY <1>4, FreshTyped
<1>11. acts' \in [ActPoints -> Places]
  BY <1>1, <1>5, <1>10
<1>12. counter' \in RefRecs /\ range' \in RefRecs
  BY <1>1, <1>5, <1>6
<1>13. ActTyped'
  BY <1>1, <1>4, <1>5, <1>11, <1>12 DEF ActTyped
<1>14. ASSUME NEW q \in ActPoints PROVE PointOk(q)' /\ ExactOk(q)'
  <2>1. PointOk(q)
    BY DEF ActInv
  <2>2. CASE q \in actBound
    <3>1. acts'[q] = Fresh(n) /\ n.live
      BY <1>4, <1>9, <2>2, Zenon
    <3>2. PointOk(q)'
      BY <1>1, <1>10, <2>2, <3>1, Zenon DEF PointOk
    <3>3. ExactOk(q)'
      BY <1>1, <3>1, Zenon DEF ExactOk, Fresh, Mapped
    <3> QED BY <3>2, <3>3
  <2>3. CASE q \notin actBound
    <3>1. acts'[q] = Nothing
      BY <1>1, <1>9, <2>1, <2>3 DEF PointOk
    <3> QED BY <1>1, <2>3, <3>1 DEF PointOk, ExactOk
  <2> QED BY <2>2, <2>3
<1> QED BY <1>8, <1>13, <1>14 DEF ActInv

(* The entry removed. *)
LEMMA RemoveEntryKeeps ==
  ASSUME ActInv, RemoveEntry
  PROVE  ActInv'
PROOF
<1>1. /\ rec' = NoRec /\ UNCHANGED <<actBound, counter>>
      /\ acts' = [q \in ActPoints |-> Nothing]
      /\ rec.rng => range' = [range EXCEPT !.ref = @ - 1]
      /\ ~rec.rng => range' = range
  BY DEF RemoveEntry, Nothing
<1>2. counter \in RefRecs /\ range \in RefRecs /\ RefsOk /\ actBound \subseteq ActPoints
  BY DEF ActInv, ActTyped
<1>3. range.ref \in Nat
  BY <1>2 DEF RefRecs
<1>4. range' \in RefRecs /\ range'.ref = 0
  <2>1. CASE rec.rng
    <3>1. range.ref = 1
      BY <1>2, <2>1 DEF RefsOk
    <3> QED BY <1>1, <1>2, <2>1, <3>1 DEF RefRecs
  <2>2. CASE ~rec.rng
    BY <1>1, <1>2, <2>2 DEF RefsOk
  <2> QED BY <2>1, <2>2
<1>5. RefsOk'
  BY <1>1, <1>4, NoRecFact DEF RefsOk
<1>6. ActTyped'
  BY <1>1, <1>2, <1>4, NoRecFact, NothingTyped DEF ActTyped
<1>7. \A q \in ActPoints : PointOk(q)' /\ ExactOk(q)'
  BY <1>1, NoRecFact DEF PointOk, ExactOk
<1> QED BY <1>5, <1>6, <1>7 DEF ActInv

(* A port bound to or unbound from the table of the entry. *)
LEMMA PortsKeep ==
  ASSUME ActInv, NEW q \in ActPoints, BindPort(q) \/ UnbindPort(q)
  PROVE  ActInv'
PROOF
<1>1. UNCHANGED <<rec, counter, range>>
  BY DEF BindPort, UnbindPort
<1>2. ActTyped /\ RefsOk /\ \A x \in ActPoints : PointOk(x) /\ ExactOk(x)
  BY DEF ActInv
<1>3. /\ Nothing \in Places /\ Fresh(rec) \in Places /\ Fresh(rec).first \in ChipActs
      /\ ~rec.multi => Fresh(rec).rest = Absent
  BY <1>2, FreshTyped, NothingTyped DEF ActTyped
<1>4. RefsOk'
  BY <1>1, <1>2 DEF RefsOk
<1>5. CASE BindPort(q)
  <2>1. /\ q \notin actBound /\ actBound' = actBound \cup {q} /\ UNCHANGED partial
        /\ rec.live => acts' = [acts EXCEPT ![q] = Fresh(rec)]
        /\ ~rec.live => acts' = acts
    BY <1>5 DEF BindPort
  <2>2. \A x \in ActPoints : x # q => acts'[x] = acts[x] /\ (x \in actBound' <=> x \in actBound)
    BY <1>2, <2>1 DEF ActTyped
  <2>3. acts' \in [ActPoints -> Places] /\ (rec.live => acts'[q] = Fresh(rec))
    BY <1>2, <1>3, <2>1 DEF ActTyped
  <2>4. ActTyped'
    BY <1>1, <1>2, <2>1, <2>3 DEF ActTyped
  <2>5. ASSUME NEW x \in ActPoints PROVE PointOk(x)' /\ ExactOk(x)'
    <3>1. CASE x = q
      <4>1. CASE rec.live
        <5>1. PointOk(x)'
          BY <1>1, <1>3, <2>1, <2>3, <3>1, <4>1 DEF PointOk
        <5>2. ExactOk(x)'
          BY <1>1, <2>3, <3>1, <4>1, Zenon DEF ExactOk, Fresh, Mapped
        <5> QED BY <5>1, <5>2
      <4>2. CASE ~rec.live
        BY <1>1, <1>2, <2>1, <3>1, <4>2 DEF PointOk, ExactOk
      <4> QED BY <4>1, <4>2
    <3>2. CASE x # q
      <4>1. PointOk(x)'
        BY <1>1, <1>2, <2>2, <3>2 DEF PointOk
      <4>2. acts'[x] = acts[x] /\ (x \in actBound' <=> x \in actBound) /\ ExactOk(x)
        BY <1>2, <2>2, <3>2
      <4>3. ExactOk(x)'
        BY <1>1, <2>1, <4>2, Zenon DEF ExactOk, Fresh, Mapped
      <4> QED BY <4>1, <4>3
    <3> QED BY <3>1, <3>2
  <2> QED BY <1>4, <2>4, <2>5 DEF ActInv
<1>6. CASE UnbindPort(q)
  <2>1. /\ q \in actBound /\ actBound' = actBound \ {q}
        /\ partial' = (partial /\ actBound' # {})
        /\ acts' = [acts EXCEPT ![q] = Nothing]
    BY <1>6 DEF UnbindPort, Nothing
  <2>2. \A x \in ActPoints : x # q => acts'[x] = acts[x] /\ (x \in actBound' <=> x \in actBound)
    BY <1>2, <2>1 DEF ActTyped
  <2>3. acts' \in [ActPoints -> Places] /\ acts'[q] = Nothing
    BY <1>2, <1>3, <2>1 DEF ActTyped
  <2>4. ActTyped'
    BY <1>1, <1>2, <2>1, <2>3 DEF ActTyped
  <2>5. ASSUME NEW x \in ActPoints PROVE PointOk(x)' /\ ExactOk(x)'
    <3>1. CASE x = q
      BY <2>1, <2>3, <3>1 DEF PointOk, ExactOk
    <3>2. CASE x # q
      <4>1. PointOk(x)'
        BY <1>1, <1>2, <2>2, <3>2 DEF PointOk
      <4>2. acts'[x] = acts[x] /\ (x \in actBound' <=> x \in actBound) /\ ExactOk(x)
        BY <1>2, <2>2, <3>2
      <4>3. ~partial' /\ x \in actBound' => ~partial
        BY <2>1, Zenon
      <4>4. ExactOk(x)'
        BY <1>1, <4>2, <4>3, Zenon DEF ExactOk, Fresh, Mapped
      <4> QED BY <4>1, <4>4
    <3> QED BY <3>1, <3>2
  <2> QED BY <1>4, <2>4, <2>5 DEF ActInv
<1> QED BY <1>5, <1>6

(* The counter and the range. *)
LEMMA ReferencesKeep ==
  ASSUME ActInv, SetCounter \/ CreateCounter \/ RemoveCounter \/ CreateRange \/ RemoveRange
  PROVE  ActInv'
PROOF
<1>1. ActTyped /\ RefsOk /\ \A x \in ActPoints : PointOk(x) /\ ExactOk(x)
  BY DEF ActInv
<1>2. UNCHANGED <<acts, actBound, partial>>
  BY DEF SetCounter, CreateCounter, RemoveCounter, CreateRange, RemoveRange
<1>3. \A b \in BOOLEAN : [live |-> b, ref |-> 0] \in RefRecs /\ [live |-> b, ref |-> 0].ref = 0
  BY DEF RefRecs
<1>4. CASE SetCounter
  <2>1. rec' = [rec EXCEPT !.ctr = "loose"] /\ rec.live /\ UNCHANGED <<counter, range>>
    BY <1>4 DEF SetCounter
  <2>2. PICK n \in EntryRecs : /\ n = rec' /\ n.live = rec.live /\ n.pa = rec.pa /\ n.trap = rec.trap
                               /\ n.multi = rec.multi /\ n.rng = rec.rng /\ n.ctr = "loose"
    <3>1. PICK r \in EntryRecs : r = rec
      BY <1>1 DEF ActTyped
    <3>2. PICK n : n = [r EXCEPT !.ctr = "loose"]
      OBVIOUS
    <3>3. n \in EntryRecs /\ n.ctr = "loose" /\ n.pa = r.pa
      BY <3>2 DEF EntryRecs
    <3>4. n.live = r.live /\ n.trap = r.trap /\ n.multi = r.multi /\ n.rng = r.rng
      BY <3>2 DEF EntryRecs
    <3> QED BY <2>1, <3>1, <3>2, <3>3, <3>4, Zenon
  <2>3. ActTyped'
    BY <1>1, <1>2, <2>1, <2>2 DEF ActTyped
  <2>4. RefsOk'
    BY <1>1, <2>1, <2>2, Zenon DEF RefsOk
  <2>5. \A x \in ActPoints : PointOk(x)'
    BY <1>1, <1>2, <2>2, Zenon DEF PointOk
  <2>6. Fresh(n) = Fresh(rec)
    BY <2>2, Zenon DEF Fresh, Mapped
  <2>7. \A x \in ActPoints : ExactOk(x)'
    BY <1>1, <1>2, <2>2, <2>6, Zenon DEF ExactOk, Fresh, Mapped
  <2> QED BY <2>3, <2>4, <2>5, <2>7 DEF ActInv
<1>5. CASE ~SetCounter
  <2>1. UNCHANGED rec
    BY <1>5 DEF CreateCounter, RemoveCounter, CreateRange, RemoveRange
  <2>2. /\ counter' \in RefRecs /\ (rec.ctr = "held" => counter'.live /\ counter'.ref > 0)
        /\ range' \in RefRecs /\ (rec.rng => range'.live /\ range'.ref = 1)
        /\ (~rec.rng => range'.ref = 0)
    <3>1. [live |-> TRUE, ref |-> 0] \in RefRecs /\ [live |-> FALSE, ref |-> 0] \in RefRecs
      BY <1>3
    <3>2. [live |-> TRUE, ref |-> 0].ref = 0 /\ [live |-> FALSE, ref |-> 0].ref = 0
      OBVIOUS
    <3>3. CASE CreateCounter \/ RemoveCounter
      <4>1. /\ UNCHANGED range /\ rec.ctr # "held"
            /\ counter' \in {[live |-> TRUE, ref |-> 0], [live |-> FALSE, ref |-> 0]}
        BY <1>1, <3>3 DEF RefsOk, CreateCounter, RemoveCounter
      <4> QED BY <1>1, <3>1, <4>1 DEF ActTyped, RefsOk
    <3>4. CASE CreateRange \/ RemoveRange
      <4>1. /\ UNCHANGED counter /\ ~rec.rng
            /\ range' \in {[live |-> TRUE, ref |-> 0], [live |-> FALSE, ref |-> 0]}
        BY <1>1, <3>4 DEF RefsOk, CreateRange, RemoveRange
      <4> QED BY <1>1, <3>1, <3>2, <4>1 DEF ActTyped, RefsOk
    <3> QED BY <1>5, <3>3, <3>4
  <2>3. RefsOk'
    BY <1>1, <2>1, <2>2 DEF RefsOk
  <2>4. ActTyped'
    BY <1>1, <1>2, <2>1, <2>2 DEF ActTyped
  <2>5. \A x \in ActPoints : PointOk(x)'
    BY <1>1, <1>2, <2>1 DEF PointOk
  <2>6. \A x \in ActPoints : ExactOk(x)'
    BY <1>1, <1>2, <2>1, Zenon DEF ExactOk, Fresh, Mapped
  <2> QED BY <2>3, <2>4, <2>5, <2>6 DEF ActInv
<1> QED BY <1>4, <1>5

(* Every call on the entry and what it refers to keeps the invariant. *)
LEMMA ActCallsKeep == ActInv /\ [ActNext]_actVars => ActInv'
PROOF
<1> SUFFICES ASSUME ActInv, [ActNext]_actVars PROVE ActInv'
  OBVIOUS
<1>1. CASE UNCHANGED actVars
  <2>1. UNCHANGED <<rec, acts, actBound, counter, range, partial>>
    BY <1>1 DEF actVars
  <2>2. \A x \in ActPoints : ExactOk(x)'
    BY <2>1, Zenon DEF ActInv, ExactOk, Fresh, Mapped
  <2> QED BY <2>1, <2>2 DEF ActInv, ActTyped, PointOk, RefsOk
<1>2. CASE \E pa \in ActionKinds \cup {"NONE"}, trap, multi, ctr, rng \in BOOLEAN : CreateEntry(pa, trap, multi, ctr, rng)
  BY <1>2, CreateEntryKeeps, Zenon
<1>3. CASE RemoveEntry
  BY <1>3, RemoveEntryKeeps
<1>4. CASE ClearPacketAction
  BY <1>4, ClearPacketActionKeeps
<1>5. CASE SetUserTrap \/ ClearUserTrap
  BY <1>5, UserTrapKeeps
<1>6. CASE SetCounter \/ CreateCounter \/ RemoveCounter \/ CreateRange \/ RemoveRange
  BY <1>6, ReferencesKeep
<1>7. CASE \E q \in ActPoints : BindPort(q) \/ UnbindPort(q)
  BY <1>7, PortsKeep
<1>8. CASE \E pa \in ActionKinds : SetPacketAction(pa)
  BY <1>8, SetPacketActionKeeps
<1> QED BY <1>1, <1>2, <1>3, <1>4, <1>5, <1>6, <1>7, <1>8 DEF ActNext

-----------------------------------------------------------------------------
(* Mirroring *)
SessRecs == [kind : Kinds \cup {"none"}, dst : SUBSET MirDests]
SlotRecs == [list : SUBSET MirSessions, ref : Nat, nh : 0..NhNum]
StageSlots == [1..SlotNum -> SlotRecs]
MirTyped ==
  /\ sess \in [MirSessions -> SessRecs]
  /\ slots \in [Stages -> StageSlots]
  /\ hwDest \in [Stages -> [1..SlotNum -> SUBSET MirDests]]
  /\ hwUser \in [MirUsers -> 0..SlotNum]
  /\ nhFree \in Nat /\ nhLost \in Nat
(* A slot in use: who uses it, what it copies to, and no next hop without *)
(* a user. The sessions of its list have different monitor ports. *)
SlotOk(t, i) ==
  LET sl == slots[t][i]
  IN /\ sl.ref = Cardinality(UsersOf(t, i))
     /\ sl.list = {} <=> sl.ref = 0
     /\ \A s \in sl.list : LiveSess(s)
     /\ hwDest[t][i] = DestsOf(sl.list)
     /\ Apart(sl.list, sess)
     /\ sl.ref = 0 => sl.nh = 0
MirInv ==
  /\ MirTyped
  /\ Hooked => \A t \in Stages, i \in 1..SlotNum : SlotOk(t, i)
  /\ nhFree + nhLost + NhTaken = NhNum

(* What the invariant says of mirroring. *)
LEMMA MirGives == MirInv => MirrorsExact
PROOF
<1> SUFFICES ASSUME MirInv PROVE MirrorsExact
  OBVIOUS
<1>1. ASSUME Hooked, NEW t \in Stages, NEW i \in 1..SlotNum PROVE SlotExact(t, i)
  <2>1. SlotOk(t, i)
    BY <1>1 DEF MirInv
  <2>2. (slots[t][i].list = {}) = (slots[t][i].ref = 0)
    BY <2>1 DEF SlotOk
  <2> QED BY <2>1, <2>2 DEF SlotOk, SlotExact
<1> QED BY <1>1 DEF MirInv, MirrorsExact

(* The next hops of one slot, one by one, and those of the others. *)
LEMMA StagesFact == IsFiniteSet(Stages)
PROOF
<1>1. Stages \subseteq {"acl"} \cup {"port"}
  BY DEF Stages, StageOf
<1>2. IsFiniteSet({"acl"} \cup {"port"})
  BY FS_Singleton, FS_AddElement
<1> QED BY <1>1, <1>2, FS_Subset

NhTriples(sls) == {x \in Stages \X (1..SlotNum) \X (1..NhNum) : x[3] <= sls[x[1]][x[2]].nh}

(* The next hops in use are finitely many. *)
LEMMA TriplesFact ==
  ASSUME NEW sls
  PROVE  /\ IsFiniteSet(NhTriples(sls)) /\ NhTakenIn(sls) = Cardinality(NhTriples(sls))
         /\ NhTakenIn(sls) \in Nat
PROOF
<1> DEFINE P == (1..SlotNum) \X (1..NhNum)
           f == [x \in Stages \X P |-> <<x[1], x[2][1], x[2][2]>>]
           A == Stages \X (1..SlotNum) \X (1..NhNum)
<1>1. IsFiniteSet(1..SlotNum) /\ IsFiniteSet(1..NhNum)
  BY FS_Interval, MirAssumption
<1>2. IsFiniteSet(P)
  BY <1>1, FS_Product
<1>3. IsFiniteSet(Stages \X P)
  BY <1>2, StagesFact, FS_Product
<1>4. f \in Surjection(Stages \X P, A)
  <2>1. f \in [Stages \X P -> A]
    OBVIOUS
  <2>2. \A y \in A : \E x \in Stages \X P : f[x] = y
    <3> SUFFICES ASSUME NEW y \in A PROVE \E x \in Stages \X P : f[x] = y
      OBVIOUS
    <3>1. <<y[1], <<y[2], y[3]>>>> \in Stages \X P /\ f[<<y[1], <<y[2], y[3]>>>>] = y
      OBVIOUS
    <3> QED BY <3>1
  <2> HIDE DEF f, P, A
  <2> QED BY <2>1, <2>2 DEF Surjection
<1>5. IsFiniteSet(A)
  <2> HIDE DEF f, P, A
  <2> QED BY <1>3, <1>4, FS_Surjection
<1>6. NhTriples(sls) \subseteq A
  BY DEF NhTriples
<1>7. IsFiniteSet(NhTriples(sls))
  BY <1>5, <1>6, FS_Subset
<1> QED BY <1>7, FS_CardinalityType DEF NhTakenIn, NhTriples

SlotNhs(t, i, n) == {<<t, i, k>> : k \in 1..n}

(* The next hops of one slot are as many as it says. *)
LEMMA OneSlotNh ==
  ASSUME NEW t, NEW i, NEW n \in Nat
  PROVE  IsFiniteSet(SlotNhs(t, i, n)) /\ Cardinality(SlotNhs(t, i, n)) = n
PROOF
<1> DEFINE T == {<<t, i, k>> : k \in 1..n}
           f == [k \in 1..n |-> <<t, i, k>>]
<1>1. f \in Bijection(1..n, T)
  <2>1. f \in [1..n -> T]
    OBVIOUS
  <2>2. \A x, y \in 1..n : f[x] = f[y] => x = y
    OBVIOUS
  <2>3. \A z \in T : \E x \in 1..n : f[x] = z
    OBVIOUS
  <2> HIDE DEF f, T
  <2> QED BY <2>1, <2>2, <2>3 DEF Bijection, Injection, Surjection, IsInjective
<1>2. IsFiniteSet(1..n) /\ Cardinality(1..n) = n
  BY FS_Interval
<1> HIDE DEF f, T
<1>3. IsFiniteSet(T) /\ Cardinality(T) = n
  BY <1>1, <1>2, FS_Bijection DEF ExistsBijection
<1> QED BY <1>3 DEF T, SlotNhs

(* A change of one slot's next hops changes the sum by as much. *)
LEMMA NhChange ==
  ASSUME NEW a \in [Stages -> StageSlots], NEW b \in [Stages -> StageSlots],
         NEW t \in Stages, NEW i \in 1..SlotNum,
         \A u \in Stages : \A j \in 1..SlotNum : <<u, j>> # <<t, i>> => b[u][j].nh = a[u][j].nh
  PROVE  NhTakenIn(b) = NhTakenIn(a) - a[t][i].nh + b[t][i].nh /\ a[t][i].nh <= NhTakenIn(a)
PROOF
<1> DEFINE Own(n) == SlotNhs(t, i, n)
           R == {x \in NhTriples(a) : <<x[1], x[2]>> # <<t, i>>}
<1>0. /\ a[t][i].nh \in Nat /\ b[t][i].nh \in Nat /\ NhNum \in Nat
      /\ a[t][i].nh <= NhNum /\ b[t][i].nh <= NhNum
  BY MirAssumption DEF StageSlots, SlotRecs
<1>1. R = {x \in NhTriples(b) : <<x[1], x[2]>> # <<t, i>>}
  BY DEF NhTriples
<1>2. ASSUME NEW s, s = a \/ s = b
      PROVE  /\ NhTriples(s) = {x \in NhTriples(s) : <<x[1], x[2]>> # <<t, i>>} \cup Own(s[t][i].nh)
             /\ s[t][i].nh \in Nat
  <2>1. s[t][i].nh \in Nat /\ s[t][i].nh <= NhNum
    BY <1>0, <1>2
  <2>2. ASSUME NEW x \in NhTriples(s), <<x[1], x[2]>> = <<t, i>> PROVE x \in {<<t, i, k>> : k \in 1..s[t][i].nh}
    <3>1. x = <<x[1], x[2], x[3]>> /\ x[3] \in 1..NhNum /\ x[3] <= s[x[1]][x[2]].nh
      BY DEF NhTriples
    <3>2. x = <<t, i, x[3]>> /\ x[3] \in 1..s[t][i].nh
      BY <1>0, <2>1, <2>2, <3>1
    <3> QED BY <3>2
  <2>3. ASSUME NEW k \in 1..s[t][i].nh PROVE <<t, i, k>> \in NhTriples(s)
    <3>1. k \in 1..NhNum /\ k <= s[t][i].nh
      BY <1>0, <2>1
    <3> QED BY <3>1 DEF NhTriples
  <2> QED BY <2>1, <2>2, <2>3 DEF SlotNhs
<1>3. \A n \in Nat : R \cap Own(n) = {}
  BY DEF SlotNhs
<1>4. IsFiniteSet(R) /\ Cardinality(R) \in Nat
  <2>1. R \subseteq NhTriples(a)
    OBVIOUS
  <2> HIDE DEF R
  <2> QED BY <2>1, TriplesFact, FS_Subset, FS_CardinalityType
<1>5. \A n \in Nat : IsFiniteSet(Own(n)) /\ Cardinality(Own(n)) = n
  BY OneSlotNh
<1>6. NhTriples(a) = R \cup Own(a[t][i].nh) /\ NhTriples(b) = R \cup Own(b[t][i].nh)
  BY <1>1, <1>2
<1> HIDE DEF R, Own
<1>7. \A n \in Nat : Cardinality(R \cup Own(n)) = Cardinality(R) + n
  <2> SUFFICES ASSUME NEW n \in Nat PROVE Cardinality(R \cup Own(n)) = Cardinality(R) + n
    OBVIOUS
  <2>1. Cardinality(R \cup Own(n)) = Cardinality(R) + Cardinality(Own(n)) - Cardinality(R \cap Own(n))
    BY <1>4, <1>5, FS_Union
  <2>2. Cardinality(R \cap Own(n)) = 0
    BY <1>3, FS_EmptySet
  <2> QED BY <1>4, <1>5, <2>1, <2>2
<1>8. NhTakenIn(a) = Cardinality(R) + a[t][i].nh /\ NhTakenIn(b) = Cardinality(R) + b[t][i].nh
  BY <1>0, <1>6, <1>7, TriplesFact
<1> QED BY <1>0, <1>4, <1>8

(* It holds before the first call. *)
LEMMA MirInitially == MirInit => MirInv
PROOF
<1> SUFFICES ASSUME MirInit PROVE MirInv
  OBVIOUS
<1>1. /\ NoSess \in SessRecs /\ NoSlot \in SlotRecs
      /\ NoSess.kind = "none" /\ NoSlot.list = {} /\ NoSlot.ref = 0 /\ NoSlot.nh = 0
  BY MirAssumption DEF NoSess, NoSlot, SessRecs, SlotRecs
<1>2. MirTyped
  BY <1>1, MirAssumption DEF MirInit, MirTyped, StageSlots
<1>3. \A t \in Stages : \A i \in 1..SlotNum : slots[t][i] = NoSlot /\ hwDest[t][i] = {}
  BY DEF MirInit
<1>4. ASSUME NEW t \in Stages, NEW i \in 1..SlotNum PROVE SlotOk(t, i)
  <2>1. UsersOf(t, i) = {}
    BY DEF UsersOf, MirInit
  <2>2. Cardinality(UsersOf(t, i)) = 0
    BY <2>1, FS_EmptySet
  <2> QED BY <1>1, <1>3, <2>2 DEF SlotOk, DestsOf, Apart
<1>5. NhTriples(slots) = {}
  BY <1>1, <1>3 DEF NhTriples
<1>6. NhTaken = 0
  BY <1>5, TriplesFact, FS_EmptySet DEF NhTaken
<1>7. nhFree + nhLost + NhTaken = NhNum
  BY <1>6, MirAssumption DEF MirInit
<1> QED BY <1>2, <1>4, <1>7 DEF MirInv

-----------------------------------------------------------------------------
(* Sessions. Slots stay as they are, and who uses them. *)
LEMMA SlotsStay ==
  ASSUME MirInv, MirTyped', UNCHANGED <<slots, hwUser, nhFree, nhLost>>,
         Hooked' => \A t \in Stages, i \in 1..SlotNum : SlotOk(t, i)'
  PROVE  MirInv'
BY DEF MirInv, NhTaken, NhTakenIn

(* A slot whose sessions stay is as it was. *)
LEMMA SlotSessions ==
  ASSUME MirInv, Hooked, UNCHANGED <<slots, hwUser>>, NEW t \in Stages, NEW i \in 1..SlotNum,
         hwDest'[t][i] = hwDest[t][i],
         \A s \in slots[t][i].list : sess'[s] = sess[s]
  PROVE  SlotOk(t, i)'
PROOF
<1>1. SlotOk(t, i)
  BY DEF MirInv
<1>2. UsersOf(t, i)' = UsersOf(t, i)
  BY DEF UsersOf
<1>3. DestsOf(slots[t][i].list)' = DestsOf(slots[t][i].list)
  BY DEF DestsOf
<1>4. Apart(slots[t][i].list, sess')
  BY <1>1 DEF SlotOk, Apart
<1>5. \A s \in slots[t][i].list : LiveSess(s)'
  BY <1>1 DEF SlotOk, LiveSess
<1> QED BY <1>1, <1>2, <1>3, <1>4, <1>5 DEF SlotOk

(* create_mirror_session. *)
LEMMA CreateSessionKeeps ==
  ASSUME MirInv, Hooked, NEW s \in MirSessions, NEW k \in Kinds, NEW ds \in SUBSET MirDests,
         CreateSession(s, k, ds)
  PROVE  MirInv'
PROOF
<1>1. /\ ~LiveSess(s) /\ sess' = [sess EXCEPT ![s] = [kind |-> k, dst |-> ds]]
      /\ UNCHANGED <<slots, hwDest, hwUser, nhFree, nhLost, unhooked, freedLists>>
  BY DEF CreateSession
<1>2. MirTyped'
  BY <1>1 DEF MirInv, MirTyped, SessRecs
<1>3. ASSUME NEW t \in Stages, NEW i \in 1..SlotNum PROVE SlotOk(t, i)'
  <2>1. SlotOk(t, i) /\ slots[t][i].list \subseteq MirSessions
    BY ZenonT(40) DEF MirInv, MirTyped, StageSlots, SlotRecs
  <2>2. \A x \in slots[t][i].list : x # s
    BY <1>1, <2>1 DEF SlotOk
  <2>3. \A x \in slots[t][i].list : sess'[x] = sess[x]
    BY <1>1, <2>1, <2>2 DEF MirInv, MirTyped
  <2> QED BY <1>1, <2>3, SlotSessions
<1> QED BY <1>1, <1>2, <1>3, SlotsStay

(* remove_mirror_session. *)
LEMMA RemoveSessionKeeps ==
  ASSUME MirInv, Hooked, NEW s \in MirSessions, RemoveSession(s)
  PROVE  MirInv'
PROOF
<1>1. /\ InSlots(s) = {} /\ sess' = [sess EXCEPT ![s] = NoSess]
      /\ UNCHANGED <<slots, hwDest, hwUser, nhFree, nhLost, unhooked, freedLists>>
  BY DEF RemoveSession
<1>2. MirTyped'
  BY <1>1 DEF MirInv, MirTyped, SessRecs, NoSess
<1>3. ASSUME NEW t \in Stages, NEW i \in 1..SlotNum PROVE SlotOk(t, i)'
  <2>1. slots[t][i].list \subseteq MirSessions
    BY ZenonT(40) DEF MirInv, MirTyped, StageSlots, SlotRecs
  <2>2. s \notin slots[t][i].list
    <3>1. <<t, i>> \notin InSlots(s)
      BY <1>1
    <3> QED BY <3>1 DEF InSlots
  <2>3. \A x \in slots[t][i].list : sess'[x] = sess[x]
    BY <1>1, <2>1, <2>2 DEF MirInv, MirTyped
  <2> QED BY <1>1, <2>3, SlotSessions
<1> QED BY <1>1, <1>2, <1>3, SlotsStay

(* An attribute of a session that moves no destination. *)
LEMMA SetOtherKeeps ==
  ASSUME MirInv, Hooked, NEW s \in MirSessions, SetOther(s)
  PROVE  MirInv'
PROOF
<1>1. freedLists' # {} /\ UNCHANGED <<sess, slots, hwDest, hwUser, nhFree, nhLost, unhooked>>
  BY DEF SetOther
<1>2. MirTyped' /\ ~Hooked'
  BY <1>1 DEF MirInv, MirTyped, Hooked
<1> QED BY <1>1, <1>2, SlotsStay

(* The destination of a session, applied to its slots. *)
LEMMA SetDestKeeps ==
  ASSUME MirInv, Hooked, NEW s \in MirSessions, NEW ds \in SUBSET MirDests, SetDest(s, ds)
  PROVE  MirInv'
PROOF
<1>1. /\ CanMove(s, ds) /\ sess' = [sess EXCEPT ![s].dst = ds]
      /\ hwDest' = [t \in Stages |-> [i \in 1..SlotNum |->
           IF s \in slots[t][i].list THEN (hwDest[t][i] \ sess[s].dst) \cup ds ELSE hwDest[t][i]]]
      /\ UNCHANGED <<slots, hwUser, nhFree, nhLost, unhooked>>
  BY DEF SetDest
<1>2. MirTyped /\ sess[s] \in SessRecs
  BY DEF MirInv, MirTyped
<1>3. [sess[s] EXCEPT !.dst = ds] \in SessRecs /\ [sess[s] EXCEPT !.dst = ds].kind = sess[s].kind
      /\ [sess[s] EXCEPT !.dst = ds].dst = ds
  BY <1>2 DEF SessRecs
<1>4. /\ sess' \in [MirSessions -> SessRecs]
      /\ \A x \in MirSessions : x # s => sess'[x] = sess[x]
      /\ sess'[s].kind = sess[s].kind /\ sess'[s].dst = ds
  BY <1>1, <1>2, <1>3 DEF MirTyped
<1>5. hwDest' \in [Stages -> [1..SlotNum -> SUBSET MirDests]]
  BY <1>1, <1>2 DEF MirTyped
<1>6. MirTyped'
  BY <1>1, <1>2, <1>4, <1>5 DEF MirTyped
<1>7. ASSUME NEW t \in Stages, NEW i \in 1..SlotNum PROVE SlotOk(t, i)'
  <2> DEFINE L == slots[t][i].list
  <2>1. SlotOk(t, i) /\ L \subseteq MirSessions
    BY ZenonT(40) DEF MirInv, MirTyped, StageSlots, SlotRecs
  <2>2. hwDest'[t][i] = IF s \in L THEN (hwDest[t][i] \ sess[s].dst) \cup ds ELSE hwDest[t][i]
    BY <1>1
  <2>3. CASE s \notin L
    <3>1. \A x \in L : sess'[x] = sess[x]
      BY <1>4, <2>1, <2>3
    <3> QED BY <1>1, <2>2, <2>3, <3>1, SlotSessions
  <2>4. CASE s \in L
    <3>1. Apart(L, [sess EXCEPT ![s].dst = ds])
      <4>1. <<t, i>> \in InSlots(s)
        BY <2>4 DEF InSlots
      <4> QED BY <1>1, <4>1 DEF CanMove
    <3>2. Apart(L, sess')
      BY <1>1, <3>1
    <3>3. hwDest'[t][i] = DestsOf(L)'
      <4>1. hwDest[t][i] = DestsOf(L) /\ Apart(L, sess)
        BY <2>1 DEF SlotOk
      <4>2. \A y : y \in DestsOf(L) <=> \E x \in L : y \in sess[x].dst
        BY DEF DestsOf
      <4>3. \A y : y \in DestsOf(L)' <=> \E x \in L : y \in sess'[x].dst
        BY <1>1 DEF DestsOf
      <4>4. \A x \in L \ {s} : sess'[x] = sess[x] /\ sess[x].dst \cap sess[s].dst = {}
        BY <1>4, <2>1, <2>4, <4>1 DEF Apart
      <4>5. \A y : y \in hwDest'[t][i] <=> (y \in DestsOf(L) /\ y \notin sess[s].dst) \/ y \in ds
        BY <2>2, <2>4, <4>1
      <4>6. \A y : y \in hwDest'[t][i] <=> y \in DestsOf(L)'
        BY <1>4, <2>4, <4>2, <4>3, <4>4, <4>5
      <4> QED BY <4>6
    <3>4. \A x \in L : LiveSess(x)'
      BY <1>4, <2>1 DEF SlotOk, LiveSess
    <3>5. UsersOf(t, i)' = UsersOf(t, i)
      BY <1>1 DEF UsersOf
    <3>6. slots' = slots
      BY <1>1
    <3> QED BY <2>1, <3>2, <3>3, <3>4, <3>5, <3>6 DEF SlotOk
  <2> QED BY <2>3, <2>4
<1> QED BY <1>1, <1>6, <1>7, SlotsStay

-----------------------------------------------------------------------------
(* A change of a user's list: the slot it uses is given back first. *)
Back(u) == IF hwUser[u] = 0 THEN slots[StageOf(u)] ELSE Freed(slots[StageOf(u)], hwUser[u])
NhBack(u) ==
  IF hwUser[u] # 0 /\ Back(u)[hwUser[u]].ref = 0 THEN slots[StageOf(u)][hwUser[u]].nh ELSE 0
Cleared(u) ==
  IF hwUser[u] # 0 /\ Back(u)[hwUser[u]].ref = 0
    THEN [hwDest[StageOf(u)] EXCEPT ![hwUser[u]] = {}] ELSE hwDest[StageOf(u)]
Without(u, i) == UsersOf(StageOf(u), i) \ {u}
GivenBack(u) ==
  /\ Back(u) \in StageSlots /\ Cleared(u) \in [1..SlotNum -> SUBSET MirDests] /\ NhBack(u) \in Nat
  /\ \A i \in 1..SlotNum :
       /\ Back(u)[i].ref = Cardinality(Without(u, i))
       /\ Back(u)[i].list = {} <=> Back(u)[i].ref = 0
       /\ \A s \in Back(u)[i].list : LiveSess(s)
       /\ Cleared(u)[i] = DestsOf(Back(u)[i].list)
       /\ Apart(Back(u)[i].list, sess)
       /\ Back(u)[i].ref = 0 => Back(u)[i].nh = 0
  /\ NhTakenIn([slots EXCEPT ![StageOf(u)] = Back(u)]) = NhTaken - NhBack(u)
  /\ nhFree + NhBack(u) <= NhNum

(* The users of a slot without one, and with it. *)
LEMMA UsersFact ==
  ASSUME NEW t, NEW i, NEW u
  PROVE  /\ IsFiniteSet(UsersOf(t, i) \ {u}) /\ Cardinality(UsersOf(t, i) \ {u}) \in Nat
         /\ Cardinality(UsersOf(t, i)) = Cardinality(UsersOf(t, i) \ {u}) + (IF u \in UsersOf(t, i) THEN 1 ELSE 0)
PROOF
<1>1. IsFiniteSet(UsersOf(t, i))
  <2>1. UsersOf(t, i) \subseteq MirUsers
    BY DEF UsersOf
  <2> QED BY <2>1, FS_Subset, MirAssumption
<1>2. IsFiniteSet(UsersOf(t, i) \ {u}) /\ Cardinality(UsersOf(t, i)) \in Nat
  BY <1>1, FS_RemoveElement, FS_CardinalityType
<1> QED BY <1>1, <1>2, FS_RemoveElement, FS_CardinalityType

(* The slot a user gives back before it takes another. *)
LEMMA GivenBackFact ==
  ASSUME MirInv, Hooked, NEW u \in MirUsers
  PROVE  GivenBack(u)
PROOF
<1> DEFINE t == StageOf(u)
           old == hwUser[u]
           sl == slots[t]
<1>1. /\ t \in Stages /\ old \in 0..SlotNum /\ sl \in StageSlots /\ hwDest[t] \in [1..SlotNum -> SUBSET MirDests]
      /\ slots \in [Stages -> StageSlots] /\ NhNum \in Nat /\ nhFree \in Nat /\ nhLost \in Nat
      /\ nhFree + nhLost + NhTaken = NhNum
  BY MirAssumption DEF Stages, MirInv, MirTyped
<1>2. NhTaken \in Nat /\ NhTaken = NhTakenIn(slots)
  BY TriplesFact DEF NhTaken
<1>3. \A i \in 1..SlotNum : SlotOk(t, i)
  BY <1>1 DEF MirInv
<1>4. CASE old = 0
  <2>1. Back(u) = sl /\ NhBack(u) = 0 /\ Cleared(u) = hwDest[t]
    BY <1>4 DEF Back, NhBack, Cleared
  <2>2. ASSUME NEW i \in 1..SlotNum PROVE Without(u, i) = UsersOf(t, i)
    BY <1>4 DEF Without, UsersOf
  <2>3. [slots EXCEPT ![t] = sl] = slots
    BY <1>1
  <2>4. nhFree + NhBack(u) <= NhNum
    BY <1>1, <1>2, <2>1
  <2>5. ASSUME NEW i \in 1..SlotNum
        PROVE  /\ Back(u)[i].ref = Cardinality(Without(u, i))
               /\ Back(u)[i].list = {} <=> Back(u)[i].ref = 0
               /\ \A s \in Back(u)[i].list : LiveSess(s)
               /\ Cleared(u)[i] = DestsOf(Back(u)[i].list)
               /\ Apart(Back(u)[i].list, sess)
               /\ Back(u)[i].ref = 0 => Back(u)[i].nh = 0
    BY <1>3, <2>1, <2>2 DEF SlotOk
  <2>6. NhTakenIn([slots EXCEPT ![t] = Back(u)]) = NhTaken - NhBack(u)
    BY <1>2, <2>1, <2>3
  <2> QED BY <1>1, <2>1, <2>4, <2>5, <2>6 DEF GivenBack
<1>5. CASE old # 0
  <2>0. old \in 1..SlotNum
    BY <1>1, <1>5
  <2> DEFINE r == sl[old]
             new == IF r.ref = 1 THEN NoSlot ELSE [r EXCEPT !.ref = r.ref - 1]
  <2>1. /\ r \in SlotRecs /\ SlotOk(t, old) /\ r.ref \in Nat /\ r.nh \in 0..NhNum
    BY <1>1, <1>3, <2>0 DEF StageSlots, SlotRecs
  <2>2. r.ref = Cardinality(Without(u, old)) + 1 /\ Cardinality(Without(u, old)) \in Nat
    <3>1. u \in UsersOf(t, old)
      BY DEF UsersOf
    <3>2. r.ref = Cardinality(UsersOf(t, old))
      BY <2>1 DEF SlotOk
    <3> QED BY <3>1, <3>2, UsersFact DEF Without
  <2>3. new \in SlotRecs /\ new.ref = Cardinality(Without(u, old))
        /\ (r.ref = 1 => new = NoSlot) /\ (r.ref # 1 => new.list = r.list /\ new.nh = r.nh /\ new.ref # 0)
    BY <1>1, <2>1, <2>2 DEF SlotRecs, NoSlot
  <2>4. NoSlot.ref = 0 /\ NoSlot.list = {} /\ NoSlot.nh = 0
    BY DEF NoSlot
  <2>5. Back(u) = [sl EXCEPT ![old] = new]
    BY <1>5 DEF Back, Freed
  <2> HIDE DEF new
  <2>6. Back(u) \in StageSlots /\ Back(u)[old] = new /\ \A i \in 1..SlotNum : i # old => Back(u)[i] = sl[i]
    BY <1>1, <2>0, <2>3, <2>5 DEF StageSlots
  <2>7. new.ref = 0 <=> r.ref = 1
    BY <2>3, <2>4
  <2>8. /\ r.ref = 1 => NhBack(u) = r.nh /\ Cleared(u) = [hwDest[t] EXCEPT ![old] = {}]
        /\ r.ref # 1 => NhBack(u) = 0 /\ Cleared(u) = hwDest[t]
    BY <1>5, <2>6, <2>7 DEF NhBack, Cleared
  <2>9. /\ Cleared(u) \in [1..SlotNum -> SUBSET MirDests] /\ NhBack(u) \in Nat
        /\ \A i \in 1..SlotNum : Cleared(u)[i] = IF r.ref = 1 /\ i = old THEN {} ELSE hwDest[t][i]
    <3>1. CASE r.ref = 1
      <4>1. PICK h \in [1..SlotNum -> SUBSET MirDests] : h = hwDest[t]
        BY <1>1
      <4>2. Cleared(u) = [h EXCEPT ![old] = {}] /\ NhBack(u) = r.nh
        BY <2>8, <3>1, <4>1
      <4>3. Cleared(u) \in [1..SlotNum -> SUBSET MirDests]
        BY <4>2
      <4>4. \A i \in 1..SlotNum : Cleared(u)[i] = IF i = old THEN {} ELSE h[i]
        BY <2>0, <4>2
      <4> QED BY <1>1, <2>1, <3>1, <4>1, <4>2, <4>3, <4>4
    <3>2. CASE r.ref # 1
      BY <1>1, <2>0, <2>1, <2>8, <3>2
    <3> QED BY <3>1, <3>2
  <2>10. ASSUME NEW i \in 1..SlotNum
         PROVE  /\ Back(u)[i].ref = Cardinality(Without(u, i))
                /\ Back(u)[i].list = {} <=> Back(u)[i].ref = 0
                /\ \A s \in Back(u)[i].list : LiveSess(s)
                /\ Cleared(u)[i] = DestsOf(Back(u)[i].list)
                /\ Apart(Back(u)[i].list, sess)
                /\ Back(u)[i].ref = 0 => Back(u)[i].nh = 0
    <3>1. SlotOk(t, i)
      BY <1>3
    <3>2. CASE i # old
      <4>1. Without(u, i) = UsersOf(t, i)
        BY <3>2 DEF Without, UsersOf
      <4>2. Back(u)[i] = sl[i] /\ Cleared(u)[i] = hwDest[t][i]
        BY <2>6, <2>9, <3>2
      <4> QED BY <3>1, <4>1, <4>2 DEF SlotOk
    <3>3. CASE i = old /\ r.ref = 1
      <4>1. Back(u)[i] = NoSlot /\ Cleared(u)[i] = {} /\ 0 = Cardinality(Without(u, i))
        BY <2>3, <2>4, <2>6, <2>9, <3>3
      <4> QED BY <2>4, <4>1 DEF DestsOf, Apart
    <3>4. CASE i = old /\ r.ref # 1
      <4>1. /\ Back(u)[i] = new /\ Cleared(u)[i] = hwDest[t][i] /\ new.ref = Cardinality(Without(u, i))
            /\ new.list = r.list /\ new.ref # 0
        BY <2>3, <2>6, <2>9, <3>4
      <4>2. r.list # {} /\ \A s \in r.list : LiveSess(s)
        BY <2>1, <2>2 DEF SlotOk
      <4>3. Apart(r.list, sess) /\ hwDest[t][i] = DestsOf(r.list)
        BY <3>1, <3>4 DEF SlotOk
      <4> QED BY <4>1, <4>2, <4>3
    <3> QED BY <3>2, <3>3, <3>4
  <2>11. /\ NhTakenIn([slots EXCEPT ![t] = Back(u)]) = NhTaken - NhBack(u)
         /\ nhFree + NhBack(u) <= NhNum
    <3> DEFINE b == [slots EXCEPT ![t] = Back(u)]
    <3>1. b \in [Stages -> StageSlots] /\ b[t] = Back(u) /\ \A v \in Stages : v # t => b[v] = slots[v]
      BY <1>1, <2>6
    <3> HIDE DEF b
    <3>2. \A v \in Stages : \A j \in 1..SlotNum : <<v, j>> # <<t, old>> => b[v][j].nh = slots[v][j].nh
      BY <2>6, <3>1
    <3>3. NhTakenIn(b) = NhTakenIn(slots) - slots[t][old].nh + b[t][old].nh /\ slots[t][old].nh <= NhTakenIn(slots)
      BY <1>1, <2>0, <3>1, <3>2, NhChange
    <3>4. b[t][old].nh = IF r.ref = 1 THEN 0 ELSE r.nh
      BY <2>3, <2>4, <2>6, <3>1
    <3>5. NhTakenIn(b) = NhTaken - NhBack(u)
      BY <1>2, <2>1, <2>8, <3>3, <3>4
    <3>6. nhFree + NhBack(u) <= NhNum
      BY <1>1, <1>2, <2>1, <2>8, <3>3
    <3> QED BY <3>5, <3>6 DEF b
  <2> QED BY <2>6, <2>9, <2>10, <2>11 DEF GivenBack
<1> QED BY <1>4, <1>5

(* The slot found for a list is free or holds that list. *)
LEMMA SlotForFact ==
  ASSUME NEW sl \in StageSlots, NEW L, NEW i, i = SlotFor(sl, L)
  PROVE  i \in 0..SlotNum /\ (i # 0 => sl[i].ref = 0 \/ (sl[i].ref > 0 /\ sl[i].list = L))
PROOF
<1> DEFINE hits == {j \in 1..SlotNum : sl[j].ref > 0 /\ sl[j].list = L}
           open == {j \in 1..SlotNum : sl[j].ref = 0}
<1>0. hits \in SUBSET Nat /\ open \in SUBSET Nat /\ SlotNum \in Nat
  BY MirAssumption
<1>1. CASE hits # {}
  <2>1. i = Min(hits) /\ Min(hits) \in hits
    BY <1>0, <1>1, MinFact DEF SlotFor
  <2> QED BY <1>0, <2>1
<1>2. CASE hits = {} /\ open # {}
  <2>1. i = Min(open) /\ Min(open) \in open
    BY <1>0, <1>2, MinFact DEF SlotFor
  <2> QED BY <1>0, <2>1
<1>3. CASE hits = {} /\ open = {}
  BY <1>0, <1>3 DEF SlotFor
<1> QED BY <1>1, <1>2, <1>3

(* What a list needs is a number of next hops. *)
LEMMA NhNeedFact ==
  ASSUME NEW L \in SUBSET MirSessions PROVE NhNeed(L) \in Nat
PROOF
<1> DEFINE R == {s \in L : sess[s].kind \in {"rspan", "erspan"}}
<1>1. R \subseteq MirSessions
  OBVIOUS
<1> HIDE DEF R
<1>2. IsFiniteSet(R) /\ Cardinality(R) \in Nat
  BY <1>1, MirAssumption, FS_Subset, FS_CardinalityType
<1>3. NhNeed(L) = Cardinality(R) + (IF HasGroup(L) THEN 1 ELSE 0)
  BY DEF NhNeed, R
<1> QED BY <1>2, <1>3

(* A slot of the stage of user u after the step, with u in it or not. *)
LEMMA SlotAfter ==
  ASSUME MirInv, Hooked, NEW u \in MirUsers, NEW v \in 0..SlotNum, hwUser' = [hwUser EXCEPT ![u] = v],
         UNCHANGED sess, NEW i \in 1..SlotNum, NEW sl, NEW ds,
         slots'[StageOf(u)][i] = sl, hwDest'[StageOf(u)][i] = ds,
         sl.ref = Cardinality(Without(u, i)) + (IF v = i THEN 1 ELSE 0),
         sl.list = {} <=> sl.ref = 0, \A s \in sl.list : LiveSess(s),
         ds = DestsOf(sl.list), Apart(sl.list, sess), sl.ref = 0 => sl.nh = 0
  PROVE  SlotOk(StageOf(u), i)'
PROOF
<1> DEFINE t == StageOf(u)
<1>1. hwUser \in [MirUsers -> 0..SlotNum]
  BY DEF MirInv, MirTyped
<1>2. UsersOf(t, i)' = IF v = i THEN Without(u, i) \cup {u} ELSE Without(u, i)
  BY <1>1 DEF UsersOf, Without
<1>3. IsFiniteSet(Without(u, i)) /\ Cardinality(Without(u, i)) \in Nat /\ u \notin Without(u, i)
  BY UsersFact DEF Without
<1>4. Cardinality(Without(u, i) \cup {u}) = Cardinality(Without(u, i)) + 1
  BY <1>3, FS_AddElement
<1>5. Cardinality(UsersOf(t, i)') = sl.ref
  BY <1>2, <1>3, <1>4
<1>6. DestsOf(sl.list)' = DestsOf(sl.list) /\ \A s \in sl.list : LiveSess(s)'
  BY DEF DestsOf, LiveSess
<1> QED BY <1>5, <1>6 DEF SlotOk

(* The slots of the other stage are as they were. *)
LEMMA OtherStage ==
  ASSUME MirInv, Hooked, NEW u \in MirUsers, NEW v, hwUser' = [hwUser EXCEPT ![u] = v],
         UNCHANGED sess, NEW t \in Stages, t # StageOf(u), NEW i \in 1..SlotNum,
         slots'[t] = slots[t], hwDest'[t] = hwDest[t]
  PROVE  SlotOk(t, i)'
PROOF
<1>1. hwUser \in [MirUsers -> 0..SlotNum]
  BY DEF MirInv, MirTyped
<1>2. UsersOf(t, i)' = UsersOf(t, i)
  BY <1>1 DEF UsersOf
<1>3. DestsOf(slots[t][i].list)' = DestsOf(slots[t][i].list)
  BY DEF DestsOf
<1>4. SlotOk(t, i)
  BY DEF MirInv
<1>5. \A s \in slots[t][i].list : LiveSess(s)'
  BY <1>4 DEF SlotOk, LiveSess
<1>6. slots'[t][i] = slots[t][i] /\ hwDest'[t][i] = hwDest[t][i] /\ sess' = sess
  OBVIOUS
<1> QED BY <1>2, <1>3, <1>4, <1>5, <1>6 DEF SlotOk

(* set_port_mirr and set_acl_mirr. *)
LEMMA SetMirrorKeeps ==
  ASSUME MirInv, Hooked, NEW u \in MirUsers, NEW L \in SUBSET MirSessions, SetMirror(u, L)
  PROVE  MirInv'
PROOF
<1> DEFINE t == StageOf(u)
           old == hwUser[u]
           back == Back(u)
           nhBack == NhBack(u)
           i == SlotFor(back, L)
           need == IF back[i].ref > 0 THEN 0 ELSE NhNeed(L)
           have == nhFree + nhBack
           cleared == Cleared(u)
           new == IF back[i].ref > 0 THEN [back[i] EXCEPT !.ref = back[i].ref + 1]
                  ELSE [list |-> L, ref |-> 1, nh |-> need]
           mid == [slots EXCEPT ![t] = back]
<1>1. /\ (\A s \in L : LiveSess(s)) /\ Apart(L, sess) /\ (old = 0 => L # {})
      /\ UNCHANGED <<sess, freedLists>>
      /\ L = {} =>
           /\ slots' = mid /\ nhFree' = have /\ hwDest' = [hwDest EXCEPT ![t] = cleared]
           /\ hwUser' = [hwUser EXCEPT ![u] = 0] /\ UNCHANGED <<nhLost, unhooked>>
      /\ L # {} /\ i # 0 /\ need <= have =>
           /\ slots' = [slots EXCEPT ![t] = [back EXCEPT ![i] = new]]
           /\ hwDest' = [hwDest EXCEPT ![t] = [cleared EXCEPT ![i] = DestsOf(L)]]
           /\ hwUser' = [hwUser EXCEPT ![u] = i]
           /\ nhFree' = have - need /\ UNCHANGED <<nhLost, unhooked>>
      /\ L # {} /\ ~(i # 0 /\ need <= have) =>
           /\ slots' = mid /\ hwDest' = [hwDest EXCEPT ![t] = cleared]
           /\ nhFree' = IF i = 0 THEN have ELSE 0
           /\ nhLost' = IF i = 0 THEN nhLost ELSE nhLost + have
           /\ unhooked' = IF old = 0 THEN unhooked ELSE unhooked \cup {u}
           /\ UNCHANGED hwUser
  BY DEF SetMirror, Back, NhBack, Cleared
<1>2. GivenBack(u)
  BY GivenBackFact
<1>3. /\ t \in Stages /\ MirTyped /\ NhNum \in Nat /\ SlotNum \in Nat /\ nhFree \in Nat /\ nhLost \in Nat
      /\ nhFree + nhLost + NhTaken = NhNum /\ NhTaken \in Nat
  BY MirAssumption, TriplesFact DEF Stages, MirInv, MirTyped, NhTaken
<1>4. /\ back \in StageSlots /\ cleared \in [1..SlotNum -> SUBSET MirDests] /\ nhBack \in Nat
      /\ NhTakenIn(mid) = NhTaken - nhBack /\ nhFree + nhBack <= NhNum
  BY <1>2 DEF GivenBack
<1>5. \A j \in 1..SlotNum :
       /\ back[j].ref = Cardinality(Without(u, j))
       /\ back[j].list = {} <=> back[j].ref = 0
       /\ \A s \in back[j].list : LiveSess(s)
       /\ cleared[j] = DestsOf(back[j].list)
       /\ Apart(back[j].list, sess)
       /\ back[j].ref = 0 => back[j].nh = 0
  BY <1>2 DEF GivenBack
<1>6. \A j \in 1..SlotNum : back[j] \in SlotRecs
  BY <1>4 DEF StageSlots
<1>7. i \in 0..SlotNum /\ (i # 0 => back[i].ref = 0 \/ (back[i].ref > 0 /\ back[i].list = L))
  BY <1>4, SlotForFact
<1>8. NhNeed(L) \in Nat
  BY NhNeedFact
<1> HIDE DEF back, nhBack, cleared, i
<1>9. mid \in [Stages -> StageSlots] /\ mid[t] = back /\ \A v \in Stages : v # t => mid[v] = slots[v]
  BY <1>3, <1>4 DEF MirTyped
<1>10. /\ [hwDest EXCEPT ![t] = cleared] \in [Stages -> [1..SlotNum -> SUBSET MirDests]]
       /\ [hwDest EXCEPT ![t] = cleared][t] = cleared
       /\ \A v \in Stages : v # t => [hwDest EXCEPT ![t] = cleared][v] = hwDest[v]
  BY <1>3, <1>4 DEF MirTyped
<1>11. CASE L = {}
  <2>1. /\ slots' = mid /\ nhFree' = have /\ hwDest' = [hwDest EXCEPT ![t] = cleared]
        /\ hwUser' = [hwUser EXCEPT ![u] = 0] /\ UNCHANGED <<sess, nhLost>>
    BY <1>1, <1>11
  <2>2. MirTyped'
    BY <1>3, <1>4, <1>9, <1>10, <2>1 DEF MirTyped
  <2>3. nhFree' + nhLost' + NhTaken' = NhNum
    BY <1>3, <1>4, <2>1 DEF NhTaken
  <2>4. ASSUME NEW v \in Stages, NEW j \in 1..SlotNum PROVE SlotOk(v, j)'
    <3>1. CASE v # t
      BY <1>9, <1>10, <2>1, <3>1, OtherStage
    <3>2. CASE v = t
      <4>1. slots'[t][j] = back[j] /\ hwDest'[t][j] = cleared[j]
        BY <1>9, <1>10, <2>1
      <4>2. back[j].ref = Cardinality(Without(u, j)) + (IF 0 = j THEN 1 ELSE 0)
        <5>1. Cardinality(Without(u, j)) \in Nat /\ back[j].ref = Cardinality(Without(u, j))
          BY <1>5, UsersFact DEF Without
        <5> QED BY <5>1
      <4>3. 0 \in 0..SlotNum
        BY <1>3
      <4> QED BY <1>5, <2>1, <3>2, <4>1, <4>2, <4>3, SlotAfter, ZenonT(40)
    <3> QED BY <3>1, <3>2
  <2> QED BY <2>2, <2>3, <2>4 DEF MirInv
<1>12. CASE L # {} /\ i # 0 /\ need <= have
  <2>1. /\ slots' = [slots EXCEPT ![t] = [back EXCEPT ![i] = new]] /\ nhFree' = have - need
        /\ hwDest' = [hwDest EXCEPT ![t] = [cleared EXCEPT ![i] = DestsOf(L)]]
        /\ hwUser' = [hwUser EXCEPT ![u] = i] /\ UNCHANGED <<sess, nhLost>>
    BY <1>1, <1>12
  <2>2. i \in 1..SlotNum /\ back[i] \in SlotRecs /\ need \in Nat /\ need <= NhNum /\ need <= have
    BY <1>3, <1>4, <1>6, <1>7, <1>8, <1>12
  <2>3. /\ new \in SlotRecs /\ new.list = L /\ new.ref = back[i].ref + 1 /\ back[i].ref \in Nat
        /\ new.nh = back[i].nh + need
    <3>1. CASE back[i].ref > 0
      BY <1>7, <2>2, <3>1 DEF SlotRecs
    <3>2. CASE ~(back[i].ref > 0)
      <4>1. back[i].ref = 0 /\ back[i].nh = 0
        BY <1>5, <2>2, <3>2 DEF SlotRecs
      <4>2. new = [list |-> L, ref |-> 1, nh |-> need]
        BY <3>2
      <4>3. need \in 0..NhNum
        BY <1>3, <2>2
      <4> HIDE DEF need, new
      <4> QED BY <4>1, <4>2, <4>3 DEF SlotRecs
    <3> QED BY <3>1, <3>2
  <2>4. back[i].nh \in Nat
    BY <2>2 DEF SlotRecs
  <2> HIDE DEF need, new
  <2> DEFINE fin == [back EXCEPT ![i] = new]
             dst == [cleared EXCEPT ![i] = DestsOf(L)]
  <2>5. fin \in StageSlots /\ \A j \in 1..SlotNum : fin[j] = IF j = i THEN new ELSE back[j]
    BY <1>4, <2>2, <2>3 DEF StageSlots
  <2>6. DestsOf(L) \subseteq MirDests
    BY <1>3 DEF DestsOf, MirTyped, SessRecs
  <2>7. dst \in [1..SlotNum -> SUBSET MirDests] /\ \A j \in 1..SlotNum : dst[j] = IF j = i THEN DestsOf(L) ELSE cleared[j]
    BY <1>4, <2>2, <2>6
  <2>8. slots' = [slots EXCEPT ![t] = fin] /\ hwDest' = [hwDest EXCEPT ![t] = dst]
    BY <2>1
  <2> HIDE DEF fin, dst
  <2>9. slots' \in [Stages -> StageSlots] /\ slots'[t] = fin /\ \A v \in Stages : v # t => slots'[v] = slots[v]
    BY <1>3, <2>5, <2>8 DEF MirTyped
  <2>10. /\ hwDest' \in [Stages -> [1..SlotNum -> SUBSET MirDests]] /\ hwDest'[t] = dst
         /\ \A v \in Stages : v # t => hwDest'[v] = hwDest[v]
    BY <1>3, <2>7, <2>8 DEF MirTyped
  <2>11. MirTyped'
    <3>1. hwUser' \in [MirUsers -> 0..SlotNum]
      BY <1>3, <1>7, <2>1 DEF MirTyped
    <3>2. nhFree' \in Nat
      BY <1>3, <1>4, <2>1, <2>2
    <3> QED BY <1>3, <2>1, <2>9, <2>10, <3>1, <3>2 DEF MirTyped
  <2>12. nhFree' + nhLost' + NhTaken' = NhNum
    <3>1. \A v \in Stages : \A j \in 1..SlotNum : <<v, j>> # <<t, i>> => slots'[v][j].nh = mid[v][j].nh
      BY <1>9, <2>5, <2>9
    <3>2. NhTakenIn(slots') = NhTakenIn(mid) - mid[t][i].nh + slots'[t][i].nh
      BY <1>3, <1>9, <2>2, <2>9, <3>1, NhChange, ZenonT(40)
    <3>3. mid[t][i].nh = back[i].nh /\ slots'[t][i].nh = back[i].nh + need
      BY <1>9, <2>2, <2>3, <2>5, <2>9
    <3>4. NhTakenIn(slots') = NhTaken - nhBack + need
      BY <1>3, <1>4, <2>2, <2>4, <3>2, <3>3
    <3>5. NhTaken' = NhTakenIn(slots')
      BY DEF NhTaken, NhTakenIn
    <3> QED BY <1>3, <1>4, <2>1, <2>2, <3>4, <3>5
  <2>13. ASSUME NEW v \in Stages, NEW j \in 1..SlotNum PROVE SlotOk(v, j)'
    <3>1. CASE v # t
      BY <2>1, <2>9, <2>10, <3>1, OtherStage
    <3>2. CASE v = t /\ j # i
      <4>1. slots'[t][j] = back[j] /\ hwDest'[t][j] = cleared[j]
        BY <2>5, <2>7, <2>9, <2>10, <3>2
      <4>2. back[j].ref = Cardinality(Without(u, j)) + (IF i = j THEN 1 ELSE 0)
        <5>1. Cardinality(Without(u, j)) \in Nat /\ back[j].ref = Cardinality(Without(u, j))
          BY <1>5, UsersFact DEF Without
        <5> QED BY <3>2, <5>1
      <4> QED BY <1>5, <1>7, <2>1, <3>2, <4>1, <4>2, SlotAfter, ZenonT(40)
    <3>3. CASE v = t /\ j = i
      <4>1. slots'[t][j] = new /\ hwDest'[t][j] = DestsOf(L)
        BY <2>5, <2>7, <2>9, <2>10, <3>3
      <4>2. new.ref = Cardinality(Without(u, j)) + (IF i = j THEN 1 ELSE 0) /\ new.ref # 0
        BY <1>5, <2>3, <3>3
      <4>3. new.list = {} <=> new.ref = 0
        BY <1>12, <2>3, <4>2
      <4>4. (\A s \in new.list : LiveSess(s)) /\ Apart(new.list, sess) /\ DestsOf(L) = DestsOf(new.list)
        BY <1>1, <2>3
      <4> QED BY <1>7, <2>1, <3>3, <4>1, <4>2, <4>3, <4>4, SlotAfter
    <3> QED BY <3>1, <3>2, <3>3
  <2> QED BY <2>11, <2>12, <2>13 DEF MirInv
<1>13. CASE L # {} /\ ~(i # 0 /\ need <= have)
  <2>1. /\ slots' = mid /\ hwDest' = [hwDest EXCEPT ![t] = cleared]
        /\ nhFree' = (IF i = 0 THEN have ELSE 0)
        /\ nhLost' = (IF i = 0 THEN nhLost ELSE nhLost + have)
        /\ unhooked' = (IF old = 0 THEN unhooked ELSE unhooked \cup {u})
        /\ UNCHANGED <<sess, freedLists, hwUser>>
    BY <1>1, <1>13
  <2>2. nhFree' \in Nat /\ nhLost' \in Nat /\ nhFree' + nhLost' = nhFree + nhLost + nhBack
    BY <1>3, <1>4, <2>1
  <2>3. MirTyped'
    BY <1>3, <1>9, <1>10, <2>1, <2>2 DEF MirTyped
  <2>4. nhFree' + nhLost' + NhTaken' = NhNum
    BY <1>3, <1>4, <2>1, <2>2 DEF NhTaken
  <2>5. ASSUME Hooked', NEW v \in Stages, NEW j \in 1..SlotNum PROVE SlotOk(v, j)'
    <3>1. old = 0
      BY <2>1, <2>5 DEF Hooked
    <3>2. slots' = slots /\ hwDest' = hwDest
      <4>1. back = slots[t] /\ cleared = hwDest[t]
        BY <3>1 DEF back, cleared, Back, Cleared
      <4> QED BY <1>3, <2>1, <4>1 DEF MirTyped
    <3> QED BY <2>1, <3>2, SlotSessions
  <2> QED BY <2>3, <2>4, <2>5 DEF MirInv
<1> QED BY <1>11, <1>12, <1>13

(* Every call on sessions and their users keeps the invariant. *)
LEMMA MirCallsKeep == MirInv /\ [MirNext]_mirVars => MirInv'
PROOF
<1> SUFFICES ASSUME MirInv, [MirNext]_mirVars PROVE MirInv'
  OBVIOUS
<1>1. CASE UNCHANGED mirVars
  <2>1. UNCHANGED <<sess, slots, hwDest, hwUser, nhFree, nhLost, unhooked, freedLists>>
    BY <1>1 DEF mirVars
  <2>2. MirTyped' /\ (Hooked' => Hooked)
    BY <2>1 DEF MirInv, MirTyped, Hooked
  <2>3. ASSUME Hooked', NEW t \in Stages, NEW i \in 1..SlotNum PROVE SlotOk(t, i)'
    BY <2>1, <2>2, <2>3, SlotSessions
  <2> QED BY <2>1, <2>2, <2>3, SlotsStay
<1>2. ASSUME NEW s \in MirSessions, NEW k \in Kinds, NEW ds \in SUBSET MirDests, Hooked, CreateSession(s, k, ds)
      PROVE  MirInv'
  BY <1>2, CreateSessionKeeps
<1>3. ASSUME NEW s \in MirSessions, NEW ds \in SUBSET MirDests, Hooked, SetDest(s, ds) PROVE MirInv'
  BY <1>3, SetDestKeeps
<1>4. ASSUME NEW s \in MirSessions, Hooked, RemoveSession(s) \/ SetOther(s) PROVE MirInv'
  BY <1>4, RemoveSessionKeeps, SetOtherKeeps
<1>5. ASSUME NEW u \in MirUsers, NEW L \in SUBSET MirSessions, Hooked, SetMirror(u, L) PROVE MirInv'
  BY <1>5, SetMirrorKeeps
<1>6. CASE Hooked /\ ReloadMirrors
  <2>1. /\ nhFree' = nhFree + nhLost /\ nhLost' = 0
        /\ UNCHANGED <<sess, slots, hwDest, hwUser, unhooked, freedLists>>
    BY <1>6 DEF ReloadMirrors
  <2>2. MirTyped' /\ \A t \in Stages, i \in 1..SlotNum : SlotOk(t, i)'
    <3>1. MirTyped'
      BY <2>1 DEF MirInv, MirTyped
    <3>2. ASSUME NEW t \in Stages, NEW i \in 1..SlotNum PROVE SlotOk(t, i)'
      BY <1>6, <2>1, SlotSessions
    <3> QED BY <3>1, <3>2
  <2>3. NhTaken' = NhTaken /\ NhTaken \in Nat
    BY <2>1, TriplesFact DEF NhTaken, NhTakenIn
  <2>4. nhFree' + nhLost' + NhTaken' = NhNum
    BY <2>1, <2>3 DEF MirInv, MirTyped
  <2> QED BY <2>2, <2>4 DEF MirInv
<1> QED BY <1>1, <1>2, <1>3, <1>4, <1>5, <1>6 DEF MirNext

-----------------------------------------------------------------------------
(* Sampling. The nodes of a port that is followed are what its record says, *)
(* an object is named in one direction, and it is there. *)
SamTyped ==
  /\ sampleRate \in [Samples -> Nat] /\ samNodes \subseteq Samples \X SamPorts \X SamDirs
  /\ portSample \in [SamPorts -> [SamDirs -> Samples \cup {0}]]
  /\ logRate \in [SamPorts -> [SamDirs -> Nat]]
  /\ logOn \in [SamPorts -> [SamDirs -> BOOLEAN]]
SamPortOk(p) ==
  /\ \A d \in SamDirs :
       /\ logOn[p][d] <=> portSample[p][d] # 0
       /\ \A s \in Samples : <<s, p, d>> \in samNodes <=> portSample[p][d] = s
       /\ portSample[p][d] # 0 => sampleRate[portSample[p][d]] # 0
       /\ logOn[p][d] /\ <<p, d>> \notin rerated => logRate[p][d] = Portion(sampleRate[portSample[p][d]])
  /\ \A d, e \in SamDirs : portSample[p][d] # 0 /\ portSample[p][d] = portSample[p][e] => d = e
SamInv ==
  /\ SamTyped
  /\ \A p \in SamPorts \ samStray : SamPortOk(p)
  /\ ~cutOff => (logSession <=> sampled # {})
  /\ cutOff \in BOOLEAN /\ logSession \in BOOLEAN

(* The rate written to the chip is a number. *)
LEMMA PortionFact ==
  ASSUME NEW r \in Nat, r # 0 PROVE Portion(r) \in Nat
BY SamAssumption DEF Portion

(* It holds before the first call. *)
LEMMA SamInitially == SamInit => SamInv
PROOF
<1> SUFFICES ASSUME SamInit PROVE SamInv
  OBVIOUS
<1>1. 0 \notin Samples
  BY SamAssumption
<1>2. SamTyped
  BY DEF SamInit, SamTyped
<1>3. ASSUME NEW p \in SamPorts PROVE SamPortOk(p)
  <2>1. samNodes = {} /\ \A d \in SamDirs : portSample[p][d] = 0 /\ ~logOn[p][d]
    BY DEF SamInit
  <2> QED BY <1>1, <2>1 DEF SamPortOk
<1> QED BY <1>2, <1>3 DEF SamInit, SamInv

(* What the invariant says of sampling. *)
LEMMA SamGives == SamInv => SamplingExact
PROOF
<1> SUFFICES ASSUME SamInv PROVE SamplingExact
  OBVIOUS
<1>1. ASSUME NEW p \in SamPorts, NEW d \in SamDirs, p \notin samStray
      PROVE  /\ logOn[p][d] = (portSample[p][d] # 0)
             /\ {s \in Samples : <<s, p, d>> \in samNodes} = {portSample[p][d]} \ {0}
             /\ logOn[p][d] /\ <<p, d>> \notin rerated => logRate[p][d] = Portion(sampleRate[portSample[p][d]])
  <2>1. SamPortOk(p) /\ logOn[p][d] \in BOOLEAN /\ portSample[p][d] \in Samples \cup {0} /\ 0 \notin Samples
    BY <1>1, SamAssumption DEF SamInv, SamTyped
  <2>2. logOn[p][d] = (portSample[p][d] # 0)
    BY <2>1 DEF SamPortOk
  <2> QED BY <2>1, <2>2 DEF SamPortOk
<1>2. ~cutOff => logSession = (sampled # {})
  BY DEF SamInv
<1> QED BY <1>1, <1>2 DEF SamplingExact

(* The frame of a port. *)
LEMMA SamPortKept ==
  ASSUME NEW p \in SamPorts, SamPortOk(p),
         portSample'[p] = portSample[p], logRate'[p] = logRate[p], logOn'[p] = logOn[p],
         \A d \in SamDirs : /\ \A s \in Samples : <<s, p, d>> \in samNodes' <=> <<s, p, d>> \in samNodes
                            /\ <<p, d>> \in rerated => <<p, d>> \in rerated'
                            /\ portSample[p][d] # 0 =>
                                 /\ sampleRate'[portSample[p][d]] = sampleRate[portSample[p][d]]
  PROVE  SamPortOk(p)'
BY DEF SamPortOk

(* Every call on samples and ports keeps the invariant. *)
LEMMA SamCallsKeep == SamInv /\ [SamNext]_samVars => SamInv'
PROOF
<1> SUFFICES ASSUME SamInv, [SamNext]_samVars PROVE SamInv'
  OBVIOUS
<1>0. SamTyped /\ 0 \notin Samples /\ (\A p \in SamPorts \ samStray : SamPortOk(p)) /\ SampleRates \subseteq Nat \ {0}
  BY SamAssumption DEF SamInv
<1>1. CASE UNCHANGED samVars
  BY <1>1 DEF samVars, SamInv, SamTyped, SamPortOk
<1>2. ASSUME NEW s \in Samples, NEW r \in SampleRates, CreateSample(s, r) PROVE SamInv'
  <2>1. /\ sampleRate[s] = 0 /\ sampleRate' = [sampleRate EXCEPT ![s] = r]
        /\ UNCHANGED <<samNodes, portSample, logRate, logOn, sampled, logSession, cutOff, samStray, rerated>>
    BY <1>2 DEF CreateSample, entryVars
  <2>2. SamTyped'
    BY <1>0, <2>1 DEF SamTyped
  <2>3. ASSUME NEW p \in SamPorts \ samStray' PROVE SamPortOk(p)'
    <3>1. SamPortOk(p)
      BY <1>0, <2>1
    <3>2. ASSUME NEW d \in SamDirs, portSample[p][d] # 0
          PROVE  sampleRate'[portSample[p][d]] = sampleRate[portSample[p][d]]
      <4>0. p \in SamPorts /\ sampleRate[portSample[p][d]] # 0
        BY <3>1, <3>2 DEF SamPortOk
      <4>1. portSample[p][d] \in Samples /\ portSample[p][d] # s
        BY <1>0, <2>1, <4>0, <3>2 DEF SamTyped
      <4> QED BY <1>0, <2>1, <4>1 DEF SamTyped
    <3> QED BY <2>1, <3>1, <3>2, SamPortKept
  <2> QED BY <2>1, <2>2, <2>3 DEF SamInv
<1>3. ASSUME NEW s \in Samples, NEW r \in SampleRates, SetSampleRate(s, r) PROVE SamInv'
  <2> DEFINE at == {<<n[2], n[3]>> : n \in {m \in samNodes : m[1] = s}}
  <2>1. /\ sampleRate[s] # 0 /\ sampleRate' = [sampleRate EXCEPT ![s] = r]
        /\ logRate' = [p \in SamPorts |-> [d \in SamDirs |-> IF <<p, d>> \in at THEN r ELSE logRate[p][d]]]
        /\ rerated' = rerated \cup at
        /\ UNCHANGED <<samNodes, portSample, logOn, sampled, logSession, cutOff, samStray>>
    BY <1>3 DEF SetSampleRate, entryVars
  <2>2. \A p \in SamPorts, d \in SamDirs : <<p, d>> \in at <=> <<s, p, d>> \in samNodes
    <3> SUFFICES ASSUME NEW p \in SamPorts, NEW d \in SamDirs PROVE <<p, d>> \in at <=> <<s, p, d>> \in samNodes
      OBVIOUS
    <3>1. ASSUME <<p, d>> \in at PROVE <<s, p, d>> \in samNodes
      <4>1. PICK n \in samNodes : n[1] = s /\ <<p, d>> = <<n[2], n[3]>>
        BY <3>1
      <4>2. n \in Samples \X SamPorts \X SamDirs
        BY <1>0, <4>1 DEF SamTyped
      <4> QED BY <4>1, <4>2
    <3>2. ASSUME <<s, p, d>> \in samNodes PROVE <<p, d>> \in at
      <4>1. <<s, p, d>>[1] = s /\ <<s, p, d>>[2] = p /\ <<s, p, d>>[3] = d
        OBVIOUS
      <4> QED BY <3>2, <4>1
    <3> QED BY <3>1, <3>2
  <2> HIDE DEF at
  <2>3. SamTyped'
    BY <1>0, <2>1 DEF SamTyped
  <2>4. ASSUME NEW p \in SamPorts \ samStray' PROVE SamPortOk(p)'
    <3>1. SamPortOk(p)
      BY <1>0, <2>1
    <3>2. \A d \in SamDirs : logRate'[p][d] = IF <<p, d>> \in at THEN r ELSE logRate[p][d]
      BY <2>1
    <3>5. p \in SamPorts
      OBVIOUS
    <3>3. ASSUME NEW d \in SamDirs, portSample[p][d] # s, portSample[p][d] # 0
          PROVE  sampleRate'[portSample[p][d]] = sampleRate[portSample[p][d]] /\ <<p, d>> \notin at
      <4>1. portSample[p][d] \in Samples
        BY <1>0, <3>3, <3>5 DEF SamTyped
      <4>2. <<s, p, d>> \notin samNodes
        BY <3>1, <3>3 DEF SamPortOk
      <4> QED BY <1>0, <2>1, <2>2, <3>3, <3>5, <4>1, <4>2 DEF SamTyped
    <3>4. ASSUME NEW d \in SamDirs, portSample[p][d] = s
          PROVE  sampleRate'[s] = r /\ r # 0 /\ <<p, d>> \in rerated'
      <4>1. <<s, p, d>> \in samNodes
        BY <3>1, <3>4 DEF SamPortOk
      <4> QED BY <1>0, <2>1, <2>2, <3>5, <4>1 DEF SamTyped
    <3> QED BY <2>1, <3>1, <3>2, <3>3, <3>4 DEF SamPortOk
  <2> QED BY <2>1, <2>3, <2>4 DEF SamInv
<1>4. ASSUME NEW s \in Samples, RemoveSample(s) PROVE SamInv'
  <2>1. /\ sampleRate' = [sampleRate EXCEPT ![s] = 0] /\ samNodes' = {n \in samNodes : n[1] # s}
        /\ samStray' = samStray \cup {p \in SamPorts : \E d \in SamDirs : portSample[p][d] = s}
        /\ UNCHANGED <<portSample, logRate, logOn, sampled, logSession, cutOff, rerated>>
    BY <1>4 DEF RemoveSample, entryVars
  <2>2. SamTyped'
    BY <1>0, <2>1 DEF SamTyped
  <2>3. ASSUME NEW p \in SamPorts \ samStray' PROVE SamPortOk(p)'
    <3>1. SamPortOk(p) /\ \A d \in SamDirs : portSample[p][d] # s
      BY <1>0, <2>1
    <3>2. \A d \in SamDirs : portSample[p][d] # 0 =>
            sampleRate'[portSample[p][d]] = sampleRate[portSample[p][d]]
      BY <1>0, <2>1, <3>1 DEF SamTyped
    <3>3. \A d \in SamDirs, x \in Samples : <<x, p, d>> \in samNodes' <=> <<x, p, d>> \in samNodes
      BY <2>1, <3>1 DEF SamPortOk
    <3> QED BY <2>1, <3>1, <3>2, <3>3, SamPortKept
  <2> QED BY <2>1, <2>2, <2>3 DEF SamInv
<1>5. ASSUME NEW p \in SamPorts, NEW d \in SamDirs, NEW s \in Samples, BindSample(p, d, s) PROVE SamInv'
  <2>1. /\ sampleRate[s] # 0 /\ \A e \in SamDirs : <<s, p, e>> \notin samNodes
        /\ samNodes' = samNodes \cup {<<s, p, d>>}
        /\ portSample' = [portSample EXCEPT ![p] = [portSample[p] EXCEPT ![d] = s]]
        /\ logRate' = [logRate EXCEPT ![p] = [logRate[p] EXCEPT ![d] = Portion(sampleRate[s])]]
        /\ logOn' = [logOn EXCEPT ![p] = [logOn[p] EXCEPT ![d] = TRUE]]
        /\ samStray' = IF portSample[p][d] = 0 THEN samStray ELSE samStray \cup {p}
        /\ rerated' = rerated \ {<<p, d>>}
        /\ UNCHANGED <<sampleRate, sampled, logSession, cutOff>>
    BY <1>0, <1>5 DEF BindSample, entryVars, SamTyped
  <2>2. Portion(sampleRate[s]) \in Nat
    BY <1>0, <2>1, PortionFact DEF SamTyped
  <2>3. SamTyped'
    <3>1. samNodes' \subseteq Samples \X SamPorts \X SamDirs
      BY <1>0, <2>1 DEF SamTyped
    <3>2. portSample' \in [SamPorts -> [SamDirs -> Samples \cup {0}]]
      BY <1>0, <2>1 DEF SamTyped
    <3>3. logRate' \in [SamPorts -> [SamDirs -> Nat]]
      BY <1>0, <2>1, <2>2 DEF SamTyped
    <3>4. logOn' \in [SamPorts -> [SamDirs -> BOOLEAN]]
      BY <1>0, <2>1 DEF SamTyped
    <3> QED BY <1>0, <2>1, <3>1, <3>2, <3>3, <3>4 DEF SamTyped
  <2>4. ASSUME NEW q \in SamPorts \ samStray' PROVE SamPortOk(q)'
    <3>1. SamPortOk(q)
      BY <1>0, <2>1
    <3>2. CASE q # p
      <4>1. portSample'[q] = portSample[q] /\ logRate'[q] = logRate[q] /\ logOn'[q] = logOn[q]
        BY <1>0, <2>1, <3>2 DEF SamTyped
      <4>2. \A e \in SamDirs : /\ \A x \in Samples : <<x, q, e>> \in samNodes' <=> <<x, q, e>> \in samNodes
                               /\ <<q, e>> \in rerated => <<q, e>> \in rerated'
        BY <2>1, <3>2
      <4> QED BY <2>1, <3>1, <4>1, <4>2, SamPortKept
    <3>3. CASE q = p
      <4>1. portSample[p][d] = 0
        BY <2>1, <3>3
      <4>2. \A e \in SamDirs : portSample'[p][e] = IF e = d THEN s ELSE portSample[p][e]
        BY <1>0, <2>1 DEF SamTyped
      <4>3. \A e \in SamDirs : logRate'[p][e] = IF e = d THEN Portion(sampleRate[s]) ELSE logRate[p][e]
        BY <1>0, <2>1 DEF SamTyped
      <4>4. \A e \in SamDirs : logOn'[p][e] <=> e = d \/ logOn[p][e]
        BY <1>0, <2>1 DEF SamTyped
      <4>5. \A e \in SamDirs, x \in Samples : <<x, p, e>> \in samNodes' <=> <<x, p, e>> \in samNodes \/ (x = s /\ e = d)
        BY <2>1
      <4>6. \A e \in SamDirs : <<p, e>> \in rerated' <=> <<p, e>> \in rerated /\ e # d
        BY <2>1
      <4>7. \A e \in SamDirs : portSample[p][e] # s
        BY <2>1, <3>1, <3>3 DEF SamPortOk
      <4> QED BY <1>0, <2>1, <3>1, <3>3, <4>1, <4>2, <4>3, <4>4, <4>5, <4>6, <4>7 DEF SamPortOk
    <3> QED BY <3>2, <3>3
  <2> QED BY <2>1, <2>3, <2>4 DEF SamInv
<1>6. ASSUME NEW p \in SamPorts, NEW d \in SamDirs, UnbindSample(p, d) PROVE SamInv'
  <2> DEFINE s == portSample[p][d]
  <2>1. /\ s # 0 /\ samNodes' = samNodes \ {<<s, p, e>> : e \in SamDirs}
        /\ portSample' = [portSample EXCEPT ![p] = [portSample[p] EXCEPT ![d] = 0]]
        /\ logOn' = [logOn EXCEPT ![p] = [logOn[p] EXCEPT ![d] = FALSE]]
        /\ UNCHANGED <<sampleRate, logRate, sampled, logSession, cutOff, samStray, rerated>>
    BY <1>0, <1>6 DEF UnbindSample, entryVars, SamTyped
  <2>2. SamTyped'
    <3>2. portSample' \in [SamPorts -> [SamDirs -> Samples \cup {0}]]
      BY <1>0, <2>1 DEF SamTyped
    <3>4. logOn' \in [SamPorts -> [SamDirs -> BOOLEAN]]
      BY <1>0, <2>1 DEF SamTyped
    <3> QED BY <1>0, <2>1, <3>2, <3>4 DEF SamTyped
  <2>3. ASSUME NEW q \in SamPorts \ samStray' PROVE SamPortOk(q)'
    <3>1. SamPortOk(q)
      BY <1>0, <2>1
    <3>2. CASE q # p
      <4>1. portSample'[q] = portSample[q] /\ logRate'[q] = logRate[q] /\ logOn'[q] = logOn[q]
        BY <1>0, <2>1, <3>2 DEF SamTyped
      <4>2. \A e \in SamDirs : \A x \in Samples : <<x, q, e>> \in samNodes' <=> <<x, q, e>> \in samNodes
        BY <2>1, <3>2
      <4> QED BY <2>1, <3>1, <4>1, <4>2, SamPortKept
    <3>3. CASE q = p
      <4>2. \A e \in SamDirs : portSample'[p][e] = IF e = d THEN 0 ELSE portSample[p][e]
        BY <1>0, <2>1 DEF SamTyped
      <4>4. \A e \in SamDirs : logOn'[p][e] <=> e # d /\ logOn[p][e]
        BY <1>0, <2>1 DEF SamTyped
      <4>5. \A e \in SamDirs, x \in Samples : <<x, p, e>> \in samNodes' <=> <<x, p, e>> \in samNodes /\ x # s
        BY <2>1
      <4>7. \A e \in SamDirs : e # d => portSample[p][e] # s
        BY <2>1, <3>1, <3>3 DEF SamPortOk
      <4> QED BY <1>0, <2>1, <3>1, <3>3, <4>2, <4>4, <4>5, <4>7 DEF SamPortOk
    <3> QED BY <3>2, <3>3
  <2> QED BY <2>1, <2>2, <2>3 DEF SamInv
<1>7. ASSUME NEW e \in SamEntries, NEW s \in Samples, SampleEntry(e, s) PROVE SamInv'
  <2>1. /\ sampled' # {} /\ logSession' = TRUE /\ cutOff' = FALSE
        /\ UNCHANGED <<sampleRate, samNodes, portSample, logRate, logOn, samStray, rerated>>
    BY <1>7 DEF SampleEntry
  <2>2. SamTyped' /\ \A p \in SamPorts \ samStray' : SamPortOk(p)'
    BY <1>0, <2>1 DEF SamTyped, SamPortOk
  <2> QED BY <2>1, <2>2 DEF SamInv
<1>8. ASSUME NEW e \in SamEntries, UnsampleEntry(e) PROVE SamInv'
  <2>1. /\ logSession' = FALSE /\ (cutOff' <=> sampled' # {}) /\ cutOff' \in BOOLEAN
        /\ UNCHANGED <<sampleRate, samNodes, portSample, logRate, logOn, samStray, rerated>>
    BY <1>8 DEF UnsampleEntry
  <2>2. SamTyped' /\ \A p \in SamPorts \ samStray' : SamPortOk(p)'
    BY <1>0, <2>1 DEF SamTyped, SamPortOk
  <2> QED BY <2>1, <2>2 DEF SamInv
<1> QED BY <1>1, <1>2, <1>3, <1>4, <1>5, <1>6, <1>7, <1>8 DEF SamNext

-----------------------------------------------------------------------------
(* Platform *)

(* A step of Platform is a step of each part, or leaves it alone. *)
LEMMA PartSteps ==
  ASSUME [PlatformNext]_<<part, domVars, lpVars, schVars, polVars, mapVars, profVars,
                          trapVars, hifVars, aclVars, actVars, mirVars, samVars>>
  PROVE  /\ [DomNext]_domVars /\ [TrapNext]_trapVars /\ [HifNext]_hifVars
         /\ [AclNext]_aclVars /\ [ActNext]_actVars /\ [MirNext]_mirVars /\ [SamNext]_samVars
         /\ [SchNext]_schVars /\ [PolNext]_polVars /\ [MapNext]_mapVars /\ [ProfNext]_profVars
BY DEF PlatformNext

(* Whatever VLANs, bridges and STP instances there are and in whatever *)
(* order they are made, changed and removed: no instance in use is removed, *)
(* and the chip treats unknown packets as the miss actions and the flood *)
(* controls say (create_vlan, remove_vlan, remove_stp, set_vlan_info). *)
THEOREM BridgingIsExact == PlatformSpec => []BridgingExact
PROOF
<1>1. PlatformInit => DomInv
  BY DomInitially DEF PlatformInit
<1>2. DomInv /\ [PlatformNext]_<<part, domVars, lpVars, schVars, polVars, mapVars, profVars,
                                trapVars, hifVars, aclVars, actVars, mirVars, samVars>> => DomInv'
  BY PartSteps, DomCallsKeep
<1>3. DomInv => BridgingExact
  BY DomGives DEF BridgingExact
<1> QED BY <1>1, <1>2, <1>3, PTL DEF PlatformSpec

(* Whatever schedulers, policers, maps and profiles there are and however *)
(* queues, groups, ports and entries take and leave them: the chip *)
(* schedules, meters and classifies as the records say, and nothing in use *)
(* is removed (ctc_sai_scheduler_set_attr, ctc_sai_policer_port_set_policer,*)
(* _ctc_sai_port_set_qos_map, ctc_sai_queue_set_wred). *)
THEOREM QosIsExact == PlatformSpec => []QosExact
PROOF
<1>1. PlatformInit => SchInv /\ PolInv /\ MapInv /\ ProfInv
  BY SchInitially, PolInitially, MapInitially, ProfInitially DEF PlatformInit
<1>2. SchInv /\ PolInv /\ MapInv /\ ProfInv
        /\ [PlatformNext]_<<part, domVars, lpVars, schVars, polVars, mapVars, profVars,
                            trapVars, hifVars, aclVars, actVars, mirVars, samVars>>
        => SchInv' /\ PolInv' /\ MapInv' /\ ProfInv'
  BY PartSteps, SchCallsKeep, PolCallsKeep, MapCallsKeep, ProfCallsKeep
<1>3. SchInv /\ PolInv /\ MapInv /\ ProfInv => QosExact
  BY SchGives, PolGives, MapGives, ProfGives DEF QosExact
<1> QED BY <1>1, <1>2, <1>3, PTL DEF PlatformSpec

(* Whatever traps, groups, interfaces and packets there are, and however *)
(* packets run into calls: the entries and queues of the traps are as the *)
(* records say, and a packet is handed to the interface of the port or LAG *)
(* it came from (create_hostif_trap, set_trap_property, create_hostif). *)
THEOREM CpuPathIsExact == PlatformSpec => []CpuPathExact
PROOF
<1>1. PlatformInit => TrapInv /\ HifInv
  BY TrapInitially, HifInitially DEF PlatformInit
<1>2. TrapInv /\ HifInv /\ [PlatformNext]_<<part, domVars, lpVars, schVars, polVars, mapVars, profVars,
                                trapVars, hifVars, aclVars, actVars, mirVars, samVars>>
        => TrapInv' /\ HifInv'
  BY PartSteps, TrapCallsKeep, HifCallsKeep
<1>3. TrapInv /\ HifInv => CpuPathExact
  BY TrapGives, HifGives DEF CpuPathExact
<1> QED BY <1>1, <1>2, <1>3, PTL DEF PlatformSpec

(* Whatever tables, groups, entries and ports there are and however they *)
(* are bound: each port has in the chip what it is bound to, and the entry *)
(* does what its record says (bind_point_set, create_acl_table_group_member,*)
(* create_acl_entry, set_acl_entry_info). *)
THEOREM AclsAreExact == PlatformSpec => []AclsExact
PROOF
<1>1. PlatformInit => AclInv /\ ActInv
  BY AclInitially, ActInitially DEF PlatformInit
<1>2. AclInv /\ ActInv /\ [PlatformNext]_<<part, domVars, lpVars, schVars, polVars, mapVars, profVars,
                                trapVars, hifVars, aclVars, actVars, mirVars, samVars>>
        => AclInv' /\ ActInv'
  BY PartSteps, AclCallsKeep, ActCallsKeep
<1>3. AclInv /\ ActInv => AclsExact
  BY AclGives, ActGives DEF AclsExact
<1> QED BY <1>1, <1>2, <1>3, PTL DEF PlatformSpec

(* Whatever sessions, samples, ports and entries there are and however they *)
(* are mirrored and sampled: the chip's destinations, next hops and rates *)
(* are those of the records (set_port_mirr, set_acl_mirr, *)
(* set_port_samplepacket). *)
THEOREM MonitoringIsExact == PlatformSpec => []MonitoringExact
PROOF
<1>1. PlatformInit => MirInv /\ SamInv
  BY MirInitially, SamInitially DEF PlatformInit
<1>2. MirInv /\ SamInv /\ [PlatformNext]_<<part, domVars, lpVars, schVars, polVars, mapVars, profVars,
                                trapVars, hifVars, aclVars, actVars, mirVars, samVars>>
        => MirInv' /\ SamInv'
  BY PartSteps, MirCallsKeep, SamCallsKeep
<1>3. MirInv /\ SamInv => MonitoringExact
  BY MirGives, SamGives DEF MonitoringExact
<1> QED BY <1>1, <1>2, <1>3, PTL DEF PlatformSpec
=============================================================================
