---------------------------- MODULE L2PortsProofs ----------------------------
(***************************************************************************)
(* Safety theorems about L2Ports, for any LAGs, ports, VLANs and STP *)
(* instances, in whatever order ports join and leave and bridge ports, *)
(* VLAN members and STP ports are set. The argument: LpInv is inductive. *)
(* It says of every member what MembersFollow does, and besides that a LAG *)
(* with a bridge port has the callback, that a member of a LAG without one *)
(* is configured as a port on its own, and that a port is in one LAG: what *)
(* a port carries over when it leaves follows from that. *)
(***************************************************************************)
EXTENDS L2Ports, TLAPS

Modes == [u : BOOLEAN, t : BOOLEAN]
Tags == {"no", "tagged", "untagged"}
HwPorts == [agg : BOOLEAN, gport : {"own", "lag"}, cfg : [BpAttrs -> BOOLEAN],
            vlans : [LagVlans -> Tags], stps : [LagStps -> StpStates], ctl : Modes]
BridgePorts == [live : BOOLEAN, cfg : [BpAttrs -> BOOLEAN], vlans : [LagVlans -> Tags],
                stps : [LagStps -> StpStates \cup {"no"}]]
LagRecords == [live : BOOLEAN, mem : SUBSET MemberPorts, egDis : SUBSET MemberPorts,
               inDis : SUBSET MemberPorts, dropU : BOOLEAN, dropT : BOOLEAN, cb : BOOLEAN]
LpTyped ==
  /\ lagDb \in [Lags -> LagRecords] /\ bpDb \in [Lags -> BridgePorts]
  /\ hwMem \in [MemberPorts -> HwPorts] /\ stray \subseteq MemberPorts

(* A LAG's record L with its bridge port's B; a port h on its own; a member *)
(* p of LAG l in step with both records, apart from what is skewed in K. *)
LagOk(L, B) ==
  /\ L.egDis \subseteq L.mem /\ L.inDis \subseteq L.mem
  /\ B.live => L.live /\ L.cb
  /\ ~L.live => L.mem = {}
  /\ ~B.live => B = NoBp
OnItsOwn(h) ==
  /\ ~h.agg /\ h.gport = "own" /\ h.cfg = LeftCfg /\ h.vlans = FreshPort.vlans
  /\ h.stps = FreshPort.stps
MemberOk(l, p, h, L, B, K) ==
  /\ h.agg <=> p \notin L.egDis
  /\ h.gport = "lag" <=> p \notin L.inDis
  /\ <<l, "ctl">> \notin K => h.ctl = [u |-> L.dropU, t |-> L.dropT]
  /\ ~B.live => h.cfg = LeftCfg
  /\ B.live => \A a \in BpAttrs : <<l, a>> \notin K => h.cfg[a] = B.cfg[a]
  /\ \A v \in LagVlans : h.vlans[v] = "no" <=> B.vlans[v] = "no"
  /\ \A v \in LagVlans : <<l, "tag", v>> \notin K => h.vlans[v] = B.vlans[v]
  /\ \A s \in LagStps : B.stps[s] = "no" => h.stps[s] = "FORWARDING"
  /\ \A s \in LagStps : B.stps[s] # "no" /\ <<l, "stp", s>> \notin K => h.stps[s] = B.stps[s]

LpInv ==
  /\ LpTyped
  /\ \A l \in Lags : LagOk(lagDb[l], bpDb[l])
  /\ \A l, k \in Lags : l # k => Members(l) \cap Members(k) = {}
  /\ \A l \in Lags : \A p \in Members(l) :
       p \notin stray /\ MemberOk(l, p, hwMem[p], lagDb[l], bpDb[l], skew)
  /\ \A p \in MemberPorts : (\A l \in Lags : p \notin Members(l)) => OnItsOwn(hwMem[p])

-----------------------------------------------------------------------------
(* One write to a member and to the bridge port's record: an attribute, ... *)
LEMMA CfgWritten ==
  ASSUME NEW l, NEW p, NEW h \in HwPorts, NEW L, NEW B \in BridgePorts, NEW K, B.live,
         MemberOk(l, p, h, L, B, K), NEW a \in BpAttrs, NEW on \in BOOLEAN
  PROVE  /\ [h EXCEPT !.cfg[a] = on] \in HwPorts
         /\ MemberOk(l, p, [h EXCEPT !.cfg[a] = on], L, [B EXCEPT !.cfg[a] = on], K \ {<<l, a>>})
PROOF
<1> DEFINE g == [h EXCEPT !.cfg[a] = on]
           C == [B EXCEPT !.cfg[a] = on]
           J == K \ {<<l, a>>}
<1>1. /\ g \in HwPorts /\ g.agg = h.agg /\ g.gport = h.gport /\ g.ctl = h.ctl
      /\ g.vlans = h.vlans /\ g.stps = h.stps /\ g.cfg = [h.cfg EXCEPT ![a] = on]
  BY DEF HwPorts
<1>2. /\ C.live /\ C.vlans = B.vlans /\ C.stps = B.stps /\ C.cfg = [B.cfg EXCEPT ![a] = on]
  BY DEF BridgePorts
<1>3. /\ \A b \in BpAttrs : <<l, b>> \notin J => b = a \/ <<l, b>> \notin K
      /\ <<l, "ctl">> \notin J => <<l, "ctl">> \notin K
      /\ \A v : <<l, "tag", v>> \notin J => <<l, "tag", v>> \notin K
      /\ \A s : <<l, "stp", s>> \notin J => <<l, "stp", s>> \notin K
  BY DEF BpAttrs
<1> HIDE DEF g, C, J
<1>4. MemberOk(l, p, g, L, C, J)
  BY <1>1, <1>2, <1>3 DEF MemberOk, HwPorts, BridgePorts
<1> QED BY <1>1, <1>4 DEF g, C, J

(* ... a VLAN, recorded or not, ... *)
LEMMA VlanWritten ==
  ASSUME NEW l, NEW p, NEW h \in HwPorts, NEW L, NEW B \in BridgePorts, NEW K, B.live,
         MemberOk(l, p, h, L, B, K), NEW v \in LagVlans, NEW t \in Tags
  PROVE  /\ [h EXCEPT !.vlans[v] = t] \in HwPorts
         /\ MemberOk(l, p, [h EXCEPT !.vlans[v] = t], L, [B EXCEPT !.vlans[v] = t],
                     K \ {<<l, "tag", v>>})
         /\ B.vlans[v] # "no" /\ t # "no" =>
              MemberOk(l, p, [h EXCEPT !.vlans[v] = t], L, B, K \cup {<<l, "tag", v>>})
PROOF
<1> DEFINE g == [h EXCEPT !.vlans[v] = t]
           C == [B EXCEPT !.vlans[v] = t]
           J == K \ {<<l, "tag", v>>}
           M == K \cup {<<l, "tag", v>>}
<1>1. /\ g \in HwPorts /\ g.agg = h.agg /\ g.gport = h.gport /\ g.ctl = h.ctl
      /\ g.cfg = h.cfg /\ g.stps = h.stps /\ g.vlans = [h.vlans EXCEPT ![v] = t]
  BY DEF HwPorts
<1>2. /\ C.live /\ C.cfg = B.cfg /\ C.stps = B.stps /\ C.vlans = [B.vlans EXCEPT ![v] = t]
  BY DEF BridgePorts
<1>3. /\ \A b : <<l, b>> \notin J => <<l, b>> \notin K
      /\ \A w : <<l, "tag", w>> \notin J => w = v \/ <<l, "tag", w>> \notin K
      /\ \A s : <<l, "stp", s>> \notin J => <<l, "stp", s>> \notin K
      /\ K \subseteq M /\ <<l, "tag", v>> \in M
  OBVIOUS
<1> HIDE DEF g, C, J, M
<1>4. MemberOk(l, p, g, L, C, J)
  BY <1>1, <1>2, <1>3 DEF MemberOk, HwPorts, BridgePorts
<1>5. B.vlans[v] # "no" /\ t # "no" => MemberOk(l, p, g, L, B, M)
  BY <1>1, <1>3 DEF MemberOk, HwPorts, BridgePorts
<1> QED BY <1>1, <1>4, <1>5 DEF g, C, J, M

(* ... an STP state, recorded, reset or not recorded. *)
LEMMA StpWritten ==
  ASSUME NEW l, NEW p, NEW h \in HwPorts, NEW L, NEW B \in BridgePorts, NEW K, B.live,
         MemberOk(l, p, h, L, B, K), NEW s \in LagStps, NEW t \in StpStates
  PROVE  /\ [h EXCEPT !.stps[s] = t] \in HwPorts
         /\ MemberOk(l, p, [h EXCEPT !.stps[s] = t], L, [B EXCEPT !.stps[s] = t], K)
         /\ t = "FORWARDING" => MemberOk(l, p, [h EXCEPT !.stps[s] = t], L,
                                         [B EXCEPT !.stps[s] = "no"], K \ {<<l, "stp", s>>})
         /\ B.stps[s] # "no" =>
              MemberOk(l, p, [h EXCEPT !.stps[s] = t], L, B, K \cup {<<l, "stp", s>>})
PROOF
<1> DEFINE g == [h EXCEPT !.stps[s] = t]
           C == [B EXCEPT !.stps[s] = t]
           D == [B EXCEPT !.stps[s] = "no"]
           J == K \ {<<l, "stp", s>>}
           M == K \cup {<<l, "stp", s>>}
<1>1. /\ g \in HwPorts /\ g.agg = h.agg /\ g.gport = h.gport /\ g.ctl = h.ctl
      /\ g.cfg = h.cfg /\ g.vlans = h.vlans /\ g.stps = [h.stps EXCEPT ![s] = t]
  BY DEF HwPorts
<1>2. /\ C.live /\ C.cfg = B.cfg /\ C.vlans = B.vlans /\ C.stps = [B.stps EXCEPT ![s] = t]
      /\ D.live /\ D.cfg = B.cfg /\ D.vlans = B.vlans /\ D.stps = [B.stps EXCEPT ![s] = "no"]
      /\ t # "no"
  BY DEF BridgePorts, StpStates
<1>3. /\ \A b : <<l, b>> \notin J => <<l, b>> \notin K
      /\ \A v : <<l, "tag", v>> \notin J => <<l, "tag", v>> \notin K
      /\ \A r : <<l, "stp", r>> \notin J => r = s \/ <<l, "stp", r>> \notin K
      /\ K \subseteq M /\ <<l, "stp", s>> \in M
  OBVIOUS
<1> HIDE DEF g, C, D, J, M
<1>4. MemberOk(l, p, g, L, C, K)
  BY <1>1, <1>2 DEF MemberOk, HwPorts, BridgePorts
<1>5. t = "FORWARDING" => MemberOk(l, p, g, L, D, J)
  BY <1>1, <1>2, <1>3 DEF MemberOk, HwPorts, BridgePorts
<1>6. B.stps[s] # "no" => MemberOk(l, p, g, L, B, M)
  BY <1>1, <1>3 DEF MemberOk, HwPorts, BridgePorts
<1> QED BY <1>1, <1>4, <1>5, <1>6 DEF g, C, D, J, M

(* What is skewed is only excepted. *)
LEMMA MoreSkewed ==
  ASSUME NEW l, NEW p, NEW h, NEW L, NEW B, NEW J, NEW K, J \subseteq K, MemberOk(l, p, h, L, B, J)
  PROVE  MemberOk(l, p, h, L, B, K)
BY DEF MemberOk

-----------------------------------------------------------------------------
(* A handler that writes the records of one LAG and all its members. *)
SkewKept(l) ==
  \A k \in Lags \ {l} :
    /\ \A a : <<k, a>> \in skew' <=> <<k, a>> \in skew
    /\ \A v : <<k, "tag", v>> \in skew' <=> <<k, "tag", v>> \in skew
    /\ \A s : <<k, "stp", s>> \in skew' <=> <<k, "stp", s>> \in skew
(* It keeps the invariant when each member is in step afterwards. *)
LEMMA LagStep ==
  ASSUME LpInv, NEW l \in Lags, NEW L \in LagRecords, NEW B \in BridgePorts,
         lagDb' = [lagDb EXCEPT ![l] = L], bpDb' = [bpDb EXCEPT ![l] = B],
         L.mem = Members(l), LagOk(L, B), UNCHANGED stray, SkewKept(l),
         hwMem' \in [MemberPorts -> HwPorts],
         \A p \in MemberPorts \ Members(l) : hwMem'[p] = hwMem[p],
         \A p \in Members(l) : MemberOk(l, p, hwMem'[p], L, B, skew')
  PROVE  LpInv'
PROOF
<1>1. /\ lagDb \in [Lags -> LagRecords] /\ bpDb \in [Lags -> BridgePorts]
      /\ \A k \in Lags : Members(k) \subseteq MemberPorts
  BY DEF LpInv, LpTyped, LagRecords, Members
<1>2. /\ lagDb'[l] = L /\ bpDb'[l] = B
      /\ \A k \in Lags \ {l} : lagDb'[k] = lagDb[k] /\ bpDb'[k] = bpDb[k]
  BY <1>1
<1>3. LpTyped'
  BY <1>1 DEF LpInv, LpTyped
<1>4. \A k \in Lags : Members(k)' = Members(k)
  BY <1>2 DEF Members
<1>5. \A k \in Lags : LagOk(lagDb'[k], bpDb'[k])
  BY <1>2 DEF LpInv
<1>6. ASSUME NEW k \in Lags, NEW p \in Members(k)
      PROVE  p \notin stray' /\ MemberOk(k, p, hwMem'[p], lagDb'[k], bpDb'[k], skew')
  <2>1. p \notin stray /\ MemberOk(k, p, hwMem[p], lagDb[k], bpDb[k], skew)
    BY <1>6 DEF LpInv
  <2>2. CASE k = l
    BY <1>2, <1>6, <2>1, <2>2
  <2>3. CASE k # l
    <3>1. p \in MemberPorts \ Members(l)
      BY <1>1, <1>6, <2>3 DEF LpInv
    <3>2. MemberOk(k, p, hwMem[p], lagDb[k], bpDb[k], skew')
      BY <2>1, <2>3 DEF MemberOk, SkewKept
    <3> QED BY <1>2, <2>1, <2>3, <3>1, <3>2
  <2> QED BY <2>2, <2>3
<1>7. ASSUME NEW p \in MemberPorts, \A k \in Lags : p \notin Members(k)
      PROVE  OnItsOwn(hwMem'[p])
  BY <1>7 DEF LpInv
<1>8. \A j, k \in Lags : j # k => Members(j) \cap Members(k) = {}
  BY DEF LpInv
<1> QED BY <1>3, <1>4, <1>5, <1>6, <1>7, <1>8 DEF LpInv

(* A handler that writes the record of a LAG and one port. *)
LEMMA PortStep ==
  ASSUME LpInv, NEW l \in Lags, NEW L \in LagRecords, NEW p \in MemberPorts,
         NEW H \in HwPorts, lagDb' = [lagDb EXCEPT ![l] = L], bpDb' = bpDb, skew' = skew,
         LagOk(L, bpDb[l]), hwMem' = [hwMem EXCEPT ![p] = H],
         L.mem \ {p} = Members(l) \ {p}, L.egDis \ {p} = lagDb[l].egDis \ {p},
         L.inDis \ {p} = lagDb[l].inDis \ {p},
         L.dropU = lagDb[l].dropU, L.dropT = lagDb[l].dropT,
         stray' \subseteq MemberPorts, stray' \ {p} = stray \ {p},
         \A k \in Lags \ {l} : p \notin Members(k),
         p \in L.mem => p \notin stray' /\ MemberOk(l, p, H, L, bpDb[l], skew),
         p \notin L.mem => OnItsOwn(H)
  PROVE  LpInv'
PROOF
<1>1. /\ lagDb \in [Lags -> LagRecords] /\ bpDb \in [Lags -> BridgePorts]
      /\ hwMem \in [MemberPorts -> HwPorts]
  BY DEF LpInv, LpTyped
<1>2. lagDb'[l] = L /\ \A k \in Lags \ {l} : lagDb'[k] = lagDb[k]
  BY <1>1
<1>3. hwMem'[p] = H /\ \A q \in MemberPorts \ {p} : hwMem'[q] = hwMem[q]
  BY <1>1
<1>4. LpTyped'
  BY <1>1 DEF LpInv, LpTyped
<1>5. Members(l)' = L.mem /\ \A k \in Lags \ {l} : Members(k)' = Members(k)
  BY <1>2 DEF Members
<1>6. \A k \in Lags : Members(k) \subseteq MemberPorts
  BY <1>1 DEF LagRecords, Members
<1>7. \A k \in Lags : LagOk(lagDb'[k], bpDb'[k])
  BY <1>2 DEF LpInv
<1>8. ASSUME NEW k \in Lags, NEW q \in Members(k)'
      PROVE  q \notin stray' /\ MemberOk(k, q, hwMem'[q], lagDb'[k], bpDb'[k], skew')
  <2>1. CASE q = p
    <3>1. k = l /\ p \in L.mem
      BY <1>5, <1>8, <2>1
    <3> QED BY <1>2, <1>3, <2>1, <3>1
  <2>2. CASE q # p
    <3>1. q \in Members(k) /\ q \in MemberPorts
      BY <1>5, <1>6, <1>8, <2>2
    <3>2. q \notin stray /\ MemberOk(k, q, hwMem[q], lagDb[k], bpDb[k], skew)
      BY <3>1 DEF LpInv
    <3>3. hwMem'[q] = hwMem[q] /\ q \notin stray'
      BY <1>3, <2>2, <3>1, <3>2
    <3>4. CASE k = l
      <4>1. /\ q \in L.egDis <=> q \in lagDb[l].egDis
            /\ q \in L.inDis <=> q \in lagDb[l].inDis
        BY <2>2
      <4> QED BY <1>2, <3>2, <3>3, <3>4, <4>1 DEF MemberOk
    <3>5. CASE k # l
      BY <1>2, <3>2, <3>3, <3>5
    <3> QED BY <3>4, <3>5
  <2> QED BY <2>1, <2>2
<1>9. ASSUME NEW q \in MemberPorts, \A k \in Lags : q \notin Members(k)'
      PROVE  OnItsOwn(hwMem'[q])
  <2>1. CASE q = p
    BY <1>3, <1>5, <1>9, <2>1
  <2>2. CASE q # p
    <3>1. \A k \in Lags : q \notin Members(k)
      BY <1>5, <1>9, <2>2
    <3> QED BY <1>3, <2>2, <3>1 DEF LpInv
  <2> QED BY <2>1, <2>2
<1>10. ASSUME NEW j \in Lags, NEW k \in Lags, j # k
       PROVE  Members(j)' \cap Members(k)' = {}
  <2>1. Members(j) \cap Members(k) = {} /\ (j # l => p \notin Members(j))
        /\ (k # l => p \notin Members(k))
    BY <1>10 DEF LpInv
  <2> QED BY <1>5, <1>10, <2>1
<1> QED BY <1>4, <1>7, <1>8, <1>9, <1>10 DEF LpInv

-----------------------------------------------------------------------------
(* What the invariant says of one LAG and its members. *)
LEMMA LagFact ==
  ASSUME LpInv, NEW l \in Lags
  PROVE  /\ lagDb[l] \in LagRecords /\ bpDb[l] \in BridgePorts /\ Members(l) \subseteq MemberPorts
         /\ Members(l) = lagDb[l].mem /\ LagOk(lagDb[l], bpDb[l])
         /\ \A p \in MemberPorts : hwMem[p] \in HwPorts
         /\ \A p \in Members(l) : /\ MemberOk(l, p, hwMem[p], lagDb[l], bpDb[l], skew)
                                  /\ p \notin stray
BY DEF LpInv, LpTyped, LagRecords, Members

(* A record that is not written. *)
LEMMA SameRecords ==
  ASSUME LpInv, NEW l \in Lags
  PROVE  lagDb = [lagDb EXCEPT ![l] = lagDb[l]] /\ bpDb = [bpDb EXCEPT ![l] = bpDb[l]]
BY DEF LpInv, LpTyped

(* create_lag and remove_lag: a LAG without members or bridge port. *)
LEMMA CreateLagKeeps ==
  ASSUME LpInv, NEW l \in Lags, NEW u \in BOOLEAN, NEW t \in BOOLEAN, CreateLag(l, u, t)
  PROVE  LpInv'
PROOF
<1> DEFINE L == [NoLag EXCEPT !.live = TRUE, !.dropU = u, !.dropT = t]
<1>1. /\ lagDb' = [lagDb EXCEPT ![l] = L] /\ ~lagDb[l].live
      /\ UNCHANGED <<bpDb, hwMem, skew, stray>>
  BY DEF CreateLag, LiveLag
<1>2. L \in LagRecords /\ L.live /\ L.mem = {} /\ L.egDis = {} /\ L.inDis = {}
  BY DEF NoLag, LagRecords
<1> HIDE DEF L
<1>3. Members(l) = {} /\ ~bpDb[l].live /\ bpDb[l] = NoBp /\ bpDb[l] \in BridgePorts
  BY <1>1, LagFact DEF LagOk
<1>4. LagOk(L, bpDb[l]) /\ SkewKept(l) /\ hwMem' \in [MemberPorts -> HwPorts]
  BY <1>1, <1>2, <1>3 DEF LagOk, SkewKept, LpInv, LpTyped
<1> QED BY <1>1, <1>2, <1>3, <1>4, SameRecords, LagStep

(* remove_lag, whose skews go with it. *)
LEMMA RemoveLagKeeps ==
  ASSUME LpInv, NEW l \in Lags, RemoveLag(l)
  PROVE  LpInv'
PROOF
<1>1. /\ lagDb' = [lagDb EXCEPT ![l] = NoLag] /\ Members(l) = {} /\ ~bpDb[l].live
      /\ skew' = {x \in skew : x[1] # l} /\ UNCHANGED <<bpDb, hwMem, stray>>
  BY DEF RemoveLag
<1>2. /\ NoLag \in LagRecords /\ NoLag.mem = {} /\ NoLag.egDis = {} /\ NoLag.inDis = {}
      /\ ~NoLag.live
  BY DEF NoLag, LagRecords
<1>3. bpDb[l] = NoBp /\ bpDb[l] \in BridgePorts
  BY <1>1, LagFact DEF LagOk
<1>4. LagOk(NoLag, bpDb[l]) /\ SkewKept(l) /\ hwMem' \in [MemberPorts -> HwPorts]
  BY <1>1, <1>2, <1>3 DEF LagOk, SkewKept, LpInv, LpTyped
<1> QED BY <1>1, <1>2, <1>3, <1>4, SameRecords, LagStep

(* ctc_sai_lag_set_info: while the members are in step with the record, the *)
(* mode computed from one of them is right for all, unless nothing changes. *)
LEMMA SetLagDropKeeps ==
  ASSUME LpInv, NEW l \in Lags, NEW tag \in {"u", "t"}, NEW on \in BOOLEAN, SetLagDrop(l, tag, on)
  PROVE  LpInv'
PROOF
<1> DEFINE first == CHOOSE q \in Members(l) : TRUE
           mode == TagsMode(hwMem[first].ctl, tag, on)
           L == IF tag = "u" THEN [lagDb[l] EXCEPT !.dropU = on] ELSE [lagDb[l] EXCEPT !.dropT = on]
           same == on = (IF tag = "u" THEN lagDb[l].dropU ELSE lagDb[l].dropT)
<1>1. /\ lagDb[l] \in LagRecords /\ bpDb[l] \in BridgePorts /\ Members(l) \subseteq MemberPorts
      /\ Members(l) = lagDb[l].mem /\ LagOk(lagDb[l], bpDb[l])
      /\ \A p \in MemberPorts : hwMem[p] \in HwPorts
      /\ \A p \in Members(l) : MemberOk(l, p, hwMem[p], lagDb[l], bpDb[l], skew)
  BY LagFact
<1>2. /\ L \in LagRecords /\ L.live = lagDb[l].live /\ L.mem = lagDb[l].mem
      /\ L.egDis = lagDb[l].egDis /\ L.inDis = lagDb[l].inDis /\ L.cb = lagDb[l].cb
      /\ L.dropU = (IF tag = "u" THEN on ELSE lagDb[l].dropU)
      /\ L.dropT = (IF tag = "u" THEN lagDb[l].dropT ELSE on)
  BY <1>1 DEF LagRecords
<1>3. /\ \A p \in MemberPorts : hwMem'[p] = IF p \in Members(l) THEN [hwMem[p] EXCEPT !.ctl = mode]
                                            ELSE hwMem[p]
      /\ hwMem' = [p \in MemberPorts |-> hwMem'[p]]
      /\ lagDb' = [lagDb EXCEPT ![l] = L]
      /\ UNCHANGED <<bpDb, stray>>
      /\ skew' = IF same /\ Members(l) # {} THEN skew \cup {<<l, "ctl">>} ELSE skew
  BY DEF SetLagDrop, LpInv, LpTyped
<1>4. ASSUME Members(l) # {}
      PROVE  /\ mode \in Modes
             /\ <<l, "ctl">> \notin skew' => mode = [u |-> L.dropU, t |-> L.dropT]
  <2> HIDE DEF first
  <2>1. first \in Members(l)
    BY <1>4 DEF first
  <2>2. /\ hwMem[first].ctl \in Modes
        /\ <<l, "ctl">> \notin skew =>
             hwMem[first].ctl = [u |-> lagDb[l].dropU, t |-> lagDb[l].dropT]
    BY <1>1, <2>1 DEF MemberOk, HwPorts
  <2>3. mode \in Modes
    BY <2>2 DEF TagsMode, Modes
  <2>4. ASSUME <<l, "ctl">> \notin skew' PROVE mode = [u |-> L.dropU, t |-> L.dropT]
    <3>1. <<l, "ctl">> \notin skew /\ ~same
      BY <1>3, <1>4, <2>4
    <3>2. hwMem[first].ctl = [u |-> lagDb[l].dropU, t |-> lagDb[l].dropT]
      BY <2>2, <3>1
    <3> QED BY <1>2, <3>1, <3>2 DEF TagsMode
  <2> QED BY <2>3, <2>4
<1> HIDE DEF L, mode, first, same
<1>5. ASSUME NEW p \in Members(l)
      PROVE  hwMem'[p] \in HwPorts /\ MemberOk(l, p, hwMem'[p], L, bpDb[l], skew')
  <2> DEFINE h == [hwMem[p] EXCEPT !.ctl = mode]
  <2>1. /\ h \in HwPorts /\ h.ctl = mode /\ h.agg = hwMem[p].agg /\ h.gport = hwMem[p].gport
        /\ h.cfg = hwMem[p].cfg /\ h.vlans = hwMem[p].vlans /\ h.stps = hwMem[p].stps
    BY <1>1, <1>4, <1>5 DEF HwPorts
  <2>2. hwMem'[p] = h
    BY <1>1, <1>3, <1>5
  <2> HIDE DEF h
  <2>3. MemberOk(l, p, hwMem[p], lagDb[l], bpDb[l], skew) /\ skew \subseteq skew'
    BY <1>1, <1>3, <1>5
  <2> QED BY <1>2, <1>4, <1>5, <2>1, <2>2, <2>3 DEF MemberOk
<1>6. hwMem' \in [MemberPorts -> HwPorts] /\ \A p \in MemberPorts \ Members(l) : hwMem'[p] = hwMem[p]
  BY <1>1, <1>3, <1>5
<1>7. SkewKept(l) /\ LagOk(L, bpDb[l])
  <2>1. SkewKept(l)
    BY <1>3 DEF SkewKept
  <2> QED BY <1>1, <1>2, <2>1 DEF LagOk
<1> QED BY <1>1, <1>2, <1>3, <1>5, <1>6, <1>7, SameRecords, LagStep

-----------------------------------------------------------------------------
(* create_lag_member: a port on its own gets the directions of the call and *)
(* all the bridge port's records, through the callback. *)
LEMMA CreateLagMemberKeeps ==
  ASSUME LpInv, NEW l \in Lags, NEW p \in MemberPorts, NEW d \in Disables,
         CreateLagMember(l, p, d)
  PROVE  LpInv'
PROOF
<1> DEFINE B == bpDb[l]
           eg == IF d \in {"eg", "both"} THEN lagDb[l].egDis \cup {p} ELSE lagDb[l].egDis
           in == IF d \in {"in", "both"} THEN lagDb[l].inDis \cup {p} ELSE lagDb[l].inDis
           L == [lagDb[l] EXCEPT !.mem = @ \cup {p}, !.egDis = eg, !.inDis = in]
           gp == CASE d = "in" -> "own" [] d = "both" -> hwMem[p].gport [] OTHER -> "lag"
           h == [hwMem[p] EXCEPT !.agg = d \in {"none", "in"}, !.gport = gp,
                                 !.ctl = [u |-> lagDb[l].dropU, t |-> lagDb[l].dropT]]
           H == MemberChange(l, h, TRUE)
<1>1. /\ lagDb[l] \in LagRecords /\ B \in BridgePorts
      /\ Members(l) = lagDb[l].mem /\ LagOk(lagDb[l], B) /\ hwMem[p] \in HwPorts
  BY LagFact
<1>2. lagDb[l].live /\ p \notin stray /\ \A k \in Lags : p \notin Members(k)
  BY DEF CreateLagMember, LiveLag
<1>3. OnItsOwn(hwMem[p])
  BY <1>2 DEF LpInv
<1>4. /\ L \in LagRecords /\ L.live = lagDb[l].live /\ L.mem = lagDb[l].mem \cup {p}
      /\ L.egDis = eg /\ L.inDis = in /\ L.cb = lagDb[l].cb
      /\ L.dropU = lagDb[l].dropU /\ L.dropT = lagDb[l].dropT
  BY <1>1 DEF LagRecords
<1>5. lagDb' = [lagDb EXCEPT ![l] = L]
  BY <1>1 DEF CreateLagMember, LpInv, LpTyped
<1>6. hwMem' = [hwMem EXCEPT ![p] = H] /\ UNCHANGED <<bpDb, skew, stray>>
  BY DEF CreateLagMember
<1>7. /\ gp = (IF p \in in THEN "own" ELSE "lag") /\ (d \in {"none", "in"} <=> p \notin eg)
      /\ eg \subseteq L.mem /\ in \subseteq L.mem
  BY <1>1, <1>2, <1>3, <1>4 DEF Disables, LagOk, OnItsOwn
<1> DEFINE sends == d \in {"none", "in"}
           ctl == [u |-> lagDb[l].dropU, t |-> lagDb[l].dropT]
<1>8. /\ h \in HwPorts /\ (h.agg <=> p \notin eg) /\ (h.gport = "lag" <=> p \notin in)
      /\ h.ctl = [u |-> L.dropU, t |-> L.dropT]
      /\ h.cfg = hwMem[p].cfg /\ h.vlans = hwMem[p].vlans /\ h.stps = hwMem[p].stps
  <2>1. sends \in BOOLEAN /\ gp \in {"own", "lag"} /\ ctl \in Modes
    BY <1>1, <1>7 DEF LagRecords, Modes
  <2>2. ctl = [u |-> L.dropU, t |-> L.dropT] /\ (sends <=> p \notin eg)
        /\ (gp = "lag" <=> p \notin in)
    BY <1>4, <1>7
  <2> HIDE DEF L, eg, in, gp, sends, ctl
  <2>3. /\ h \in HwPorts /\ h.agg = sends /\ h.gport = gp /\ h.ctl = ctl
        /\ h.cfg = hwMem[p].cfg /\ h.vlans = hwMem[p].vlans /\ h.stps = hwMem[p].stps
    <3>1. h = [hwMem[p] EXCEPT !.agg = sends, !.gport = gp, !.ctl = ctl]
      BY DEF sends, ctl
    <3> HIDE DEF h
    <3> QED BY <1>1, <2>1, <3>1 DEF HwPorts
  <2> HIDE DEF h
  <2> QED BY <2>2, <2>3
<1> HIDE DEF L, eg, in, gp, h, sends, ctl
<1>9. h.cfg = LeftCfg /\ (\A v \in LagVlans : h.vlans[v] = "no")
      /\ \A s \in LagStps : h.stps[s] = "FORWARDING"
  BY <1>3, <1>8 DEF OnItsOwn, FreshPort
<1>10. H \in HwPorts /\ MemberOk(l, p, H, L, B, skew)
  <2>1. CASE ~B.live
    <3>1. H = h /\ B = NoBp
      BY <1>1, <2>1 DEF MemberChange, LagOk
    <3> HIDE DEF H, B
    <3> QED BY <1>4, <1>8, <1>9, <2>1, <3>1 DEF MemberOk, NoBp
  <2>2. CASE B.live
    <3>1. lagDb[l].cb
      BY <1>1, <2>2 DEF LagOk
    <3>2. H = JoinedPort(h, B)
      BY <2>2, <3>1 DEF MemberChange
    <3> HIDE DEF H, B
    <3>3. /\ H.agg = h.agg /\ H.gport = h.gport /\ H.ctl = h.ctl /\ H.cfg = B.cfg
          /\ H.vlans = [v \in LagVlans |-> IF B.vlans[v] = "no" THEN h.vlans[v] ELSE B.vlans[v]]
          /\ H.stps = [s \in LagStps |-> IF B.stps[s] = "no" THEN h.stps[s] ELSE B.stps[s]]
          /\ H \in HwPorts
      BY <1>1, <1>8, <3>2 DEF JoinedPort, HwPorts, BridgePorts
    <3> QED BY <1>4, <1>8, <1>9, <2>2, <3>3 DEF MemberOk
  <2> QED BY <2>1, <2>2
<1>11. LagOk(L, B) /\ p \in L.mem
  BY <1>1, <1>2, <1>4, <1>7 DEF LagOk
<1>12. L.egDis \ {p} = lagDb[l].egDis \ {p} /\ L.inDis \ {p} = lagDb[l].inDis \ {p}
       /\ L.mem \ {p} = Members(l) \ {p}
  BY <1>1, <1>4 DEF eg, in
<1>13. stray' \subseteq MemberPorts /\ stray' \ {p} = stray \ {p} /\ p \notin stray'
  BY <1>2, <1>6 DEF LpInv, LpTyped
<1> HIDE DEF H
<1> QED BY <1>2, <1>4, <1>5, <1>6, <1>10, <1>11, <1>12, <1>13, PortStep

(* remove_lag_member: a port of the group leaves as it came, since what is *)
(* set on it is what the bridge port's records name; the port whose removal *)
(* the SDK refuses is followed no further. *)
LEMMA RemoveLagMemberKeeps ==
  ASSUME LpInv, NEW l \in Lags, NEW p \in MemberPorts, RemoveLagMember(l, p)
  PROVE  LpInv'
PROOF
<1> DEFINE B == bpDb[l]
           L == [lagDb[l] EXCEPT !.mem = @ \ {p}, !.egDis = @ \ {p}, !.inDis = @ \ {p}]
           h == [hwMem[p] EXCEPT !.agg = FALSE, !.gport = "own", !.ctl = FreshPort.ctl]
           H == IF hwMem[p].agg THEN MemberChange(l, h, FALSE) ELSE FreshPort
<1>1. /\ lagDb[l] \in LagRecords /\ B \in BridgePorts
      /\ Members(l) = lagDb[l].mem /\ LagOk(lagDb[l], B) /\ hwMem[p] \in HwPorts
  BY LagFact
<1>2. /\ p \in Members(l) /\ MemberOk(l, p, hwMem[p], lagDb[l], B, skew)
      /\ \A k \in Lags \ {l} : p \notin Members(k)
  BY LagFact DEF RemoveLagMember, LpInv
<1>3. /\ L \in LagRecords /\ L.live = lagDb[l].live /\ L.mem = lagDb[l].mem \ {p}
      /\ L.egDis = lagDb[l].egDis \ {p} /\ L.inDis = lagDb[l].inDis \ {p} /\ L.cb = lagDb[l].cb
      /\ L.dropU = lagDb[l].dropU /\ L.dropT = lagDb[l].dropT
  BY <1>1 DEF LagRecords
<1>4. lagDb' = [lagDb EXCEPT ![l] = L]
  BY <1>1 DEF RemoveLagMember, LpInv, LpTyped
<1>5. hwMem' = [hwMem EXCEPT ![p] = H] /\ UNCHANGED <<bpDb, skew>>
      /\ stray' \subseteq stray \cup {p} /\ stray \subseteq stray'
  BY DEF RemoveLagMember
<1>6. FreshPort \in HwPorts /\ OnItsOwn(FreshPort)
  BY DEF FreshPort, LeftCfg, HwPorts, Tags, StpStates, Modes, OnItsOwn
<1>7. /\ h \in HwPorts /\ ~h.agg /\ h.gport = "own"
      /\ h.cfg = hwMem[p].cfg /\ h.vlans = hwMem[p].vlans /\ h.stps = hwMem[p].stps
  BY <1>1, <1>6 DEF HwPorts
<1> HIDE DEF L, h
<1>8. H \in HwPorts /\ OnItsOwn(H)
  <2>1. CASE ~hwMem[p].agg
    BY <1>6, <2>1
  <2>2. CASE hwMem[p].agg /\ ~B.live
    <3>1. H = h /\ B = NoBp
      BY <1>1, <2>2 DEF MemberChange, LagOk
    <3>2. /\ hwMem[p].cfg = LeftCfg
          /\ \A v \in LagVlans : hwMem[p].vlans[v] = "no"
          /\ \A s \in LagStps : hwMem[p].stps[s] = "FORWARDING"
      BY <1>2, <2>2, <3>1 DEF MemberOk, NoBp
    <3>3. hwMem[p].vlans = FreshPort.vlans /\ hwMem[p].stps = FreshPort.stps
      BY <1>1, <3>2 DEF HwPorts, FreshPort
    <3> QED BY <1>7, <3>1, <3>2, <3>3 DEF OnItsOwn
  <2>3. CASE hwMem[p].agg /\ B.live
    <3>1. H = LeavingPort(h, B)
      BY <1>1, <2>3 DEF MemberChange, LagOk
    <3> HIDE DEF H
    <3>2. /\ H.agg = h.agg /\ H.gport = h.gport /\ H.ctl = h.ctl /\ H.cfg = LeftCfg
          /\ H.vlans = [v \in LagVlans |-> IF B.vlans[v] = "no" THEN h.vlans[v] ELSE "no"]
          /\ H.stps = [s \in LagStps |-> IF B.stps[s] = "no" THEN h.stps[s] ELSE "FORWARDING"]
          /\ LeftCfg \in [BpAttrs -> BOOLEAN]
      BY <1>7, <3>1 DEF LeavingPort, HwPorts, LeftCfg
    <3>3. H \in HwPorts
      BY <1>7, <3>1, <3>2 DEF LeavingPort, HwPorts, Tags, StpStates
    <3>4. H.vlans = FreshPort.vlans /\ H.stps = FreshPort.stps
      BY <1>2, <1>7, <3>2 DEF MemberOk, FreshPort
    <3> QED BY <1>7, <3>2, <3>3, <3>4 DEF OnItsOwn
  <2> QED BY <2>1, <2>2, <2>3
<1>9. LagOk(L, B) /\ p \notin L.mem
  BY <1>1, <1>3 DEF LagOk
<1>10. L.egDis \ {p} = lagDb[l].egDis \ {p} /\ L.inDis \ {p} = lagDb[l].inDis \ {p}
       /\ L.mem \ {p} = Members(l) \ {p}
  BY <1>1, <1>3
<1>11. stray' \subseteq MemberPorts /\ stray' \ {p} = stray \ {p}
  BY <1>5 DEF LpInv, LpTyped
<1> HIDE DEF H
<1> QED BY <1>2, <1>3, <1>4, <1>5, <1>8, <1>9, <1>10, <1>11, PortStep

(* set_lag_member_attribute of a member whose egress is disabled. *)
LEMMA SetLagMemberKeeps ==
  ASSUME LpInv, NEW l \in Lags, NEW p \in MemberPorts, NEW dir \in {"in", "eg"},
         NEW on \in BOOLEAN, SetLagMember(l, p, dir, on)
  PROVE  LpInv'
PROOF
<1> DEFINE B == bpDb[l]
           eg == IF dir = "eg" THEN lagDb[l].egDis \ {p} ELSE lagDb[l].egDis
           in == IF dir = "eg" THEN lagDb[l].inDis
                 ELSE IF on THEN lagDb[l].inDis \cup {p} ELSE lagDb[l].inDis \ {p}
           L == [lagDb[l] EXCEPT !.egDis = eg, !.inDis = in]
           gp == IF p \in in THEN "own" ELSE "lag"
           H == [hwMem[p] EXCEPT !.agg = IF dir = "eg" THEN TRUE ELSE @, !.gport = gp]
<1>1. /\ lagDb[l] \in LagRecords /\ B \in BridgePorts
      /\ Members(l) = lagDb[l].mem /\ LagOk(lagDb[l], B) /\ hwMem[p] \in HwPorts
  BY LagFact
<1>2. /\ p \in lagDb[l].egDis /\ p \in Members(l)
      /\ MemberOk(l, p, hwMem[p], lagDb[l], B, skew) /\ p \notin stray
      /\ \A k \in Lags \ {l} : p \notin Members(k)
  <2>1. p \in lagDb[l].egDis /\ p \in Members(l)
    BY <1>1 DEF SetLagMember, LagOk
  <2> QED BY <2>1, LagFact DEF LpInv
<1>3. /\ L \in LagRecords /\ L.live = lagDb[l].live /\ L.mem = lagDb[l].mem
      /\ L.egDis = eg /\ L.inDis = in /\ L.cb = lagDb[l].cb
      /\ L.dropU = lagDb[l].dropU /\ L.dropT = lagDb[l].dropT
  BY <1>1 DEF LagRecords
<1>4. UNCHANGED <<bpDb, skew, stray>>
  BY DEF SetLagMember
<1>5. lagDb' = [lagDb EXCEPT ![l] = L] /\ hwMem' = [hwMem EXCEPT ![p] = H]
  <2>1. lagDb \in [Lags -> LagRecords] /\ hwMem \in [MemberPorts -> HwPorts]
    BY DEF LpInv, LpTyped
  <2>2. CASE dir = "eg"
    BY <1>1, <2>1, <2>2 DEF SetLagMember, LagRecords, HwPorts
  <2>3. CASE dir = "in"
    BY <1>1, <2>1, <2>3 DEF SetLagMember, LagRecords, HwPorts
  <2> QED BY <2>2, <2>3
<1>6. /\ H \in HwPorts /\ H.agg = (IF dir = "eg" THEN TRUE ELSE hwMem[p].agg) /\ H.gport = gp
      /\ H.cfg = hwMem[p].cfg /\ H.vlans = hwMem[p].vlans /\ H.stps = hwMem[p].stps
      /\ H.ctl = hwMem[p].ctl
  BY <1>1 DEF HwPorts
<1>7. eg \ {p} = lagDb[l].egDis \ {p} /\ in \ {p} = lagDb[l].inDis \ {p}
      /\ (dir = "eg" => p \notin eg) /\ (dir # "eg" => eg = lagDb[l].egDis)
      /\ eg \subseteq Members(l) /\ in \subseteq Members(l)
  BY <1>1, <1>2 DEF LagOk
<1> HIDE DEF L, H, eg, in
<1>8. MemberOk(l, p, H, L, B, skew)
  BY <1>2, <1>3, <1>6, <1>7 DEF MemberOk
<1>9. LagOk(L, B) /\ p \in L.mem /\ L.mem \ {p} = Members(l) \ {p}
  BY <1>1, <1>2, <1>3, <1>7 DEF LagOk
<1>10. stray' \subseteq MemberPorts /\ stray' \ {p} = stray \ {p} /\ p \notin stray'
  BY <1>2, <1>4 DEF LpInv, LpTyped
<1> QED BY <1>2, <1>3, <1>4, <1>5, <1>6, <1>7, <1>8, <1>9, <1>10, PortStep

-----------------------------------------------------------------------------
(* create_bridge_port on a LAG: what it writes to the members, which were *)
(* as ports on their own, is what the record says or marked as skewed. *)
LEMMA CreateBridgePortKeeps ==
  ASSUME LpInv, NEW l \in Lags, NEW admin \in BOOLEAN, NEW filter \in BOOLEAN,
         CreateBridgePort(l, admin, filter)
  PROVE  LpInv'
PROOF
<1> DEFINE L == [lagDb[l] EXCEPT !.cb = TRUE]
           B == [NoBp EXCEPT !.live = TRUE, !.cfg.admin = admin]
<1>1. /\ lagDb[l] \in LagRecords /\ Members(l) \subseteq MemberPorts /\ Members(l) = lagDb[l].mem
      /\ LagOk(lagDb[l], bpDb[l]) /\ \A p \in MemberPorts : hwMem[p] \in HwPorts
      /\ \A p \in Members(l) : MemberOk(l, p, hwMem[p], lagDb[l], bpDb[l], skew)
  BY LagFact
<1>2. /\ lagDb' = [lagDb EXCEPT ![l] = L] /\ bpDb' = [bpDb EXCEPT ![l] = B]
      /\ UNCHANGED stray /\ lagDb[l].live /\ ~bpDb[l].live
      /\ skew' = skew \cup (IF filter THEN {<<l, "filter">>} ELSE {})
                      \cup (IF ~admin THEN {<<l, "admin">>} ELSE {})
  BY <1>1 DEF CreateBridgePort, LiveLag, LpInv, LpTyped
<1>3. hwMem' = [p \in MemberPorts |-> IF p \in Members(l)
                  THEN [hwMem[p] EXCEPT !.cfg.filter = filter,
                                        !.cfg.admin = IF admin THEN TRUE ELSE @]
                  ELSE hwMem[p]]
  BY DEF CreateBridgePort, WriteMembers
<1>4. /\ L \in LagRecords /\ L.live = lagDb[l].live /\ L.mem = lagDb[l].mem /\ L.cb
      /\ L.egDis = lagDb[l].egDis /\ L.inDis = lagDb[l].inDis
      /\ L.dropU = lagDb[l].dropU /\ L.dropT = lagDb[l].dropT
  BY <1>1 DEF LagRecords
<1>5. /\ B \in BridgePorts /\ B.live /\ B.vlans = NoBp.vlans /\ B.stps = NoBp.stps
      /\ B.cfg.admin = admin /\ B.cfg.filter = FALSE
  BY DEF BridgePorts, NoBp, BpAttrs, Tags, StpStates
<1>6. bpDb[l] = NoBp
  BY <1>1, <1>2 DEF LagOk
<1> HIDE DEF L, B
<1>7. ASSUME NEW p \in Members(l)
      PROVE  hwMem'[p] \in HwPorts /\ MemberOk(l, p, hwMem'[p], L, B, skew')
  <2> DEFINE c == [hwMem[p].cfg EXCEPT !["filter"] = filter,
                                       !["admin"] = IF admin THEN TRUE ELSE hwMem[p].cfg["admin"]]
             H == [hwMem[p] EXCEPT !.cfg = c]
  <2>1. hwMem[p] \in HwPorts /\ MemberOk(l, p, hwMem[p], lagDb[l], bpDb[l], skew)
    BY <1>1, <1>7
  <2>2. hwMem'[p] = H
    BY <1>1, <1>3, <1>7, <2>1 DEF HwPorts
  <2>3. hwMem[p].cfg = LeftCfg
    BY <1>2, <2>1 DEF MemberOk
  <2>4. c \in [BpAttrs -> BOOLEAN] /\ c["admin"] = TRUE /\ c["filter"] = filter
    BY <2>3 DEF LeftCfg, BpAttrs
  <2> HIDE DEF c
  <2>5. /\ H \in HwPorts /\ H.cfg = c /\ H.agg = hwMem[p].agg /\ H.gport = hwMem[p].gport
        /\ H.ctl = hwMem[p].ctl /\ H.vlans = hwMem[p].vlans /\ H.stps = hwMem[p].stps
    BY <2>1, <2>4 DEF HwPorts
  <2> HIDE DEF H
  <2>6. \A a \in BpAttrs : <<l, a>> \notin skew' => H.cfg[a] = B.cfg[a]
    <3>1. <<l, "admin">> \notin skew' => H.cfg["admin"] = B.cfg["admin"]
      BY <1>2, <1>5, <2>4, <2>5
    <3>2. <<l, "filter">> \notin skew' => H.cfg["filter"] = B.cfg["filter"]
      BY <1>2, <1>5, <2>4, <2>5
    <3> QED BY <3>1, <3>2 DEF BpAttrs
  <2>7. skew \subseteq skew'
    BY <1>2
  <2>8. MemberOk(l, p, H, L, B, skew')
    BY <1>4, <1>5, <1>6, <2>1, <2>5, <2>6, <2>7 DEF MemberOk
  <2> QED BY <2>2, <2>5, <2>8
<1>8. /\ hwMem' \in [MemberPorts -> HwPorts]
      /\ \A p \in MemberPorts \ Members(l) : hwMem'[p] = hwMem[p]
  BY <1>1, <1>3, <1>7
<1>9. SkewKept(l)
  BY <1>2 DEF SkewKept
<1>10. LagOk(L, B) /\ L.mem = Members(l)
  BY <1>1, <1>2, <1>4, <1>5 DEF LagOk
<1> QED BY <1>2, <1>4, <1>5, <1>7, <1>8, <1>9, <1>10, LagStep

(* remove_bridge_port: the LAG has no members left to keep in step. *)
LEMMA RemoveBridgePortKeeps ==
  ASSUME LpInv, NEW l \in Lags, RemoveBridgePort(l)
  PROVE  LpInv'
PROOF
<1>1. /\ bpDb' = [bpDb EXCEPT ![l] = NoBp] /\ Members(l) = {}
      /\ skew' = {x \in skew : x[1] # l} /\ UNCHANGED <<lagDb, hwMem, stray>>
  BY DEF RemoveBridgePort
<1>2. NoBp \in BridgePorts /\ ~NoBp.live
  BY DEF NoBp, BridgePorts, Tags
<1>3. /\ lagDb[l] \in LagRecords /\ Members(l) = lagDb[l].mem /\ LagOk(lagDb[l], bpDb[l])
  BY LagFact
<1>4. LagOk(lagDb[l], NoBp) /\ SkewKept(l) /\ hwMem' \in [MemberPorts -> HwPorts]
  BY <1>1, <1>2, <1>3 DEF LagOk, SkewKept, LpInv, LpTyped
<1> QED BY <1>1, <1>2, <1>3, <1>4, SameRecords, LagStep

(* What a handler of the bridge port of a LAG must show: it writes to every *)
(* member, and to the record, so that each member stays in step. *)
LEMMA BridgePortStep ==
  ASSUME LpInv, NEW l \in Lags, NEW B \in BridgePorts, bpDb[l].live, B.live,
         UNCHANGED <<lagDb, stray>>, bpDb' = [bpDb EXCEPT ![l] = B], SkewKept(l),
         hwMem' = [p \in MemberPorts |-> IF p \in Members(l) THEN hwMem'[p] ELSE hwMem[p]],
         \A p \in Members(l) : hwMem'[p] \in HwPorts /\ MemberOk(l, p, hwMem'[p], lagDb[l], B, skew')
  PROVE  LpInv'
PROOF
<1>1. /\ lagDb[l] \in LagRecords /\ Members(l) \subseteq MemberPorts
      /\ Members(l) = lagDb[l].mem /\ LagOk(lagDb[l], bpDb[l])
      /\ \A p \in MemberPorts : hwMem[p] \in HwPorts
  BY LagFact
<1>2. LagOk(lagDb[l], B)
  BY <1>1 DEF LagOk
<1>3. \A p \in MemberPorts : hwMem'[p] = IF p \in Members(l) THEN hwMem'[p] ELSE hwMem[p]
  OBVIOUS
<1>4. \A p \in MemberPorts : hwMem'[p] \in HwPorts
  BY <1>1, <1>3
<1>5. \A p \in MemberPorts \ Members(l) : hwMem'[p] = hwMem[p]
  BY <1>3
<1>6. hwMem' \in [MemberPorts -> HwPorts]
  BY <1>4
<1>7. lagDb' = [lagDb EXCEPT ![l] = lagDb[l]]
  BY SameRecords
<1>8. lagDb[l].mem = Members(l) /\ UNCHANGED stray
  BY <1>1
<1> HIDE DEF Members
<1> QED BY <1>1, <1>2, <1>5, <1>6, <1>7, <1>8, LagStep

(* set_port_property: to each member, then the record. *)
LEMMA SetBridgePortKeeps ==
  ASSUME LpInv, NEW l \in Lags, NEW a \in BpAttrs, NEW on \in BOOLEAN, SetBridgePort(l, a, on)
  PROVE  LpInv'
PROOF
<1> DEFINE B == [bpDb[l] EXCEPT !.cfg[a] = on]
<1>1. bpDb[l] \in BridgePorts /\ \A p \in Members(l) :
        p \in MemberPorts /\ hwMem[p] \in HwPorts
        /\ MemberOk(l, p, hwMem[p], lagDb[l], bpDb[l], skew)
  BY LagFact
<1>2. /\ bpDb[l].live /\ UNCHANGED <<lagDb, stray>> /\ bpDb' = [bpDb EXCEPT ![l] = B]
      /\ skew' = skew \ {<<l, a>>}
      /\ hwMem' = [p \in MemberPorts |-> IF p \in Members(l) THEN [hwMem[p] EXCEPT !.cfg[a] = on]
                                         ELSE hwMem[p]]
  BY DEF SetBridgePort, WriteMembers, LpInv, LpTyped
<1>3. \A p \in Members(l) : hwMem'[p] \in HwPorts /\ MemberOk(l, p, hwMem'[p], lagDb[l], B, skew')
  BY <1>1, <1>2, CfgWritten
<1>4. B \in BridgePorts /\ B.live /\ SkewKept(l)
  BY <1>1, <1>2 DEF BridgePorts, SkewKept
<1>5. hwMem' = [p \in MemberPorts |-> IF p \in Members(l) THEN hwMem'[p] ELSE hwMem[p]]
  BY <1>2
<1> HIDE DEF B
<1> QED BY <1>2, <1>3, <1>4, <1>5, BridgePortStep

-----------------------------------------------------------------------------
(* create_vlan_member, remove_vlan_member and set_vlan_member_tag, which *)
(* leaves the record's tag mode alone and is marked as skewed. *)
LEMMA CreateVlanMemberKeeps ==
  ASSUME LpInv, NEW l \in Lags, NEW v \in LagVlans, NEW tag \in {"tagged", "untagged"}, CreateVlanMember(l, v, tag)
  PROVE  LpInv'
PROOF
<1> DEFINE B == [bpDb[l] EXCEPT !.vlans[v] = tag]
<1>1. bpDb[l] \in BridgePorts /\ \A p \in Members(l) :
        p \in MemberPorts /\ hwMem[p] \in HwPorts
        /\ MemberOk(l, p, hwMem[p], lagDb[l], bpDb[l], skew)
  BY LagFact
<1>2. /\ bpDb[l].live /\ UNCHANGED <<lagDb, stray>> /\ bpDb' = [bpDb EXCEPT ![l] = B]
      /\ skew' = skew
      /\ hwMem' = [p \in MemberPorts |-> IF p \in Members(l) THEN [hwMem[p] EXCEPT !.vlans[v] = tag]
                                         ELSE hwMem[p]]
  BY DEF CreateVlanMember, WriteMembers, LpInv, LpTyped
<1>3. \A p \in Members(l) : hwMem'[p] \in HwPorts /\ MemberOk(l, p, hwMem'[p], lagDb[l], B, skew')
  <2> SUFFICES ASSUME NEW p \in Members(l)
               PROVE  hwMem'[p] \in HwPorts /\ MemberOk(l, p, hwMem'[p], lagDb[l], B, skew')
    OBVIOUS
  <2>1. tag \in Tags
    BY DEF Tags
  <2>2. hwMem'[p] \in HwPorts /\ MemberOk(l, p, hwMem'[p], lagDb[l], B, skew \ {<<l, "tag", v>>})
    BY <1>1, <1>2, <2>1, VlanWritten
  <2> QED BY <1>2, <2>2, MoreSkewed
<1>4. B \in BridgePorts /\ B.live /\ SkewKept(l)
  BY <1>1, <1>2 DEF BridgePorts, SkewKept, Tags
<1>5. hwMem' = [p \in MemberPorts |-> IF p \in Members(l) THEN hwMem'[p] ELSE hwMem[p]]
  BY <1>2
<1> HIDE DEF B
<1> QED BY <1>2, <1>3, <1>4, <1>5, BridgePortStep

(* remove_vlan_member. *)
LEMMA RemoveVlanMemberKeeps ==
  ASSUME LpInv, NEW l \in Lags, NEW v \in LagVlans, RemoveVlanMember(l, v)
  PROVE  LpInv'
PROOF
<1> DEFINE B == [bpDb[l] EXCEPT !.vlans[v] = "no"]
<1>1. bpDb[l] \in BridgePorts /\ \A p \in Members(l) :
        p \in MemberPorts /\ hwMem[p] \in HwPorts
        /\ MemberOk(l, p, hwMem[p], lagDb[l], bpDb[l], skew)
  BY LagFact
<1>2. /\ bpDb[l].live /\ UNCHANGED <<lagDb, stray>> /\ bpDb' = [bpDb EXCEPT ![l] = B]
      /\ skew' = skew \ {<<l, "tag", v>>}
      /\ hwMem' = [p \in MemberPorts |-> IF p \in Members(l) THEN [hwMem[p] EXCEPT !.vlans[v] = "no"]
                                         ELSE hwMem[p]]
  BY DEF RemoveVlanMember, WriteMembers, LpInv, LpTyped
<1>3. \A p \in Members(l) : hwMem'[p] \in HwPorts /\ MemberOk(l, p, hwMem'[p], lagDb[l], B, skew')
  <2>1. "no" \in Tags
    BY DEF Tags
  <2> QED BY <1>1, <1>2, <2>1, VlanWritten
<1>4. B \in BridgePorts /\ B.live /\ SkewKept(l)
  BY <1>1, <1>2 DEF BridgePorts, SkewKept, Tags
<1>5. hwMem' = [p \in MemberPorts |-> IF p \in Members(l) THEN hwMem'[p] ELSE hwMem[p]]
  BY <1>2
<1> HIDE DEF B
<1> QED BY <1>2, <1>3, <1>4, <1>5, BridgePortStep

(* set_vlan_member_tag. *)
LEMMA SetVlanMemberTagKeeps ==
  ASSUME LpInv, NEW l \in Lags, NEW v \in LagVlans, NEW tag \in {"tagged", "untagged"}, SetVlanMemberTag(l, v, tag)
  PROVE  LpInv'
PROOF
<1> DEFINE B == bpDb[l]
<1>1. bpDb[l] \in BridgePorts /\ \A p \in Members(l) :
        p \in MemberPorts /\ hwMem[p] \in HwPorts
        /\ MemberOk(l, p, hwMem[p], lagDb[l], bpDb[l], skew)
  BY LagFact
<1>2. /\ bpDb[l].live /\ UNCHANGED <<lagDb, stray>> /\ bpDb' = [bpDb EXCEPT ![l] = B]
      /\ skew' = skew \cup {<<l, "tag", v>>} /\ bpDb[l].vlans[v] # "no"
      /\ hwMem' = [p \in MemberPorts |-> IF p \in Members(l) THEN [hwMem[p] EXCEPT !.vlans[v] = tag]
                                         ELSE hwMem[p]]
  BY SameRecords DEF SetVlanMemberTag, WriteMembers, LpInv, LpTyped
<1>3. \A p \in Members(l) : hwMem'[p] \in HwPorts /\ MemberOk(l, p, hwMem'[p], lagDb[l], B, skew')
  <2>1. tag \in Tags /\ tag # "no"
    BY DEF Tags
  <2> QED BY <1>1, <1>2, <2>1, VlanWritten
<1>4. B \in BridgePorts /\ B.live /\ SkewKept(l)
  BY <1>1, <1>2 DEF BridgePorts, SkewKept
<1>5. hwMem' = [p \in MemberPorts |-> IF p \in Members(l) THEN hwMem'[p] ELSE hwMem[p]]
  BY <1>2
<1> HIDE DEF B
<1> QED BY <1>2, <1>3, <1>4, <1>5, BridgePortStep

(* create_stp_port, remove_stp_port and set_port_info, which leaves the *)
(* record's state alone. *)
LEMMA CreateStpPortKeeps ==
  ASSUME LpInv, NEW l \in Lags, NEW s \in LagStps, NEW st \in StpStates, CreateStpPort(l, s, st)
  PROVE  LpInv'
PROOF
<1> DEFINE B == [bpDb[l] EXCEPT !.stps[s] = st]
<1>1. bpDb[l] \in BridgePorts /\ \A p \in Members(l) :
        p \in MemberPorts /\ hwMem[p] \in HwPorts
        /\ MemberOk(l, p, hwMem[p], lagDb[l], bpDb[l], skew)
  BY LagFact
<1>2. /\ bpDb[l].live /\ UNCHANGED <<lagDb, stray>> /\ bpDb' = [bpDb EXCEPT ![l] = B]
      /\ skew' = skew
      /\ hwMem' = [p \in MemberPorts |-> IF p \in Members(l) THEN [hwMem[p] EXCEPT !.stps[s] = st]
                                         ELSE hwMem[p]]
  BY DEF CreateStpPort, WriteMembers, LpInv, LpTyped
<1>3. \A p \in Members(l) : hwMem'[p] \in HwPorts /\ MemberOk(l, p, hwMem'[p], lagDb[l], B, skew')
  BY <1>1, <1>2, StpWritten
<1>4. B \in BridgePorts /\ B.live /\ SkewKept(l)
  BY <1>1, <1>2 DEF BridgePorts, SkewKept
<1>5. hwMem' = [p \in MemberPorts |-> IF p \in Members(l) THEN hwMem'[p] ELSE hwMem[p]]
  BY <1>2
<1> HIDE DEF B
<1> QED BY <1>2, <1>3, <1>4, <1>5, BridgePortStep

(* remove_stp_port. *)
LEMMA RemoveStpPortKeeps ==
  ASSUME LpInv, NEW l \in Lags, NEW s \in LagStps, RemoveStpPort(l, s)
  PROVE  LpInv'
PROOF
<1> DEFINE B == [bpDb[l] EXCEPT !.stps[s] = "no"]
<1>1. bpDb[l] \in BridgePorts /\ \A p \in Members(l) :
        p \in MemberPorts /\ hwMem[p] \in HwPorts
        /\ MemberOk(l, p, hwMem[p], lagDb[l], bpDb[l], skew)
  BY LagFact
<1>2. /\ bpDb[l].live /\ UNCHANGED <<lagDb, stray>> /\ bpDb' = [bpDb EXCEPT ![l] = B]
      /\ skew' = skew \ {<<l, "stp", s>>}
      /\ hwMem' = [p \in MemberPorts |-> IF p \in Members(l) THEN [hwMem[p] EXCEPT !.stps[s] = "FORWARDING"]
                                         ELSE hwMem[p]]
  BY DEF RemoveStpPort, WriteMembers, LpInv, LpTyped
<1>3. \A p \in Members(l) : hwMem'[p] \in HwPorts /\ MemberOk(l, p, hwMem'[p], lagDb[l], B, skew')
  <2>1. "FORWARDING" \in StpStates
    BY DEF StpStates
  <2> QED BY <1>1, <1>2, <2>1, StpWritten
<1>4. B \in BridgePorts /\ B.live /\ SkewKept(l)
  BY <1>1, <1>2 DEF BridgePorts, SkewKept
<1>5. hwMem' = [p \in MemberPorts |-> IF p \in Members(l) THEN hwMem'[p] ELSE hwMem[p]]
  BY <1>2
<1> HIDE DEF B
<1> QED BY <1>2, <1>3, <1>4, <1>5, BridgePortStep

(* set_port_info. *)
LEMMA SetStpPortKeeps ==
  ASSUME LpInv, NEW l \in Lags, NEW s \in LagStps, NEW st \in StpStates, SetStpPort(l, s, st)
  PROVE  LpInv'
PROOF
<1> DEFINE B == bpDb[l]
<1>1. bpDb[l] \in BridgePorts /\ \A p \in Members(l) :
        p \in MemberPorts /\ hwMem[p] \in HwPorts
        /\ MemberOk(l, p, hwMem[p], lagDb[l], bpDb[l], skew)
  BY LagFact
<1>2. /\ bpDb[l].live /\ UNCHANGED <<lagDb, stray>> /\ bpDb' = [bpDb EXCEPT ![l] = B]
      /\ skew' = skew \cup {<<l, "stp", s>>} /\ bpDb[l].stps[s] # "no"
      /\ hwMem' = [p \in MemberPorts |-> IF p \in Members(l) THEN [hwMem[p] EXCEPT !.stps[s] = st]
                                         ELSE hwMem[p]]
  BY SameRecords DEF SetStpPort, WriteMembers, LpInv, LpTyped
<1>3. \A p \in Members(l) : hwMem'[p] \in HwPorts /\ MemberOk(l, p, hwMem'[p], lagDb[l], B, skew')
  BY <1>1, <1>2, StpWritten
<1>4. B \in BridgePorts /\ B.live /\ SkewKept(l)
  BY <1>1, <1>2 DEF BridgePorts, SkewKept
<1>5. hwMem' = [p \in MemberPorts |-> IF p \in Members(l) THEN hwMem'[p] ELSE hwMem[p]]
  BY <1>2
<1> HIDE DEF B
<1> QED BY <1>2, <1>3, <1>4, <1>5, BridgePortStep

-----------------------------------------------------------------------------
(* No LAG, no bridge port: every port is on its own. *)
LEMMA LpInitially == LpInit => LpInv
PROOF
<1> SUFFICES ASSUME LpInit PROVE LpInv
  OBVIOUS
<1>1. NoLag \in LagRecords /\ NoBp \in BridgePorts /\ FreshPort \in HwPorts
  BY DEF NoLag, LagRecords, NoBp, BridgePorts, Tags, FreshPort, HwPorts, LeftCfg, StpStates, Modes
<1>2. LpTyped
  BY <1>1 DEF LpInit, LpTyped
<1>3. \A l \in Lags : Members(l) = {} /\ LagOk(lagDb[l], bpDb[l])
  BY DEF LpInit, Members, NoLag, NoBp, LagOk
<1>4. OnItsOwn(FreshPort)
  BY DEF OnItsOwn, FreshPort
<1>5. \A p \in MemberPorts : OnItsOwn(hwMem[p])
  BY <1>4 DEF LpInit
<1> QED BY <1>2, <1>3, <1>5 DEF LpInv

(* Every call of the client keeps the invariant, within any bound on what *)
(* may be skewed at a time. *)
LEMMA LpCallsKeep == LpInv /\ [LpSteps]_lpVars => LpInv'
PROOF
<1> SUFFICES ASSUME LpInv, [LpSteps]_lpVars PROVE LpInv'
  OBVIOUS
<1>1. CASE UNCHANGED lpVars
  BY <1>1 DEF lpVars, LpInv, LpTyped, Members, LagOk, MemberOk, OnItsOwn
<1>2. CASE LpSteps
  <2>1. PICK l \in Lags :
          \/ \E u, t \in BOOLEAN : CreateLag(l, u, t)
          \/ RemoveLag(l) \/ RemoveBridgePort(l)
          \/ \E tag \in {"u", "t"}, on \in BOOLEAN : SetLagDrop(l, tag, on)
          \/ \E p \in MemberPorts, d \in Disables : CreateLagMember(l, p, d)
          \/ \E p \in MemberPorts : RemoveLagMember(l, p)
          \/ \E p \in MemberPorts, dir \in {"in", "eg"}, on \in BOOLEAN : SetLagMember(l, p, dir, on)
          \/ \E admin, filter \in BOOLEAN : CreateBridgePort(l, admin, filter)
          \/ \E a \in BpAttrs, on \in BOOLEAN : SetBridgePort(l, a, on)
          \/ \E v \in LagVlans, tag \in {"tagged", "untagged"} :
               CreateVlanMember(l, v, tag) \/ SetVlanMemberTag(l, v, tag)
          \/ \E v \in LagVlans : RemoveVlanMember(l, v)
          \/ \E s \in LagStps, st \in StpStates : CreateStpPort(l, s, st) \/ SetStpPort(l, s, st)
          \/ \E s \in LagStps : RemoveStpPort(l, s)
    BY <1>2 DEF LpSteps
  <2>2. CASE \E u, t \in BOOLEAN : CreateLag(l, u, t)
    BY <2>2, CreateLagKeeps
  <2>3. CASE RemoveLag(l)
    BY <2>3, RemoveLagKeeps
  <2>4. CASE RemoveBridgePort(l)
    BY <2>4, RemoveBridgePortKeeps
  <2>5. CASE \E tag \in {"u", "t"}, on \in BOOLEAN : SetLagDrop(l, tag, on)
    BY <2>5, SetLagDropKeeps
  <2>6. CASE \E p \in MemberPorts, d \in Disables : CreateLagMember(l, p, d)
    BY <2>6, CreateLagMemberKeeps
  <2>7. CASE \E p \in MemberPorts : RemoveLagMember(l, p)
    BY <2>7, RemoveLagMemberKeeps
  <2>8. CASE \E p \in MemberPorts, dir \in {"in", "eg"}, on \in BOOLEAN : SetLagMember(l, p, dir, on)
    BY <2>8, SetLagMemberKeeps
  <2>9. CASE \E admin, filter \in BOOLEAN : CreateBridgePort(l, admin, filter)
    BY <2>9, CreateBridgePortKeeps
  <2>10. CASE \E a \in BpAttrs, on \in BOOLEAN : SetBridgePort(l, a, on)
    BY <2>10, SetBridgePortKeeps
  <2>11. CASE \E v \in LagVlans, tag \in {"tagged", "untagged"} :
                CreateVlanMember(l, v, tag) \/ SetVlanMemberTag(l, v, tag)
    BY <2>11, CreateVlanMemberKeeps, SetVlanMemberTagKeeps
  <2>12. CASE \E v \in LagVlans : RemoveVlanMember(l, v)
    BY <2>12, RemoveVlanMemberKeeps
  <2>13. CASE \E s \in LagStps, st \in StpStates : CreateStpPort(l, s, st) \/ SetStpPort(l, s, st)
    BY <2>13, CreateStpPortKeeps, SetStpPortKeeps
  <2>14. CASE \E s \in LagStps : RemoveStpPort(l, s)
    BY <2>14, RemoveStpPortKeeps
  <2> QED BY <2>1, <2>2, <2>3, <2>4, <2>5, <2>6, <2>7, <2>8, <2>9, <2>10, <2>11, <2>12,
             <2>13, <2>14
<1> QED BY <1>1, <1>2

(* What the invariant says in the words of the two properties. *)
LEMMA LpInvGives == LpInv => MembersFollow /\ AggregationExact
PROOF
<1> SUFFICES ASSUME LpInv PROVE MembersFollow /\ AggregationExact
  OBVIOUS
<1>1. \A l \in Lags : LagOk(lagDb[l], bpDb[l]) /\ Members(l) = lagDb[l].mem
                      /\ Members(l) \subseteq MemberPorts /\ lagDb[l] \in LagRecords
                      /\ bpDb[l] \in BridgePorts
  BY LagFact
<1>2. \A p \in MemberPorts : hwMem[p] \in HwPorts
  BY DEF LpInv, LpTyped
<1>3. MembersFollow
  <2> SUFFICES ASSUME NEW l \in Lags, NEW p \in Members(l) \ stray
               PROVE  /\ InStep(l, "ctl") => hwMem[p].ctl = [u |-> lagDb[l].dropU, t |-> lagDb[l].dropT]
                      /\ bpDb[l].live =>
                           /\ \A a \in BpAttrs : InStep(l, a) => hwMem[p].cfg[a] = bpDb[l].cfg[a]
                           /\ \A v \in LagVlans :
                                /\ (hwMem[p].vlans[v] = "no") = (bpDb[l].vlans[v] = "no")
                                /\ <<l, "tag", v>> \notin skew => hwMem[p].vlans[v] = bpDb[l].vlans[v]
                           /\ \A s \in LagStps : bpDb[l].stps[s] # "no" /\ <<l, "stp", s>> \notin skew =>
                                                   hwMem[p].stps[s] = bpDb[l].stps[s]
    BY DEF MembersFollow
  <2>1. MemberOk(l, p, hwMem[p], lagDb[l], bpDb[l], skew)
    BY DEF LpInv
  <2> QED BY <2>1 DEF MemberOk, InStep
<1>4. ASSUME NEW p \in MemberPorts \ stray
      PROVE  /\ hwMem[p].agg = (\E l \in Lags : p \in Members(l) \ lagDb[l].egDis)
             /\ (hwMem[p].gport = "lag") = (\E l \in Lags : p \in Members(l) \ lagDb[l].inDis)
             /\ (\A l \in Lags : p \notin Members(l)) =>
                  /\ hwMem[p].cfg = LeftCfg /\ hwMem[p].vlans = FreshPort.vlans
                  /\ hwMem[p].stps = FreshPort.stps
  <2>1. hwMem[p].agg \in BOOLEAN
    BY <1>2 DEF HwPorts
  <2>2. CASE \A l \in Lags : p \notin Members(l)
    <3>1. OnItsOwn(hwMem[p])
      BY <2>2 DEF LpInv
    <3> QED BY <2>1, <2>2, <3>1 DEF OnItsOwn
  <2>3. CASE \E l \in Lags : p \in Members(l)
    <3>1. PICK l \in Lags : p \in Members(l)
      BY <2>3
    <3>2. \A k \in Lags \ {l} : p \notin Members(k)
      BY <3>1 DEF LpInv
    <3>3. MemberOk(l, p, hwMem[p], lagDb[l], bpDb[l], skew)
      BY <3>1 DEF LpInv
    <3>4. /\ hwMem[p].agg <=> p \notin lagDb[l].egDis
          /\ hwMem[p].gport = "lag" <=> p \notin lagDb[l].inDis
      BY <3>3 DEF MemberOk
    <3> QED BY <2>1, <3>1, <3>2, <3>4
  <2> QED BY <2>2, <2>3
<1> QED BY <1>3, <1>4 DEF AggregationExact

(* The invariant holds of every run of the LAG and bridge port handlers. *)
LEMMA LpInvariant == LpSpec => []LpInv
PROOF
<1>1. LpInv /\ [LpNext]_lpVars => LpInv'
  BY LpCallsKeep DEF LpNext
<1> QED BY <1>1, LpInitially, PTL DEF LpSpec

(* Whatever LAGs, ports, VLANs and STP instances there are and in whatever *)
(* order they are configured: every member of a LAG is as the records of *)
(* its bridge port say, apart from what is marked as written without a *)
(* record (bridge_port_lag_member_change_cb_fn, set_port_property). *)
THEOREM MembersInStep == LpSpec => []MembersFollow
BY LpInvariant, LpInvGives, PTL

(* The chip aggregates exactly the members that may send and takes for the *)
(* LAG what exactly the members that may receive take in, and a port that *)
(* left carries nothing over (create_lag_member, remove_lag_member, *)
(* set_lag_member_info). *)
THEOREM AggregationIsExact == LpSpec => []AggregationExact
BY LpInvariant, LpInvGives, PTL
=============================================================================
