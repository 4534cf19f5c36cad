---------------------------- MODULE DropCounter ----------------------------
(* Debug counters (ctc_sai_debug_counter.c): a counter of a port or of the *)
(* switch counts the frames dropped for the reasons in its list. The client *)
(* reads it by its index, one of a pool for each direction. The hardware *)
(* counts per port and per reason of its own, of which several reasons of the *)
(* interface can be one. *)
EXTENDS Integers, Sequences, FiniteSets, FiniteSetsExt, SequencesExt, Folds

CONSTANTS
  DcIds, DcPorts, DcTypes, DcReasons,
  DcIndexes,   \* indexes of each pool, 4096 in the code
  DcMaxDrops   \* bound on the drops of a port for a reason

ASSUME DcAssumption == DcIndexes \in Nat \ {0} /\ DcMaxDrops \in Nat

VARIABLES
  dcRec,     \* counters: -> [type, reasons, index]
  dcPool,    \* direction -> indexes in use
  dcHw,      \* hardware: port -> reason of the hardware -> frames
  dcSeen,    \* history: counter -> port -> frames dropped for its reasons since its last clear, 0 for those in dcOff
  dcOff      \* history: counters with a port where the hardware counts something else too

dcVars == <<dcRec, dcPool, dcHw, dcSeen, dcOff>>

DcPut(f, k, v) == [x \in DOMAIN f \cup {k} |-> IF x = k THEN v ELSE f[x]]
DcDrop(f, k) == [x \in DOMAIN f \ {k} |-> f[x]]

Dir(type) == IF type \in {"PORT_IN", "SWITCH_IN"} THEN "IN" ELSE "OUT"

(* Some of the reasons, in the order of the headers, and what the hardware *)
(* calls them; TTL has no name there. *)
ReasonOrder == <<"SMAC_MULTICAST", "SMAC_EQUALS_DMAC", "FDB_UC_DISCARD", "TTL",
                 "BLACKHOLE_ROUTE", "EGRESS_VLAN_FILTER">>
HwReason == [SMAC_MULTICAST |-> "L2_ILLEGAL", SMAC_EQUALS_DMAC |-> "L2_ILLEGAL",
             FDB_UC_DISCARD |-> "DIS_FORWARDING", BLACKHOLE_ROUTE |-> "DIS_FORWARDING",
             EGRESS_VLAN_FILTER |-> "EPE_VLAN_FILTER"]
Mapped(reason) == reason \in DOMAIN HwReason
ReasonDir(reason) == IF reason = "EGRESS_VLAN_FILTER" THEN "OUT" ELSE "IN"
HwNames == Range(HwReason)
HwReasonsOf(reasons) == {HwReason[r] : r \in {x \in reasons : Mapped(x)}}

(* A reason of 32 or more is looked for with a shift past the word's width: *)
(* it is found or not. *)
Wide == {"BLACKHOLE_ROUTE"}
ReasonsFound(c, folded) == IF folded THEN dcRec[c].reasons \ Wide ELSE dcRec[c].reasons

(* drop_reason_map leaves its result alone for a reason without a name: the *)
(* one before it is read again. *)
ReadAs(reasons) ==
  LET asked == SelectSeq(ReasonOrder, LAMBDA r : r \in reasons)
      hw[i \in 0..Len(asked)] ==
        IF i = 0 THEN "NONE" ELSE IF Mapped(asked[i]) THEN HwReason[asked[i]] ELSE hw[i - 1]
  IN [i \in DOMAIN asked |-> hw[i]]

PortCount(c, p, folded) ==
  LET hw == ReadAs(ReasonsFound(c, folded))
  IN FoldLeft(LAMBDA sum, h : sum + IF h = "NONE" THEN 0 ELSE dcHw[p][h], 0, hw)

(* The counter of a type and an index; two indexes are past the range that *)
(* the statistics of a port and of the switch have. *)
AtIndex(type, index) == {c \in DOMAIN dcRec : dcRec[c].type = type /\ dcRec[c].index = index}
Readable(c) == dcRec[c].index <= DcIndexes - 2

Exact(c) ==
  /\ dcRec[c].reasons \cap Wide = {} /\ \A r \in dcRec[c].reasons : Mapped(r)
  /\ \A r, s \in dcRec[c].reasons : r # s => HwReason[r] # HwReason[s]

Dirty(reasons) == {p \in DcPorts : \E h \in HwReasonsOf(reasons) : dcHw[p][h] > 0}

Tracked(c, reasons) ==
  /\ dcSeen' = DcPut(dcSeen, c, [p \in DcPorts |-> 0])
  /\ dcOff' = {x \in dcOff : x[1] # c} \cup {<<c, p>> : p \in Dirty(reasons)}

CreateCounter(c, type, reasons) ==
  /\ c \notin DOMAIN dcRec
  /\ \A r \in reasons : Mapped(r) /\ ReasonDir(r) = Dir(type)
  /\ dcPool[Dir(type)] # 1..DcIndexes
  /\ LET index == Min((1..DcIndexes) \ dcPool[Dir(type)])
     IN /\ dcRec' = DcPut(dcRec, c, [type |-> type, reasons |-> reasons, index |-> index])
        /\ dcPool' = [dcPool EXCEPT ![Dir(type)] = @ \cup {index}]
  /\ Tracked(c, reasons)
  /\ UNCHANGED dcHw

\* mutant: the index goes back to the pool of arriving frames
RemoveCounterIn(c) ==
  /\ c \in DOMAIN dcRec
  /\ dcPool' = [dcPool EXCEPT !["IN"] = @ \ {dcRec[c].index}]
  /\ dcRec' = DcDrop(dcRec, c)
  /\ dcSeen' = DcDrop(dcSeen, c) /\ dcOff' = {x \in dcOff : x[1] # c}
  /\ UNCHANGED dcHw

RemoveCounter(c) ==
  /\ c \in DOMAIN dcRec
  /\ dcPool' = [dcPool EXCEPT ![Dir(dcRec[c].type)] = @ \ {dcRec[c].index}]
  /\ dcRec' = DcDrop(dcRec, c)
  /\ dcSeen' = DcDrop(dcSeen, c) /\ dcOff' = {x \in dcOff : x[1] # c}
  /\ UNCHANGED dcHw

(* A set of the list asks for the direction only: reasons without a name in *)
(* the hardware are taken. *)
SetReasons(c, reasons) ==
  /\ c \in DOMAIN dcRec /\ \A r \in reasons : ReasonDir(r) = Dir(dcRec[c].type)
  /\ dcRec' = [dcRec EXCEPT ![c].reasons = reasons]
  /\ Tracked(c, reasons)
  /\ UNCHANGED <<dcPool, dcHw>>

(* The hardware drops a frame. *)
DropFrame(p, reason) ==
  /\ Mapped(reason) /\ dcHw[p][HwReason[reason]] < DcMaxDrops
  /\ dcHw' = [dcHw EXCEPT ![p][HwReason[reason]] = @ + 1]
  /\ dcOff' = dcOff \cup {<<c, p>> : c \in {x \in DOMAIN dcRec :
                            HwReason[reason] \in HwReasonsOf(dcRec[x].reasons) /\ reason \notin dcRec[x].reasons}}
  /\ dcSeen' = [c \in DOMAIN dcSeen |-> [dcSeen[c] EXCEPT ![p] =
                  IF <<c, p>> \in dcOff' THEN 0 ELSE IF reason \in dcRec[c].reasons THEN @ + 1 ELSE @]]
  /\ UNCHANGED <<dcRec, dcPool>>

(* A read with clear takes the frames from every counter that has the reason. *)
Cleared(cs, ports, folded) ==
  LET hit == UNION {HwReasonsOf(ReasonsFound(c, folded)) : c \in cs}
      touched(c, p) == \E h \in hit \cap HwReasonsOf(dcRec[c].reasons) : dcHw[p][h] > 0
  IN /\ dcHw' = [p \in DcPorts |-> [h \in HwNames |-> IF p \in ports /\ h \in hit THEN 0 ELSE dcHw[p][h]]]
     /\ dcOff' = {x \in dcOff : ~(x[1] \in cs /\ x[2] \in ports)}
                 \cup {x \in (DOMAIN dcRec \ cs) \X ports : touched(x[1], x[2])}
     /\ dcSeen' = [c \in DOMAIN dcSeen |-> [p \in DcPorts |->
                     IF (c \in cs /\ p \in ports) \/ <<c, p>> \in dcOff' THEN 0 ELSE dcSeen[c][p]]]
     /\ UNCHANGED <<dcRec, dcPool>>

(* get_port_stats with clear, by the index of a counter of ports. *)
ClearPort(p, type, index, folded) ==
  /\ type \in {"PORT_IN", "PORT_OUT"} /\ index <= DcIndexes - 2 /\ AtIndex(type, index) # {}
  /\ Cleared(AtIndex(type, index), {p}, folded)

(* clear_port_all_stats goes through every index of both directions. *)
ClearPortAll(p, folded) ==
  Cleared({c \in DOMAIN dcRec : dcRec[c].type \in {"PORT_IN", "PORT_OUT"} /\ Readable(c)}, {p}, folded)

(* get_switch_stats with clear: over the ports. *)
ClearSwitch(type, index, folded) ==
  /\ type \in {"SWITCH_IN", "SWITCH_OUT"} /\ index <= DcIndexes - 2 /\ AtIndex(type, index) # {}
  /\ Cleared(AtIndex(type, index), DcPorts, folded)

DcInit ==
  /\ dcRec = << >> /\ dcPool = [d \in {"IN", "OUT"} |-> {}]
  /\ dcHw = [p \in DcPorts |-> [h \in HwNames |-> 0]]
  /\ dcSeen = << >> /\ dcOff = {}

Lists == {l \in SUBSET DcReasons : Cardinality(l) <= 2}

DcNext ==
  \/ \E c \in DcIds, t \in DcTypes, l \in Lists : CreateCounter(c, t, l)
  \/ \E c \in DcIds, l \in Lists : SetReasons(c, l)
  \/ \E c \in DcIds : RemoveCounter(c)
  \/ \E p \in DcPorts, r \in DcReasons : DropFrame(p, r)
  \/ \E p \in DcPorts, t \in DcTypes, i \in 1..DcIndexes, b \in BOOLEAN : ClearPort(p, t, i, b)
  \/ \E p \in DcPorts, b \in BOOLEAN : ClearPortAll(p, b)
  \/ \E t \in DcTypes, i \in 1..DcIndexes, b \in BOOLEAN : ClearSwitch(t, i, b)

(* A counter is found by its index (_ctc_sai_debug_counter_find_stat_index): *)
(* of those of a direction no two share one, and the pool has the others; and *)
(* a port's read gives the frames dropped there for the reasons of the *)
(* counter since its last clear, unless another counter or another reason has *)
(* a part in what the hardware counts (_ctc_sai_debug_counter_get_port_stats).*)
DropsExact ==
  /\ \A d \in {"IN", "OUT"} : dcPool[d] = {dcRec[c].index : c \in {x \in DOMAIN dcRec : Dir(dcRec[x].type) = d}}
  /\ \A c, e \in DOMAIN dcRec :
       c # e /\ Dir(dcRec[c].type) = Dir(dcRec[e].type) => dcRec[c].index # dcRec[e].index
  /\ \A c \in DOMAIN dcRec, p \in DcPorts, folded \in BOOLEAN :
       Exact(c) /\ <<c, p>> \notin dcOff => PortCount(c, p, folded) = dcSeen[c][p]
=============================================================================
