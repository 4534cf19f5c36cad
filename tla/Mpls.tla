-------------------------------- MODULE Mpls --------------------------------
(* The labels of the switch: in-segments (ctc_sai_mpls.c), the labels of *)
(* ethernet segments (ctc_sai_es.c) that share the label table with them, the *)
(* pseudo-wire tunnels that write to the entry of their label *)
(* (set_tunnel_property) and the ports that count the segments they belong to *)
(* (ctc_sai_port.c). *)
(* *)
(* An in-segment names a tunnel only together with an interface of a bridge, *)
(* which is what makes it a pseudo-wire. *)
EXTENDS Naturals, Integers, FiniteSets, FiniteSetsExt

CONSTANTS
  MpLabels, MpSegs,   \* labels and the pool of segment ids
  MpNhs, MpIfs,       \* next hops, and interfaces of a bridge
  MpTuns, MpPorts,    \* pseudo-wire tunnels, ports
  MpActions           \* packet actions in use

ASSUME MplsAssumption ==
  /\ MpLabels \subseteq Nat \ {0} /\ MpSegs \subseteq Nat \ {0}
  /\ MpNhs \cup MpIfs \subseteq Nat \ {0} /\ MpNhs \cap MpIfs = {}
  /\ MpTuns \subseteq Nat \ {0}
  /\ MpActions \subseteq {"FORWARD", "DROP", "TRAP"}

VARIABLES
  mpInseg,   \* records of the in-segments: action, next hop
  mpWire,    \* the tunnel each in-segment was created with (0: none), which
             \* the record has a field for that nothing writes
  mpEs,      \* records of the segments: label, ref_cnt
  mpTun,     \* the pseudo-wire tunnels: inseg_label, decap_cw_en
  mpPort,    \* ports with a record: ethernet_segment; and what was written
  mpIlm,     \* the label table of the hardware
  mpGone,    \* ids of removed segments that remove_es has not given back yet
  mpWait,    \* the label of a create_es between its look-up and the lock, or 0
  mpLoose,   \* labels their tunnel no longer writes to, or another one wrote to
  mpSkew,    \* a port was created with a segment, or removed with one
  mpStuck    \* the lock is held for ever, or a null pointer was read

mpVars == <<mpInseg, mpWire, mpEs, mpTun, mpPort, mpIlm, mpWait, mpLoose, mpSkew,
            mpStuck, mpGone>>

MpPut(f, k, v) == [x \in DOMAIN f \cup {k} |-> IF x = k THEN v ELSE f[x]]
MpDrop(f, k) == [x \in DOMAIN f \ {k} |-> f[x]]

-----------------------------------------------------------------------------
(* mpls_get_ctc_nh_id writes the next hop, and for an interface pop and decap *)
(* on top of what the entry has. *)
GetCtcNhId(ilm, action, nh) ==
  IF action = "DROP" THEN [ilm EXCEPT !.nh = <<"drop", 0>>]
  ELSE IF action = "TRAP" THEN [ilm EXCEPT !.nh = <<"cpu", 0>>]
  ELSE IF nh \in MpIfs
  THEN [ilm EXCEPT !.nh = <<"none", 0>>, !.pop = 1, !.decap = TRUE]
  ELSE [ilm EXCEPT !.nh = IF nh \in MpNhs THEN <<"nh", nh>> ELSE <<"none", 0>>]

NoIlm == [pop |-> 0, decap |-> FALSE, nh |-> <<"none", 0>>, cw |-> FALSE, es |-> 0]

(* create_inseg_entry: the hardware, which has one entry of a label, then the *)
(* record; the tunnel remembers the label of the last in-segment that named *)
(* it. An interface of a bridge takes the tunnel's control word along. *)
CreateInseg(l, pop, action, nh, t) ==
  /\ l \notin DOMAIN mpInseg /\ l \notin DOMAIN mpIlm
  /\ t # 0 => nh \in MpIfs
  /\ LET ilm == [NoIlm EXCEPT !.pop = pop, !.cw = t # 0 /\ mpTun[t].cw]
     IN mpIlm' = MpPut(mpIlm, l, GetCtcNhId(ilm, action, nh))
  /\ mpInseg' = MpPut(mpInseg, l, [action |-> action, nh |-> nh])
  /\ mpWire' = MpPut(mpWire, l, t)
  /\ IF t = 0 THEN UNCHANGED <<mpTun, mpLoose>>
     ELSE /\ mpTun' = [mpTun EXCEPT ![t].label = l]
          /\ mpLoose' = mpLoose \cup ({mpTun[t].label} \ {0, l})
  /\ UNCHANGED <<mpEs, mpPort, mpWait, mpSkew, mpStuck, mpGone>>

(* remove_inseg_entry: the tunnel keeps the label. *)
RemoveInseg(l) ==
  /\ l \in DOMAIN mpInseg
  /\ mpIlm' = MpDrop(mpIlm, l)
  /\ mpInseg' = MpDrop(mpInseg, l) /\ mpWire' = MpDrop(mpWire, l)
  /\ mpLoose' = mpLoose \ {l}
  /\ UNCHANGED <<mpEs, mpTun, mpPort, mpWait, mpSkew, mpStuck, mpGone>>

\* mutant: the attribute is recorded and the entry rebuilt from nothing
SetInsegBare(l, pop, action, nh) ==
  /\ l \in DOMAIN mpInseg
  /\ mpIlm' = [mpIlm EXCEPT ![l] = GetCtcNhId([NoIlm EXCEPT !.pop = pop], action, nh)]
  /\ mpInseg' = [mpInseg EXCEPT ![l] = [action |-> action, nh |-> nh]]
  /\ UNCHANGED <<mpWire, mpEs, mpTun, mpPort, mpWait, mpLoose, mpSkew, mpStuck, mpGone>>

(* mpls_set_attr of one attribute, the others as recorded (or, for pop, as *)
(* the hardware has it): the entry is read, changed and written, then *)
(* recorded. *)
SetInseg(l, pop, action, nh) ==
  /\ l \in DOMAIN mpInseg
  /\ mpIlm' = [mpIlm EXCEPT ![l] = GetCtcNhId([@ EXCEPT !.pop = pop], action, nh)]
  /\ mpInseg' = [mpInseg EXCEPT ![l] = [action |-> action, nh |-> nh]]
  /\ UNCHANGED <<mpWire, mpEs, mpTun, mpPort, mpWait, mpLoose, mpSkew, mpStuck, mpGone>>

OneAttr(l) ==
  LET r == mpInseg[l] IN
  {[pop |-> p, action |-> r.action, nh |-> r.nh] : p \in {0, 1}}
  \cup {[pop |-> mpIlm[l].pop, action |-> a, nh |-> r.nh] : a \in MpActions}
  \cup {[pop |-> mpIlm[l].pop, action |-> r.action, nh |-> n] : n \in MpNhs \cup MpIfs}

(* set_tunnel_property of the control word: the entry of the remembered label *)
(* is read and written, whoever has it now; where there is none the set fails *)
(* before the record. *)
SetControlWord(t, on) ==
  /\ mpTun[t].label # 0 => mpTun[t].label \in DOMAIN mpIlm
  /\ mpTun' = [mpTun EXCEPT ![t].cw = on]
  /\ IF mpTun[t].label = 0 THEN UNCHANGED <<mpIlm, mpLoose>>
     ELSE LET l == mpTun[t].label IN
          /\ mpIlm' = [mpIlm EXCEPT ![l].cw = on]
          /\ mpLoose' = IF l \in DOMAIN mpWire /\ mpWire[l] = t THEN mpLoose
                        ELSE mpLoose \cup {l}
  /\ UNCHANGED <<mpInseg, mpWire, mpEs, mpPort, mpWait, mpSkew, mpStuck, mpGone>>

-----------------------------------------------------------------------------
(* create_es looks the label up among the in-segments before it takes the *)
(* lock. *)
BeginEs(l) ==
  /\ mpWait = 0 /\ l \notin DOMAIN mpInseg
  /\ mpWait' = l
  /\ UNCHANGED <<mpInseg, mpWire, mpEs, mpTun, mpPort, mpIlm, mpLoose, mpSkew, mpStuck, mpGone>>

EsFree == MpSegs \ (DOMAIN mpEs \cup mpGone)

\* mutant: the look-up is trusted, and the entry of the label overwritten
EndEsTrusting ==
  /\ mpWait # 0 /\ mpWait' = 0
  /\ IF EsFree # {}
     THEN /\ mpEs' = MpPut(mpEs, Min(EsFree), [label |-> mpWait, ref |-> 0])
          /\ mpIlm' = MpPut(mpIlm, mpWait, [NoIlm EXCEPT !.pop = 1, !.es = Min(EsFree)])
     ELSE UNCHANGED <<mpEs, mpIlm>>
  /\ UNCHANGED <<mpInseg, mpWire, mpTun, mpPort, mpLoose, mpSkew, mpStuck, mpGone>>

(* Under the lock: the id, the record, the hardware, and back by roll_back_3 *)
(* when the label table has the label. *)
EndEs ==
  /\ mpWait # 0 /\ mpWait' = 0
  /\ IF EsFree # {} /\ mpWait \notin DOMAIN mpIlm
     THEN /\ mpEs' = MpPut(mpEs, Min(EsFree), [label |-> mpWait, ref |-> 0])
          /\ mpIlm' = MpPut(mpIlm, mpWait, [NoIlm EXCEPT !.pop = 1, !.es = Min(EsFree)])
     ELSE UNCHANGED <<mpEs, mpIlm>>
  /\ UNCHANGED <<mpInseg, mpWire, mpTun, mpPort, mpLoose, mpSkew, mpStuck, mpGone>>

(* remove_es. A segment in use and a refusal of the SDK return without giving *)
(* the lock back; the id follows after the unlock. *)
RemoveEs(e) ==
  /\ e \in DOMAIN mpEs
  /\ \/ mpStuck' = TRUE /\ UNCHANGED <<mpEs, mpIlm, mpLoose, mpGone>>
     \/ /\ mpEs[e].ref = 0 /\ UNCHANGED mpStuck
        /\ mpEs' = MpDrop(mpEs, e) /\ mpIlm' = MpDrop(mpIlm, mpEs[e].label)
        /\ mpLoose' = mpLoose \ {mpEs[e].label} /\ mpGone' = mpGone \cup {e}
  /\ UNCHANGED <<mpInseg, mpWire, mpTun, mpPort, mpWait, mpSkew>>
FreeEs(e) ==
  /\ e \in mpGone /\ mpGone' = mpGone \ {e}
  /\ UNCHANGED <<mpInseg, mpWire, mpEs, mpTun, mpPort, mpIlm, mpWait, mpLoose, mpSkew, mpStuck>>

\* mutant: the segment that is left is not counted down
SetPortEsKeeps(p, e) ==
  /\ p \in DOMAIN mpPort /\ mpPort[p].es # e
  /\ e # 0 => e \in DOMAIN mpEs
  /\ mpStuck' = mpStuck
  /\ mpPort' = [mpPort EXCEPT ![p] = [es |-> e, hw |-> e]]
  /\ mpEs' = [x \in DOMAIN mpEs |-> [mpEs[x] EXCEPT !.ref = @ + IF x = e THEN 1 ELSE 0]]
  /\ UNCHANGED <<mpInseg, mpWire, mpTun, mpIlm, mpWait, mpLoose, mpSkew, mpGone>>

(* set_basic_info of the port attribute ES: the port's registers, then the *)
(* counts. The old segment is counted down without a look whether it is there.*)
SetPortEs(p, e) ==
  /\ p \in DOMAIN mpPort /\ mpPort[p].es # e
  /\ e # 0 => e \in DOMAIN mpEs
  /\ LET old == mpPort[p].es IN
     /\ mpStuck' = (old # 0 /\ old \notin DOMAIN mpEs)
     /\ mpPort' = [mpPort EXCEPT ![p] = [es |-> e, hw |-> e]]
     /\ mpEs' = [x \in DOMAIN mpEs |->
                   [mpEs[x] EXCEPT !.ref = @ + (IF x = e THEN 1 ELSE 0)
                                             - (IF x = old THEN 1 ELSE 0)]]
  /\ UNCHANGED <<mpInseg, mpWire, mpTun, mpIlm, mpWait, mpLoose, mpSkew, mpGone>>

(* create_port: a segment is recorded, neither counted nor written. One such *)
(* port in a behaviour. *)
CreatePortWithEs(p, e) ==
  /\ ~mpSkew /\ p \notin DOMAIN mpPort /\ (e # 0 => e \in DOMAIN mpEs)
  /\ mpPort' = MpPut(mpPort, p, [es |-> e, hw |-> 0])
  /\ mpSkew' = (mpSkew \/ e # 0)
  /\ UNCHANGED <<mpInseg, mpWire, mpEs, mpTun, mpIlm, mpWait, mpLoose, mpStuck, mpGone>>

(* remove_port: the count of its segment stays. *)
RemovePortWithEs(p) ==
  /\ ~mpSkew /\ p \in DOMAIN mpPort
  /\ mpPort' = MpDrop(mpPort, p)
  /\ mpSkew' = (mpSkew \/ mpPort[p].es # 0)
  /\ UNCHANGED <<mpInseg, mpWire, mpEs, mpTun, mpIlm, mpWait, mpLoose, mpStuck, mpGone>>

-----------------------------------------------------------------------------
MpInit ==
  /\ mpInseg = << >> /\ mpWire = << >> /\ mpEs = << >> /\ mpIlm = << >>
  /\ mpTun = [t \in MpTuns |-> [label |-> 0, cw |-> FALSE]]
  /\ mpPort = << >> /\ mpWait = 0 /\ mpLoose = {} /\ mpSkew = FALSE /\ mpStuck = FALSE
  /\ mpGone = {}

MpNext ==
  \/ /\ ~mpStuck
     /\ \/ \E l \in MpLabels, a \in MpActions, n \in MpNhs \cup MpIfs, t \in MpTuns \cup {0} :
             CreateInseg(l, 0, a, n, t)
        \/ \E l \in MpLabels : RemoveInseg(l) \/ BeginEs(l)
        \/ \E l \in DOMAIN mpInseg : \E r \in OneAttr(l) : SetInseg(l, r.pop, r.action, r.nh)
        \/ \E t \in MpTuns, on \in BOOLEAN : SetControlWord(t, on)
        \/ EndEs
        \/ \E e \in MpSegs : RemoveEs(e) \/ FreeEs(e)
        \/ \E p \in MpPorts, e \in MpSegs \cup {0} : SetPortEs(p, e) \/ CreatePortWithEs(p, e)
        \/ \E p \in MpPorts : RemovePortWithEs(p)
  \/ mpStuck /\ UNCHANGED mpVars

-----------------------------------------------------------------------------
(* A label belongs to one in-segment or one segment, and the label table has *)
(* exactly the labels that belong to one, whatever comes between the look-up *)
(* of create_es and its lock. *)
LabelsOwned ==
  LET esLabels == {mpEs[e].label : e \in DOMAIN mpEs} IN
  /\ DOMAIN mpIlm = DOMAIN mpInseg \cup esLabels
  /\ DOMAIN mpInseg \cap esLabels = {}
  /\ \A e \in DOMAIN mpEs : mpIlm[mpEs[e].label].es = e

(* The entry of an in-segment sends packets where its record says, and ends *)
(* the label of a pseudo-wire, after any sequence of sets. *)
IlmFollows ==
  \A l \in DOMAIN mpInseg :
    LET r == mpInseg[l] IN
    /\ mpIlm[l].nh = GetCtcNhId(NoIlm, r.action, r.nh).nh
    /\ r.action = "FORWARD" /\ r.nh \in MpIfs => mpIlm[l].decap /\ mpIlm[l].pop = 1

(* Both ends of a pseudo-wire agree on the control word, as long as the *)
(* tunnel remembers this label and no tunnel with an old label wrote to it. *)
ControlWordFollows ==
  \A l \in DOMAIN mpWire :
    mpWire[l] # 0 /\ l \notin mpLoose => mpIlm[l].cw = mpTun[mpWire[l]].cw

(* The segments that ports belong to exist, are counted exactly and are in *)
(* the ports' registers, unless a port was created or removed with one. *)
SegmentsCounted ==
  ~mpSkew /\ ~mpStuck =>
    /\ \A e \in DOMAIN mpEs :
         mpEs[e].ref = Cardinality({p \in DOMAIN mpPort : mpPort[p].es = e})
    /\ \A p \in DOMAIN mpPort :
         mpPort[p].es \in DOMAIN mpEs \cup {0} /\ mpPort[p].hw = mpPort[p].es

MplsExact == LabelsOwned /\ IlmFollows /\ ControlWordFollows /\ SegmentsCounted
=============================================================================
