------------------------------ MODULE TimeSync ------------------------------
(* The PTP domain (ctc_sai_ptp.c), the ports that are in it (ctc_sai_port.c) *)
(* and the SyncE clocks (ctc_sai_synce.c). The record of the domain is *)
(* written by the sets, the hardware by the sets and by the create; the *)
(* time-of-day frame is one register that every set of a field writes whole. *)
EXTENDS Integers, FiniteSets, FiniteSetsExt

CONSTANTS PtPorts, PtVals, SyIds, SyPorts

ASSUME PtAssumption == PtVals \subseteq Nat /\ SyIds \subseteq Nat /\ SyPorts \subseteq Nat \ {0}

VARIABLES
  ptMade,   \* the domain exists
  ptDom,    \* its record
  ptHw,     \* hardware
  ptOff,    \* history: fields the hardware was given another value for
  ptHalf,   \* history: a create failed after it had written to the hardware
  ptLive,   \* history: the frame when time of day was enabled
  ptBound,  \* ports whose record names the domain
  ptPortEn, \* hardware: ports that run PTP
  ptOrphan, \* history: ports whose domain was removed
  syUsed,   \* SyncE ids taken from the pool
  syLive,   \* SyncE objects the client has
  syClock,  \* hardware: port the clock is recovered from, 0 for none
  ptLocked  \* a create returned with the database lock held

ptVars == <<ptMade, ptDom, ptHw, ptOff, ptHalf, ptLive, ptBound, ptPortEn, ptOrphan,
            syUsed, syLive, syClock, ptLocked>>
domVars == <<ptMade, ptDom, ptHw, ptOff, ptHalf, ptLive>>
ptPortVars == <<ptBound, ptPortEn, ptOrphan>>
syVars == <<syUsed, syLive, syClock>>

(* The hardware of a chip without PTP: time of day in mode 2, disabled. A new *)
(* record is all zero, and so says mode 0. *)
NoPtp == [basedOnPort |-> FALSE, device |-> 0, tod |-> FALSE, mode |-> 2, leap |-> 0, pps |-> 0]
NewDomain == [NoPtp EXCEPT !.mode = 0]
Frame(r) == <<r.leap, r.pps>>

PtFree == ~ptLocked
NotGiven == 3

(* create_ptp_domain: the frame's fields go to the hardware alone, the rest *)
(* through set_info. Mode and time of day may be left out. *)
CreateDomain(port, device, mode, leap, pps, tod) ==
  LET rec == [NewDomain EXCEPT !.basedOnPort = port, !.device = device, !.tod = tod,
                               !.mode = IF mode = NotGiven THEN 0 ELSE mode]
  IN /\ PtFree /\ ~ptMade
     /\ ptMade' = TRUE /\ ptDom' = rec
     /\ ptHw' = [rec EXCEPT !.mode = IF mode = NotGiven THEN ptHw.mode ELSE mode,
                            !.leap = leap, !.pps = pps]
     /\ ptOff' = {f \in {"mode", "leap", "pps"} : ptHw'[f] # rec[f]}
     /\ ptLive' = <<leap, pps>>
     /\ UNCHANGED <<ptHalf, ptPortVars, syVars, ptLocked>>

(* One that fails at a clock offset of an unknown type: no record, but the *)
(* type and the device are in the hardware. *)
CreateDomainFails(port, device) ==
  /\ PtFree /\ ~ptMade
  /\ ptHw' = [ptHw EXCEPT !.basedOnPort = port, !.device = device]
  /\ ptHalf' = (ptHw' # NoPtp)
  /\ UNCHANGED <<ptMade, ptDom, ptOff, ptLive, ptPortVars, syVars, ptLocked>>

(* The hardware refuses to read the frame, or a SyncE clock. *)
CreateReturnsLocked ==
  /\ PtFree /\ (~ptMade \/ syUsed # SyIds)
  /\ ptLocked' = TRUE
  /\ UNCHANGED <<domVars, ptPortVars, syVars>>

\* mutant: the time-of-day selection is left on
RemoveDomainTodStays ==
  /\ PtFree /\ ptMade
  /\ ptMade' = FALSE /\ ptDom' = NoPtp /\ ptOff' = {} /\ ptHalf' = FALSE
  /\ ptHw' = [NoPtp EXCEPT !.tod = ptHw.tod] /\ ptLive' = <<0, 0>>
  /\ ptOrphan' = ptBound
  /\ UNCHANGED <<ptBound, ptPortEn, syVars, ptLocked>>

(* The ports are not looked at: they stay in a domain that is no more. *)
RemoveDomain ==
  /\ PtFree /\ ptMade
  /\ ptMade' = FALSE /\ ptDom' = NoPtp /\ ptOff' = {} /\ ptHalf' = FALSE
  /\ ptHw' = NoPtp /\ ptLive' = <<0, 0>>
  /\ ptOrphan' = ptBound
  /\ UNCHANGED <<ptBound, ptPortEn, syVars, ptLocked>>

SetDomain(field, v) ==
  /\ PtFree /\ ptMade
  /\ ptDom' = [ptDom EXCEPT ![field] = v] /\ ptHw' = [ptHw EXCEPT ![field] = v]
  /\ UNCHANGED <<ptMade, ptOff, ptHalf, ptLive, ptPortVars, syVars, ptLocked>>

(* A field of the frame is set while time of day is off and its mode is 2. *)
TodClosed == ~ptDom.tod /\ ptDom.mode = 2

SetLeapSecond(v) ==
  /\ PtFree /\ ptMade /\ TodClosed
  /\ ptDom' = [ptDom EXCEPT !.leap = v]
  /\ ptHw' = [ptHw EXCEPT !.leap = v, !.pps = ptDom.pps]
  /\ ptOff' = ptOff \ {"leap", "pps"}
  /\ UNCHANGED <<ptMade, ptHalf, ptLive, ptPortVars, syVars, ptLocked>>

\* mutant: the status is set whatever time of day does
SetPpsStatusLive(v) ==
  /\ PtFree /\ ptMade
  /\ ptDom' = [ptDom EXCEPT !.pps = v]
  /\ ptHw' = [ptHw EXCEPT !.pps = v, !.leap = v]
  /\ ptOff' = (ptOff \ {"leap", "pps"}) \cup {f \in {"leap"} : v # ptDom.leap}
  /\ UNCHANGED <<ptMade, ptHalf, ptLive, ptPortVars, syVars, ptLocked>>

(* The status is written as the leap second too. *)
SetPpsStatus(v) ==
  /\ PtFree /\ ptMade /\ TodClosed
  /\ ptDom' = [ptDom EXCEPT !.pps = v]
  /\ ptHw' = [ptHw EXCEPT !.pps = v, !.leap = v]
  /\ ptOff' = (ptOff \ {"leap", "pps"}) \cup {f \in {"leap"} : v # ptDom.leap}
  /\ UNCHANGED <<ptMade, ptHalf, ptLive, ptPortVars, syVars, ptLocked>>

SetTodMode(mode) ==
  /\ PtFree /\ ptMade /\ ~ptDom.tod
  /\ ptDom' = [ptDom EXCEPT !.mode = mode] /\ ptHw' = [ptHw EXCEPT !.mode = mode]
  /\ ptOff' = ptOff \ {"mode"}
  /\ UNCHANGED <<ptMade, ptHalf, ptLive, ptPortVars, syVars, ptLocked>>

SetTodEnable(on) ==
  /\ PtFree /\ ptMade
  /\ ptDom' = [ptDom EXCEPT !.tod = on] /\ ptHw' = [ptHw EXCEPT !.tod = on]
  /\ ptLive' = Frame(ptHw)
  /\ UNCHANGED <<ptMade, ptOff, ptHalf, ptPortVars, syVars, ptLocked>>

\* mutant: the domain is not looked up
BindPtpPortAnyhow(p) ==
  /\ PtFree
  /\ ptBound' = ptBound \cup {p} /\ ptPortEn' = ptPortEn \cup {p} /\ ptOrphan' = ptOrphan \ {p}
  /\ UNCHANGED <<domVars, syVars, ptLocked>>

(* PTP_DOMAIN_ID of a port. The null id has no record, so that a port is *)
(* never taken out; and PTP_MODE and the delays are looked up as if they were *)
(* ids of a domain, so that they are always refused. *)
BindPtpPort(p) ==
  /\ PtFree /\ ptMade
  /\ ptBound' = ptBound \cup {p} /\ ptPortEn' = ptPortEn \cup {p} /\ ptOrphan' = ptOrphan \ {p}
  /\ UNCHANGED <<domVars, syVars, ptLocked>>

\* mutant: the id is given back although the client keeps the object
CreateSynceFrees(port) ==
  /\ PtFree /\ syUsed # SyIds
  /\ syLive' = syLive \cup {Min(SyIds \ syUsed)}
  /\ syClock' = port
  /\ UNCHANGED <<domVars, ptPortVars, syUsed, ptLocked>>

(* Every SyncE object writes clock 0; a removed one stops it, whoever runs *)
(* it, and keeps its id: there are as many creates as ids, ever. *)
CreateSynce(port) ==
  /\ PtFree /\ syUsed # SyIds
  /\ syUsed' = syUsed \cup {Min(SyIds \ syUsed)}
  /\ syLive' = syLive \cup {Min(SyIds \ syUsed)}
  /\ syClock' = port
  /\ UNCHANGED <<domVars, ptPortVars, ptLocked>>

RemoveSynce(s) ==
  /\ PtFree /\ s \in syLive
  /\ syLive' = syLive \ {s} /\ syClock' = 0
  /\ UNCHANGED <<domVars, ptPortVars, syUsed, ptLocked>>

SetRecoveredPort(s, port) ==
  /\ PtFree /\ s \in syLive
  /\ syClock' = port
  /\ UNCHANGED <<domVars, ptPortVars, syUsed, syLive, ptLocked>>

PtInit ==
  /\ ptMade = FALSE /\ ptDom = NoPtp /\ ptHw = NoPtp /\ ptOff = {} /\ ptHalf = FALSE
  /\ ptLive = <<0, 0>> /\ ptBound = {} /\ ptPortEn = {} /\ ptOrphan = {}
  /\ syUsed = {} /\ syLive = {} /\ syClock = 0 /\ ptLocked = FALSE

PtNext ==
  \/ \E b, t \in BOOLEAN, d, l, s \in PtVals, m \in {0, 2, NotGiven} : CreateDomain(b, d, m, l, s, t)
  \/ \E b \in BOOLEAN, d \in PtVals : CreateDomainFails(b, d)
  \/ \E b \in BOOLEAN : SetDomain("basedOnPort", b)
  \/ \E d \in PtVals : SetDomain("device", d)
  \/ CreateReturnsLocked
  \/ RemoveDomain
  \/ \E v \in PtVals : SetLeapSecond(v) \/ SetPpsStatus(v)
  \/ \E m \in {0, 2} : SetTodMode(m)
  \/ \E b \in BOOLEAN : SetTodEnable(b)
  \/ \E p \in PtPorts : BindPtpPort(p)
  \/ \E q \in SyPorts : CreateSynce(q)
  \/ \E s \in SyIds : RemoveSynce(s) \/ \E q \in SyPorts : SetRecoveredPort(s, q)
  \/ ptLocked /\ UNCHANGED ptVars

(* The hardware does what the record of the domain says (ptp_set_info), but *)
(* for fields a create or a set of PPS_STATUS gave another value; without a *)
(* domain it does nothing, unless a create failed half way. The frame does *)
(* not change while time of day is sent. A port runs PTP if and only if its *)
(* record has a domain, which is there unless it was removed after. Without *)
(* an object no clock is recovered (remove_synce), and no id is given twice. *)
TimeSyncExact ==
  /\ (ptMade => \A f \in DOMAIN NoPtp \ ptOff : ptHw[f] = ptDom[f])
  /\ (~ptMade /\ ~ptHalf => ptHw = NoPtp)
  /\ (ptMade /\ ptHw.tod => Frame(ptHw) = ptLive)
  /\ ptPortEn = ptBound
  /\ (ptBound # ptOrphan => ptMade)
  /\ syLive \subseteq syUsed
  /\ (syLive = {} => syClock = 0)
=============================================================================
