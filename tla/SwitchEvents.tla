---------------------------- MODULE SwitchEvents ----------------------------
(***************************************************************************)
(* The switch's own threads and the forwarding database they change: *)
(* ctc_sai_switch.c's learning, aging and link callbacks, run by the SDK's *)
(* interrupt threads, the port polling thread of ctc_sai_port.c and the *)
(* FDB calls of ctc_sai_fdb.c. Each holds the database mutex while it *)
(* works, so each is one action, with one exception: the link callback *)
(* reads the link before it takes the mutex (line 292, lock at 293), and *)
(* is two. The chip reports what it saw later than it saw it, and may lose *)
(* a link interrupt. *)
(* *)
(* One VLAN is modelled, software learning (HW_LEARNING_EN clear) and *)
(* bridge ports of type PORT. create_switch has returned: both callbacks *)
(* are registered. The client keeps a copy of the FDB from notifications *)
(* and its own calls. *)
(***************************************************************************)
EXTENDS Naturals, Sequences, SequencesExt

CONSTANTS
  Macs,
  Ports,
  NoPort,        \* no entry
  BridgePorts,   \* ports with a bridge port object
  LearnBatch,    \* the longest learning report
  AgingBatch,    \* the longest aging report
  MaxQueue,      \* bound: MACs the chip has seen, or aged, and not reported
  MaxFlips,      \* bound: link changes
  MaxCalls       \* bound: calls of the client

ASSUME EventsAssumption ==
  /\ NoPort \notin Ports /\ BridgePorts \subseteq Ports
  /\ {LearnBatch, AgingBatch, MaxQueue} \subseteq Nat \ {0}
  /\ {MaxFlips, MaxCalls} \subseteq Nat

VARIABLES
  fdb,           \* the SDK's FDB
  copy,          \* the client's copy of it
  learnQ,        \* <<mac, port>> seen by the chip, not yet reported
  ageQ,          \* MACs the chip has aged, not yet reported
  link,          \* the MAC layer's link status
  irq,           \* ports with a link interrupt pending
  isr,           \* the link callback between its read and its lock
  lportLink,     \* p_switch_master->lport_link_status
  portEn,        \* the port is enabled in the chip
  told,          \* the port state the client was told last
  flips, calls

fdbVars == <<fdb, copy>>
chipVars == <<learnQ, ageQ>>
linkVars == <<link, irq, isr, lportLink, portEn, told, flips>>
vars == <<fdbVars, chipVars, linkVars, calls>>

Idle == [port |-> NoPort, up |-> FALSE]

Client == INSTANCE FdbClient WITH table <- fdb

Nothing == Client!Nothing
Dynamic(p) == [port |-> p, static |-> FALSE]

(* The variables have their types, and the queues their bounds. *)
TypeOK ==
  /\ fdb \in [Macs -> Client!Entry] /\ copy \in [Macs -> Client!Entry]
  /\ learnQ \in Seq(Macs \X Ports) /\ Len(learnQ) <= MaxQueue
  /\ ageQ \in Seq(Macs) /\ Len(ageQ) <= MaxQueue
  /\ link \in [Ports -> BOOLEAN] /\ irq \subseteq Ports
  /\ isr \in [port : Ports \cup {NoPort}, up : BOOLEAN]
  /\ lportLink \in [Ports -> BOOLEAN] /\ portEn \in [Ports -> BOOLEAN]
  /\ told \in [Ports -> BOOLEAN]
  /\ flips \in 0..MaxFlips /\ calls \in 0..MaxCalls

(* ctc_sai_port_db_init disables every port and starts the polling thread; *)
(* the port attributes read down until a link is reported. *)
Init ==
  /\ fdb = [m \in Macs |-> Nothing] /\ copy = fdb
  /\ learnQ = <<>> /\ ageQ = <<>>
  /\ link = [p \in Ports |-> FALSE] /\ irq = {} /\ isr = Idle
  /\ lportLink = link /\ portEn = link /\ told = link
  /\ flips = 0 /\ calls = 0

-----------------------------------------------------------------------------
(* The SDK's FDB calls: writing replaces the entry of the MAC, removing *)
(* names the MAC and the VLAN and neither port nor type. *)
AddFdb(t, m, e) == [t EXCEPT ![m] = e]
\* mutant: the MAC is taken out of the table's domain
RemoveFdb_domain(t, S) == [m \in Macs \ S |-> t[m]]
RemoveFdb(t, S) == [m \in Macs |-> IF m \in S THEN Nothing ELSE t[m]]

(* ctc_sai_fdb_flush_fdb with a bridge port, or with none, of the dynamic *)
(* entries. A port without a bridge port object is INVALID_OBJECT_ID and *)
(* flushes nothing. *)
FlushFdb(t, P) ==
  [m \in Macs |-> IF t[m].port \in P \cap BridgePorts /\ ~t[m].static
                    THEN Nothing ELSE t[m]]
FlushAll(t) == [m \in Macs |-> IF t[m].static THEN t[m] ELSE Nothing]

(* The FLUSHED notification names the bridge port and DYNAMIC: the client *)
(* drops the same entries of its copy. *)
FlushPorts(P) == fdb' = FlushFdb(fdb, P) /\ copy' = FlushFdb(copy, P)

-----------------------------------------------------------------------------
(* The chip. A frame of an unknown or moved MAC on a port that is up is *)
(* queued for a learning report; a dynamic entry may age at any time. *)
SeeMac(m, p) ==
  /\ link[p] /\ portEn[p]
  /\ fdb[m].port # p /\ ~fdb[m].static
  /\ Len(learnQ) < MaxQueue /\ <<m, p>> \notin ToSet(learnQ)
  /\ learnQ' = Append(learnQ, <<m, p>>)
  /\ UNCHANGED <<fdbVars, ageQ, linkVars, calls>>

AgeMac(m) ==
  /\ fdb[m].port # NoPort /\ ~fdb[m].static
  /\ Len(ageQ) < MaxQueue /\ m \notin ToSet(ageQ)
  /\ ageQ' = Append(ageQ, m)
  /\ UNCHANGED <<fdbVars, learnQ, linkVars, calls>>

(* The link of a port changes; its interrupt is raised, or lost. *)
LinkChange(p) ==
  /\ flips < MaxFlips /\ flips' = flips + 1
  /\ link' = [link EXCEPT ![p] = ~@]
  /\ irq' \in {irq, irq \cup {p}}
  /\ UNCHANGED <<fdbVars, chipVars, isr, lportLink, portEn, told, calls>>

-----------------------------------------------------------------------------
(* What a report writes: a MAC it names has the port of the last entry that *)
(* names it, as the entries are written in order. *)
LastOf(report, m) ==
  CHOOSE i \in DOMAIN report :
    /\ report[i][1] = m
    /\ \A j \in DOMAIN report : report[j][1] = m => j <= i
Learn(t, report) ==
  [m \in Macs |-> IF \E i \in DOMAIN report : report[i][1] = m
                    THEN Dynamic(report[LastOf(report, m)][2]) ELSE t[m]]

\* mutant: the learned port is written and reported for the first entry only
LearningProcess_first(n) ==
  LET m == learnQ[1][1]
  IN /\ n <= Len(learnQ)
     /\ fdb' = [x \in Macs |-> IF \E i \in 1..n : learnQ[i][1] = x
                                 THEN Dynamic(learnQ[1][2]) ELSE fdb[x]]
     /\ copy' = AddFdb(copy, m, Dynamic(learnQ[1][2]))
     /\ learnQ' = SubSeq(learnQ, n + 1, Len(learnQ))
     /\ UNCHANGED <<ageQ, linkVars, calls>>

(* ctc_sai_switch_fdb_learning_process of a report of n MACs: each is *)
(* written, and one LEARNED notification names them all. *)
LearningProcess(n) ==
  LET report == SubSeq(learnQ, 1, n)
  IN /\ n <= Len(learnQ)
     /\ fdb' = Learn(fdb, report)
     /\ copy' = Learn(copy, report)
     /\ learnQ' = SubSeq(learnQ, n + 1, Len(learnQ))
     /\ UNCHANGED <<ageQ, linkVars, calls>>

\* mutant: aging reports are taken and the entries left
AgingProcess_kept(n) ==
  /\ n <= Len(ageQ)
  /\ ageQ' = SubSeq(ageQ, n + 1, Len(ageQ))
  /\ UNCHANGED <<fdbVars, learnQ, linkVars, calls>>

(* ctc_sai_switch_fdb_aging_process of a report of n MACs: each entry is *)
(* removed, whatever it has become since it aged. event_count counts the *)
(* events and index stays 0: the notification holds the last MAC, and n - 1 *)
(* events of a zero MAC that no entry has. *)
AgingProcess(n) ==
  /\ n <= Len(ageQ)
  /\ fdb' = RemoveFdb(fdb, ToSet(SubSeq(ageQ, 1, n)))
  /\ copy' = RemoveFdb(copy, {ageQ[n]})
  /\ ageQ' = SubSeq(ageQ, n + 1, Len(ageQ))
  /\ UNCHANGED <<learnQ, linkVars, calls>>

-----------------------------------------------------------------------------
(* ctc_sai_switch_port_link_isr reads the link ... *)
LinkIsrRead(p) ==
  /\ isr = Idle /\ p \in irq
  /\ irq' = irq \ {p}
  /\ isr' = [port |-> p, up |-> link[p]]
  /\ UNCHANGED <<fdbVars, chipVars, link, lportLink, portEn, told, flips, calls>>

\* mutant: the callback does not record the status it reports
LinkIsr_norecord ==
  LET p == isr.port IN
  /\ isr # Idle /\ isr' = Idle
  /\ portEn' = [portEn EXCEPT ![p] = isr.up]
  /\ told' = [told EXCEPT ![p] = isr.up]
  /\ FlushPorts(IF isr.up THEN {} ELSE {p})
  /\ UNCHANGED <<chipVars, link, irq, lportLink, flips, calls>>

(* ... and, with the mutex taken, enables or disables the port by what it *)
(* read, flushes the port when it is down, records the status and tells the *)
(* client, whether the status is new or not. *)
LinkIsr ==
  LET p == isr.port IN
  /\ isr # Idle /\ isr' = Idle
  /\ portEn' = [portEn EXCEPT ![p] = isr.up]
  /\ lportLink' = [lportLink EXCEPT ![p] = isr.up]
  /\ told' = [told EXCEPT ![p] = isr.up]
  /\ FlushPorts(IF isr.up THEN {} ELSE {p})
  /\ UNCHANGED <<chipVars, link, irq, flips, calls>>

\* mutant: the poll reports links that came up and not those that went down
Polling_up ==
  LET changed == {p \in Ports : link[p] /\ ~lportLink[p]}
      After(f) == [p \in Ports |-> IF p \in changed THEN link[p] ELSE f[p]]
  IN /\ changed # {}
     /\ lportLink' = After(lportLink) /\ portEn' = After(portEn) /\ told' = After(told)
     /\ UNCHANGED <<fdbVars, chipVars, link, irq, isr, flips, calls>>

(* One round of _ctc_sai_port_polling_thread: every port whose link differs *)
(* from the recorded status is handled as the callback would. A round that *)
(* finds no difference changes nothing. *)
Polling ==
  LET changed == {p \in Ports : link[p] # lportLink[p]}
      After(f) == [p \in Ports |-> IF p \in changed THEN link[p] ELSE f[p]]
  IN /\ changed # {}
     /\ lportLink' = After(lportLink)
     /\ portEn' = After(portEn)
     /\ told' = After(told)
     /\ FlushPorts({p \in changed : ~link[p]})
     /\ UNCHANGED <<chipVars, link, irq, isr, flips, calls>>

-----------------------------------------------------------------------------
Call == /\ calls < MaxCalls /\ calls' = calls + 1
        /\ UNCHANGED <<chipVars, linkVars>>

(* The client's own call succeeds: it does to its copy what the code does *)
(* to the table. *)
Both(F(_)) == fdb' = F(fdb) /\ copy' = F(copy)

(* _ctc_sai_fdb_mapping_l2_addr: the VLAN, a type, and a bridge port object *)
(* that exists make the SDK's entry. *)
MapL2Addr(p, static) == [port |-> p, static |-> static]

(* ctc_sai_fdb_create_fdb_entry. *)
CreateFdbEntry(m, p, static) ==
  LET F(t) == AddFdb(t, m, MapL2Addr(p, static))
  IN Call /\ p \in BridgePorts /\ Both(F)

(* ctc_sai_fdb_remove_fdb_entry. *)
RemoveFdbEntry(m) ==
  LET F(t) == RemoveFdb(t, {m})
  IN Call /\ fdb[m] # Nothing /\ Both(F)

(* ctc_sai_fdb_set_fdb_info: the entry read is written back with one field *)
(* changed. A type it already has is NOT_EXECUTED; a port is taken from its *)
(* id, whether the object exists or not. *)
SetFdbType(m) ==
  LET F(t) == [t EXCEPT ![m].static = ~@]
  IN Call /\ fdb[m] # Nothing /\ Both(F)
SetFdbPort(m, p) ==
  LET F(t) == [t EXCEPT ![m].port = p]
  IN Call /\ fdb[m] # Nothing /\ Both(F)

(* ctc_sai_fdb_flush_fdb_entries, by bridge port or of everything. *)
FlushFdbEntries(p) ==
  LET F(t) == FlushFdb(t, {p})
  IN Call /\ p \in BridgePorts /\ Both(F)
FlushAllEntries == Call /\ Both(FlushAll)

Learning == \E n \in 1..LearnBatch : LearningProcess(n)
Aging == \E n \in 1..AgingBatch : AgingProcess(n)
IsrRead == \E p \in Ports : LinkIsrRead(p)

Next ==
  \/ \E m \in Macs : \/ AgeMac(m)
                     \/ RemoveFdbEntry(m)
                     \/ SetFdbType(m)
                     \/ \E p \in Ports : \/ SeeMac(m, p)
                                         \/ SetFdbPort(m, p)
                                         \/ CreateFdbEntry(m, p, TRUE)
                                         \/ CreateFdbEntry(m, p, FALSE)
  \/ \E p \in Ports : LinkChange(p) \/ FlushFdbEntries(p)
  \/ FlushAllEntries
  \/ Learning \/ Aging \/ IsrRead \/ LinkIsr \/ Polling

(* The interrupt threads drain the reports and the interrupts they have, the *)
(* polling thread wakes up every second, and the chip's scan, which *)
(* ctc_sai_fdb_db_init starts, ages what is silent. Nothing is assumed of *)
(* hosts, links or the client. *)
Fairness ==
  /\ WF_vars(Learning) /\ WF_vars(Aging)
  /\ WF_vars(IsrRead) /\ WF_vars(LinkIsr) /\ WF_vars(Polling)
  /\ \A m \in Macs : WF_vars(AgeMac(m))

Spec == Init /\ [][Next]_vars /\ Fairness

-----------------------------------------------------------------------------
(* A port is enabled in the chip exactly when the client was last told it is *)
(* up, and that is the recorded status the polling thread compares with: *)
(* whichever of the two threads handled the last change. *)
PortStateTold == \A p \in Ports : portEn[p] = told[p] /\ lportLink[p] = told[p]

(* The client's copy follows the FDB step by step: every entry the callbacks *)
(* and the flushes add or drop is in the notification of the same handler. *)
FollowsFdb == Client!Spec

(* The same, as a state predicate. *)
CopyExact == copy = fdb

(* What is left of it when several MACs are aged in a report: the client *)
(* keeps entries that are gone, and never lacks or misreads one that is *)
(* there (ctc_sai_switch_fdb_aging_process names one MAC of the report). *)
CopyCovers == \A m \in Macs : fdb[m] # Nothing => copy[m] = fdb[m]

(* A link that stays as it is is told in the end: a lost interrupt and the *)
(* stale status of a callback that read the link before it waited for the *)
(* mutex are both corrected by the polling thread. *)
LinkConverges ==
  \A p \in Ports : /\ <>[](link[p]) => <>[](told[p])
                   /\ <>[](~link[p]) => <>[](~told[p])

(* A port that stays down ends without dynamic entries: a learning report *)
(* handled after the flush of the port puts its MAC back, and the entry then *)
(* ages. *)
DownPortForgotten ==
  \A p \in Ports :
    <>[](~link[p]) => <>[](\A m \in Macs : fdb[m] # Dynamic(p))
=============================================================================
