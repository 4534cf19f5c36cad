------------------------------- MODULE HostIfs -------------------------------
(* Host interfaces (ctc_sai_hostif.c): network devices of the kernel for *)
(* ports, LAGs and VLANs. An interface switches the trapping of control *)
(* packets on at its object. The SDK's receive callback and the thread that *)
(* reads the devices look an interface up without the database lock and use *)
(* the record afterwards, while a client may remove the interface and the *)
(* kernel may give its file descriptor to the next one. *)
(* The two only read what the clients write, so one packet at a time is *)
(* followed. *)
(* The table entries are the ones of the packet's port, its trap and the *)
(* wildcard, any combination of them; they have no other effect. *)
EXTENDS Naturals, FiniteSets, FiniteSetsExt

CONSTANTS
  HifPorts, HifLags, HifVlans,  \* what an interface may stand for
  Fds                           \* file descriptors, from 1 on

HifObjects == HifPorts \cup HifLags \cup HifVlans
NoObject == "none"
Tables == [{"port", "trap", "wildcard"} -> {"none", "cb", "netdev"}]
ASSUME HostIfAssumption ==   \* an id carries its object's type
  /\ Fds \subseteq Nat \ {0} /\ NoObject \notin HifObjects
  /\ HifPorts \cap HifLags = {} /\ HifPorts \cap HifVlans = {} /\ HifLags \cap HifVlans = {}

VARIABLES
  hostifs,   \* the descriptor of each object's interface; 0: none
  openFds,   \* the kernel: the object whose device a descriptor is
  watched,   \* descriptors in the epoll set
  lagPorts,  \* the LAG of each port, or none
  lagCb,     \* LAGs with the callback cb[HOSTIF]
  toCpu,     \* the chip: objects whose control packets go to the CPU
  darkened,  \* history: objects an operation on another one switched off
  pkt        \* the packet in the receive callback or in the kernel thread
hifVars == <<hostifs, openFds, watched, lagPorts, lagCb, toCpu, darkened, pkt>>

Idle == [dir |-> "none", at |-> NoObject, fd |-> 0, raced |-> FALSE, out |-> NoObject]
HifInit ==
  /\ hostifs = [o \in HifObjects |-> 0] /\ openFds = [f \in Fds |-> NoObject]
  /\ watched = {}
  /\ lagPorts = [p \in HifPorts |-> NoObject] /\ lagCb = {}
  /\ toCpu = {} /\ darkened = {} /\ pkt = Idle

TrappedMembers(l) == {p \in HifPorts : lagPorts[p] = l}
Live(o) == hostifs[o] # 0
(* _ctc_sai_hostif_create_net_device: the lowest free descriptor. *)
FreeFds == {f \in Fds : openFds[f] = NoObject}

(* create_hostif. The object's trapping is switched on first; when it has an *)
(* interface already, the database refuses the second and the error path *)
(* switches the trapping off, which is the first one's too. A LAG's members *)
(* are told through the callback, which the error path also takes away. *)
CreateHostIf(o) ==
  /\ ~Live(o) /\ FreeFds # {}
  /\ hostifs' = [hostifs EXCEPT ![o] = Min(FreeFds)]
  /\ openFds' = [openFds EXCEPT ![Min(FreeFds)] = o]
  /\ watched' = watched \cup {Min(FreeFds)}
  /\ lagCb' = IF o \in HifLags THEN lagCb \cup {o} ELSE lagCb
  /\ toCpu' = toCpu \cup (IF o \in HifLags THEN TrappedMembers(o) \cup {o} ELSE {o})
  /\ darkened' = darkened \ (IF o \in HifLags THEN TrappedMembers(o) \cup {o} ELSE {o})
  /\ UNCHANGED <<lagPorts, pkt>>
CreateHostIfAgain(o) ==
  LET off == IF o \in HifLags THEN TrappedMembers(o) \cup {o} ELSE {o}
  IN /\ Live(o) /\ FreeFds # {}
     /\ toCpu' = toCpu \ off /\ darkened' = darkened \cup off
     /\ lagCb' = lagCb \ {o}
     /\ UNCHANGED <<hostifs, openFds, watched, lagPorts, pkt>>
(* remove_hostif: a port keeps its trapping, a VLAN and a LAG give it up; the *)
(* descriptor is closed and the record freed, whoever still uses it. *)
\* mutant: the LAG's members are not told
RemoveHostIf_quiet(o) ==
  /\ Live(o)
  /\ hostifs' = [hostifs EXCEPT ![o] = 0]
  /\ openFds' = [openFds EXCEPT ![hostifs[o]] = NoObject]
  /\ watched' = watched \ {hostifs[o]}
  /\ toCpu' = toCpu \ (IF o \in HifPorts THEN {} ELSE {o})
  /\ pkt' = [pkt EXCEPT !.raced = @ \/ pkt.at = o]
  /\ UNCHANGED <<lagPorts, lagCb, darkened>>
RemoveHostIf(o) ==
  LET off == IF o \in HifLags THEN (IF o \in lagCb THEN TrappedMembers(o) ELSE {}) \cup {o}
             ELSE IF o \in HifVlans THEN {o} ELSE {}
  IN /\ Live(o)
     /\ hostifs' = [hostifs EXCEPT ![o] = 0]
     /\ openFds' = [openFds EXCEPT ![hostifs[o]] = NoObject]
     /\ watched' = watched \ {hostifs[o]}
     /\ toCpu' = toCpu \ off
     /\ darkened' = darkened \cup (off \ {o})
     /\ lagCb' = lagCb \ {o}
     /\ pkt' = [pkt EXCEPT !.raced = @ \/ pkt.at = o]
     /\ UNCHANGED lagPorts

(* The LAG tells hostif_lag_member_change_cb_fn of a member that joins or *)
(* leaves, which switches the port's trapping on or off. *)
JoinLag(p, l) ==
  /\ lagPorts[p] = NoObject
  /\ lagPorts' = [lagPorts EXCEPT ![p] = l]
  /\ toCpu' = IF l \in lagCb THEN toCpu \cup {p} ELSE toCpu
  /\ darkened' = IF l \in lagCb THEN darkened \ {p} ELSE darkened
  /\ UNCHANGED <<hostifs, openFds, watched, lagCb, pkt>>
LeaveLag(p) ==
  LET told == lagPorts[p] \in lagCb
  IN /\ lagPorts[p] # NoObject
     /\ lagPorts' = [lagPorts EXCEPT ![p] = NoObject]
     /\ toCpu' = IF told THEN toCpu \ {p} ELSE toCpu
     /\ darkened' = IF told THEN darkened \cup {p} ELSE darkened
     /\ UNCHANGED <<hostifs, openFds, watched, lagCb, pkt>>

(* _ctc_sai_hostif_get_reason_channel: the traversal of the entries is in the *)
(* order of a hash table. An entry of the port overrides; between a trap's *)
(* and the wildcard's the first one met stays. *)
ChannelOf(tab) ==
  LET met == {tab["trap"], tab["wildcard"]} \ {"none"}
  IN IF tab["port"] # "none" THEN {tab["port"]} ELSE IF met = {} THEN {"cb"} ELSE met
Source(p) == IF lagPorts[p] = NoObject THEN p ELSE lagPorts[p]
(* _ctc_sai_hostif_get_hostif: the VLAN's interface before the port's. *)
HostIfOf(src, v) ==
  IF Live(v) THEN v ELSE IF Live(src) THEN src ELSE NoObject
(* _ctc_sai_hostif_packet_receive_from_sdk, up to the lookup and from there. *)
RxLookup(p, v, tab) ==
  LET o == HostIfOf(Source(p), v)
  IN /\ p \in toCpu /\ pkt.at = NoObject /\ o # NoObject
     /\ "netdev" \in ChannelOf(tab)
     /\ pkt' = [dir |-> "rx", at |-> o, fd |-> hostifs[o], raced |-> FALSE, out |-> NoObject]
     /\ UNCHANGED <<hostifs, openFds, watched, lagPorts, lagCb, toCpu, darkened>>
RxWrite ==
  /\ pkt.dir = "rx" /\ pkt.out = NoObject
  /\ pkt' = IF openFds[pkt.fd] = NoObject THEN Idle ELSE [pkt EXCEPT !.out = openFds[pkt.fd]]
  /\ UNCHANGED <<hostifs, openFds, watched, lagPorts, lagCb, toCpu, darkened>>
(* _ctc_sai_hostif_packet_receive_from_kernel: the packet is read from a *)
(* watched descriptor, then the interface with that descriptor is looked up *)
(* and the packet sent to its object. *)
TxRead(f) ==
  /\ f \in watched /\ pkt.at = NoObject
  /\ pkt' = [Idle EXCEPT !.dir = "tx", !.at = openFds[f], !.fd = f]
  /\ UNCHANGED <<hostifs, openFds, watched, lagPorts, lagCb, toCpu, darkened>>
TxSend ==
  LET found == {o \in HifObjects : hostifs[o] = pkt.fd}
  IN /\ pkt.dir = "tx" /\ pkt.out = NoObject
     /\ pkt' = IF found = {} THEN Idle ELSE [pkt EXCEPT !.out = CHOOSE o \in found : TRUE]
     /\ UNCHANGED <<hostifs, openFds, watched, lagPorts, lagCb, toCpu, darkened>>
PacketDone ==
  /\ pkt.out # NoObject /\ pkt' = Idle
  /\ UNCHANGED <<hostifs, openFds, watched, lagPorts, lagCb, toCpu, darkened>>

HifNext ==
  \/ \E o \in HifObjects : CreateHostIf(o) \/ CreateHostIfAgain(o) \/ RemoveHostIf(o)
  \/ \E p \in HifPorts, l \in HifLags : JoinLag(p, l)
  \/ \E p \in HifPorts : LeaveLag(p)
  \/ \E p \in HifPorts, v \in HifVlans, tab \in Tables : RxLookup(p, v, tab)
  \/ RxWrite \/ (\E f \in Fds : TxRead(f)) \/ TxSend \/ PacketDone
HifSpec == HifInit /\ [][HifNext]_hifVars

-----------------------------------------------------------------------------
(* Every interface has an open, watched descriptor of its own; the control *)
(* packets of its object, and of a LAG's members, reach the CPU unless an *)
(* operation on another object switched them off. A packet that was looked up *)
(* is written to the device of the interface it was found for, and one read *)
(* from a device leaves at that device's object, unless the interface was *)
(* removed meanwhile. *)
HostIfsExact ==
  /\ \A o \in HifObjects : Live(o) => openFds[hostifs[o]] = o /\ hostifs[o] \in watched
  /\ \A o \in HifObjects \ darkened : Live(o) => o \in toCpu
  /\ \A l \in lagCb : Live(l) /\ \A p \in TrappedMembers(l) \ darkened : p \in toCpu
  /\ pkt.out # NoObject /\ ~pkt.raced => pkt.out = pkt.at
=============================================================================
