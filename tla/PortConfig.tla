----------------------------- MODULE PortConfig -----------------------------
(* Ports (ctc_sai_port.c): the record that any access to a port makes, the *)
(* sizes of frames, of which the chip has a small table for all ports, the *)
(* priority flow control of one mode or the other, and the rewriting of the *)
(* DSCP, which interfaces of the port take over when they are created *)
(* (ctc_sai_router_interface.c). What other modules have of a port (policers, *)
(* maps, segments, clocks, mirrors, tags) is in theirs. *)
EXTENDS Integers, FiniteSets, FiniteSetsExt

CONSTANTS
  PoPorts, PoIfs,
  PoSizes,      \* frame sizes in use
  PoEntries,    \* entries of the table, 8 in the chip
  PoClasses     \* priority classes, 8 in the code

ASSUME PoAssumption == PoEntries \in Nat \ {0} /\ PoSizes \subseteq Nat \ {0}

VARIABLES
  poMode,     \* port records: -> flow control mode
  frTable,    \* hardware: entry -> size, 0 when never written
  frPool,     \* entries taken from the pool
  poFrame,    \* hardware: port -> its entry, 0 for the size of the start
  pfcHw,      \* hardware: port -> direction -> classes
  dscpHw,     \* hardware: port -> whether it rewrites the DSCP
  ifDscp,     \* interfaces: -> [port, rewrites]
  poAsked,    \* history: the size last set with success
  frBorrowed, \* history: ports with an entry that is in the table but not taken
  pfcMixed,   \* history: ports whose mode changed over what is in the hardware
  dscpLate,   \* history: ports whose flag was set with interfaces there
  poFault     \* a write was refused, once in a behaviour

poVars == <<poMode, frTable, frPool, poFrame, pfcHw, dscpHw, ifDscp, poAsked, frBorrowed, pfcMixed,
            dscpLate, poFault>>
frVars == <<frTable, frPool, poFrame, poAsked, frBorrowed>>
pfcVars == <<pfcHw, pfcMixed>>
dscpVars == <<dscpHw, ifDscp, dscpLate>>

PoPut(f, k, v) == [x \in DOMAIN f \cup {k} |-> IF x = k THEN v ELSE f[x]]
PoDrop(f, k) == [x \in DOMAIN f \ {k} |-> f[x]]
Dirs == {"IN", "OUT"}

(* get_port_db: a port without a record gets one, of the combined mode. *)
Touched(p) == IF p \in DOMAIN poMode THEN poMode ELSE PoPut(poMode, p, "COMBINED")

(* max_frame_idx_cnt is counted, but the code that would free an entry *)
(* compares the array with 0: an entry stays taken, whatever the count. *)
EntriesOf(size) == {i \in 1..PoEntries : frTable[i] = size}
FreeEntries == 1..PoEntries \ frPool

(* set_max_frame: the entry with the size, or a new one. *)
SetFrame(p, size) ==
  /\ \/ /\ EntriesOf(size) # {}
        /\ LET i == Min(EntriesOf(size))
           IN /\ poFrame' = [poFrame EXCEPT ![p] = i]
              /\ frBorrowed' = IF i \in frPool THEN frBorrowed \ {p} ELSE frBorrowed \cup {p}
        /\ UNCHANGED <<frTable, frPool>>
     \/ /\ EntriesOf(size) = {} /\ FreeEntries # {}
        /\ LET i == Min(FreeEntries)
           IN /\ frTable' = [frTable EXCEPT ![i] = size]
              /\ frPool' = frPool \cup {i} /\ poFrame' = [poFrame EXCEPT ![p] = i]
        /\ frBorrowed' = frBorrowed \ {p}
  /\ poAsked' = [poAsked EXCEPT ![p] = size]
  /\ UNCHANGED poFault

(* Nothing to take, or the port's write is refused: then a new entry goes *)
(* back to the pool with its size in the table. *)
FrameRefused(p, size) ==
  /\ \/ /\ EntriesOf(size) = {} /\ FreeEntries = {} /\ UNCHANGED <<frTable, poFault>>
     \/ /\ ~poFault /\ poFault' = TRUE
        /\ frTable' = IF EntriesOf(size) = {} /\ FreeEntries # {}
                      THEN [frTable EXCEPT ![Min(FreeEntries)] = size] ELSE frTable
  /\ UNCHANGED <<frPool, poFrame, poAsked, frBorrowed>>

(* create_port asks for no new port; a refused one leaves the record. *)
CreatePort(p, size) ==
  /\ SetFrame(p, size) \/ FrameRefused(p, size)
  /\ poMode' = Touched(p)
  /\ UNCHANGED <<pfcVars, dscpVars>>

\* mutant: the entry of the old size goes back to the pool, in use or not
SetMtuFrees(p, size) ==
  /\ \/ /\ EntriesOf(size) # {}
        /\ poFrame' = [poFrame EXCEPT ![p] = Min(EntriesOf(size))]
        /\ frPool' = (frPool \ {poFrame[p]}) \cup EntriesOf(size) /\ UNCHANGED frTable
     \/ /\ EntriesOf(size) = {} /\ 1..PoEntries # frPool \ {poFrame[p]}
        /\ LET i == Min(1..PoEntries \ (frPool \ {poFrame[p]}))
           IN /\ frTable' = [frTable EXCEPT ![i] = size]
              /\ frPool' = (frPool \ {poFrame[p]}) \cup {i} /\ poFrame' = [poFrame EXCEPT ![p] = i]
  /\ poAsked' = [poAsked EXCEPT ![p] = size] /\ UNCHANGED <<frBorrowed, poFault>>
  /\ poMode' = Touched(p)
  /\ UNCHANGED <<pfcVars, dscpVars>>

(* The MTU: the old size is counted down, which frees nothing, before the new *)
(* one is set. *)
SetMtu(p, size) ==
  /\ SetFrame(p, size) \/ FrameRefused(p, size)
  /\ poMode' = Touched(p)
  /\ UNCHANGED <<pfcVars, dscpVars>>

(* Even a read of a port makes its record. *)
GetPort(p) ==
  /\ p \notin DOMAIN poMode /\ poMode' = Touched(p)
  /\ UNCHANGED <<frVars, pfcVars, dscpVars, poFault>>

Mixed(p) == pfcHw[p]["IN"] # pfcHw[p]["OUT"]

(* remove_port frees the record and leaves the hardware as it is. *)
RemovePort(p) ==
  /\ p \in DOMAIN poMode /\ poMode' = PoDrop(poMode, p)
  /\ pfcMixed' = IF Mixed(p) THEN pfcMixed \cup {p} ELSE pfcMixed
  /\ UNCHANGED <<frVars, pfcHw, dscpVars, poFault>>

(* The mode is the record's only. *)
SetPfcMode(p, mode) ==
  /\ poMode' = PoPut(poMode, p, mode)
  /\ pfcMixed' = IF Mixed(p) THEN pfcMixed \cup {p} ELSE pfcMixed
  /\ UNCHANGED <<frVars, pfcHw, dscpVars, poFault>>

\* mutant: the mode is not asked
SetPfcAnyhow(p, dirs, classes, done) ==
  /\ done = PoClasses
  /\ pfcHw' = [pfcHw EXCEPT ![p] = [d \in Dirs |-> IF d \in dirs THEN classes ELSE @[d]]]
  /\ pfcMixed' = pfcMixed
  /\ poMode' = Touched(p)
  /\ UNCHANGED <<frVars, dscpVars, poFault>>

(* The classes, for both directions in the combined mode and for one in the *)
(* other, written one by one: a refused write leaves the first ones (done). *)
(* Both directions of a class are one write. *)
SetPfc(p, dirs, classes, done) ==
  /\ (Touched(p)[p] = "COMBINED") = (dirs = Dirs)
  /\ done # PoClasses => ~poFault
  /\ pfcHw' = [pfcHw EXCEPT ![p] =
                 [d \in Dirs |-> IF d \in dirs THEN (@[d] \ done) \cup (classes \cap done) ELSE @[d]]]
  /\ pfcMixed' = IF dirs = Dirs /\ done = PoClasses THEN pfcMixed \ {p} ELSE pfcMixed
  /\ poFault' = (poFault \/ done # PoClasses)
  /\ poMode' = Touched(p)
  /\ UNCHANGED <<frVars, dscpVars>>

(* The port's interfaces are gone through, but the callback knows neither *)
(* this property nor those of the maps: they keep what they have. *)
SetUpdateDscp(p, on) ==
  /\ dscpHw' = [dscpHw EXCEPT ![p] = on] /\ poMode' = Touched(p)
  /\ dscpLate' = IF on # dscpHw[p] THEN dscpLate \cup {i \in DOMAIN ifDscp : ifDscp[i].port = p} ELSE dscpLate
  /\ UNCHANGED <<frVars, pfcVars, ifDscp, poFault>>

\* mutant: the port is not asked
CreateIfPlain(i, p) ==
  /\ i \notin DOMAIN ifDscp
  /\ ifDscp' = PoPut(ifDscp, i, [port |-> p, rewrites |-> FALSE])
  /\ dscpLate' = dscpLate \ {i}
  /\ UNCHANGED <<poMode, frVars, pfcVars, dscpHw, poFault>>

(* create_router_interface: set_domain takes over what the port has. *)
CreateIf(i, p) ==
  /\ i \notin DOMAIN ifDscp
  /\ ifDscp' = PoPut(ifDscp, i, [port |-> p, rewrites |-> dscpHw[p]])
  /\ dscpLate' = dscpLate \ {i}
  /\ UNCHANGED <<poMode, frVars, pfcVars, dscpHw, poFault>>

RemoveIf(i) ==
  /\ i \in DOMAIN ifDscp /\ ifDscp' = PoDrop(ifDscp, i)
  /\ UNCHANGED <<poMode, frVars, pfcVars, dscpHw, dscpLate, poFault>>

PoInit ==
  /\ poMode = << >> /\ ifDscp = << >>
  /\ frTable = [i \in 1..PoEntries |-> 0] /\ frPool = {}
  /\ poFrame = [p \in PoPorts |-> 0] /\ poAsked = [p \in PoPorts |-> 0]
  /\ pfcHw = [p \in PoPorts |-> [d \in Dirs |-> {}]] /\ dscpHw = [p \in PoPorts |-> FALSE]
  /\ frBorrowed = {} /\ pfcMixed = {} /\ dscpLate = {} /\ poFault = FALSE

(* The three aspects share no more than the record: a bound lets one of them *)
(* leave its start at a time. *)
NoFrames == frPool = {} /\ \A i \in 1..PoEntries : frTable[i] = 0
NoPfc == (\A p \in PoPorts, d \in Dirs : pfcHw[p][d] = {}) /\ pfcMixed = {}
NoDscp == ifDscp = << >> /\ \A p \in PoPorts : ~dscpHw[p]

PoNext ==
  \/ \E p \in PoPorts, s \in PoSizes : NoPfc /\ NoDscp /\ (CreatePort(p, s) \/ SetMtu(p, s))
  \/ \E p \in PoPorts : GetPort(p) \/ RemovePort(p)
  \/ \E p \in PoPorts, m \in {"COMBINED", "SEPARATE"} : NoFrames /\ NoDscp /\ SetPfcMode(p, m)
  \/ \E p \in PoPorts, ds \in {Dirs, {"IN"}, {"OUT"}}, cs, done \in SUBSET PoClasses :
       NoFrames /\ NoDscp /\ SetPfc(p, ds, cs, done)
  \/ \E p \in PoPorts, b \in BOOLEAN : NoFrames /\ NoPfc /\ SetUpdateDscp(p, b)
  \/ \E i \in PoIfs, p \in PoPorts : NoFrames /\ NoPfc /\ CreateIf(i, p)
  \/ \E i \in PoIfs : RemoveIf(i)

(* A port's frames are held to the size last set with success, whatever other *)
(* ports asked for since (_ctc_sai_port_set_max_frame), unless it found its *)
(* size in an entry that a refused write gave back; a port of the combined *)
(* mode stops the same classes both ways (ctc_sai_port_set_basic_info), but *)
(* for what a change of mode or a remove left; and an interface rewrites the *)
(* DSCP as its port did when it was created or since. *)
PortsExact ==
  /\ \A p \in PoPorts \ frBorrowed :
       poAsked[p] = IF poFrame[p] = 0 THEN 0 ELSE frTable[poFrame[p]]
  /\ \A i, j \in frPool : i # j => frTable[i] # frTable[j]
  /\ \A p \in DOMAIN poMode \ pfcMixed : poMode[p] = "COMBINED" => ~Mixed(p)
  /\ \A i \in DOMAIN ifDscp \ dscpLate : ifDscp[i].rewrites = dscpHw[ifDscp[i].port]
=============================================================================
