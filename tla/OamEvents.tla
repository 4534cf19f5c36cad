----------------------------- MODULE OamEvents -----------------------------
(* The OAM event callback of ctc_sai_switch.c: the engine reports a batch of *)
(* MEPs by index, the callback looks each one up among the BFD sessions or *)
(* the Y.1731 sessions and remote MEPs and tells the client. It takes no *)
(* lock, and a MEP may be gone, or its index reused, when it runs. *)
EXTENDS Naturals, FiniteSets, Sequences

CONSTANTS
  MepIdx,        \* indexes of the OAM engine
  OamObjs,       \* ids of the objects that own MEPs
  OamDefects,    \* Y.1731 defects
  MaxOamBatch    \* entries of a batch

ASSUME OamAssumption == 0 \notin OamObjs /\ MaxOamBatch \in Nat

VARIABLES
  oamMep,     \* the MEPs: a function from indexes to owner and protocol
  oamQueue,   \* the entries the engine has collected
  oamTold     \* the last batch: its entries, what the client was told of each

oamVars == <<oamMep, oamQueue, oamTold>>

(* ctc_sai_bfd_create_bfd_session, ctc_sai_y1731_create_y1731_session and *)
(* ..._remote_mep: the engine chooses the index, the record keeps it. An *)
(* object has one protocol. *)
AddMep(i, o, proto, remote) ==
  /\ i \notin DOMAIN oamMep
  /\ \A j \in DOMAIN oamMep : oamMep[j].obj # o
  /\ oamMep' = [j \in DOMAIN oamMep \cup {i} |->
                  IF j = i THEN [obj |-> o, proto |-> proto, remote |-> remote]
                  ELSE oamMep[j]]
  /\ UNCHANGED <<oamQueue, oamTold>>

(* Their removals; an entry already collected is then about nobody. *)
RemoveMep(i) ==
  /\ i \in DOMAIN oamMep
  /\ oamMep' = [j \in DOMAIN oamMep \ {i} |-> oamMep[j]]
  /\ oamQueue' = [n \in DOMAIN oamQueue |->
                    IF oamQueue[n].idx = i THEN [oamQueue[n] EXCEPT !.was = 0]
                    ELSE oamQueue[n]]
  /\ UNCHANGED oamTold

(* The engine notices a change: for BFD the new state, for Y.1731 defects. *)
MepEvent(i, defects) ==
  /\ i \in DOMAIN oamMep /\ Len(oamQueue) < MaxOamBatch
  /\ oamQueue' = Append(oamQueue,
       [idx |-> i, proto |-> oamMep[i].proto, remote |-> oamMep[i].remote,
        was |-> oamMep[i].obj, defects |-> defects])
  /\ UNCHANGED <<oamMep, oamTold>>

\* mutant: a remote MEP is sought among the local indexes
MatchesLocal(e, x) == x.proto = e.proto /\ ~x.remote

(* ctc_sai_bfd_traverse_get_session_by_mepindex and *)
(* ctc_sai_y1731_traverse_get_oid_by_mepindex compare the entry's index with *)
(* the local or the remote one of the records of the protocol. *)
Matches(e, x) == x.proto = e.proto /\ x.remote = e.remote

(* The id variable of the protocol after the look-up: it keeps its value when *)
(* nothing is found. *)
Found(e, before) ==
  IF e.idx \in DOMAIN oamMep
  THEN IF Matches(e, oamMep[e.idx]) THEN oamMep[e.idx].obj ELSE before
  ELSE before

(* One round of the loop of ctc_sai_switch_oam_event_process. A BFD entry *)
(* without a state change is passed over; the list of Y.1731 events and its *)
(* length are never reset, so that an entry is told with the events of the *)
(* entries before it; an id that is still null ends the batch. *)
Step(st, e) ==
  LET o == Found(e, st.ids[e.proto])
      events == IF e.proto = "bfd" THEN {} ELSE st.events \cup e.defects
  IN
    IF st.stop \/ o = 0 THEN [st EXCEPT !.stop = TRUE]
    ELSE [ids |-> [st.ids EXCEPT ![e.proto] = o],
          events |-> st.events \cup events,
          stop |-> FALSE,
          told |-> IF e.proto = "bfd" /\ e.defects = {} THEN st.told
                   ELSE Append(st.told, [obj |-> o, events |-> events])]

(* The loop, from two null ids and an empty list *)
Begin == [ids |-> [p \in {"bfd", "y1731"} |-> 0], events |-> {}, stop |-> FALSE, told |-> << >>]
Rounds(q) ==
  LET st[n \in 0 .. Len(q)] == IF n = 0 THEN Begin ELSE Step(st[n - 1], q[n])
  IN st[Len(q)]

(* ctc_sai_switch_oam_event_process: the two callbacks follow the loop, and a *)
(* batch cut short reaches neither. *)
OamEventProcess ==
  /\ oamQueue # << >>
  /\ LET end == Rounds(oamQueue) IN
       oamTold' = [batch |-> oamQueue, told |-> IF end.stop THEN << >> ELSE end.told]
  /\ oamQueue' = << >>
  /\ UNCHANGED oamMep

OamInit ==
  /\ oamMep = << >> /\ oamQueue = << >>
  /\ oamTold = [batch |-> << >>, told |-> << >>]

OamNext ==
  \/ \E i \in MepIdx, o \in OamObjs, proto \in {"bfd", "y1731"}, remote \in BOOLEAN :
       oamTold.batch = << >> /\ AddMep(i, o, proto, remote)
  \/ \E i \in MepIdx : oamTold.batch = << >> /\ RemoveMep(i)
  \/ \E i \in MepIdx, d \in SUBSET OamDefects :
       oamTold.batch = << >> /\ MepEvent(i, d)
  \/ oamTold.batch = << >> /\ OamEventProcess
  \/ oamTold.batch # << >> /\ UNCHANGED oamVars

(* The entries of a batch that call for a notification, and the place of it *)
(* among those of the batch *)
Calls(e) == e.proto = "y1731" \/ e.defects # {}
Place(b, n) == Cardinality({m \in 1 .. n : Calls(b[m])})

(* What the client is told of an entry: the owner of the MEP, and for Y.1731 *)
(* the entry's defects, which are all there is to tell unless an entry came *)
(* before it. *)
ToldRight(b, n, t) ==
  /\ t.obj = b[n].was
  /\ b[n].proto = "y1731" =>
       /\ b[n].defects \subseteq t.events
       /\ t.events = b[n].defects \/ \E m \in 1 .. n - 1 : b[m].proto = "y1731"

(* A batch whose MEPs all live is told to the client in full and in order: *)
(* oam_event_process names the owner of each MEP, and the events of a Y.1731 *)
(* entry are among those told of it (the first one's exactly). *)
OamToldExact ==
  LET b == oamTold.batch IN
    (\A n \in DOMAIN b : b[n].was # 0) =>
      /\ Len(oamTold.told) = Place(b, Len(b))
      /\ \A n \in DOMAIN b : Calls(b[n]) => ToldRight(b, n, oamTold.told[Place(b, n)])
=============================================================================
