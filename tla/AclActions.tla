----------------------------- MODULE AclActions ------------------------------
(* What an ACL entry does (ctc_sai_acl.c): its packet action and its user *)
(* trap as recorded, and as the chip has them at each port the entry is at. *)
(* At a binding the chip's actions are computed from the record; afterwards *)
(* each change of an attribute is added to what the chip has. An entry with *)
(* the IN_PORTS field is several SDK entries, of which a change reaches the *)
(* first. The counter and the range of an entry are counted references. *)
EXTENDS Naturals, FiniteSets

CONSTANTS
  ActPoints,      \* ports the entry's table is bound to
  ActionKinds,  \* a subset of the ones named below
  MaxActRef       \* how far ref_cnt is counted here

ASSUME ActAssumption ==   \* the packet actions the code tells apart
  /\ ActionKinds \subseteq {"DROP", "FORWARD", "COPY", "COPY_CANCEL", "TRAP", "LOG", "DENY", "TRANSIT"}
  /\ MaxActRef \in Nat

VARIABLES
  rec,        \* the entry's record; live FALSE: none
  acts,       \* the chip: for each port, what the SDK entries do
  actBound,   \* ports the table is bound to
  counter, range,  \* the ACL counter and range: live and ref_cnt
  partial     \* history: the record does not say what the chip does
actVars == <<rec, acts, actBound, counter, range, partial>>

NoRec == [live |-> FALSE, pa |-> "NONE", trap |-> FALSE, multi |-> FALSE, ctr |-> "none", rng |-> FALSE]
NoActs == [drop |-> FALSE, cpu |-> "no"]
Absent == [drop |-> FALSE, cpu |-> "absent"]
ActInit ==
  /\ rec = NoRec /\ actBound = {} /\ partial = FALSE
  /\ acts = [q \in ActPoints |-> [first |-> Absent, rest |-> Absent]]
  /\ counter = [live |-> FALSE, ref |-> 0] /\ range = [live |-> FALSE, ref |-> 0]

Copies(pa) == pa \in {"COPY", "TRAP", "LOG"}
Discards(pa) == pa \in {"DROP", "TRAP", "DENY"}
(* _ctc_sai_acl_mapping_acl_entry_action_fields: a trap without an action *)
(* that copies is refused, the refusal is ignored and no action is left. *)
Mapped(r) ==
  IF r.trap /\ ~Copies(r.pa) THEN NoActs
  ELSE [drop |-> Discards(r.pa),
        cpu |-> IF ~Copies(r.pa) THEN "no" ELSE IF r.trap THEN "trap" ELSE "plain"]
Fresh(r) == [first |-> Mapped(r), rest |-> IF r.multi THEN Mapped(r) ELSE Absent]
(* _ctc_sai_acl_add_acl_entry_to_sdk_usw with the packet action to update. *)
WithDrop(a) == [a EXCEPT !.drop = TRUE]
NoDrop(a) == [a EXCEPT !.drop = FALSE]
WithCopy(a, r) == [a EXCEPT !.cpu = IF r.trap THEN "trap" ELSE "plain"]
NoCopy(a) == [a EXCEPT !.cpu = "no"]
Refuses(r, pa) == r.trap /\ pa \in {"COPY_CANCEL", "DENY", "TRANSIT"}
Changed(a, r, pa) ==
  CASE Refuses(r, pa) -> a
    [] pa = "DROP" -> WithDrop(a)
    [] pa = "FORWARD" -> NoDrop(a)
    [] pa = "COPY" -> WithCopy(a, r)
    [] pa = "COPY_CANCEL" -> NoCopy(a)
    [] pa = "TRAP" -> WithDrop(WithCopy(a, r))
    [] pa = "LOG" -> NoDrop(WithCopy(a, r))
    [] pa = "DENY" -> WithDrop(NoCopy(a))
    [] pa = "TRANSIT" -> NoDrop(NoCopy(a))

(* The entry's part of ctc_sai_acl_create_acl_entry and remove_acl_entry: the *)
(* counter's reference is looked for among the keys and never given back. *)
CreateEntry(pa, trap, multi, ctr, rng) ==
  /\ ~rec.live
  /\ ctr => counter.live /\ counter.ref < MaxActRef
  /\ rng => range.live
  /\ rec' = [live |-> TRUE, pa |-> pa, trap |-> trap, multi |-> multi,
             ctr |-> IF ctr THEN "held" ELSE "none", rng |-> rng]
  /\ acts' = [q \in ActPoints |-> IF q \in actBound THEN Fresh(rec') ELSE acts[q]]
  /\ counter' = IF ctr THEN [counter EXCEPT !.ref = @ + 1] ELSE counter
  /\ range' = IF rng THEN [range EXCEPT !.ref = @ + 1] ELSE range
  /\ partial' = FALSE
  /\ UNCHANGED actBound
RemoveEntry ==
  /\ rec.live
  /\ rec' = NoRec
  /\ acts' = [q \in ActPoints |-> [first |-> Absent, rest |-> Absent]]
  /\ range' = IF rec.rng THEN [range EXCEPT !.ref = @ - 1] ELSE range
  /\ partial' = FALSE
  /\ UNCHANGED <<actBound, counter>>

(* bind_point_acl_entry_add and bind_point_acl_entry_remove at port q. *)
BindPort(q) ==
  /\ q \notin actBound /\ actBound' = actBound \cup {q}
  /\ acts' = IF rec.live THEN [acts EXCEPT ![q] = Fresh(rec)] ELSE acts
  /\ UNCHANGED <<rec, counter, range, partial>>
UnbindPort(q) ==
  /\ q \in actBound /\ actBound' = actBound \ {q}
  /\ acts' = [acts EXCEPT ![q] = [first |-> Absent, rest |-> Absent]]
  /\ partial' = (partial /\ actBound' # {})
  /\ UNCHANGED <<rec, counter, range>>

(* ctc_sai_acl_set_acl_entry_info: the first SDK entry at each port changes; *)
(* a refusal is ignored and the attribute recorded. *)
Update(new, first) ==
  /\ rec.live /\ new # rec
  /\ rec' = new
  /\ acts' = [q \in ActPoints |-> IF q \in actBound THEN [acts[q] EXCEPT !.first = first[q]]
                                ELSE acts[q]]
  /\ UNCHANGED <<actBound, counter, range>>
IsPartial(pa) == pa \in {"FORWARD", "DROP", "COPY", "COPY_CANCEL"}
\* mutant: the action TRAP does not discard
SetPacketAction_trap(pa) ==
  LET new == [rec EXCEPT !.pa = pa]
  IN /\ Update(new, [q \in ActPoints |-> IF pa = "TRAP" THEN WithCopy(acts[q].first, rec) ELSE Changed(acts[q].first, rec, pa)])
     /\ partial' = (actBound # {} /\ (rec.multi \/ IsPartial(pa) \/ Refuses(rec, pa) \/ (rec.trap /\ ~Copies(pa))))
SetPacketAction(pa) ==
  LET new == [rec EXCEPT !.pa = pa]
  IN /\ Update(new, [q \in ActPoints |-> Changed(acts[q].first, rec, pa)])
     /\ partial' = (actBound # {} /\ (rec.multi \/ IsPartial(pa) \/ Refuses(rec, pa) \/ (rec.trap /\ ~Copies(pa))))
ClearPacketAction ==
  LET new == [rec EXCEPT !.pa = "NONE"]
  IN /\ Update(new, [q \in ActPoints |-> IF rec.trap THEN acts[q].first ELSE NoActs])
     /\ partial' = (actBound # {} /\ (rec.multi \/ rec.trap))
SetUserTrap ==
  LET new == [rec EXCEPT !.trap = TRUE]
  IN /\ Update(new, [q \in ActPoints |-> IF Copies(rec.pa) THEN [acts[q].first EXCEPT !.cpu = "trap"] ELSE acts[q].first])
     /\ partial' = (actBound # {} /\ (partial \/ rec.multi \/ ~Copies(rec.pa)))
ClearUserTrap ==
  LET new == [rec EXCEPT !.trap = FALSE]
  IN /\ Update(new, [q \in ActPoints |-> [acts[q].first EXCEPT !.cpu = "plain"]])
     /\ partial' = (actBound # {} /\ (partial \/ rec.multi \/ ~Copies(rec.pa)))
(* The COUNTER action set later: no reference is counted for it, and none *)
(* given back for the one it replaces. *)
SetCounter ==
  /\ rec.live /\ counter.live /\ rec.ctr = "none"
  /\ rec' = [rec EXCEPT !.ctr = "loose"]
  /\ UNCHANGED <<acts, actBound, counter, range, partial>>

CreateCounter ==
  /\ ~counter.live /\ counter' = [live |-> TRUE, ref |-> 0]
  /\ UNCHANGED <<rec, acts, actBound, range, partial>>
\* mutant: the references are not looked at
RemoveCounter_used ==
  /\ counter.live /\ counter' = [live |-> FALSE, ref |-> 0]
  /\ UNCHANGED <<rec, acts, actBound, range, partial>>
RemoveCounter ==
  /\ counter.live /\ counter.ref = 0
  /\ counter' = [live |-> FALSE, ref |-> 0]
  /\ UNCHANGED <<rec, acts, actBound, range, partial>>
CreateRange ==
  /\ ~range.live /\ range' = [live |-> TRUE, ref |-> 0]
  /\ UNCHANGED <<rec, acts, actBound, counter, partial>>
RemoveRange ==
  /\ range.live /\ range.ref = 0
  /\ range' = [live |-> FALSE, ref |-> 0]
  /\ UNCHANGED <<rec, acts, actBound, counter, partial>>

ActNext ==
  \/ \E pa \in ActionKinds \cup {"NONE"}, trap, multi, ctr, rng \in BOOLEAN : CreateEntry(pa, trap, multi, ctr, rng)
  \/ RemoveEntry \/ ClearPacketAction \/ SetUserTrap \/ ClearUserTrap \/ SetCounter
  \/ \E q \in ActPoints : BindPort(q) \/ UnbindPort(q)
  \/ \E pa \in ActionKinds : SetPacketAction(pa)
  \/ CreateCounter \/ RemoveCounter \/ CreateRange \/ RemoveRange
ActSpec == ActInit /\ [][ActNext]_actVars

-----------------------------------------------------------------------------
(* What an entry does at a port is what its record says it does, whichever *)
(* way it got there, until a change only adds to what the chip has, reaches *)
(* one of several SDK entries or is refused and recorded; then a full action *)
(* makes them agree again. It is in the chip at the bound ports and nowhere *)
(* else. A counter or range an entry was created with exists while it does. *)
ActionsExact ==
  /\ ~partial => \A q \in ActPoints :
       acts[q] = IF rec.live /\ q \in actBound THEN Fresh(rec) ELSE [first |-> Absent, rest |-> Absent]
  /\ \A q \in ActPoints : (acts[q].first.cpu # "absent") = (rec.live /\ q \in actBound)
  /\ rec.live => /\ rec.ctr = "held" => counter.live /\ counter.ref > 0
                 /\ rec.rng => range.live /\ range.ref = 1
=============================================================================
