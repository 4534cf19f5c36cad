-------------------------------- MODULE Traps --------------------------------
(* Host interface traps (ctc_sai_hostif.c): which packets go to the CPU and *)
(* on which of its queues. A trap is named by its CPU reason; a reason that *)
(* several trap types share is one trap with a count. The ordinary reasons *)
(* have an entry of the control-plane ACL, which drops the original packet *)
(* or not; the exceptions (TTL, MTU, sampling, OAM) have none. The queue of a *)
(* reason is that of the trap's group. *)
(* The client removes a group after its traps. *)
EXTENDS Naturals, FiniteSets, FiniteSetsExt

CONSTANTS
  NormalReasons,   \* reasons with an entry
  SpecialReasons,  \* CTC_SAI_NOT_NORMAL_EXCEP: reasons without one
  UserReasons,     \* reasons of the user-defined traps
  TrapGroups,      \* ids of groups, from the common pool
  CpuQueues,       \* queues other than 0
  EntryIds,        \* the pool of SDK ACL entries
  MaxTrapRef       \* bound: creations of one trap

Reasons == NormalReasons \cup SpecialReasons
Actions == {"FORWARD", "DROP", "TRAP", "COPY"}
Drops(action) == action \in {"DROP", "TRAP"}
ASSUME TrapAssumption ==
  /\ TrapGroups \subseteq Nat \ {0} /\ CpuQueues \subseteq Nat \ {0}
  /\ EntryIds \subseteq Nat \ {0} /\ MaxTrapRef \in Nat \ {0}
  /\ NormalReasons \cap SpecialReasons = {} /\ Reasons \cap UserReasons = {}

VARIABLES
  groups,    \* ctc_sai_hostif_trap_group_t: admin state and queue
  traps,     \* ctc_sai_hostif_trap_t
  userTraps, \* the entry of each user-defined trap; 0: no trap
  commonIds, \* ids in use of the common pool
  entryIds,  \* ids in use of the pool of ACL entries
  hwQueue,   \* the chip: queue of each reason
  hwEntry,   \* the chip: entries with their reason and whether they drop
  requeued,  \* history: traps whose queue a second creation took
  refused,   \* history: traps whose recorded action the chip refused
  abandoned  \* history: entries of creations that ended without a record
trapVars == <<groups, traps, userTraps, commonIds, entryIds, hwQueue, hwEntry, requeued, refused,
              abandoned>>

NoGroup == [live |-> FALSE, admin |-> FALSE, queue |-> 0]
NoTrap == [ref |-> 0, grp |-> 0, action |-> "DROP", entry |-> 0]
NoEntry == [reason |-> {}, drop |-> FALSE]
TrapInit ==
  /\ groups = [g \in TrapGroups |-> NoGroup]
  /\ traps = [r \in Reasons |-> NoTrap] /\ userTraps = [r \in UserReasons |-> 0]
  /\ commonIds = {} /\ entryIds = {}
  /\ hwQueue = [r \in Reasons |-> 0] /\ hwEntry = [e \in EntryIds |-> NoEntry]
  /\ requeued = {} /\ refused = {} /\ abandoned = {}

(* _ctc_sai_hostif_add_acl_qos_info: the queue of a group's traps. *)
QueueIn(grps, g) == IF grps[g].admin THEN grps[g].queue ELSE 0
(* _ctc_sai_hostif_add_acl_entry and _remove_acl_entry: an entry's id is *)
(* returned to the common pool and not to the one it was taken from. *)
FreeEntry == Min(EntryIds \ entryIds)
NeedsEntry(r) == r \notin SpecialReasons
CanAddEntry(r) == NeedsEntry(r) => EntryIds \ entryIds # {}
\* mutant: the entry stays in the chip
DropEntry_kept(ent) == commonIds' = commonIds \ {ent} /\ UNCHANGED hwEntry
DropEntry(ent) ==
  /\ commonIds' = commonIds \ {ent}
  /\ hwEntry' = IF ent = 0 THEN hwEntry ELSE [hwEntry EXCEPT ![ent] = NoEntry]

CreateTrapGroup(g, admin, q) ==
  /\ g \notin commonIds /\ ~groups[g].live
  /\ groups' = [groups EXCEPT ![g] = [live |-> TRUE, admin |-> admin, queue |-> q]]
  /\ commonIds' = commonIds \cup {g}
  /\ UNCHANGED <<traps, userTraps, entryIds, hwQueue, hwEntry, requeued, refused, abandoned>>
RemoveTrapGroup(g) ==
  /\ groups[g].live
  /\ \A r \in Reasons : traps[r].ref > 0 => traps[r].grp # g   \* the client's discipline
  /\ groups' = [groups EXCEPT ![g] = NoGroup] /\ commonIds' = commonIds \ {g}
  /\ UNCHANGED <<traps, userTraps, entryIds, hwQueue, hwEntry, requeued, refused, abandoned>>
(* set_trap_group_property, with _cmp_trap_group over all traps of the group. *)
InGroup(g) == {r \in Reasons : traps[r].ref > 0 /\ traps[r].grp = g}
\* mutant: only the record changes
SetTrapGroupAttr_record(g, admin, q) ==
  /\ groups[g].live /\ (admin # groups[g].admin \/ q # groups[g].queue)
  /\ (admin = groups[g].admin \/ q = groups[g].queue)
  /\ groups' = [groups EXCEPT ![g].admin = admin, ![g].queue = q]
  /\ UNCHANGED <<traps, userTraps, commonIds, entryIds, hwQueue, hwEntry, requeued, refused, abandoned>>
SetTrapGroupAttr(g, admin, q) ==
  /\ groups[g].live /\ (admin # groups[g].admin \/ q # groups[g].queue)
  /\ (admin = groups[g].admin \/ q = groups[g].queue)   \* one attribute a call
  /\ groups' = [groups EXCEPT ![g].admin = admin, ![g].queue = q]
  /\ hwQueue' = [r \in Reasons |-> IF r \in InGroup(g) THEN QueueIn(groups', g) ELSE hwQueue[r]]
  /\ requeued' = requeued \ InGroup(g)
  /\ UNCHANGED <<traps, userTraps, commonIds, entryIds, hwEntry, refused, abandoned>>

(* create_hostif_trap. The entry is added and its action set first; a COPY, *)
(* which _set_trap_action refuses for an ordinary reason, destroys it again *)
(* (and loses its id). The queue is written before the database says that *)
(* the trap exists: then only the new entry goes, and the count grows. *)
CreateTrap(r, g, action) ==
  LET e == IF NeedsEntry(r) THEN FreeEntry ELSE 0
      fresh == [ref |-> 1, grp |-> g, action |-> action, entry |-> e]
      again == traps[r].ref > 0
  IN /\ groups[g].live /\ CanAddEntry(r) /\ traps[r].ref < MaxTrapRef
     /\ ~(NeedsEntry(r) /\ action = "COPY")
     /\ entryIds' = entryIds \cup ({e} \ {0})
     /\ hwQueue' = [hwQueue EXCEPT ![r] = QueueIn(groups, g)]
     /\ traps' = [traps EXCEPT ![r] = IF again THEN [traps[r] EXCEPT !.ref = @ + 1] ELSE fresh]
     /\ requeued' = IF again /\ QueueIn(groups, g) # QueueIn(groups, traps[r].grp)
                    THEN requeued \cup {r} ELSE requeued \ {r}
     /\ IF again THEN DropEntry(e)
        ELSE /\ hwEntry' = IF e = 0 THEN hwEntry
                           ELSE [hwEntry EXCEPT ![e] = [reason |-> {r}, drop |-> Drops(action)]]
             /\ UNCHANGED commonIds
     /\ UNCHANGED <<groups, userTraps, refused, abandoned>>
CreateTrapRefused(r, g) ==
  /\ NeedsEntry(r) /\ groups[g].live /\ CanAddEntry(r)
  /\ entryIds' = entryIds \cup {FreeEntry} /\ commonIds' = commonIds \ {FreeEntry}
  /\ UNCHANGED <<groups, traps, userTraps, hwQueue, hwEntry, requeued, refused, abandoned>>

(* Without a packet action, or with a mirror session, the creation returns *)
(* and leaves the entry it has added, without an action. *)
CreateTrapUnfinished(r) ==
  /\ NeedsEntry(r) /\ CanAddEntry(r)
  /\ entryIds' = entryIds \cup {FreeEntry} /\ abandoned' = abandoned \cup {FreeEntry}
  /\ hwEntry' = [hwEntry EXCEPT ![FreeEntry] = [reason |-> {r}, drop |-> FALSE]]
  /\ UNCHANGED <<groups, traps, userTraps, commonIds, hwQueue, requeued, refused>>

(* remove_hostif_trap: the last removal gives up the queue and the entry. *)
RemoveTrap(r) ==
  /\ traps[r].ref > 0
  /\ IF traps[r].ref > 1
     THEN /\ traps' = [traps EXCEPT ![r].ref = @ - 1]
          /\ UNCHANGED <<commonIds, hwQueue, hwEntry, requeued, refused>>
     ELSE /\ traps' = [traps EXCEPT ![r] = NoTrap]
          /\ hwQueue' = [hwQueue EXCEPT ![r] = 0]
          /\ DropEntry(traps[r].entry)
          /\ requeued' = requeued \ {r} /\ refused' = refused \ {r}
  /\ UNCHANGED <<groups, userTraps, entryIds, abandoned>>

(* set_trap_property. An action is recorded before the chip may refuse it. *)
SetAction(r, action) ==
  /\ traps[r].ref > 0 /\ traps[r].action # action
  /\ traps' = [traps EXCEPT ![r].action = action]
  /\ IF ~NeedsEntry(r) THEN UNCHANGED <<hwEntry, refused>>
     ELSE IF action = "COPY" THEN refused' = refused \cup {r} /\ UNCHANGED hwEntry
     ELSE /\ hwEntry' = [hwEntry EXCEPT ![traps[r].entry].drop = Drops(action)]
          /\ refused' = refused \ {r}
  /\ UNCHANGED <<groups, userTraps, commonIds, entryIds, hwQueue, requeued, abandoned>>
(* The group of a trap whose action the chip refused: queue 0 stays. *)
SetTrapGroup(r, g) ==
  LET stuck == NeedsEntry(r) /\ traps[r].action = "COPY"
  IN /\ traps[r].ref > 0 /\ traps[r].action \in {"TRAP", "COPY"}
     /\ groups[g].live /\ g # traps[r].grp
     /\ traps' = [traps EXCEPT ![r].grp = g]
     /\ hwQueue' = [hwQueue EXCEPT ![r] = IF stuck THEN 0 ELSE QueueIn(groups, g)]
     /\ requeued' = IF stuck /\ QueueIn(groups, g) # 0 THEN requeued \cup {r} ELSE requeued \ {r}
     /\ UNCHANGED <<groups, userTraps, commonIds, entryIds, hwEntry, refused, abandoned>>
(* create_ and remove_hostif_user_defined_trap: their action is that of a *)
(* cleared record, DROP, and no queue is written for them. *)
CreateUserTrap(r) ==
  /\ userTraps[r] = 0 /\ CanAddEntry(r)
  /\ userTraps' = [userTraps EXCEPT ![r] = FreeEntry]
  /\ entryIds' = entryIds \cup {FreeEntry}
  /\ hwEntry' = [hwEntry EXCEPT ![FreeEntry] = [reason |-> {r}, drop |-> TRUE]]
  /\ UNCHANGED <<groups, traps, commonIds, hwQueue, requeued, refused, abandoned>>
RemoveUserTrap(r) ==
  /\ userTraps[r] # 0
  /\ userTraps' = [userTraps EXCEPT ![r] = 0]
  /\ DropEntry(userTraps[r])
  /\ UNCHANGED <<groups, traps, entryIds, hwQueue, requeued, refused, abandoned>>

(* Warm boot: the pools are filled from the records, which the reload of the *)
(* groups and traps brings back; lost ids return. User-defined traps are not *)
(* saved: the client removes them first. The id of an abandoned entry would *)
(* be given out again while the chip has the entry: not modelled. *)
ReloadTraps ==
  /\ abandoned = {}
  /\ \A r \in UserReasons : userTraps[r] = 0
  /\ commonIds' = {g \in TrapGroups : groups[g].live}
  /\ entryIds' = {traps[r].entry : r \in Reasons} \ {0}
  /\ UNCHANGED <<groups, traps, userTraps, hwQueue, hwEntry, requeued, refused, abandoned>>

TrapNext ==
  \/ ReloadTraps
  \/ \E g \in TrapGroups, admin \in BOOLEAN, q \in CpuQueues :
       CreateTrapGroup(g, admin, q) \/ SetTrapGroupAttr(g, admin, q)
  \/ \E g \in TrapGroups : RemoveTrapGroup(g)
  \/ \E r \in Reasons, g \in TrapGroups, action \in Actions : CreateTrap(r, g, action)
  \/ \E r \in Reasons, g \in TrapGroups : CreateTrapRefused(r, g) \/ SetTrapGroup(r, g)
  \/ \E r \in Reasons, action \in Actions : SetAction(r, action)
  \/ \E r \in Reasons : RemoveTrap(r) \/ CreateTrapUnfinished(r)
  \/ \E r \in UserReasons : CreateUserTrap(r) \/ RemoveUserTrap(r)
TrapSpec == TrapInit /\ [][TrapNext]_trapVars

-----------------------------------------------------------------------------
(* A trapped reason goes to the queue of its trap's group as the group now is *)
(* (0 while the group is down), unless a second creation took the queue; a *)
(* reason without a trap to queue 0. Each ordinary or user-defined trap has *)
(* exactly one entry in the chip, under an id the pool holds, which drops as *)
(* the trap's action says unless the chip refused that action; and no entry *)
(* outlives its trap, but those of creations that left one behind. *)
TrapsExact ==
  /\ \A r \in Reasons \ requeued :
       hwQueue[r] = IF traps[r].ref = 0 THEN 0 ELSE QueueIn(groups, traps[r].grp)
  /\ \A r \in NormalReasons \ refused : traps[r].ref > 0 =>
       hwEntry[traps[r].entry] = [reason |-> {r}, drop |-> Drops(traps[r].action)]
  /\ \A e \in EntryIds \ abandoned : hwEntry[e] # NoEntry =>
       e \in entryIds /\ hwEntry[e].reason =
         {r \in NormalReasons : traps[r].ref > 0 /\ traps[r].entry = e}
           \cup {r \in UserReasons : userTraps[r] = e}
=============================================================================
