------------------------------ MODULE QosSched ------------------------------
(* Schedulers (ctc_sai_scheduler.c), scheduler groups of level 1 *)
(* (ctc_sai_scheduler_group.c) and the queues of one port that use them. The *)
(* queues are numbered as in the chip. A queue's class is the strict priority *)
(* it has on the port: DWRR queues share the class of the lowest of them, any *)
(* other queue has the class of its own number. Every call runs under the *)
(* database lock, and the SDK's calls succeed. *)
(* *)
(* The client creates a group without a scheduler, removes it when no queue *)
(* is in it and it has none, and takes the scheduler from the lowest DWRR *)
(* queue only when it is the last: the code counts and looks for none of it. *)
EXTENDS Naturals, FiniteSets, FiniteSetsExt

CONSTANTS
  NumQ,       \* queues of the port (CTC_QOS_BASIC_Q_NUM)
  Scheds,     \* scheduler ids, numbers from 1 on
  SchGroups,  \* groups of level 1, the index of the chip plus 1
  MaxChilds,  \* SAI_SCHEDULER_GROUP_ATTR_MAX_CHILDS the client gives
  MaxSchRef   \* bound: the count of a scheduler

SchTypes == {"STRICT", "DWRR"}
Qs == 0 .. NumQ - 1
DefaultPrio == 2     \* CTC_SAI_SCHED_CHAN_NODE_DEFAULT

ASSUME SchedAssumption ==
  /\ NumQ \in Nat \ {0} /\ MaxChilds \in Nat \ {0} /\ MaxSchRef \in Nat \ {0}
  /\ Scheds \subseteq Nat \ {0} /\ SchGroups \subseteq {1, 2}

VARIABLES
  schDb,      \* the schedulers: type, whether a maximum rate shapes, ref_cnt
  qSch,       \* p_queue->sch_id
  qGrp,       \* p_queue->sch_grp
  portSch,    \* p_port_db->sched_id
  grpDb,      \* the groups: scheduler and child list
  hwClass,    \* exceed class of each queue
  hwShape,    \* queues the chip shapes
  hwPrio,     \* class priority of each queue on its port
  torn        \* queues the chip was told a group for that the call then refused
schVars == <<schDb, qSch, qGrp, portSch, grpDb, hwClass, hwShape, hwPrio, torn>>

NoSch == [live |-> FALSE, type |-> "DWRR", rate |-> FALSE, ref |-> 0]
NoGrp == [live |-> FALSE, sched |-> 0, kids |-> {}]
SchInit ==
  /\ schDb = [s \in Scheds |-> NoSch]
  /\ qSch = [q \in Qs |-> 0] /\ qGrp = [q \in Qs |-> 0] /\ portSch = 0
  /\ grpDb = [g \in SchGroups |-> NoGrp]
  /\ hwClass = [q \in Qs |-> q] /\ hwShape = {} /\ hwPrio = [q \in Qs |-> DefaultPrio]
  /\ torn = {}

CanRef(s) == schDb[s].live /\ schDb[s].ref < MaxSchRef
\* count one use more of s and one less of old (0 is none); a use kept is not counted
Recount(db, s, old) ==
  [k \in Scheds |-> IF s = old THEN db[k]
     ELSE [db[k] EXCEPT !.ref = IF k = s THEN @ + 1 ELSE IF k = old /\ @ > 0 THEN @ - 1 ELSE @]]

-----------------------------------------------------------------------------
(* create_scheduler_id and remove_scheduler_id, which goes by the count. *)
CreateScheduler(s, ty, rate) ==
  /\ ~schDb[s].live
  /\ schDb' = [schDb EXCEPT ![s] = [live |-> TRUE, type |-> ty, rate |-> rate, ref |-> 0]]
  /\ UNCHANGED <<qSch, qGrp, portSch, grpDb, hwClass, hwShape, hwPrio, torn>>
RemoveScheduler(s) ==
  /\ schDb[s].live /\ schDb[s].ref = 0
  /\ schDb' = [schDb EXCEPT ![s] = NoSch]
  /\ UNCHANGED <<qSch, qGrp, portSch, grpDb, hwClass, hwShape, hwPrio, torn>>

(* _ctc_sai_scheduler_queue_map_scheduler. A strict queue gets its own class *)
(* and the queues above that shared it get the class of the first of them; a *)
(* DWRR queue puts all DWRR queues in the class of the lowest. *)
\* mutant: the queues that shared the class stay in it
StrictClass_stay(cls, q) == [cls EXCEPT ![q] = q]
StrictClass(cls, q) ==
  LET moved == {i \in Qs : i > q /\ cls[i] = q}
  IN [i \in Qs |-> CASE i = q -> q [] i \in moved -> Min(moved) [] OTHER -> cls[i]]
DwrrQueues(sch, db) == {i \in Qs : sch[i] # 0 /\ db[sch[i]].type = "DWRR"}
DwrrClass(cls, D) == [i \in Qs |-> IF i \in D THEN Min(D) ELSE cls[i]]
MapClass(cls, q, sch, db) ==
  IF db[sch[q]].type = "STRICT" THEN StrictClass(cls, q) ELSE DwrrClass(cls, DwrrQueues(sch, db))
MapShape(shape, q, sch, db) == IF db[sch[q]].rate THEN shape \cup {q} ELSE shape \ {q}

(* ctc_sai_scheduler_queue_set_scheduler, with a scheduler ... *)
QueueSetScheduler(q, s) ==
  /\ schDb[s].live /\ (s # qSch[q] => CanRef(s))
  /\ qSch' = [qSch EXCEPT ![q] = s]
  /\ schDb' = Recount(schDb, s, qSch[q])
  /\ hwClass' = MapClass(hwClass, q, qSch', schDb)
  /\ hwShape' = MapShape(hwShape, q, qSch', schDb)
  /\ UNCHANGED <<qGrp, portSch, grpDb, hwPrio, torn>>
(* ... and with none: the queue's own class, the others where they were. *)
QueueUnsetScheduler(q) ==
  /\ qSch[q] # 0
  /\ {i \in Qs \ {q} : hwClass[i] = q} = {}
  /\ qSch' = [qSch EXCEPT ![q] = 0]
  /\ schDb' = Recount(schDb, 0, qSch[q])
  /\ hwClass' = [hwClass EXCEPT ![q] = q] /\ hwShape' = hwShape \ {q}
  /\ UNCHANGED <<qGrp, portSch, grpDb, hwPrio, torn>>

(* ctc_sai_scheduler_port_set_scheduler; s = 0 takes the scheduler away. *)
PortSetScheduler(s) ==
  /\ s # portSch
  /\ IF s = 0 THEN TRUE ELSE CanRef(s)
  /\ portSch' = s /\ schDb' = Recount(schDb, s, portSch)
  /\ UNCHANGED <<qSch, qGrp, grpDb, hwClass, hwShape, hwPrio, torn>>

(* _ctc_sai_scheduler_set_attr: the record first, then every queue that uses *)
(* the scheduler is mapped again, from the lowest to the highest. *)
Remapped(cls, s, sch, db) ==
  LET C[n \in 0 .. NumQ] == IF n = 0 THEN cls
        ELSE IF sch[n-1] = s THEN MapClass(C[n-1], n - 1, sch, db) ELSE C[n-1]
  IN C[NumQ]
SetScheduler(s, ty, rate) ==
  /\ schDb[s].live /\ [schDb[s] EXCEPT !.type = ty, !.rate = rate] # schDb[s]
  /\ (ty = schDb[s].type) # (rate = schDb[s].rate)
  /\ schDb' = [schDb EXCEPT ![s].type = ty, ![s].rate = rate]
  /\ hwClass' = Remapped(hwClass, s, qSch, schDb')
  /\ hwShape' = {q \in Qs : IF qSch[q] = s THEN rate ELSE q \in hwShape}
  /\ UNCHANGED <<qSch, qGrp, portSch, grpDb, hwPrio, torn>>

-----------------------------------------------------------------------------
(* create_group_id takes the lowest free index of the level; remove_group_id *)
(* leaves children and scheduler alone. *)
CreateGroup ==
  LET free == {g \in SchGroups : ~grpDb[g].live} IN
  /\ free # {}
  /\ grpDb' = [grpDb EXCEPT ![Min(free)] = [NoGrp EXCEPT !.live = TRUE]]
  /\ UNCHANGED <<schDb, qSch, qGrp, portSch, hwClass, hwShape, hwPrio, torn>>
RemoveGroup(g) ==
  /\ grpDb[g].live /\ grpDb[g].sched = 0 /\ \A q \in Qs : qGrp[q] # g
  /\ grpDb' = [grpDb EXCEPT ![g] = NoGrp]
  /\ UNCHANGED <<schDb, qSch, qGrp, portSch, hwClass, hwShape, hwPrio, torn>>

(* ctc_sai_scheduler_group_set_scheduler. The scheduler that is replaced is *)
(* looked for under its object id as if that were its number, and not found: *)
(* the call fails at the end and the old count stays. *)
GroupSetScheduler(g, s) ==
  /\ grpDb[g].live /\ s # grpDb[g].sched
  /\ IF s = 0 THEN TRUE ELSE CanRef(s)
  /\ grpDb' = [grpDb EXCEPT ![g].sched = s]
  /\ schDb' = Recount(schDb, s, IF s = 0 THEN grpDb[g].sched ELSE 0)
  /\ UNCHANGED <<qSch, qGrp, portSch, hwClass, hwShape, hwPrio, torn>>

(* ctc_sai_scheduler_group_queue_set_scheduler: the chip, then the child *)
(* list, which may be full, then the queue. A queue that moves stays in the *)
(* list of the group it left. *)
\* mutant: the queue is recorded whether or not the group took it
QueueSetGroup_full(q, g) ==
  /\ grpDb[g].live
  /\ hwPrio' = [hwPrio EXCEPT ![q] = g - 1]
  /\ qGrp' = [qGrp EXCEPT ![q] = g]
  /\ UNCHANGED <<schDb, qSch, portSch, grpDb, hwClass, hwShape, torn>>
QueueSetGroup(q, g) ==
  /\ grpDb[g].live
  /\ hwPrio' = [hwPrio EXCEPT ![q] = g - 1]
  /\ IF q \notin grpDb[g].kids /\ Cardinality(grpDb[g].kids) >= MaxChilds
     THEN torn' = torn \cup {q} /\ UNCHANGED <<qGrp, grpDb>>
     ELSE /\ grpDb' = [grpDb EXCEPT ![g].kids = @ \cup {q}]
          /\ qGrp' = [qGrp EXCEPT ![q] = g] /\ torn' = torn \ {q}
  /\ UNCHANGED <<schDb, qSch, portSch, hwClass, hwShape>>
QueueUnsetGroup(q) ==
  /\ qGrp[q] # 0
  /\ grpDb' = [grpDb EXCEPT ![qGrp[q]].kids = @ \ {q}]
  /\ qGrp' = [qGrp EXCEPT ![q] = 0] /\ hwPrio' = [hwPrio EXCEPT ![q] = DefaultPrio]
  /\ torn' = torn \ {q}
  /\ UNCHANGED <<schDb, qSch, portSch, hwClass, hwShape>>

SchNext ==
  \/ \E s \in Scheds, ty \in SchTypes, rate \in BOOLEAN :
       CreateScheduler(s, ty, rate) \/ SetScheduler(s, ty, rate)
  \/ \E s \in Scheds : RemoveScheduler(s)
  \/ \E q \in Qs, s \in Scheds : QueueSetScheduler(q, s)
  \/ \E q \in Qs : QueueUnsetScheduler(q) \/ QueueUnsetGroup(q)
  \/ \E s \in Scheds \cup {0} : PortSetScheduler(s)
  \/ CreateGroup
  \/ \E g \in SchGroups : RemoveGroup(g)
  \/ \E g \in SchGroups, s \in Scheds \cup {0} : GroupSetScheduler(g, s)
  \/ \E q \in Qs, g \in SchGroups : QueueSetGroup(q, g)
SchSpec == SchInit /\ [][SchNext]_schVars

-----------------------------------------------------------------------------
(* Whatever schedulers are attached, exchanged and changed under the queues *)
(* that use them, the chip serves each queue as its scheduler says: the DWRR *)
(* queues share one class, that of the lowest, every other queue has a class *)
(* to itself, and a queue is shaped exactly when its scheduler has a rate. *)
ClassesExact ==
  LET D == DwrrQueues(qSch, schDb) IN
  /\ \A q \in Qs : hwClass[q] = IF q \in D THEN Min(D) ELSE q
  /\ hwShape = {q \in Qs : qSch[q] # 0 /\ schDb[qSch[q]].rate}

(* A scheduler in use by a queue, the port or a group cannot be removed: its *)
(* count never falls below its uses. *)
Uses(s) == Cardinality({q \in Qs : qSch[q] = s}) + Cardinality({g \in SchGroups : grpDb[g].sched = s})
           + (IF portSch = s THEN 1 ELSE 0)
SchedulersKept == \A s \in Scheds : schDb[s].ref >= Uses(s) /\ (Uses(s) > 0 => schDb[s].live)

(* A queue is in the child list of its group, a list is never longer than its *)
(* maximum, and the chip gives the queue the priority of its group, except *)
(* for a queue whose group was full: then the chip has the group it refused. *)
GroupsExact ==
  /\ \A q \in Qs : qGrp[q] # 0 => grpDb[qGrp[q]].live /\ q \in grpDb[qGrp[q]].kids
  /\ \A q \in Qs \ torn : hwPrio[q] = IF qGrp[q] = 0 THEN DefaultPrio ELSE qGrp[q] - 1
  /\ \A g \in SchGroups : Cardinality(grpDb[g].kids) <= MaxChilds

(* The three together: schedulers, groups and queues agree with the chip. *)
SchedulingExact == ClassesExact /\ SchedulersKept /\ GroupsExact
=============================================================================
