---------------------------- MODULE QosProfiles ----------------------------
(* The profiles of queues and priority groups: WRED (ctc_sai_wred.c) and *)
(* buffer profiles (ctc_sai_buffer.c), and their use by queues *)
(* (ctc_sai_queue.c) and ingress priority groups. A profile counts its users *)
(* and is removed when it has none. WRED and buffer profiles write the same *)
(* drop scheme of the queue, whichever comes last. The thresholds and the *)
(* colours of a profile are one value (and one more for flow control), 0 *)
(* what the chip has without one; a new profile has one value for both. *)
(* A queue's scheduler and group are in QosSched. Every call runs under the *)
(* database lock, and the SDK's calls succeed. *)
EXTENDS Naturals, FiniteSets

CONSTANTS
  Wreds,      \* ids of WRED profiles, from 1 on
  Bufs,       \* ids of buffer profiles, from 1 on
  ProfQueues, \* the queues
  Pgs,        \* the ingress priority groups
  Thresholds, \* values of a profile, from 1 on
  MaxUsed     \* bound of the counts

ASSUME ProfileAssumption ==
  /\ Wreds \subseteq Nat \ {0} /\ Bufs \subseteq Nat \ {0} /\ Thresholds \subseteq Nat \ {0}
  /\ MaxUsed \in Nat /\ IsFiniteSet(ProfQueues) /\ IsFiniteSet(Pgs)

VARIABLES
  wredDb,    \* ctc_sai_wred_db_t: value and used_cnt
  bufDb,     \* ctc_sai_buffer_profile_db_t: shared and flow control threshold, ref_cnt
  queueDb,   \* ctc_sai_queue_db_t: wred_id and buf_id
  pgDb,      \* ctc_sai_ingress_pg_db_t: whether there is one, and buf_prof_id
  hwDrop,    \* the drop scheme of each queue in the chip: mode and value
  hwPfc,     \* the flow control thresholds of each priority group in the chip
  mixed      \* queues that have had both profiles since their scheme was last sure
profVars == <<wredDb, bufDb, queueDb, pgDb, hwDrop, hwPfc, mixed>>

NoProf == [live |-> FALSE, th |-> 0, xoff |-> 0, ref |-> 0]
FreshProf(v) == [live |-> TRUE, th |-> v, xoff |-> v, ref |-> 0]
NoQueue == [wred |-> 0, buf |-> 0]
NoPg == [live |-> FALSE, buf |-> 0]
TailDrop(v) == [mode |-> "WTD", th |-> v]
EarlyDrop(v) == [mode |-> "WRED", th |-> v]
ProfInit ==
  /\ wredDb = [w \in Wreds |-> NoProf] /\ bufDb = [b \in Bufs |-> NoProf]
  /\ queueDb = [q \in ProfQueues |-> NoQueue] /\ pgDb = [g \in Pgs |-> NoPg]
  /\ hwDrop = [q \in ProfQueues |-> TailDrop(0)] /\ hwPfc = [g \in Pgs |-> 0]
  /\ mixed = {}

(* create_wred_id and remove_wred_id, create_profile_id, remove_profile_id. *)
CreateWred(w, v) ==
  /\ ~wredDb[w].live
  /\ wredDb' = [wredDb EXCEPT ![w] = FreshProf(v)]
  /\ UNCHANGED <<bufDb, queueDb, pgDb, hwDrop, hwPfc, mixed>>
RemoveWred(w) ==
  /\ wredDb[w].live /\ wredDb[w].ref = 0
  /\ wredDb' = [wredDb EXCEPT ![w] = NoProf]
  /\ UNCHANGED <<bufDb, queueDb, pgDb, hwDrop, hwPfc, mixed>>
CreateBuffer(b, v) ==
  /\ ~bufDb[b].live
  /\ bufDb' = [bufDb EXCEPT ![b] = FreshProf(v)]
  /\ UNCHANGED <<wredDb, queueDb, pgDb, hwDrop, hwPfc, mixed>>
RemoveBuffer(b) ==
  /\ bufDb[b].live /\ bufDb[b].ref = 0
  /\ bufDb' = [bufDb EXCEPT ![b] = NoProf]
  /\ UNCHANGED <<wredDb, queueDb, pgDb, hwDrop, hwPfc, mixed>>

Down(db, p) == IF db[p].ref = 0 THEN db ELSE [db EXCEPT ![p].ref = @ - 1]

-----------------------------------------------------------------------------
(* A queue with a WRED profile and a buffer profile has the scheme of the *)
(* one written last, and taking either off writes a default over both. *)
Mix(queue) ==
  {q \in ProfQueues : queue[q].wred # 0 /\ queue[q].buf # 0}
    \cup {q \in mixed : queue[q] # NoQueue}

(* _ctc_sai_queue_set_attr with ctc_sai_wred_queue_set_wred: the new profile *)
(* is written and counted, also when it is the present one, and the replaced *)
(* one is counted down. *)
QueueSetWred(q, w) ==
  LET old == queueDb[q].wred
      up == [wredDb EXCEPT ![w].ref = @ + 1]
  IN /\ wredDb[w].live /\ wredDb[w].ref < MaxUsed
     /\ wredDb' = IF old \in {0, w} THEN up ELSE Down(up, old)
     /\ queueDb' = [queueDb EXCEPT ![q].wred = w]
     /\ hwDrop' = [hwDrop EXCEPT ![q] = EarlyDrop(wredDb[w].th)]
     /\ mixed' = Mix(queueDb')
     /\ UNCHANGED <<bufDb, pgDb, hwPfc>>
QueueUnsetWred(q) ==
  LET w == queueDb[q].wred
  IN /\ w # 0 /\ wredDb[w].live
     /\ wredDb' = Down(wredDb, w)
     /\ queueDb' = [queueDb EXCEPT ![q].wred = 0]
     /\ hwDrop' = [hwDrop EXCEPT ![q] = TailDrop(0)]
     /\ mixed' = Mix(queueDb')
     /\ UNCHANGED <<bufDb, pgDb, hwPfc>>

(* ctc_sai_buffer_queue_set_profile: a repeated profile is written and not *)
(* counted. *)
\* mutant: the profile that replaces another one is not counted
Recounted_kept(db, old, b) == IF old = 0 THEN [db EXCEPT ![b].ref = @ + 1] ELSE db
Recounted(db, old, b) ==
  LET up == IF old = b THEN db ELSE [db EXCEPT ![b].ref = @ + 1]
  IN IF old \in {0, b} THEN up ELSE Down(up, old)
QueueSetBuffer(q, b) ==
  /\ bufDb[b].live /\ bufDb[b].ref < MaxUsed
  /\ bufDb' = Recounted(bufDb, queueDb[q].buf, b)
  /\ queueDb' = [queueDb EXCEPT ![q].buf = b]
  /\ hwDrop' = [hwDrop EXCEPT ![q] = TailDrop(bufDb[b].th)]
  /\ mixed' = Mix(queueDb')
  /\ UNCHANGED <<wredDb, pgDb, hwPfc>>
QueueUnsetBuffer(q) ==
  LET b == queueDb[q].buf
  IN /\ b # 0 /\ bufDb[b].live
     /\ bufDb' = Down(bufDb, b)
     /\ queueDb' = [queueDb EXCEPT ![q].buf = 0]
     /\ hwDrop' = [hwDrop EXCEPT ![q] = TailDrop(0)]
     /\ mixed' = Mix(queueDb')
     /\ UNCHANGED <<wredDb, pgDb, hwPfc>>

(* create_queue_id sets the WRED and then the buffer profile; when there is *)
(* no such buffer profile it fails and the first stays. *)
CreateQueue(q, w, b) ==
  /\ queueDb[q] = NoQueue
  /\ wredDb[w].live /\ wredDb[w].ref < MaxUsed /\ bufDb[b].ref < MaxUsed
  /\ wredDb' = [wredDb EXCEPT ![w].ref = @ + 1]
  /\ IF bufDb[b].live
     THEN /\ bufDb' = [bufDb EXCEPT ![b].ref = @ + 1]
          /\ queueDb' = [queueDb EXCEPT ![q] = [wred |-> w, buf |-> b]]
          /\ hwDrop' = [hwDrop EXCEPT ![q] = TailDrop(bufDb[b].th)]
     ELSE /\ queueDb' = [queueDb EXCEPT ![q].wred = w]
          /\ hwDrop' = [hwDrop EXCEPT ![q] = EarlyDrop(wredDb[w].th)]
          /\ UNCHANGED bufDb
  /\ mixed' = Mix(queueDb')
  /\ UNCHANGED <<pgDb, hwPfc>>
(* remove_queue_id takes both off and frees the record. *)
RemoveQueue(q) ==
  LET w == queueDb[q].wred
      b == queueDb[q].buf
  IN /\ queueDb[q] # NoQueue
     /\ wredDb' = IF w = 0 THEN wredDb ELSE Down(wredDb, w)
     /\ bufDb' = IF b = 0 THEN bufDb ELSE Down(bufDb, b)
     /\ hwDrop' = [hwDrop EXCEPT ![q] = TailDrop(0)]
     /\ queueDb' = [queueDb EXCEPT ![q] = NoQueue]
     /\ mixed' = Mix(queueDb')
     /\ UNCHANGED <<pgDb, hwPfc>>

(* The profiles' set_attr: a value in use is written to every queue that has *)
(* the profile (ctc_sai_queue_traverse_set). *)
TraverseSet(field, p, scheme) ==
  [q \in ProfQueues |-> IF queueDb[q][field] = p THEN scheme ELSE hwDrop[q]]
SetWred(w, v) ==
  /\ wredDb[w].live /\ wredDb[w].th # v
  /\ wredDb' = [wredDb EXCEPT ![w].th = v]
  /\ hwDrop' = IF wredDb[w].ref = 0 THEN hwDrop ELSE TraverseSet("wred", w, EarlyDrop(v))
  /\ UNCHANGED <<bufDb, queueDb, pgDb, hwPfc, mixed>>
(* A buffer profile's shared threshold goes to the queues that have it. Its *)
(* flow control threshold goes to every priority group that has a record, *)
(* whichever profile it has: the groups of other profiles, and those without *)
(* one, are moved to this one. *)
SetBuffer(b, v) ==
  /\ bufDb[b].live /\ bufDb[b].th # v
  /\ bufDb' = [bufDb EXCEPT ![b].th = v]
  /\ hwDrop' = IF bufDb[b].ref = 0 THEN hwDrop ELSE TraverseSet("buf", b, TailDrop(v))
  /\ UNCHANGED <<wredDb, queueDb, pgDb, hwPfc, mixed>>
SetXoff(b, v) ==
  LET taken == IF bufDb[b].ref = 0 THEN {} ELSE {g \in Pgs : pgDb[g].live}
      had(c) == Cardinality({g \in taken : pgDb[g].buf = c})
      Less(n, k) == IF k > n THEN 0 ELSE n - k
  IN /\ bufDb[b].live /\ bufDb[b].xoff # v
     /\ bufDb[b].ref + Cardinality(taken) - had(b) <= MaxUsed
     /\ bufDb' = [c \in Bufs |-> IF c = b
           THEN [bufDb[c] EXCEPT !.xoff = v, !.ref = @ + Cardinality(taken) - had(b)]
           ELSE [bufDb[c] EXCEPT !.ref = Less(@, had(c))]]
     /\ pgDb' = [g \in Pgs |-> IF g \in taken THEN [pgDb[g] EXCEPT !.buf = b] ELSE pgDb[g]]
     /\ hwPfc' = [g \in Pgs |-> IF g \in taken THEN v ELSE hwPfc[g]]
     /\ UNCHANGED <<wredDb, queueDb, hwDrop, mixed>>

-----------------------------------------------------------------------------
(* Priority groups: the record comes with the first call, and the profile *)
(* goes through ctc_sai_buffer_ingress_pg_set_profile. remove_group_id frees *)
(* the record and neither counts the profile down nor resets the chip. *)
PgSetProfile(g, b) ==
  /\ bufDb[b].live /\ bufDb[b].ref < MaxUsed
  /\ bufDb' = Recounted(bufDb, pgDb[g].buf, b)
  /\ pgDb' = [pgDb EXCEPT ![g] = [live |-> TRUE, buf |-> b]]
  /\ hwPfc' = [hwPfc EXCEPT ![g] = bufDb[b].xoff]
  /\ UNCHANGED <<wredDb, queueDb, hwDrop, mixed>>
PgUnsetProfile(g) ==
  /\ pgDb[g].live /\ pgDb[g].buf # 0 /\ bufDb[pgDb[g].buf].live
  /\ bufDb' = [bufDb EXCEPT ![pgDb[g].buf].ref = @ - 1]
  /\ pgDb' = [pgDb EXCEPT ![g].buf = 0]
  /\ hwPfc' = [hwPfc EXCEPT ![g] = 0]
  /\ UNCHANGED <<wredDb, queueDb, hwDrop, mixed>>
RemovePg(g) ==
  /\ pgDb[g].live
  /\ pgDb' = [pgDb EXCEPT ![g] = NoPg]
  /\ UNCHANGED <<wredDb, bufDb, queueDb, hwDrop, hwPfc, mixed>>

ProfNext ==
  \/ \E w \in Wreds, v \in Thresholds : CreateWred(w, v) \/ SetWred(w, v)
  \/ \E b \in Bufs, v \in Thresholds : CreateBuffer(b, v) \/ SetBuffer(b, v) \/ SetXoff(b, v)
  \/ \E w \in Wreds : RemoveWred(w)
  \/ \E b \in Bufs : RemoveBuffer(b)
  \/ \E q \in ProfQueues, w \in Wreds : QueueSetWred(q, w)
  \/ \E q \in ProfQueues, b \in Bufs : QueueSetBuffer(q, b)
  \/ \E q \in ProfQueues, w \in Wreds, b \in Bufs : CreateQueue(q, w, b)
  \/ \E q \in ProfQueues : QueueUnsetWred(q) \/ QueueUnsetBuffer(q) \/ RemoveQueue(q)
  \/ \E g \in Pgs, b \in Bufs : PgSetProfile(g, b)
  \/ \E g \in Pgs : PgUnsetProfile(g) \/ RemovePg(g)
ProfSpec == ProfInit /\ [][ProfNext]_profVars

-----------------------------------------------------------------------------
\* the scheme of a queue that has at most one of the two profiles
SchemeOf(q) ==
  IF queueDb[q].wred # 0 THEN EarlyDrop(wredDb[queueDb[q].wred].th)
  ELSE IF queueDb[q].buf # 0 THEN TailDrop(bufDb[queueDb[q].buf].th) ELSE TailDrop(0)
(* Every profile that a queue or a priority group names exists, whatever the *)
(* order in which profiles were shared, replaced and changed, and the chip *)
(* has its present value: this is what the counts that the in-use checks of *)
(* remove_wred_id and remove_profile_id read are for, and what the traversal *)
(* of set_attr keeps up. Where a queue has had both profiles at a time the *)
(* chip has the scheme of one of the calls, and where a group's record was *)
(* removed the chip keeps its thresholds. *)
ProfilesExact ==
  /\ \A q \in ProfQueues : /\ queueDb[q].wred # 0 => wredDb[queueDb[q].wred].live
                           /\ queueDb[q].buf # 0 => bufDb[queueDb[q].buf].live
                           /\ q \notin mixed => hwDrop[q] = SchemeOf(q)
  /\ \A g \in Pgs : pgDb[g].live =>
       IF pgDb[g].buf = 0 THEN hwPfc[g] = 0
       ELSE bufDb[pgDb[g].buf].live /\ hwPfc[g] = bufDb[pgDb[g].buf].xoff
=============================================================================
