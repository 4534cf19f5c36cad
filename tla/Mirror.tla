------------------------------- MODULE Mirror --------------------------------
(* Mirror sessions (ctc_sai_mirror.c) and who mirrors to them. A port or an *)
(* ACL entry names a list of sessions; each list in use takes one of the few *)
(* session slots of its stage (CTC_SAI_DB_VECTOR_TYPE_MIRROR), shared by all *)
(* who name the same list and counted in session_ref_cnt. A slot has a next *)
(* hop for each remote session and a multicast group when there are several *)
(* destinations. The slot a port uses is read back from the chip. *)
EXTENDS Naturals, FiniteSets, FiniteSetsExt

CONSTANTS
  MirSessions,  \* numbers: the lists are sorted by object id
  MirDests,     \* monitor ports
  MirUsers,     \* ports with a direction, and ACL entries
  AclUsers,     \* the ones that are ACL entries: a stage of their own
  SlotNum,      \* CTC_SAI_MIRROR_SESSION_CNT
  NhNum         \* next hop ids that mirroring can take
ASSUME MirAssumption ==
  IsFiniteSet(MirSessions) /\ IsFiniteSet(MirUsers) /\ SlotNum \in Nat /\ NhNum \in Nat

VARIABLES
  sess,      \* the sessions' records; kind "none": not created
  slots,     \* for each stage and slot, its record; ref 0: none
  hwDest,    \* the chip: destinations of each slot
  hwUser,    \* the chip: the slot each user is switched to; 0: off
  nhFree,    \* next hop ids left
  nhLost,    \* history: next hop ids never given back
  unhooked,  \* history: users left at a slot they gave back
  freedLists      \* history: sessions whose list of ports was freed in use
mirVars == <<sess, slots, hwDest, hwUser, nhFree, nhLost, unhooked, freedLists>>

(* mirror_db_type: each has its slots. *)
StageOf(u) == IF u \in AclUsers THEN "acl" ELSE "port"
Stages == {StageOf(u) : u \in MirUsers}
NoSess == [kind |-> "none", dst |-> {}]
NoSlot == [list |-> {}, ref |-> 0, nh |-> 0]
MirInit ==
  /\ sess = [s \in MirSessions |-> NoSess]
  /\ slots = [t \in Stages |-> [i \in 1..SlotNum |-> NoSlot]]
  /\ hwDest = [t \in Stages |-> [i \in 1..SlotNum |-> {}]]
  /\ hwUser = [u \in MirUsers |-> 0]
  /\ nhFree = NhNum /\ nhLost = 0 /\ unhooked = {} /\ freedLists = {}

Kinds == {"local", "list", "rspan", "erspan"}
LiveSess(s) == sess[s].kind # "none"
DestsOf(L) == UNION {sess[s].dst : s \in L}
(* The multicast group of the SDK has a destination once: the sessions of a *)
(* list are given different monitor ports. *)
Apart(L, r) == \A a, b \in L : a # b => r[a].dst \cap r[b].dst = {}
InSlots(s) == {ti \in Stages \X (1..SlotNum) : s \in slots[ti[1]][ti[2]].list}

(* _ctc_sai_mirror_create_mirr_session_attr_chk and build_mirr_session_attr. *)
CreateSession(s, k, ds) ==
  /\ ~LiveSess(s) /\ ds # {}
  /\ k # "list" => Cardinality(ds) = 1
  /\ sess' = [sess EXCEPT ![s] = [kind |-> k, dst |-> ds]]
  /\ UNCHANGED <<slots, hwDest, hwUser, nhFree, nhLost, unhooked, freedLists>>
\* mutant: a session that a slot uses can be removed
RemoveSession_used(s) ==
  /\ LiveSess(s)
  /\ sess' = [sess EXCEPT ![s] = NoSess]
  /\ UNCHANGED <<slots, hwDest, hwUser, nhFree, nhLost, unhooked, freedLists>>
RemoveSession(s) ==
  /\ LiveSess(s) /\ InSlots(s) = {}
  /\ sess' = [sess EXCEPT ![s] = NoSess]
  /\ UNCHANGED <<slots, hwDest, hwUser, nhFree, nhLost, unhooked, freedLists>>

(* _ctc_sai_mirror_free_sess_res, on the slots of one stage. *)
Freed(sl, i) ==
  [sl EXCEPT ![i] = IF sl[i].ref = 1 THEN NoSlot ELSE [sl[i] EXCEPT !.ref = sl[i].ref - 1]]
(* The next hops of a new slot: one for each remote session, one for the *)
(* multicast group. *)
HasGroup(L) == Cardinality(L) > 1 \/ \E s \in L : sess[s].kind = "list"
NhNeed(L) == Cardinality({s \in L : sess[s].kind \in {"rspan", "erspan"}}) + (IF HasGroup(L) THEN 1 ELSE 0)
(* _ctc_sai_mirror_alloc_sess_res: a slot with this list, or the first free *)
(* one; 0: none. *)
SlotFor(sl, L) ==
  LET hits == {i \in 1..SlotNum : sl[i].ref > 0 /\ sl[i].list = L}
      open == {i \in 1..SlotNum : sl[i].ref = 0}
  IN IF hits # {} THEN Min(hits) ELSE IF open # {} THEN Min(open) ELSE 0

(* ctc_sai_mirror_set_port_mirr and set_acl_mirr: the slot in use is given *)
(* back first. When the new list then finds no slot or no next hop, the user *)
(* stays switched to the old slot; the next hops already taken are not given *)
(* back. *)
SetMirror(u, L) ==
  LET t == StageOf(u)
      old == hwUser[u]
      back == IF old = 0 THEN slots[t] ELSE Freed(slots[t], old)
      nhBack == IF old # 0 /\ back[old].ref = 0 THEN slots[t][old].nh ELSE 0
      i == SlotFor(back, L)
      need == IF back[i].ref > 0 THEN 0 ELSE NhNeed(L)
      have == nhFree + nhBack
      cleared == IF old # 0 /\ back[old].ref = 0 THEN [hwDest[t] EXCEPT ![old] = {}] ELSE hwDest[t]
  IN /\ \A s \in L : LiveSess(s)
     /\ Apart(L, sess)
     /\ old = 0 => L # {}
     /\ CASE L = {} ->
              /\ slots' = [slots EXCEPT ![t] = back] /\ nhFree' = have
              /\ hwDest' = [hwDest EXCEPT ![t] = cleared]
              /\ hwUser' = [hwUser EXCEPT ![u] = 0] /\ UNCHANGED <<nhLost, unhooked>>
          [] L # {} /\ i # 0 /\ need <= have ->
              /\ slots' = [slots EXCEPT ![t] = [back EXCEPT ![i] =
                   IF back[i].ref > 0 THEN [back[i] EXCEPT !.ref = back[i].ref + 1]
                   ELSE [list |-> L, ref |-> 1, nh |-> need]]]
              /\ hwDest' = [hwDest EXCEPT ![t] = [cleared EXCEPT ![i] = DestsOf(L)]]
              /\ hwUser' = [hwUser EXCEPT ![u] = i]
              /\ nhFree' = have - need /\ UNCHANGED <<nhLost, unhooked>>
          [] OTHER ->
              /\ slots' = [slots EXCEPT ![t] = back]
              /\ hwDest' = [hwDest EXCEPT ![t] = cleared]
              /\ nhFree' = IF i = 0 THEN have ELSE 0
              /\ nhLost' = IF i = 0 THEN nhLost ELSE nhLost + have
              /\ unhooked' = IF old = 0 THEN unhooked ELSE unhooked \cup {u}
              /\ UNCHANGED hwUser
     /\ UNCHANGED <<sess, freedLists>>

(* _ctc_sai_mirr_set_attr with a new monitor port or port list, and *)
(* _ctc_sai_mirror_lkup_set_attr at every slot that has the session. A bound *)
(* RSPAN session refuses. The old list of ports is freed at the first slot *)
(* and read again at the next one. *)
CanMove(s, ds) ==
  /\ LiveSess(s) /\ ds # {} /\ ds # sess[s].dst
  /\ sess[s].kind # "list" => Cardinality(ds) = 1
  /\ sess[s].kind = "rspan" => InSlots(s) = {}
  /\ \A ti \in InSlots(s) : Apart(slots[ti[1]][ti[2]].list, [sess EXCEPT ![s].dst = ds])
\* mutant: only a slot whose only session this is follows
SetDest_alone(s, ds) ==
  /\ CanMove(s, ds)
  /\ sess' = [sess EXCEPT ![s].dst = ds]
  /\ hwDest' = [t \in Stages |-> [i \in 1..SlotNum |->
       IF slots[t][i].list = {s} THEN ds ELSE hwDest[t][i]]]
  /\ freedLists' = IF sess[s].kind = "list" /\ Cardinality(InSlots(s)) > 1 THEN freedLists \cup {s} ELSE freedLists
  /\ UNCHANGED <<slots, hwUser, nhFree, nhLost, unhooked>>
SetDest(s, ds) ==
  /\ CanMove(s, ds)
  /\ sess' = [sess EXCEPT ![s].dst = ds]
  /\ hwDest' = [t \in Stages |-> [i \in 1..SlotNum |->
       IF s \in slots[t][i].list THEN (hwDest[t][i] \ sess[s].dst) \cup ds ELSE hwDest[t][i]]]
  /\ freedLists' = IF sess[s].kind = "list" /\ Cardinality(InSlots(s)) > 1 THEN freedLists \cup {s} ELSE freedLists
  /\ UNCHANGED <<slots, hwUser, nhFree, nhLost, unhooked>>
(* Any other attribute of a bound session with a list of ports: the list is *)
(* written again and freed, and the record still points to it. *)
SetOther(s) ==
  /\ sess[s].kind = "list" /\ InSlots(s) # {}
  /\ freedLists' = freedLists \cup {s}
  /\ UNCHANGED <<sess, slots, hwDest, hwUser, nhFree, nhLost, unhooked>>
(* Warm boot: the next hop ids are taken again as the slots' records name *)
(* them; the ones lost before are free to the code and still in the chip. *)
ReloadMirrors ==
  /\ nhLost > 0
  /\ nhFree' = nhFree + nhLost /\ nhLost' = 0
  /\ UNCHANGED <<sess, slots, hwDest, hwUser, unhooked, freedLists>>

(* A user left at a slot it gave back, and a freed list, are followed no *)
(* further. *)
Hooked == unhooked = {} /\ freedLists = {}
MirNext ==
  \/ ~Hooked /\ UNCHANGED mirVars
  \/ \E s \in MirSessions, k \in Kinds, ds \in SUBSET MirDests : Hooked /\ CreateSession(s, k, ds)
  \/ \E s \in MirSessions, ds \in SUBSET MirDests : Hooked /\ SetDest(s, ds)
  \/ \E s \in MirSessions : Hooked /\ (RemoveSession(s) \/ SetOther(s))
  \/ \E u \in MirUsers, L \in SUBSET MirSessions : Hooked /\ SetMirror(u, L)
  \/ Hooked /\ ReloadMirrors
MirSpec == MirInit /\ [][MirNext]_mirVars

-----------------------------------------------------------------------------
UsersOf(t, i) == {u \in MirUsers : StageOf(u) = t /\ hwUser[u] = i}
SlotExact(t, i) ==
  LET sl == slots[t][i]
  IN /\ sl.ref = Cardinality(UsersOf(t, i))
     /\ (sl.list = {}) = (sl.ref = 0)
     /\ \A s \in sl.list : LiveSess(s)
     /\ hwDest[t][i] = DestsOf(sl.list)
(* The next hops of every slot, counted one by one. *)
NhTakenIn(sls) ==
  Cardinality({x \in Stages \X (1..SlotNum) \X (1..NhNum) : x[3] <= sls[x[1]][x[2]].nh})
NhTaken == NhTakenIn(slots)
(* Mirroring: set_port_mirr and set_acl_mirr count the users of each slot, *)
(* remove_mirr_session and set_attr keep the chip's destinations those of the *)
(* sessions' records, and no next hop is given back twice or lost unseen; *)
(* until a change of list fails or a port list is freed in use. *)
MirrorsExact ==
  /\ Hooked => \A t \in Stages, i \in 1..SlotNum : SlotExact(t, i)
  /\ nhFree + nhLost + NhTaken = NhNum
=============================================================================
