----------------------------- MODULE Isolation -----------------------------
(* Isolation groups (ctc_sai_isolation_group.c). A group owns a hardware *)
(* isolation id; a member puts its port under that id. remove_group releases *)
(* the database lock before it clears the id in hardware and frees it. *)
EXTENDS Naturals, FiniteSets, FiniteSetsExt

CONSTANTS IsoIds, IsoPorts

ASSUME IsoAssumption == IsoIds \subseteq Nat \ {0}

IsoKinds == {"PORT", "BRIDGE_PORT"}

VARIABLES
  isoGroup,    \* group records: id -> [type, list]
  isoUsed,     \* ids taken from the pool
  isoHw,       \* ids that isolate their ports from each other
  isoMember,   \* member records: port -> id of its group
  isoRestrict, \* the id each port is under, 0 for none
  isoGoing,    \* groups whose remove_group has released the lock
  isoOrphans   \* members freed with their group, still recorded

isoVars == <<isoGroup, isoUsed, isoHw, isoMember, isoRestrict, isoGoing, isoOrphans>>

IsoPut(f, k, v) == [x \in DOMAIN f \cup {k} |-> IF x = k THEN v ELSE f[x]]
IsoDrop(f, k) == [x \in DOMAIN f \ {k} |-> f[x]]

(* create_group; a failure of the hardware rolls back to where it began. *)
CreateIsoGroup(type) ==
  LET free == IsoIds \ isoUsed
  IN /\ free # {}
     /\ isoUsed' = isoUsed \cup {Min(free)}
     /\ isoGroup' = IsoPut(isoGroup, Min(free), [type |-> type, list |-> {}])
     /\ isoHw' = isoHw \cup {Min(free)}
     /\ UNCHANGED <<isoMember, isoRestrict, isoGoing, isoOrphans>>

\* mutant: the id is freed under the lock, before the hardware is cleared
RemoveIsoGroupFrees(g) ==
  /\ g \in DOMAIN isoGroup
  /\ isoGoing' = IsoPut(isoGoing, g, isoGroup[g].list)
  /\ isoGroup' = IsoDrop(isoGroup, g)
  /\ isoUsed' = isoUsed \ {g}
  /\ UNCHANGED <<isoHw, isoMember, isoRestrict, isoOrphans>>

(* remove_group under the lock. Members are not looked at. *)
RemoveIsoGroup(g) ==
  /\ g \in DOMAIN isoGroup
  /\ isoGoing' = IsoPut(isoGoing, g, isoGroup[g].list)
  /\ isoGroup' = IsoDrop(isoGroup, g)
  /\ UNCHANGED <<isoUsed, isoHw, isoMember, isoRestrict, isoOrphans>>

(* The rest of remove_group, without the lock: free_group frees the members *)
(* of the list with it, and their records still point at them. *)
FinishIsoRemove(g) ==
  /\ g \in DOMAIN isoGoing
  /\ isoHw' = isoHw \ {g}
  /\ isoUsed' = isoUsed \ {g}
  /\ isoOrphans' = isoOrphans \cup isoGoing[g]
  /\ isoGoing' = IsoDrop(isoGoing, g)
  /\ UNCHANGED <<isoGroup, isoMember, isoRestrict>>

(* create_member: its record is named by the port alone, so a port is a *)
(* member once, as a port or as a bridge port; the group must be there and of *)
(* the object's kind. A failed write takes the member back. *)
CreateIsoMember(g, p, kind) ==
  /\ p \notin DOMAIN isoMember
  /\ g \in DOMAIN isoGroup /\ isoGroup[g].type = kind
  /\ isoMember' = IsoPut(isoMember, p, g)
  /\ isoGroup' = [isoGroup EXCEPT ![g].list = @ \cup {p}]
  /\ isoRestrict' = [isoRestrict EXCEPT ![p] = g]
  /\ UNCHANGED <<isoUsed, isoHw, isoGoing, isoOrphans>>

\* mutant: the member goes and its port stays under the id
RemoveIsoMemberKeeps(p) ==
  /\ p \in DOMAIN isoMember \ isoOrphans /\ isoMember[p] \in DOMAIN isoGroup
  /\ isoGroup' = [isoGroup EXCEPT ![isoMember[p]].list = @ \ {p}]
  /\ isoMember' = IsoDrop(isoMember, p)
  /\ UNCHANGED <<isoUsed, isoHw, isoRestrict, isoGoing, isoOrphans>>

(* remove_member: INVALID_OBJECT_ID when its group is gone. The record of an *)
(* orphan is freed memory; the model follows the program up to its reading. *)
RemoveIsoMember(p) ==
  /\ p \in DOMAIN isoMember \ isoOrphans /\ isoMember[p] \in DOMAIN isoGroup
  /\ isoGroup' = [isoGroup EXCEPT ![isoMember[p]].list = @ \ {p}]
  /\ isoMember' = IsoDrop(isoMember, p)
  /\ isoRestrict' = [isoRestrict EXCEPT ![p] = 0]
  /\ UNCHANGED <<isoUsed, isoHw, isoGoing, isoOrphans>>

(* ISOLATION_MEMBER_LIST *)
IsoMembers(g) == isoGroup[g].list

IsoInit ==
  /\ isoGroup = << >> /\ isoUsed = {} /\ isoHw = {} /\ isoMember = << >>
  /\ isoRestrict = [p \in IsoPorts |-> 0] /\ isoGoing = << >> /\ isoOrphans = {}

IsoNext ==
  \/ \E k \in IsoKinds : CreateIsoGroup(k)
  \/ \E g \in IsoIds : RemoveIsoGroup(g) \/ FinishIsoRemove(g)
  \/ \E g \in IsoIds, p \in IsoPorts, k \in IsoKinds : CreateIsoMember(g, p, k)
  \/ \E p \in IsoPorts : RemoveIsoMember(p)

(* The ports that hardware keeps apart under a live group are its members, of *)
(* one group each, however a remove_group overlaps the calls of other threads *)
(* (an id is not handed out again before its old use is cleared); except the *)
(* ports of a group that was removed with its members. *)
IsolationExact ==
  /\ isoHw = isoUsed /\ isoUsed = DOMAIN isoGroup \cup DOMAIN isoGoing
  /\ \A g \in DOMAIN isoGroup :
       IsoMembers(g) = {p \in IsoPorts \ isoOrphans : isoRestrict[p] = g}
  /\ \A p \in IsoPorts : isoRestrict[p] # 0 <=> p \in DOMAIN isoMember
=============================================================================
