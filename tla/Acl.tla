--------------------------------- MODULE Acl ---------------------------------
(* ACL tables, groups, entries and their bindings (ctc_sai_acl.c). Nothing is *)
(* in the chip until a table, or a group of tables, is bound to a port: then *)
(* each table becomes an SDK group in a TCAM block, each entry of it an SDK *)
(* entry, and the blocks' lookups are enabled at the port. From then on every *)
(* change of an entry or of a group is made at each bound port too. *)
(* The record of what a port is bound to has one place for both stages. What *)
(* an entry matches and does is the subject of AclActions. *)
EXTENDS Naturals, Sequences, FiniteSets, SequencesExt

CONSTANTS
  AclTables, AclGroups,  \* numbers, from 1 on
  AclEntries, AclPrios,  \* numbers, from 1 on
  AclPoints,             \* ports
  Egress,                \* the tables and groups of the egress stage
  SequentialGroups,      \* the groups of that type, of the ingress stage
  AclTableSize,          \* SAI_ACL_TABLE_ATTR_SIZE
  BlockNum               \* ACL_INGRESS_PARAELL_TCAM_BLOCK_NUM and the others

NoBlock == 99
ASSUME AclAssumption ==
  /\ AclTables \cup AclGroups \cup AclEntries \cup AclPrios \subseteq Nat \ {0}
  /\ AclTables \cap AclGroups = {} /\ SequentialGroups \cap Egress = {}
  /\ BlockNum \in 1..90   \* no block has the number NoBlock

VARIABLES
  tables, tableGroups,  \* the ones created
  members,         \* the member list of each group, the newest first
  entries,         \* each entry's record; tab 0: none
  bindPoints,      \* the bind_points list of each table and group
  boundOid,        \* ACL_BIND: what each port is bound to; 0: nothing
  hwTable,         \* the block of each port's SDK group; NoBlock: none
  hwAcl,           \* each port's SDK entries; prio 0: none
  lookups,         \* the blocks looked up at each port
  missing,         \* history: entries that found the pool full, by port
  bothStages,      \* history: ports given ACLs of both stages
  stripped,        \* history: ports whose group a new member tore down
  bent             \* history: ports bound while the members changed
aclVars == <<tables, tableGroups, members, entries, bindPoints, boundOid, hwTable,
             hwAcl, lookups, missing, bothStages, stripped, bent>>
chipVars == <<hwTable, hwAcl, lookups>>
aclHist == <<missing, bothStages, stripped, bent>>

NoAclEntry == [tab |-> 0, prio |-> 0, lprio |-> 0, on |-> FALSE]
NoHwEntry == [prio |-> 0, on |-> FALSE, late |-> FALSE]
AclInit ==
  /\ tables = {} /\ tableGroups = {} /\ members = [g \in AclGroups |-> << >>]
  /\ entries = [e \in AclEntries |-> NoAclEntry]
  /\ bindPoints = [o \in AclTables \cup AclGroups |-> {}]
  /\ boundOid = [p \in AclPoints |-> 0]
  /\ hwTable = [p \in AclPoints |-> [t \in AclTables |-> NoBlock]]
  /\ hwAcl = [p \in AclPoints |-> [e \in AclEntries |-> NoHwEntry]]
  /\ lookups = [p \in AclPoints |-> {}]
  /\ missing = {} /\ bothStages = {} /\ stripped = {} /\ bent = {}

EntriesOf(t) == {e \in AclEntries : entries[e].tab = t}
GroupsOf(t) == {g \in AclGroups : t \in ToSet(members[g])}
TablesOf(o) == IF o \in AclGroups THEN ToSet(members[o]) ELSE {o}
(* The ports an entry of table t is installed at: the bind points of the *)
(* table and of each group it is a member of. *)
PointsOf(t) == bindPoints[t] \cup UNION {bindPoints[g] : g \in GroupsOf(t)}

(* _ctc_sai_acl_mapping_tcam_block_base; the egress blocks are a dimension of *)
(* their own, here from 100 on. *)
BlockBase(o) ==
  CASE o \in Egress -> 100
    [] o \in AclGroups \ SequentialGroups -> 1
    [] OTHER -> 5
(* _ctc_sai_acl_sort_member_priority: in a parallel group the oldest member *)
(* has rank 0. A sequential group's priorities are given in the order of *)
(* creation here. *)
PlaceOf(ms, t) == CHOOSE i \in 1..Len(ms) : ms[i] = t
RankIn(ms, t) == Len(ms) - PlaceOf(ms, t)
BlockIn(g, ms, t) == BlockBase(g) + RankIn(ms, t)
(* bind_point_acl_add puts every table of a sequential group in the first *)
(* block, and lookup_enable_set looks up one block per member. *)
HwBlock(o, ms, t) ==
  IF o \in AclGroups \ SequentialGroups THEN BlockIn(o, ms, t) ELSE BlockBase(o)
LookupBlocks(o, ms) ==
  IF o \in AclGroups THEN {BlockIn(o, ms, t) : t \in ToSet(ms)} ELSE {BlockBase(o)}

(* The SDK's pool of entries is shared with the traps: it may be exhausted at *)
(* any time, and room is an input of the calls that take from it. *)

CreateAclTable(t) ==
  /\ t \notin tables /\ tables' = tables \cup {t}
  /\ UNCHANGED <<tableGroups, members, entries, bindPoints, boundOid, chipVars, aclHist>>
RemoveAclTable(t) ==
  /\ t \in tables /\ EntriesOf(t) = {} /\ GroupsOf(t) = {} /\ bindPoints[t] = {}
  /\ tables' = tables \ {t}
  /\ UNCHANGED <<tableGroups, members, entries, bindPoints, boundOid, chipVars, aclHist>>
CreateAclGroup(g) ==
  /\ g \notin tableGroups /\ tableGroups' = tableGroups \cup {g}
  /\ UNCHANGED <<tables, members, entries, bindPoints, boundOid, chipVars, aclHist>>
RemoveAclGroup(g) ==
  /\ g \in tableGroups /\ members[g] = << >> /\ bindPoints[g] = {}
  /\ tableGroups' = tableGroups \ {g}
  /\ UNCHANGED <<tables, members, entries, bindPoints, boundOid, chipVars, aclHist>>

(* _ctc_sai_acl_bind_point_acl_add: the SDK groups and entries of every table *)
(* of o at port p. It fails, and takes all of them away, when one of the *)
(* tables is there already or the pool is exhausted. The entries get the *)
(* priority kept in the table's list. *)
CanInstall(p, ts, room) ==
  /\ \A t \in ts : hwTable[p][t] = NoBlock
  /\ room \/ UNION {EntriesOf(t) : t \in ts} = {}
Installed(p, o, ms) ==
  LET ts == IF o \in AclGroups THEN ToSet(ms) ELSE {o}
  IN /\ hwTable' = [hwTable EXCEPT ![p] =
          [t \in AclTables |-> IF t \in ts THEN HwBlock(o, ms, t) ELSE @[t]]]
     /\ hwAcl' = [hwAcl EXCEPT ![p] =
          [e \in AclEntries |-> IF entries[e].tab \in ts
             THEN [prio |-> entries[e].lprio, on |-> entries[e].on, late |-> FALSE] ELSE @[e]]]
(* _ctc_sai_acl_bind_point_acl_remove. *)
TornDown(p, ts) ==
  /\ hwTable' = [hwTable EXCEPT ![p] = [t \in AclTables |-> IF t \in ts THEN NoBlock ELSE @[t]]]
  /\ hwAcl' = [hwAcl EXCEPT ![p] =
       [e \in AclEntries |-> IF entries[e].tab \in ts /\ hwTable[p][entries[e].tab] # NoBlock
                              THEN NoHwEntry ELSE @[e]]]

(* ctc_sai_acl_create_acl_table_group_member. With the member in both lists, *)
(* the whole group is added again at each bound port: that works for the *)
(* first member, whose block is not looked up, and fails for every later one, *)
(* which tears the group down at the port and takes the member away. *)
CanJoin(g, t) ==
  /\ g \in tableGroups /\ t \in tables /\ t \notin ToSet(members[g])
  /\ (g \in Egress) = (t \in Egress) /\ Len(members[g]) < BlockNum
AddMember(g, t) ==
  /\ CanJoin(g, t) /\ bindPoints[g] = {}
  /\ members' = [members EXCEPT ![g] = <<t>> \o @]
  /\ UNCHANGED <<tables, tableGroups, entries, bindPoints, boundOid, chipVars, aclHist>>
AddMemberBound(g, t, p, room) ==
  LET ms == <<t>> \o members[g]
      ok == CanInstall(p, ToSet(ms), room)
  IN /\ CanJoin(g, t) /\ bindPoints[g] = {p}
     /\ IF ok THEN Installed(p, g, ms) ELSE TornDown(p, ToSet(ms))
     /\ members' = IF ok THEN [members EXCEPT ![g] = ms] ELSE members
     /\ bent' = bent \cup {p}
     /\ stripped' = IF ok THEN stripped ELSE stripped \cup {p}
     /\ missing' = {pe \in missing : pe[1] # p}
     /\ UNCHANGED <<tables, tableGroups, entries, bindPoints, boundOid, lookups, bothStages>>
(* ctc_sai_acl_remove_acl_table_group_member: the lookups stay as they are. *)
RemoveMember(g, t) ==
  /\ t \in ToSet(members[g])
  /\ members' = [members EXCEPT ![g] = RemoveAt(@, PlaceOf(@, t))]
  /\ hwTable' = [p \in AclPoints |-> IF p \in bindPoints[g] THEN [hwTable[p] EXCEPT ![t] = NoBlock] ELSE hwTable[p]]
  /\ hwAcl' = [p \in AclPoints |-> [e \in AclEntries |->
       IF p \in bindPoints[g] /\ entries[e].tab = t /\ hwTable[p][t] # NoBlock
         THEN NoHwEntry ELSE hwAcl[p][e]]]
  /\ missing' = {pe \in missing : ~(pe[1] \in bindPoints[g] /\ entries[pe[2]].tab = t)}
  /\ bent' = bent \cup bindPoints[g]
  /\ UNCHANGED <<tables, tableGroups, entries, bindPoints, boundOid, lookups, bothStages, stripped>>

(* ctc_sai_acl_create_acl_entry: at each port the table reaches, whatever the *)
(* pool says. A port that was stripped has no SDK group to name, and the call *)
(* would follow a null pointer there. *)
CreateAclEntry(e, t, n, room) ==
  LET ps == PointsOf(t)
      rec == [tab |-> t, prio |-> n, lprio |-> n, on |-> TRUE]
  IN /\ entries[e].tab = 0 /\ t \in tables
     /\ Cardinality(EntriesOf(t)) < AclTableSize
     /\ \A p \in ps : hwTable[p][t] # NoBlock
     /\ entries' = [entries EXCEPT ![e] = rec]
     /\ hwAcl' = [p \in AclPoints |-> IF p \in ps /\ room
          THEN [hwAcl[p] EXCEPT ![e] = [prio |-> n, on |-> TRUE, late |-> TRUE]] ELSE hwAcl[p]]
     /\ missing' = IF room THEN missing ELSE missing \cup (ps \X {e})
     /\ UNCHANGED <<tables, tableGroups, members, bindPoints, boundOid, hwTable, lookups, bothStages, stripped, bent>>
(* ctc_sai_acl_remove_acl_entry. *)
\* mutant: only the ports the table itself is bound to are cleaned up
RemoveAclEntry_direct(e) ==
  /\ entries[e].tab # 0
  /\ entries' = [entries EXCEPT ![e] = NoAclEntry]
  /\ hwAcl' = [p \in AclPoints |-> IF p \in bindPoints[entries[e].tab]
       THEN [hwAcl[p] EXCEPT ![e] = NoHwEntry] ELSE hwAcl[p]]
  /\ missing' = {pe \in missing : pe[2] # e}
  /\ UNCHANGED <<tables, tableGroups, members, bindPoints, boundOid, hwTable, lookups, bothStages, stripped, bent>>
RemoveAclEntry(e) ==
  /\ entries[e].tab # 0
  /\ entries' = [entries EXCEPT ![e] = NoAclEntry]
  /\ hwAcl' = [p \in AclPoints |-> IF p \in PointsOf(entries[e].tab)
       THEN [hwAcl[p] EXCEPT ![e] = NoHwEntry] ELSE hwAcl[p]]
  /\ missing' = {pe \in missing : pe[2] # e}
  /\ UNCHANGED <<tables, tableGroups, members, bindPoints, boundOid, hwTable, lookups, bothStages, stripped, bent>>

(* ctc_sai_acl_set_acl_entry_info: at each port the entry is at, and in the *)
(* record, but the priority in the table's list stays. Ports without the SDK *)
(* entry are a null pointer too. *)
CanUpdate(e) ==
  entries[e].tab # 0 /\ \A p \in PointsOf(entries[e].tab) : hwAcl[p][e].prio # 0
SetPriority(e, n) ==
  /\ CanUpdate(e) /\ n # entries[e].prio
  /\ entries' = [entries EXCEPT ![e].prio = n]
  /\ hwAcl' = [p \in AclPoints |-> IF p \in PointsOf(entries[e].tab)
       THEN [hwAcl[p] EXCEPT ![e].prio = n, ![e].late = TRUE] ELSE hwAcl[p]]
  /\ UNCHANGED <<tables, tableGroups, members, bindPoints, boundOid, hwTable, lookups, aclHist>>
SetAdminState(e) ==
  /\ CanUpdate(e)
  /\ entries' = [entries EXCEPT ![e].on = ~@]
  /\ hwAcl' = [p \in AclPoints |-> IF p \in PointsOf(entries[e].tab)
       THEN [hwAcl[p] EXCEPT ![e].on = ~entries[e].on] ELSE hwAcl[p]]
  /\ UNCHANGED <<tables, tableGroups, members, bindPoints, boundOid, hwTable, lookups, aclHist>>

-----------------------------------------------------------------------------
(* ctc_sai_acl_bind_point_set at port p for the stage of object o, with the *)
(* port free (add_bind), or bound to o2: the old binding is removed and the *)
(* new one's result is not looked at. A binding of the other stage is not *)
(* removed: its lookups refuse the attribute. *)
SameStage(a, b) == (a \in Egress) = (b \in Egress)
IsObject(o) == o \in tables \cup tableGroups
MembersOf(o) == IF o \in AclGroups THEN members[o] ELSE << >>
BindAcl(p, o) ==
  /\ IsObject(o) /\ boundOid[p] = 0
  /\ CanInstall(p, TablesOf(o), TRUE)
  /\ Installed(p, o, MembersOf(o))
  /\ lookups' = [lookups EXCEPT ![p] = @ \cup LookupBlocks(o, MembersOf(o))]
  /\ bindPoints' = [bindPoints EXCEPT ![o] = @ \cup {p}]
  /\ boundOid' = [boundOid EXCEPT ![p] = o]
  /\ UNCHANGED <<tables, tableGroups, members, entries, aclHist>>
BindRefused(p, o) ==
  /\ IsObject(o) /\ boundOid[p] = 0 /\ ~CanInstall(p, TablesOf(o), FALSE)
  /\ TornDown(p, TablesOf(o))
  /\ lookups' = [lookups EXCEPT ![p] = @ \ LookupBlocks(o, MembersOf(o))]
  /\ UNCHANGED <<tables, tableGroups, members, entries, bindPoints, boundOid, aclHist>>
(* _ctc_sai_acl_remove_bind. *)
\* mutant: the port's lookups stay enabled
UnbindAcl_looking(p) ==
  LET o == boundOid[p]
  IN /\ o # 0 /\ TornDown(p, TablesOf(o))
     /\ bindPoints' = [bindPoints EXCEPT ![o] = @ \ {p}]
     /\ boundOid' = [boundOid EXCEPT ![p] = 0]
     /\ missing' = {pe \in missing : ~(pe[1] = p /\ entries[pe[2]].tab \in TablesOf(o))}
     /\ stripped' = stripped \ {p}
     /\ bent' = bent
     /\ UNCHANGED <<tables, tableGroups, members, entries, bothStages, lookups>>
UnbindAcl(p) ==
  LET o == boundOid[p]
      left == lookups[p] \ LookupBlocks(o, MembersOf(o))
  IN /\ o # 0 /\ TornDown(p, TablesOf(o))
     /\ lookups' = [lookups EXCEPT ![p] = left]
     /\ bindPoints' = [bindPoints EXCEPT ![o] = @ \ {p}]
     /\ boundOid' = [boundOid EXCEPT ![p] = 0]
     /\ missing' = {pe \in missing : ~(pe[1] = p /\ entries[pe[2]].tab \in TablesOf(o))}
     /\ stripped' = stripped \ {p}
     /\ bent' = IF left = {} THEN bent \ {p} ELSE bent
     /\ UNCHANGED <<tables, tableGroups, members, entries, bothStages>>
(* _ctc_sai_acl_update_bind, both objects of one stage. *)
Rebind(p, o, room) ==
  LET old == boundOid[p]
      ts == TablesOf(old)
      ns == TablesOf(o)
      ok == CanInstall(p, ns \ ts, room) /\ (room \/ UNION {EntriesOf(t) : t \in ns} = {})
      left == lookups[p] \ LookupBlocks(old, MembersOf(old))
  IN /\ IsObject(o) /\ old \notin {0, o} /\ SameStage(o, old) /\ p \notin bothStages
     /\ hwTable' = [hwTable EXCEPT ![p] = [t \in AclTables |->
          IF t \in ns /\ ok THEN HwBlock(o, MembersOf(o), t) ELSE IF t \in ts \cup ns THEN NoBlock ELSE @[t]]]
     /\ hwAcl' = [hwAcl EXCEPT ![p] = [e \in AclEntries |->
          IF entries[e].tab \in ns /\ ok
            THEN [prio |-> entries[e].lprio, on |-> entries[e].on, late |-> FALSE]
          ELSE IF entries[e].tab \in ts \cup ns THEN NoHwEntry ELSE @[e]]]
     /\ lookups' = [lookups EXCEPT ![p] = IF ok THEN left \cup LookupBlocks(o, MembersOf(o))
                                                  ELSE left \ LookupBlocks(o, MembersOf(o))]
     /\ bindPoints' = [bindPoints EXCEPT ![old] = @ \ {p}, ![o] = IF ok THEN @ \cup {p} ELSE @]
     /\ boundOid' = [boundOid EXCEPT ![p] = IF ok THEN o ELSE 0]
     /\ missing' = {pe \in missing : pe[1] # p}
     /\ stripped' = stripped \ {p}
     /\ bent' = IF left = {} THEN bent \ {p} ELSE bent
     /\ UNCHANGED <<tables, tableGroups, members, entries, bothStages>>
(* The same with o of the other stage than what the port is bound to. *)
BindOtherStage(p, o, room) ==
  LET ok == CanInstall(p, TablesOf(o), room)
  IN /\ IsObject(o) /\ boundOid[p] # 0 /\ ~SameStage(o, boundOid[p]) /\ p \notin bothStages
     /\ IF ok THEN Installed(p, o, MembersOf(o)) ELSE TornDown(p, TablesOf(o))
     /\ lookups' = [lookups EXCEPT ![p] = IF ok THEN @ \cup LookupBlocks(o, MembersOf(o))
                                                ELSE @ \ LookupBlocks(o, MembersOf(o))]
     /\ bindPoints' = IF ok THEN [bindPoints EXCEPT ![o] = @ \cup {p}] ELSE bindPoints
     /\ bothStages' = bothStages \cup {p}
     /\ UNCHANGED <<tables, tableGroups, members, entries, boundOid, missing, stripped, bent>>

(* A port with ACLs of both stages is followed no further. *)
Followed == bothStages = {}
AclNext ==
  \/ ~Followed /\ UNCHANGED aclVars
  \/ \E t \in AclTables : Followed /\ (CreateAclTable(t) \/ RemoveAclTable(t))
  \/ \E g \in AclGroups : Followed /\ (CreateAclGroup(g) \/ RemoveAclGroup(g))
  \/ \E g \in AclGroups, t \in AclTables : Followed /\ (AddMember(g, t) \/ RemoveMember(g, t))
  \/ \E g \in AclGroups, t \in AclTables, p \in AclPoints, room \in BOOLEAN :
       Followed /\ AddMemberBound(g, t, p, room)
  \/ \E e \in AclEntries, t \in AclTables, n \in AclPrios, room \in BOOLEAN :
       Followed /\ CreateAclEntry(e, t, n, room)
  \/ \E e \in AclEntries : Followed /\ (RemoveAclEntry(e) \/ SetAdminState(e))
  \/ \E e \in AclEntries, n \in AclPrios : Followed /\ SetPriority(e, n)
  \/ \E p \in AclPoints : Followed /\ UnbindAcl(p)
  \/ \E p \in AclPoints, o \in AclTables \cup AclGroups : Followed /\ (BindAcl(p, o) \/ BindRefused(p, o))
  \/ \E p \in AclPoints, o \in AclTables \cup AclGroups, room \in BOOLEAN :
       Followed /\ (Rebind(p, o, room) \/ BindOtherStage(p, o, room))
AclSpec == AclInit /\ [][AclNext]_aclVars

-----------------------------------------------------------------------------
(* A table is in the chip at a port exactly when the port is bound to it or *)
(* to a group of it; then its entries are too, in a block that is looked up, *)
(* with their administrative state and priority; nothing is looked up at a *)
(* port that is bound to nothing. *)
TableAtPort(p, t) == boundOid[p] # 0 /\ t \in TablesOf(boundOid[p])
ListsExact(p) ==
  \A o \in AclTables \cup AclGroups : (p \in bindPoints[o]) = (boundOid[p] = o)
TablesInstalled(p) ==
  p \notin stripped => \A t \in AclTables : (hwTable[p][t] # NoBlock) = TableAtPort(p, t)
EntryInstalled(p, e) ==
  LET at == entries[e].tab # 0 /\ TableAtPort(p, entries[e].tab)
      hw == hwAcl[p][e]
  IN p \notin stripped =>
       /\ (hw.prio # 0) = (at /\ <<p, e>> \notin missing)
       /\ hw.prio # 0 =>
            /\ hw.on = entries[e].on
            /\ hw.prio = entries[e].prio \/ (~hw.late /\ entries[e].prio # entries[e].lprio)
LookedUp(p) ==
  p \notin bent =>
    /\ boundOid[p] = 0 => lookups[p] = {}
    /\ p \notin stripped => \A t \in AclTables : hwTable[p][t] # NoBlock => hwTable[p][t] \in lookups[p]
(* ACL bindings: the lists kept by ctc_sai_acl_bind_point_set, the group *)
(* member calls and the entry calls agree with what is in the chip. *)
AclExact ==
  \A p \in AclPoints \ bothStages :
    /\ ListsExact(p) /\ TablesInstalled(p) /\ LookedUp(p)
    /\ \A e \in AclEntries : EntryInstalled(p, e)
=============================================================================
