-------------------------------- MODULE Mcast --------------------------------
(* Multicast (ctc_sai_mcast.c): groups of bridge ports, the L2MC and FDB *)
(* entries that send to them, and one IPMC entry (S,G) whose group lists *)
(* router interfaces. Over a VLAN interface the IPMC entry must replicate to *)
(* the ports that layer 2 would: those of the VLAN's (S,G) entry, else of its *)
(* (any,G) entry, else of its FDB entry. The code keeps that in step by hand: *)
(* the IPMC entry has a list of bindings, one per VLAN interface, and every *)
(* operation of layer 2 goes over the IPMC entries (mcast_sync_output_id). *)
(* *)
(* Every L2 entry has a group; bridge ports outlive the groups; the IPMC *)
(* functions, which take no lock, are modelled as if they did. *)
EXTENDS Naturals, Sequences, FiniteSets, FiniteSetsExt, SequencesExt

CONSTANTS
  McVlans, SgVlans,   \* VLANs, and those with (S,G) entries
  McRifs,             \* router interfaces on a port
  McPorts,            \* bridge ports
  McGroups, McIpGroups

ASSUME McastAssumption ==
  McVlans \subseteq Nat \ {0} /\ SgVlans \subseteq McVlans /\ McGroups \subseteq Nat \ {0}
  /\ McRifs \subseteq Nat \ {0} /\ McRifs \cap McVlans = {} /\ McIpGroups \subseteq Nat \ {0}

VARIABLES
  mcG,       \* L2MC groups: output_id_head (ports) and entry_head (entries)
  mcE,       \* L2MC and FDB entries: their group
  mcHw,      \* the ports each L2 entry replicates to
  mcI,       \* IPMC groups: output_id_head (interfaces; a VLAN's is its id)
  mcIp,      \* the IPMC entry: whether it exists, its group (0: none) and its
             \* bind_type_head
  mcIpHw,    \* what it replicates to: <<VLAN or 0, port or interface>>
  mcMixed,   \* a VLAN has had an (S,G) and an (any,G) entry at once
  mcBroken   \* a group was removed under its entries

mcVars == <<mcG, mcE, mcHw, mcI, mcIp, mcIpHw, mcMixed, mcBroken>>

McKeys == (SgVlans \X {"sg"}) \cup (McVlans \X {"xg", "fdb"})
McPut(f, k, v) == [x \in DOMAIN f \cup {k} |-> IF x = k THEN v ELSE f[x]]
McDrop(f, k) == [x \in DOMAIN f \ {k} |-> f[x]]

-----------------------------------------------------------------------------
KindType(kind) == IF kind = "fdb" THEN "FDB" ELSE "L2MC"

(* get_vlan_interface_member_list *)
Lookup(e, g, v) ==
  LET order == <<"sg", "xg", "fdb">>
      found == {n \in 1..3 : <<v, order[n]>> \in DOMAIN e}
      kind  == order[Min(found)]
  IN IF found = {} THEN [type |-> "NONE", ports |-> {}]
     ELSE [type |-> KindType(kind), ports |-> g[e[<<v, kind>>]].ports]

(* What sync_output_id and update_ipmc_group_member read and write *)
McState == [e |-> mcE, g |-> mcG, out |-> IF mcIp.grp \in DOMAIN mcI THEN mcI[mcIp.grp] ELSE {},
            binds |-> mcIp.binds, hw |-> mcIpHw]

(* The bindings in the order they were made, and what is left of them without *)
(* those of some VLANs *)
BoundVlans(s) == {s.binds[i].v : i \in DOMAIN s.binds}
Unbind(binds, vs) ==
  LET kept   == {n \in DOMAIN binds : binds[n].v \notin vs}
      nth(i) == CHOOSE n \in kept : Cardinality({m \in kept : m <= n}) = i
  IN [i \in 1..Cardinality(kept) |-> binds[nth(i)]]

(* update_ipmc_group_member, for one interface or one after the other: an *)
(* interface on a port is one member; that of a VLAN, unless it is bound, *)
(* stands for the ports of its lookup, and the binding is recorded. *)
AddInterfaces(s, is) ==
  LET order == SetToSeq((is \cap McVlans) \ BoundVlans(s))
      found(v) == Lookup(s.e, s.g, v)
  IN [s EXCEPT !.hw = @ \cup ({0} \X (is \cap McRifs))
                        \cup UNION {{v} \X found(v).ports : v \in (is \cap McVlans) \ BoundVlans(s)},
               !.binds = @ \o [n \in DOMAIN order |-> [v |-> order[n], type |-> found(order[n]).type]]]

DelInterface(s, i) ==
  IF i \in McRifs THEN [s EXCEPT !.hw = @ \ {<<0, i>>}]
  ELSE IF i \notin BoundVlans(s) THEN s
  ELSE [s EXCEPT !.hw = @ \ ({i} \X Lookup(s.e, s.g, i).ports), !.binds = Unbind(@, {i})]

(* The search of sync_output_id through the bindings leaves the last one in *)
(* hand when none is the VLAN's. Its type then decides, with no effect unless *)
(* the group has the VLAN's interface. *)
TypeInHand(s, v) ==
  LET own == {n \in DOMAIN s.binds : s.binds[n].v = v}
  IN IF s.binds = << >> THEN "NONE"
     ELSE IF own = {} THEN Last(s.binds).type ELSE s.binds[Min(own)].type

(* sync_output_id for a member of a group, one entry of the group after the *)
(* other *)
Reached(s, ks, p) ==
  {<<k[1], p>> : k \in {x \in ks : x[1] \in s.out /\ TypeInHand(s, x[1]) = KindType(x[2])}}
SyncMember(s, ks, p, add) ==
  [s EXCEPT !.hw = IF add THEN @ \cup Reached(s, ks, p) ELSE @ \ Reached(s, ks, p)]

\* mutant: the replication is not flushed when an L2MC entry takes over
SyncAddKeeps(s, k) ==
  LET type == TypeInHand(s, k[1])
      bound == [s EXCEPT !.binds = [i \in DOMAIN @ |->
                  IF @[i].v = k[1] THEN [@[i] EXCEPT !.type = KindType(k[2])] ELSE @[i]]]
  IN IF type \notin {"NONE", "FDB"} \/ (type = "FDB" /\ k[2] = "fdb") \/ k[1] \notin s.out
     THEN s
     ELSE [bound EXCEPT !.hw = @ \cup ({k[1]} \X s.g[s.e[k]].ports)]

(* ... for a new entry, which binds an unbound VLAN, and an L2MC entry also *)
(* one that was bound to the FDB: then the whole replication is flushed, and *)
(* all the other interfaces are looked up and added again. *)
SyncAdd(s, k) ==
  LET type == TypeInHand(s, k[1])
      over == type = "FDB"
      bound == [s EXCEPT !.binds = [i \in DOMAIN @ |->
                  IF @[i].v = k[1] THEN [@[i] EXCEPT !.type = KindType(k[2])] ELSE @[i]]]
      own == [bound EXCEPT !.hw = (IF over THEN {} ELSE @) \cup ({k[1]} \X s.g[s.e[k]].ports)]
      others == s.out \ {k[1]}
  IN IF type \notin {"NONE", "FDB"} \/ (over /\ k[2] = "fdb") \/ k[1] \notin s.out THEN s
     ELSE IF over THEN AddInterfaces([own EXCEPT !.binds = Unbind(@, others)], others)
     ELSE own

\* mutant: the entry that goes is still found (is_pending is not set)
SyncDeleteSees(s, k) ==
  IF TypeInHand(s, k[1]) # KindType(k[2]) \/ k[1] \notin s.out THEN s
  ELSE AddInterfaces([s EXCEPT !.hw = @ \ ({k[1]} \X s.g[s.e[k]].ports),
                               !.binds = Unbind(@, {k[1]})], {k[1]})

(* ... for an entry that goes: its ports, its binding, and the next choice of *)
(* the lookup, from which is_pending hides the entry. *)
SyncDelete(s, k) ==
  IF TypeInHand(s, k[1]) # KindType(k[2]) \/ k[1] \notin s.out THEN s
  ELSE LET gone == [s EXCEPT !.hw = @ \ ({k[1]} \X s.g[s.e[k]].ports),
                             !.binds = Unbind(@, {k[1]}), !.e = McDrop(@, k)]
       IN AddInterfaces(gone, {k[1]})

(* ... for an entry that is given another group *)
SyncUpdate(s, k, old, new) ==
  IF TypeInHand(s, k[1]) # KindType(k[2]) \/ k[1] \notin s.out THEN s
  ELSE [s EXCEPT !.hw = (@ \ ({k[1]} \X old)) \cup ({k[1]} \X new)]

(* An IPMC entry without a group is passed over. *)
Synced(s) ==
  IF mcIp.on /\ mcIp.grp # 0
  THEN mcIp' = [mcIp EXCEPT !.binds = s.binds] /\ mcIpHw' = s.hw
  ELSE UNCHANGED <<mcIp, mcIpHw>>

-----------------------------------------------------------------------------
CreateL2mcGroup(g) ==
  /\ g \notin DOMAIN mcG
  /\ mcG' = McPut(mcG, g, [ports |-> {}, entries |-> {}])
  /\ UNCHANGED <<mcE, mcHw, mcI, mcIp, mcIpHw, mcMixed, mcBroken>>

(* remove_l2mc_group: its entries do not stop it, and cannot be removed after.*)
RemoveL2mcGroup(g) ==
  /\ g \in DOMAIN mcG
  /\ mcG' = McDrop(mcG, g)
  /\ mcBroken' = \E k \in DOMAIN mcE : mcE[k] = g
  /\ UNCHANGED <<mcE, mcHw, mcI, mcIp, mcIpHw, mcMixed>>

(* create_l2mc_group_member: the list, then for every entry of the group the *)
(* replication of the entry and of the IPMC entries bound to it. *)
CreateL2mcMember(g, p) ==
  /\ g \in DOMAIN mcG /\ p \notin mcG[g].ports
  /\ mcG' = [mcG EXCEPT ![g].ports = @ \cup {p}]
  /\ mcHw' = [k \in DOMAIN mcHw |-> IF k \in mcG[g].entries THEN mcHw[k] \cup {p}
                                    ELSE mcHw[k]]
  /\ Synced(SyncMember(McState, mcG[g].entries, p, TRUE))
  /\ UNCHANGED <<mcE, mcI, mcMixed, mcBroken>>

RemoveL2mcMember(g, p) ==
  /\ g \in DOMAIN mcG /\ p \in mcG[g].ports
  /\ mcG' = [mcG EXCEPT ![g].ports = @ \ {p}]
  /\ mcHw' = [k \in DOMAIN mcHw |-> IF k \in mcG[g].entries THEN mcHw[k] \ {p}
                                    ELSE mcHw[k]]
  /\ Synced(SyncMember(McState, mcG[g].entries, p, FALSE))
  /\ UNCHANGED <<mcE, mcI, mcMixed, mcBroken>>

(* create_l2mc_entry *)
CreateL2Entry(k, g) ==
  /\ k \notin DOMAIN mcE /\ g \in DOMAIN mcG
  /\ mcE' = McPut(mcE, k, g)
  /\ mcHw' = McPut(mcHw, k, mcG[g].ports)
  /\ mcG' = [mcG EXCEPT ![g].entries = @ \cup {k}]
  /\ Synced(SyncAdd([McState EXCEPT !.e = mcE'], k))
  /\ mcMixed' = (mcMixed \/ {<<k[1], "sg">>, <<k[1], "xg">>} \subseteq DOMAIN mcE')
  /\ UNCHANGED <<mcI, mcBroken>>

(* remove_l2mc_entry *)
RemoveL2Entry(k) ==
  /\ k \in DOMAIN mcE /\ mcE[k] \in DOMAIN mcG
  /\ mcE' = McDrop(mcE, k) /\ mcHw' = McDrop(mcHw, k)
  /\ mcG' = [mcG EXCEPT ![mcE[k]].entries = @ \ {k}]
  /\ Synced(SyncDelete(McState, k))
  /\ UNCHANGED <<mcI, mcMixed, mcBroken>>

\* mutant: the entry stays in the list of the group it leaves
SetL2EntryGroupListed(k, g) ==
  /\ k \in DOMAIN mcE /\ g \in DOMAIN mcG /\ g # mcE[k]
  /\ mcE' = [mcE EXCEPT ![k] = g]
  /\ mcHw' = [mcHw EXCEPT ![k] = mcG[g].ports]
  /\ mcG' = [mcG EXCEPT ![g].entries = @ \cup {k}]
  /\ Synced(SyncUpdate(McState, k, mcG[mcE[k]].ports, mcG[g].ports))
  /\ UNCHANGED <<mcI, mcMixed, mcBroken>>

(* set_l2mc_group_id: flushed, out of one list, the members of the new group, *)
(* into its list. *)
SetL2EntryGroup(k, g) ==
  /\ k \in DOMAIN mcE /\ g \in DOMAIN mcG /\ g # mcE[k]
  /\ mcE' = [mcE EXCEPT ![k] = g]
  /\ mcHw' = [mcHw EXCEPT ![k] = mcG[g].ports]
  /\ mcG' = [mcG EXCEPT ![mcE[k]].entries = @ \ {k}, ![g].entries = @ \cup {k}]
  /\ Synced(SyncUpdate(McState, k, mcG[mcE[k]].ports, mcG[g].ports))
  /\ UNCHANGED <<mcI, mcMixed, mcBroken>>

(* create_l2mc_entry and its companions take an (S,G) or (any,G) key; the *)
(* functions of the multicast FDB do the same under a MAC address. *)
L2mcKeys == {k \in McKeys : k[2] # "fdb"}
CreateMcastFdbEntry(v, g) == CreateL2Entry(<<v, "fdb">>, g)
RemoveMcastFdbEntry(v) == RemoveL2Entry(<<v, "fdb">>)
SetMcastFdbGroup(v, g) == SetL2EntryGroup(<<v, "fdb">>, g)

-----------------------------------------------------------------------------
CreateIpmcGroup(h) ==
  /\ h \notin DOMAIN mcI
  /\ mcI' = McPut(mcI, h, {})
  /\ UNCHANGED <<mcG, mcE, mcHw, mcIp, mcIpHw, mcMixed, mcBroken>>

RemoveIpmcGroup(h) ==
  /\ h \in DOMAIN mcI
  /\ mcI' = McDrop(mcI, h)
  /\ mcBroken' = (mcIp.on /\ mcIp.grp = h)
  /\ UNCHANGED <<mcG, mcE, mcHw, mcIp, mcIpHw, mcMixed>>

CreateIpmcMember(h, i) ==
  /\ h \in DOMAIN mcI /\ i \notin mcI[h]
  /\ mcI' = [mcI EXCEPT ![h] = @ \cup {i}]
  /\ IF mcIp.on /\ mcIp.grp = h THEN Synced(AddInterfaces(McState, {i}))
     ELSE UNCHANGED <<mcIp, mcIpHw>>
  /\ UNCHANGED <<mcG, mcE, mcHw, mcMixed, mcBroken>>

RemoveIpmcMember(h, i) ==
  /\ h \in DOMAIN mcI /\ i \in mcI[h]
  /\ mcI' = [mcI EXCEPT ![h] = @ \ {i}]
  /\ IF mcIp.on /\ mcIp.grp = h THEN Synced(DelInterface(McState, i))
     ELSE UNCHANGED <<mcIp, mcIpHw>>
  /\ UNCHANGED <<mcG, mcE, mcHw, mcMixed, mcBroken>>

Fresh(is) == AddInterfaces([McState EXCEPT !.binds = << >>, !.hw = {}], is)

(* create_ipmc_entry with its group, if it has one *)
CreateIpmcEntry(h) ==
  /\ ~mcIp.on /\ (h # 0 => h \in DOMAIN mcI)
  /\ LET s == Fresh(IF h = 0 THEN {} ELSE mcI[h])
     IN mcIp' = [on |-> TRUE, grp |-> h, binds |-> s.binds] /\ mcIpHw' = s.hw
  /\ UNCHANGED <<mcG, mcE, mcHw, mcI, mcMixed, mcBroken>>

(* set_ipmc_group_id: flushed and unbound, then the interfaces of the group *)
SetIpmcGroup(h) ==
  /\ mcIp.on /\ h \in DOMAIN mcI
  /\ LET s == Fresh(mcI[h])
     IN mcIp' = [mcIp EXCEPT !.grp = h, !.binds = s.binds] /\ mcIpHw' = s.hw
  /\ UNCHANGED <<mcG, mcE, mcHw, mcI, mcMixed, mcBroken>>

RemoveIpmcEntry ==
  /\ mcIp.on /\ (mcIp.grp # 0 => mcIp.grp \in DOMAIN mcI)
  /\ mcIp' = [on |-> FALSE, grp |-> 0, binds |-> << >>] /\ mcIpHw' = {}
  /\ UNCHANGED <<mcG, mcE, mcHw, mcI, mcMixed, mcBroken>>

-----------------------------------------------------------------------------
McInit ==
  /\ mcG = << >> /\ mcE = << >> /\ mcHw = << >> /\ mcI = << >>
  /\ mcIp = [on |-> FALSE, grp |-> 0, binds |-> << >>] /\ mcIpHw = {}
  /\ mcMixed = FALSE /\ mcBroken = FALSE

(* Nothing is said of what follows the removal of a group in use. *)
McNext ==
  \/ /\ ~mcBroken
     /\ \/ \E g \in McGroups : CreateL2mcGroup(g) \/ RemoveL2mcGroup(g)
        \/ \E g \in McGroups, p \in McPorts : CreateL2mcMember(g, p) \/ RemoveL2mcMember(g, p)
        \/ \E k \in L2mcKeys, g \in McGroups : CreateL2Entry(k, g) \/ SetL2EntryGroup(k, g)
        \/ \E k \in L2mcKeys : RemoveL2Entry(k)
        \/ \E v \in McVlans, g \in McGroups : CreateMcastFdbEntry(v, g) \/ SetMcastFdbGroup(v, g)
        \/ \E v \in McVlans : RemoveMcastFdbEntry(v)
        \/ \E h \in McIpGroups : CreateIpmcGroup(h) \/ RemoveIpmcGroup(h) \/ SetIpmcGroup(h)
        \/ \E h \in McIpGroups, i \in McVlans \cup McRifs :
             CreateIpmcMember(h, i) \/ RemoveIpmcMember(h, i)
        \/ \E h \in McIpGroups \cup {0} : CreateIpmcEntry(h)
        \/ RemoveIpmcEntry
  \/ mcBroken /\ UNCHANGED mcVars

-----------------------------------------------------------------------------
(* Every L2 entry replicates to the ports of its group, and every group knows *)
(* the entries that name it. *)
L2Follows ==
  /\ \A k \in DOMAIN mcE : mcHw[k] = mcG[mcE[k]].ports
  /\ \A g \in DOMAIN mcG : mcG[g].entries = {k \in DOMAIN mcE : mcE[k] = g}

(* The IPMC entry replicates, over each VLAN interface of its group, to the *)
(* ports of the entry that a lookup finds now, whichever of the two was there *)
(* first; and its bindings are those lookups. Excepted are VLANs that have *)
(* had both an (S,G) and an (any,G) entry: the binding does not tell these *)
(* apart. *)
IpFollows ==
  LET out == McState.out
      vlans == out \cap McVlans
  IN mcIp.on /\ ~mcMixed =>
       /\ mcIpHw = {<<0, i>> : i \in out \cap McRifs} \cup
                   UNION {{v} \X Lookup(mcE, mcG, v).ports : v \in vlans}
       /\ Len(mcIp.binds) = Cardinality(vlans)
       /\ ToSet(mcIp.binds) = {[v |-> v, type |-> Lookup(mcE, mcG, v).type] : v \in vlans}

McastExact == ~mcBroken => L2Follows /\ IpFollows
=============================================================================
