--------------------------------- MODULE Rpf ---------------------------------
(* The RPF groups of multicast (ctc_sai_mcast.c): a fixed number of slots for *)
(* interfaces, and the copies of them that IPMC entries take. *)
EXTENDS Naturals, FiniteSets, FiniteSetsExt

CONSTANTS
  RpfGroups, RpfIfs, RpfEntries,
  RpfSlots    \* 1..CTC_IP_MAX_RPF_IF

ASSUME RpfAssumption ==
  RpfIfs \subseteq Nat \ {0} /\ RpfGroups \subseteq Nat \ {0}
  /\ RpfSlots \subseteq Nat /\ IsFiniteSet(RpfSlots)

VARIABLES
  rpfSlot,   \* live groups: the interface of each slot, 0 where bmp is clear
  rpfTold,   \* the members each group has for the client
  rpfEntry,  \* IPMC entries: rpf_group_oid and the interfaces in hardware
  rpfLost,   \* members whose creation found the group full
  rpfAged    \* entries whose group changed since it was copied

rpfVars == <<rpfSlot, rpfTold, rpfEntry, rpfLost, rpfAged>>

RpfPut(f, k, v) == [x \in DOMAIN f \cup {k} |-> IF x = k THEN v ELSE f[x]]
RpfDrop(f, k) == [x \in DOMAIN f \ {k} |-> f[x]]

RpfMembers(g) == {rpfSlot[g][n] : n \in RpfSlots} \ {0}
CopiesOf(g) == {e \in DOMAIN rpfEntry : rpfEntry[e].grp = g}

CreateRpfGroup(g) ==
  /\ g \notin DOMAIN rpfSlot
  /\ rpfSlot' = RpfPut(rpfSlot, g, [n \in RpfSlots |-> 0])
  /\ rpfTold' = RpfPut(rpfTold, g, {})
  /\ UNCHANGED <<rpfEntry, rpfLost, rpfAged>>

(* remove_rpf_group: entries that copied it keep the copy and its name. *)
RemoveRpfGroup(g) ==
  /\ g \in DOMAIN rpfSlot
  /\ rpfSlot' = RpfDrop(rpfSlot, g) /\ rpfTold' = RpfDrop(rpfTold, g)
  /\ rpfLost' = {m \in rpfLost : m[1] # g}
  /\ rpfAged' = rpfAged \cup CopiesOf(g)
  /\ UNCHANGED rpfEntry

\* mutant: a new member takes the first slot, whether or not it is free
CreateRpfMemberFirst(g, i) ==
  /\ g \in DOMAIN rpfSlot /\ i \notin RpfMembers(g)
  /\ rpfSlot' = [rpfSlot EXCEPT ![g][Min(RpfSlots)] = i]
  /\ rpfTold' = [rpfTold EXCEPT ![g] = @ \cup {i}]
  /\ rpfAged' = rpfAged \cup CopiesOf(g)
  /\ UNCHANGED <<rpfEntry, rpfLost>>

(* create_rpf_group_member: an interface in a slot is refused; otherwise the *)
(* lowest clear slot takes it, and success is returned if there is none too. *)
CreateRpfMember(g, i) ==
  /\ g \in DOMAIN rpfSlot /\ i \notin RpfMembers(g)
  /\ LET clear == {n \in RpfSlots : rpfSlot[g][n] = 0}
     IN IF clear = {} THEN rpfLost' = rpfLost \cup {<<g, i>>} /\ UNCHANGED <<rpfSlot, rpfAged>>
        ELSE /\ rpfSlot' = [rpfSlot EXCEPT ![g][Min(clear)] = i]
             /\ rpfLost' = rpfLost \ {<<g, i>>} /\ rpfAged' = rpfAged \cup CopiesOf(g)
  /\ rpfTold' = [rpfTold EXCEPT ![g] = @ \cup {i}]
  /\ UNCHANGED rpfEntry

(* remove_rpf_group_member: ITEM_NOT_FOUND for one that was never listed *)
RemoveRpfMember(g, i) ==
  /\ g \in DOMAIN rpfSlot /\ i \in RpfMembers(g)
  /\ rpfSlot' = [rpfSlot EXCEPT ![g] = [n \in RpfSlots |-> IF @[n] = i THEN 0 ELSE @[n]]]
  /\ rpfTold' = [rpfTold EXCEPT ![g] = @ \ {i}]
  /\ rpfAged' = rpfAged \cup CopiesOf(g)
  /\ UNCHANGED <<rpfEntry, rpfLost>>

(* create_ipmc_entry with an RPF group, and set_ipmc_rpf_group_id, copy it. *)
CreateRpfEntry(e, g) ==
  /\ e \notin DOMAIN rpfEntry /\ g \in DOMAIN rpfSlot
  /\ rpfEntry' = RpfPut(rpfEntry, e, [grp |-> g, hw |-> RpfMembers(g)])
  /\ UNCHANGED <<rpfSlot, rpfTold, rpfLost, rpfAged>>

SetEntryRpf(e, g) ==
  /\ e \in DOMAIN rpfEntry /\ g \in DOMAIN rpfSlot
  /\ rpfEntry' = [rpfEntry EXCEPT ![e] = [grp |-> g, hw |-> RpfMembers(g)]]
  /\ rpfAged' = rpfAged \ {e}
  /\ UNCHANGED <<rpfSlot, rpfTold, rpfLost>>

(* set_ipmc_packet_action to anything but DROP copies the group again, if it *)
(* is still there. *)
SetEntryAction(e) ==
  /\ e \in DOMAIN rpfEntry /\ rpfEntry[e].grp \in DOMAIN rpfSlot
  /\ rpfEntry' = [rpfEntry EXCEPT ![e].hw = RpfMembers(rpfEntry[e].grp)]
  /\ rpfAged' = rpfAged \ {e}
  /\ UNCHANGED <<rpfSlot, rpfTold, rpfLost>>

RpfInit ==
  /\ rpfSlot = << >> /\ rpfTold = << >> /\ rpfEntry = << >>
  /\ rpfLost = {} /\ rpfAged = {}

RpfNext ==
  \/ \E g \in RpfGroups : CreateRpfGroup(g) \/ RemoveRpfGroup(g)
  \/ \E g \in RpfGroups, i \in RpfIfs : CreateRpfMember(g, i) \/ RemoveRpfMember(g, i)
  \/ \E e \in RpfEntries, g \in RpfGroups : CreateRpfEntry(e, g) \/ SetEntryRpf(e, g)
  \/ \E e \in RpfEntries : SetEntryAction(e)

(* Every member that the client was given is in one slot, in whatever order *)
(* members come and go, unless its creation found the group full; and an *)
(* entry checks against the members, unless they changed since the copy. *)
RpfExact ==
  /\ \A g \in DOMAIN rpfSlot :
       /\ RpfMembers(g) = {i \in rpfTold[g] : <<g, i>> \notin rpfLost}
       /\ Cardinality({n \in RpfSlots : rpfSlot[g][n] # 0}) = Cardinality(RpfMembers(g))
  /\ \A e \in DOMAIN rpfEntry :
       e \notin rpfAged => /\ rpfEntry[e].grp \in DOMAIN rpfSlot
                           /\ rpfEntry[e].hw = RpfMembers(rpfEntry[e].grp)
=============================================================================
