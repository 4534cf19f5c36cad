-------------------------------- MODULE Nat --------------------------------
(* NAT entries (ctc_sai_nat.c). The hardware keys a source translation by the *)
(* source and a destination translation by the destination, the database by *)
(* both; a destination translation copies the MAC of a neighbour into a next *)
(* hop of its own, whose id comes from the pool of all next hops. *)
EXTENDS Integers, FiniteSets, FiniteSetsExt

CONSTANTS
  NatSrcs, NatDsts, NatNhs, NatMacs,
  MaxBulk   \* bulk calls, each of one entry, in a behaviour

ASSUME NatAssumption == NatNhs \subseteq Nat \ {0} /\ NatMacs \subseteq Nat \ {0} /\ MaxBulk \in Nat

NatKeys == NatSrcs \X NatDsts
NatTypes == {"SNAT", "DNAT"}

VARIABLES
  natRec,    \* records: key -> [type, nh, reroute]
  natSa,     \* hardware: translated sources
  natDa,     \* hardware: translated destination -> next hop
  natNh,     \* hardware: next hop -> the MAC written in it, 0 to look up again
  natUsed,   \* next hop ids taken from the pool
  natLeft,   \* ids no record holds and no call will free
  natCnt,    \* p_switch_master->nat_cnt
  natBulk,   \* bulk calls that made or removed an entry
  natNbr,    \* MAC of the neighbour that the new destination resolves to, or 0
  natAged,   \* next hops whose neighbour changed after they were written
  natStuck   \* entries whose remove stopped between the next hop and the rule

natVars == <<natRec, natSa, natDa, natNh, natUsed, natLeft, natCnt, natBulk,
             natNbr, natAged, natStuck>>

NatPut(f, k, v) == [x \in DOMAIN f \cup {k} |-> IF x = k THEN v ELSE f[x]]
NatDrop(f, k) == [x \in DOMAIN f \ {k} |-> f[x]]

NatOf(type) == {k \in DOMAIN natRec : natRec[k].type = type}

(* create_nat_entry and remove_nat_entry count; the bulk calls do not. *)
Counted(type, bulk, by) ==
  IF bulk THEN natBulk < MaxBulk /\ natBulk' = natBulk + 1 /\ UNCHANGED natCnt
  ELSE natCnt' = [natCnt EXCEPT ![type] = @ + by] /\ UNCHANGED natBulk

(* A source translation: refused by the hardware if the source has one. *)
CreateSnat(k, bulk) ==
  /\ k \notin DOMAIN natRec /\ k[1] \notin natSa
  /\ natSa' = natSa \cup {k[1]}
  /\ natRec' = NatPut(natRec, k, [type |-> "SNAT", nh |-> 0, reroute |-> FALSE])
  /\ Counted("SNAT", bulk, 1)
  /\ UNCHANGED <<natDa, natNh, natUsed, natLeft, natNbr, natAged, natStuck>>

(* What map_natda_key can write: the neighbour's MAC, or a lookup in hardware.*)
Resolved(reroute) == reroute \/ natNbr # 0

\* mutant: the record forgets the next hop
CreateDnatForgets(k, reroute, bulk) ==
  LET nh == Min(NatNhs \ natUsed)
  IN /\ k \notin DOMAIN natRec /\ NatNhs # natUsed
     /\ Resolved(reroute) /\ k[2] \notin DOMAIN natDa
     /\ natUsed' = natUsed \cup {nh}
     /\ natNh' = NatPut(natNh, nh, IF reroute THEN 0 ELSE natNbr)
     /\ natDa' = NatPut(natDa, k[2], nh)
     /\ natRec' = NatPut(natRec, k, [type |-> "DNAT", nh |-> 0, reroute |-> reroute])
     /\ Counted("DNAT", bulk, 1)
     /\ UNCHANGED <<natSa, natLeft, natNbr, natAged, natStuck>>

(* A destination translation that succeeds: next hop, rule, record. *)
CreateDnat(k, reroute, bulk) ==
  LET nh == Min(NatNhs \ natUsed)
  IN /\ k \notin DOMAIN natRec /\ NatNhs # natUsed
     /\ Resolved(reroute) /\ k[2] \notin DOMAIN natDa
     /\ natUsed' = natUsed \cup {nh}
     /\ natNh' = NatPut(natNh, nh, IF reroute THEN 0 ELSE natNbr)
     /\ natDa' = NatPut(natDa, k[2], nh)
     /\ natRec' = NatPut(natRec, k, [type |-> "DNAT", nh |-> nh, reroute |-> reroute])
     /\ Counted("DNAT", bulk, 1)
     /\ UNCHANGED <<natSa, natLeft, natNbr, natAged, natStuck>>

(* One that does not: DST_IP is not given, it has no route or neighbour, or *)
(* the old destination has a rule. *)
(* The id, and in the second case the next hop too, are left behind. *)
FailDnat(k, reroute, given) ==
  LET nh   == Min(NatNhs \ natUsed)
      made == given /\ Resolved(reroute)
  IN /\ k \notin DOMAIN natRec /\ NatNhs # natUsed
     /\ ~made \/ k[2] \in DOMAIN natDa
     /\ natUsed' = natUsed \cup {nh} /\ natLeft' = natLeft \cup {nh}
     /\ natNh' = IF made THEN NatPut(natNh, nh, IF reroute THEN 0 ELSE natNbr) ELSE natNh
     /\ UNCHANGED <<natRec, natSa, natDa, natCnt, natBulk, natNbr, natAged, natStuck>>

RemoveSnat(k, bulk) ==
  /\ k \in NatOf("SNAT")
  /\ natSa' = natSa \ {k[1]} /\ natRec' = NatDrop(natRec, k)
  /\ Counted("SNAT", bulk, -1)
  /\ UNCHANGED <<natDa, natNh, natUsed, natLeft, natNbr, natAged, natStuck>>

(* map_natda_key without is_add removes the next hop, then the rule goes, or *)
(* stays when the hardware fails; the id is not freed. A second remove of a *)
(* stuck entry is refused: its next hop is gone. *)
RemoveDnat(k, bulk, fails) ==
  /\ k \in NatOf("DNAT") /\ natRec[k].nh \in DOMAIN natNh
  /\ natNh' = NatDrop(natNh, natRec[k].nh)
  /\ IF fails
       THEN /\ natStuck' = natStuck \cup {k}
            /\ UNCHANGED <<natDa, natRec, natLeft, natCnt, natBulk>>
       ELSE /\ natDa' = NatDrop(natDa, k[2]) /\ natRec' = NatDrop(natRec, k)
            /\ natLeft' = natLeft \cup {natRec[k].nh}
            /\ Counted("DNAT", bulk, -1)
            /\ UNCHANGED natStuck
  /\ UNCHANGED <<natSa, natUsed, natNbr, natAged>>

(* The neighbour of the new destination comes, goes or changes its MAC. *)
NatNeighbour(mac) ==
  /\ mac # natNbr
  /\ natNbr' = mac
  /\ natAged' = natAged \cup {n \in DOMAIN natNh : natNh[n] \notin {0, mac}}
  /\ UNCHANGED <<natRec, natSa, natDa, natNh, natUsed, natLeft, natCnt, natBulk, natStuck>>

NatInit ==
  /\ natRec = << >> /\ natSa = {} /\ natDa = << >> /\ natNh = << >>
  /\ natUsed = {} /\ natLeft = {} /\ natCnt = [t \in NatTypes |-> 0] /\ natBulk = 0
  /\ natNbr = 0 /\ natAged = {} /\ natStuck = {}

NatNext ==
  \/ \E k \in NatKeys, b \in BOOLEAN : CreateSnat(k, b) \/ RemoveSnat(k, b)
  \/ \E k \in NatKeys, r, b \in BOOLEAN : CreateDnat(k, r, b)
  \/ \E k \in NatKeys, r, g \in BOOLEAN : FailDnat(k, r, g)
  \/ \E k \in NatKeys, b, f \in BOOLEAN : RemoveDnat(k, b, f)
  \/ \E m \in NatMacs \cup {0} : NatNeighbour(m)

(* What the hardware translates is what the entries say, each destination *)
(* through a next hop no other holds, of a MAC that was the neighbour's when *)
(* last known, whatever failed on the way (_ctc_sai_create_nat_entry); except *)
(* an entry whose remove failed half way. Without bulk calls nat_cnt counts *)
(* the entries. *)
NatExact ==
  /\ natSa = {k[1] : k \in NatOf("SNAT")}
  /\ Cardinality(natSa) = Cardinality(NatOf("SNAT"))
  /\ DOMAIN natDa = {k[2] : k \in NatOf("DNAT")}
  /\ \A k \in NatOf("DNAT") \ natStuck :
       /\ natDa[k[2]] = natRec[k].nh /\ natRec[k].nh \in natUsed \ natLeft
       /\ natRec[k].nh \in DOMAIN natNh
       /\ natRec[k].nh \in natAged
            \/ natNh[natRec[k].nh] = IF natRec[k].reroute THEN 0 ELSE natNbr
  /\ \A j, k \in NatOf("DNAT") : j # k => natRec[j].nh # natRec[k].nh
  /\ DOMAIN natNh \subseteq natUsed
  /\ natBulk = 0 => \A t \in NatTypes : natCnt[t] = Cardinality(NatOf(t))
=============================================================================
