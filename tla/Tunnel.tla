------------------------------- MODULE Tunnel -------------------------------
(* Tunnels, their maps and their termination entries (ctc_sai_tunnel.c), and *)
(* the tunnel next hops of ctc_sai_next_hop.c. A VXLAN termination entry can *)
(* only be installed once a map of its tunnel gives it a VNI: until then it *)
(* is kept as not_finished, and every new map entry makes another attempt. *)
(* *)
(* A map is the node of at most one tunnel's list: with a second tunnel the *)
(* intrusive lists run into each other (see MapFree). *)
EXTENDS Naturals, Sequences, FiniteSets, FiniteSetsExt, SequencesExt

CONSTANTS
  TnMaps, TnEntries, TnTunnels, TnTerms, TnNhs,   \* ids of the objects
  TnVnis, TnDsts,
  TnLports,      \* the pool of logic ports
  TnStatsIds,    \* statistics ids the SDK can hand out
  TnTypes,       \* the tunnel types in use
  MaxAttempts    \* bound: term creations over a tunnel's life

ASSUME TunnelAssumption ==
  /\ TnVnis \subseteq Nat \ {0} /\ TnLports \subseteq Nat \ {0}
  /\ TnStatsIds \subseteq Nat \ {0} /\ MaxAttempts \in Nat
  /\ TnTypes \subseteq {"IPINIP", "GRE", "VXLAN"}

VARIABLES
  tnMap,     \* map_entry_list of every live map
  tnEntry,   \* live map entries: their map and VNI
  tnTun,     \* live tunnels
  tnTerm,    \* live termination entries
  tnNh,      \* live tunnel next hops
  tnPend,    \* a creation of a term past its hardware write, not yet recorded
  tnHw,      \* the terminations in hardware: a function from keys
  tnPorts,   \* logic ports taken
  tnStats,   \* live statistics ids
  tnMissed,  \* waiting terms that no map entry was ever tried for, or that
             \* found another term's entry under their key
  tnMixed,   \* statistics ids are no longer one per user of a tunnel
  tnBroken   \* an object was removed under the entries computed from it

tnVars == <<tnMap, tnEntry, tnTun, tnTerm, tnNh, tnPend, tnHw, tnPorts, tnStats,
            tnMissed, tnMixed, tnBroken>>

TnPut(f, k, v) == [x \in DOMAIN f \cup {k} |-> IF x = k THEN v ELSE f[x]]
TnDrop(f, k) == [x \in DOMAIN f \ {k} |-> f[x]]

-----------------------------------------------------------------------------
(* A termination entry of the hardware: the destination, for VXLAN the VNI (0 *)
(* where the key has none), and the kind of tunnel. *)
HwKey(dst, vni, type) == <<dst, IF type = "VXLAN" THEN vni ELSE 0, type>>

(* get_map_mappers_val: the first entry of the first map that has one, 0 *)
(* where there is none. *)
MapVal(entries, maps) ==
  LET full == SelectSeq(maps, LAMBDA m : entries[m] # << >>)
  IN IF full = << >> THEN 0 ELSE Head(entries[Head(full)])

(* The VNI that a term of tunnel t is looked up with *)
TermVni(tunnels, entries, vnis, t) ==
  LET e == MapVal(entries, tunnels[t].maps) IN IF e = 0 THEN 0 ELSE vnis[e].vni

(* The hardware side, with what add_ctc_tunnel reads and writes: the tunnels *)
(* (for decap_stats_id), the table and the statistics ids. *)
TnHwState == [tun |-> tnTun, hw |-> tnHw, stats |-> tnStats]

(* term_map_vxlan_action and term_map_ip_tunnel_action: a new counter replaces *)
(* the one in the tunnel's record; a refused one leaves it. *)
TakeDecapStats(s, t) ==
  LET free == TnStatsIds \ s.stats
  IN IF free = {} THEN s
     ELSE [s EXCEPT !.stats = @ \cup {Min(free)}, !.tun[t].dstats = Min(free)]

(* Their opposite destroys what the record names and leaves it there. *)
DropDecapStats(s, t) == [s EXCEPT !.stats = @ \ {s.tun[t].dstats}]

(* add_ctc_tunnel: the key, then the counter, then the hardware, which refuses *)
(* a key it has. *)
AddCtcTunnel(s, entries, vnis, r) ==
  IF r.tun \notin DOMAIN s.tun THEN [ok |-> FALSE, s |-> s] ELSE
  LET vni == TermVni(s.tun, entries, vnis, r.tun)
      key == HwKey(r.dst, vni, r.type)
      given == TakeDecapStats(s, r.tun)
      id == IF given = s THEN 0 ELSE given.tun[r.tun].dstats
  IN IF r.type = "VXLAN" /\ vni = 0 THEN [ok |-> FALSE, s |-> s]
     ELSE IF key \in DOMAIN s.hw
     THEN [ok |-> FALSE, s |-> DropDecapStats(given, r.tun)]
     ELSE [ok |-> TRUE, s |-> [given EXCEPT !.hw = TnPut(@, key, id)]]

(* remove_ctc_tunnel: the counter the tunnel's record names now, then the key *)
(* as the maps give it now; the errors of both are ignored. *)
RemoveCtcTunnel(s, entries, vnis, r) ==
  IF r.tun \notin DOMAIN s.tun THEN s ELSE
  LET key == HwKey(r.dst, TermVni(s.tun, entries, vnis, r.tun), r.type)
  IN [DropDecapStats(s, r.tun) EXCEPT !.hw = TnDrop(@, key)]

TnBecome(s) == tnTun' = s.tun /\ tnHw' = s.hw /\ tnStats' = s.stats

-----------------------------------------------------------------------------
(* create_tunnel_map, remove_tunnel_map. No one asks whether a tunnel lists *)
(* the map: its node is then freed memory in the tunnel's list. *)
CreateTunnelMap(m) ==
  /\ m \notin DOMAIN tnMap
  /\ tnMap' = TnPut(tnMap, m, << >>)
  /\ UNCHANGED <<tnEntry, tnTun, tnTerm, tnNh, tnPend, tnHw, tnPorts, tnStats,
                 tnMissed, tnMixed, tnBroken>>

Listed(m) == \E t \in DOMAIN tnTun : m \in ToSet(tnTun[t].maps)

RemoveTunnelMap(m) ==
  /\ m \in DOMAIN tnMap
  /\ tnMap' = TnDrop(tnMap, m)
  /\ tnBroken' = Listed(m)
  /\ UNCHANGED <<tnEntry, tnTun, tnTerm, tnNh, tnPend, tnHw, tnPorts, tnStats,
                 tnMissed, tnMixed>>

(* The terms of a tunnel, recorded or about to be *)
Users(t) ==
  {r \in {[tun |-> x.tun, done |-> x.done] :
            x \in tnPend \cup {tnTerm[k] : k \in DOMAIN tnTerm}} : r.tun = t}

(* The terms that are still to be installed, in the order of the traversal *)
(* (traverse_tunnel_term_cb). An order is one enumeration of the set. *)
Unfinished(m) ==
  {k \in DOMAIN tnTerm : /\ ~tnTerm[k].done /\ tnTerm[k].tun \in DOMAIN tnTun
                         /\ m \in ToSet(tnTun[tnTerm[k].tun].maps)}

(* The keys that installed terms were given, over the maps as they were *)
KeyNow(k) ==
  LET r == tnTerm[k] IN
  HwKey(r.dst, TermVni(tnTun, tnMap, tnEntry, r.tun), r.type)

\* mutant: the entry is added and the waiting terms are not tried again
CreateTunnelMapEntryQuiet(e, m, v) ==
  /\ e \notin DOMAIN tnEntry /\ m \in DOMAIN tnMap
  /\ tnEntry' = TnPut(tnEntry, e, [map |-> m, vni |-> v])
  /\ tnMap' = [tnMap EXCEPT ![m] = Append(@, e)]
  /\ tnMissed' = tnMissed
  /\ UNCHANGED <<tnTun, tnTerm, tnNh, tnPend, tnHw, tnPorts, tnStats, tnMixed, tnBroken>>

(* create_tunnel_map_entry: appended to its map, and every waiting term of *)
(* every tunnel with the map is tried again. A term between its own attempt *)
(* and its record is not found. *)
CreateTunnelMapEntry(e, m, v) ==
  /\ e \notin DOMAIN tnEntry /\ m \in DOMAIN tnMap
  /\ LET entries == [tnMap EXCEPT ![m] = Append(@, e)]
         vnis == TnPut(tnEntry, e, [map |-> m, vni |-> v])
         try(acc, k) ==
           LET out == AddCtcTunnel(acc.s, entries, vnis, tnTerm[k])
           IN [s |-> out.s, done |-> IF out.ok THEN acc.done \cup {k} ELSE acc.done]
         out == FoldLeft(try, [s |-> TnHwState, done |-> {}],
                         SetToSortSeq(Unfinished(m), <))
     IN /\ tnMap' = entries /\ tnEntry' = vnis
        /\ tnTerm' = [k \in DOMAIN tnTerm |->
                        IF k \in out.done THEN [tnTerm[k] EXCEPT !.done = TRUE]
                        ELSE tnTerm[k]]
        /\ TnBecome(out.s)
        /\ tnMissed' = (tnMissed \cup Unfinished(m) \cup
              {p.id : p \in {q \in tnPend : q.tun \in DOMAIN tnTun /\ ~q.done
                                            /\ m \in ToSet(tnTun[q.tun].maps)}})
             \ out.done
        /\ tnMixed' = (tnMixed \/ out.done # Unfinished(m))
  /\ UNCHANGED <<tnNh, tnPend, tnPorts, tnBroken>>

(* remove_tunnel_map_entry, refused once its map is gone. An installed term *)
(* keeps the key it has: with another key from then on, it is never removed. *)
RemoveTunnelMapEntry(e) ==
  /\ e \in DOMAIN tnEntry /\ tnEntry[e].map \in DOMAIN tnMap
  /\ tnEntry' = TnDrop(tnEntry, e)
  /\ tnMap' = [tnMap EXCEPT ![tnEntry[e].map] = SelectSeq(@, LAMBDA x : x # e)]
  /\ tnBroken' = \E t \in DOMAIN tnTun :
                   MapVal(tnMap, tnTun[t].maps) = e /\ \E r \in Users(t) : r.done
  /\ UNCHANGED <<tnTun, tnTerm, tnNh, tnPend, tnHw, tnPorts, tnStats, tnMissed,
                 tnMixed>>

-----------------------------------------------------------------------------
(* Only the types that carry a service over a logic port take one. *)
TakesLport(type) == type = "VXLAN"
MapFree(m) == m \in DOMAIN tnMap /\ ~Listed(m)

NextLport == Min(TnLports \ tnPorts)

(* create_tunnel: a logic port, the attributes, the lists of mappers, the *)
(* record. *)
CreateTunnel(t, type, maps) ==
  /\ t \notin DOMAIN tnTun
  /\ TakesLport(type) => tnPorts # TnLports
  /\ tnTun' = TnPut(tnTun, t, [type |-> type, maps |-> maps, nhs |-> {},
                               dstats |-> 0, estats |-> 0, tries |-> 0,
                               lport |-> IF TakesLport(type) THEN NextLport ELSE 0])
  /\ tnPorts' = IF TakesLport(type) THEN tnPorts \cup {NextLport} ELSE tnPorts
  /\ UNCHANGED <<tnMap, tnEntry, tnTerm, tnNh, tnPend, tnHw, tnStats, tnMissed,
                 tnMixed, tnBroken>>

(* Its returns on an attribute out of range, which skip roll_back_0: the *)
(* logic port stays taken. The other failures give it back. *)
RefuseTunnel(type) ==
  /\ TakesLport(type) /\ tnPorts # TnLports
  /\ tnPorts' = tnPorts \cup {NextLport}
  /\ UNCHANGED <<tnMap, tnEntry, tnTun, tnTerm, tnNh, tnPend, tnHw, tnStats,
                 tnMissed, tnMixed, tnBroken>>

(* remove_tunnel: terms and next hops do not stop it, and the logic port is *)
(* never given back. *)
RemoveTunnel(t) ==
  /\ t \in DOMAIN tnTun
  /\ tnTun' = TnDrop(tnTun, t)
  /\ tnBroken' = (Users(t) # {} \/ tnTun[t].nhs # {})
  /\ UNCHANGED <<tnMap, tnEntry, tnTerm, tnNh, tnPend, tnHw, tnPorts, tnStats,
                 tnMissed, tnMixed>>

-----------------------------------------------------------------------------
(* create_tunnel_term_table_entry writes the hardware before it takes the *)
(* lock, and only then records the entry. *)
NoVni(t) ==
  tnTun[t].type = "VXLAN" /\ TermVni(tnTun, tnMap, tnEntry, t) = 0

BeginTerm(k, t, dst) ==
  /\ tnPend = {} /\ k \notin DOMAIN tnTerm
  /\ t \in DOMAIN tnTun /\ tnTun[t].tries < MaxAttempts
  /\ LET out == AddCtcTunnel(TnHwState, tnMap, tnEntry,
                             [tun |-> t, dst |-> dst, type |-> tnTun[t].type])
     IN /\ TnBecome([out.s EXCEPT !.tun[t].tries = @ + 1])
        /\ tnPend' = {[id |-> k, tun |-> t, dst |-> dst, type |-> tnTun[t].type,
                       done |-> out.ok]}
        /\ tnMissed' = IF ~out.ok /\ ~NoVni(t) THEN tnMissed \cup {k} ELSE tnMissed
        /\ tnMixed' = (tnMixed \/ tnTun[t].tries > 0 \/ (~out.ok /\ ~NoVni(t)))
  /\ UNCHANGED <<tnMap, tnEntry, tnTerm, tnNh, tnPorts, tnBroken>>

EndTerm ==
  /\ \E p \in tnPend :
       tnTerm' = TnPut(tnTerm, p.id, [tun |-> p.tun, dst |-> p.dst, type |-> p.type,
                                      done |-> p.done])
  /\ tnPend' = {}
  /\ UNCHANGED <<tnMap, tnEntry, tnTun, tnNh, tnHw, tnPorts, tnStats, tnMissed,
                 tnMixed, tnBroken>>

\* mutant: the record goes and the hardware entry stays
RemoveTermKeeps(k) ==
  /\ k \in DOMAIN tnTerm
  /\ tnTerm' = TnDrop(tnTerm, k) /\ tnMissed' = tnMissed \ {k}
  /\ UNCHANGED <<tnMap, tnEntry, tnTun, tnNh, tnPend, tnHw, tnPorts, tnStats,
                 tnMixed, tnBroken>>

(* remove_tunnel_term_table_entry. A term that waits has a key too, once its *)
(* tunnel's maps give one: it then removes the entry of the term that has it. *)
RemoveTerm(k) ==
  /\ k \in DOMAIN tnTerm
  /\ tnTerm' = TnDrop(tnTerm, k) /\ tnMissed' = tnMissed \ {k}
  /\ TnBecome(RemoveCtcTunnel(TnHwState, tnMap, tnEntry, tnTerm[k]))
  /\ tnBroken' = (~tnTerm[k].done /\ KeyNow(k) \in DOMAIN tnHw)
  /\ UNCHANGED <<tnMap, tnEntry, tnNh, tnPend, tnPorts, tnMixed>>

-----------------------------------------------------------------------------
(* map_to_nh_ip_tunnel, under create_nh: an egress statistics id that *)
(* replaces the tunnel's, and the next hop in the tunnel's list. *)
MapToNh(n, t) ==
  /\ n \notin DOMAIN tnNh /\ t \in DOMAIN tnTun
  /\ LET free == TnStatsIds \ tnStats
         id == IF free = {} THEN 0 ELSE Min(free)
     IN /\ tnStats' = tnStats \cup ({id} \ {0})
        /\ tnTun' = [tnTun EXCEPT ![t].nhs = @ \cup {n},
                                  ![t].estats = IF id = 0 THEN @ ELSE id]
        /\ tnNh' = TnPut(tnNh, n, [tun |-> t, stats |-> id])
  /\ tnMixed' = (tnMixed \/ tnTun[t].estats # 0)
  /\ UNCHANGED <<tnMap, tnEntry, tnTerm, tnPend, tnHw, tnPorts, tnMissed, tnBroken>>

(* unmap_to_nh_ip_tunnel, under remove_nh: refused while the tunnel is gone. *)
UnmapToNh(n) ==
  /\ n \in DOMAIN tnNh /\ tnNh[n].tun \in DOMAIN tnTun
  /\ tnStats' = tnStats \ {tnTun[tnNh[n].tun].estats}
  /\ tnTun' = [tnTun EXCEPT ![tnNh[n].tun].nhs = @ \ {n}]
  /\ tnNh' = TnDrop(tnNh, n)
  /\ UNCHANGED <<tnMap, tnEntry, tnTerm, tnPend, tnHw, tnPorts, tnMissed, tnMixed, tnBroken>>

(* set_tunnel_property of a GRE tunnel: whatever the attribute, and even when *)
(* it is refused, every next hop is mapped and written again, with a new *)
(* statistics id. *)
SetGreTunnel(t) ==
  /\ t \in DOMAIN tnTun /\ tnTun[t].type = "GRE"
  /\ LET remap(acc, n) ==
           LET free == TnStatsIds \ acc.stats
               id == IF free = {} THEN 0 ELSE Min(free)
           IN [stats |-> acc.stats \cup ({id} \ {0}), nh |-> TnPut(acc.nh, n, id),
               last |-> IF id = 0 THEN acc.last ELSE id]
         out == FoldLeft(remap, [stats |-> tnStats, nh |-> << >>,
                                 last |-> tnTun[t].estats],
                         SetToSortSeq(tnTun[t].nhs, <))
     IN /\ tnStats' = out.stats
        /\ tnTun' = [tnTun EXCEPT ![t].estats = out.last]
        /\ tnNh' = [n \in DOMAIN tnNh |-> IF n \in DOMAIN out.nh
                      THEN [tnNh[n] EXCEPT !.stats = out.nh[n]] ELSE tnNh[n]]
  /\ tnMixed' = (tnMixed \/ tnTun[t].nhs # {})
  /\ UNCHANGED <<tnMap, tnEntry, tnTerm, tnPend, tnHw, tnPorts, tnMissed, tnBroken>>

-----------------------------------------------------------------------------
TnInit ==
  /\ tnMap = << >> /\ tnEntry = << >> /\ tnTun = << >> /\ tnTerm = << >>
  /\ tnNh = << >> /\ tnPend = {} /\ tnHw = << >> /\ tnPorts = {} /\ tnStats = {}
  /\ tnMissed = {} /\ tnMixed = FALSE /\ tnBroken = FALSE

(* opf hands out the lowest free id. *)
FreeId(ids, f) ==
  LET free == ids \ DOMAIN f IN IF free = {} THEN {} ELSE {Min(free)}

(* Nothing is said of what follows such a removal. *)
TnNext ==
  \/ /\ ~tnBroken
     /\ \/ \E m \in TnMaps : CreateTunnelMap(m) \/ RemoveTunnelMap(m)
        \/ \E e \in FreeId(TnEntries, tnEntry), m \in TnMaps, v \in TnVnis : CreateTunnelMapEntry(e, m, v)
        \/ \E e \in TnEntries : RemoveTunnelMapEntry(e)
        \/ \E t \in FreeId(TnTunnels, tnTun), type \in TnTypes :
             \E maps \in {<< >>} \cup {<<m>> : m \in {x \in TnMaps : MapFree(x)}} :
               CreateTunnel(t, type, maps)
        \/ \E type \in TnTypes : RefuseTunnel(type)
        \/ \E t \in TnTunnels : RemoveTunnel(t) \/ SetGreTunnel(t)
        \/ \E k \in FreeId(TnTerms, tnTerm), t \in TnTunnels, dst \in TnDsts : BeginTerm(k, t, dst)
        \/ EndTerm
        \/ \E k \in TnTerms : RemoveTerm(k)
        \/ \E n \in TnNhs, t \in TnTunnels : MapToNh(n, t)
        \/ \E n \in TnNhs : UnmapToNh(n)
  \/ tnBroken /\ UNCHANGED tnVars

-----------------------------------------------------------------------------
(* An installed term is in hardware under the key that its tunnel's maps *)
(* give, and every entry of the hardware is that of a term. *)
TermsInstalled ==
  /\ \A k \in DOMAIN tnTerm : tnTerm[k].done => KeyNow(k) \in DOMAIN tnHw
  /\ \A key \in DOMAIN tnHw :
       \/ \E k \in DOMAIN tnTerm : tnTerm[k].done /\ KeyNow(k) = key
       \/ \E p \in tnPend : p.done /\ p.dst = key[1]

(* A term waits only while no map of its tunnel gives it a VNI: whichever map *)
(* entry comes first installs it. Two are excepted: one that finds another *)
(* entry under its key, which is not tried again when that one goes, and one *)
(* whose map entry comes between its own attempt and its record. *)
NoTermForgotten ==
  \A k \in DOMAIN tnTerm :
    ~tnTerm[k].done => k \in tnMissed \/ NoVni(tnTerm[k].tun)

(* Live tunnels have logic ports of their own, taken from the pool, and their *)
(* lists name exactly the next hops created over them. *)
TunnelsOwn ==
  /\ \A t, u \in DOMAIN tnTun :
       t # u /\ tnTun[t].lport # 0 => tnTun[t].lport # tnTun[u].lport
  /\ \A t \in DOMAIN tnTun :
       /\ tnTun[t].lport \in tnPorts \cup {0}
       /\ tnTun[t].nhs = {n \in DOMAIN tnNh : tnNh[n].tun = t}

(* While no tunnel has had a second user, the live counters are exactly those *)
(* of the terms and next hops. *)
CountersOwned ==
  ~tnMixed =>
    tnStats = ({tnHw[key] : key \in DOMAIN tnHw} \cup
               {tnNh[n].stats : n \in DOMAIN tnNh}) \ {0}

(* The tunnels' promise, until a map, a map entry or a tunnel is removed from *)
(* under what was computed from it. *)
TunnelExact ==
  ~tnBroken => TermsInstalled /\ NoTermForgotten /\ TunnelsOwn /\ CountersOwned
=============================================================================
