------------------------------ MODULE Policing ------------------------------
(* Policers (ctc_sai_policer.c) and what they are attached to: the policer *)
(* and the storm controls of a port (ctc_sai_port.c), and ACL entries. *)
(* A policer serves one port or one entry at a time, but several storm kinds *)
(* of that port. Its field id is a union of the port and the entry, here at, *)
(* and NoUser stands for CTC_SAI_POLICER_APPLY_DEFAULT. Every call runs *)
(* under the database lock, and the SDK's calls succeed. A trap group never *)
(* gets a policer: set_copp_policer asks for the type COPP before it sets it.*)
(* The client removes a storm policer, or gives it to another port, when no *)
(* storm kind of a port names it: the code looks at the union alone, which *)
(* taking the policer off one of several kinds resets. *)
EXTENDS Naturals, FiniteSets

CONSTANTS
  Policers,     \* ids of pool POLICER
  PolPorts,     \* gports
  PolEntries,   \* ids of ACL entries; numbers that gports may have too
  StormKinds,   \* the storm controls of a port: flood, broadcast, multicast
  Rates         \* values of CIR, from 1 on

NoUser == 99       \* CTC_SAI_POLICER_APPLY_DEFAULT
PolModes == {"STORM", "TCM"}

ASSUME PolicingAssumption ==
  /\ Policers \subseteq Nat \ {0} /\ PolPorts \subseteq Nat /\ PolEntries \subseteq Nat
  /\ NoUser \notin Policers \cup PolPorts \cup PolEntries
  /\ Rates \subseteq Nat \ {0} /\ StormKinds \subseteq {"flood", "bcast", "mcast"}

VARIABLES
  polDb,     \* ctc_sai_policer_db_t: mode, rate, at (the union) and type
  portPol,   \* ctc_sai_port_db_t: the policer and the policer of each storm kind
  hwStorm,   \* threshold of each storm control of the chip, 0 is off
  hwPort,    \* rate of the port policers of the chip
  hwFlow,    \* rate of the flow policers of the chip, by their SDK number
  orphan,    \* storm controls whose policer was detached through another kind
  astray     \* flow policers of the chip a later rate was not, or wrongly, written to
polVars == <<polDb, portPol, hwStorm, hwPort, hwFlow, orphan, astray>>

NoPol == [live |-> FALSE, mode |-> "TCM", rate |-> 0, at |-> NoUser, type |-> "MAX"]
FreshPortPol == [live |-> TRUE, main |-> 0, storm |-> [k \in StormKinds |-> 0]]
PolInit ==
  /\ polDb = [p \in Policers |-> NoPol]
  /\ portPol = [g \in PolPorts |-> FreshPortPol]
  /\ hwStorm = [g \in PolPorts |-> [k \in StormKinds |-> 0]]
  /\ hwPort = [g \in PolPorts |-> 0]
  /\ hwFlow = [n \in Policers \cup PolEntries |-> 0]
  /\ orphan = {} /\ astray = {}

Sharing(g, k, p) == {j \in StormKinds \ {k} : portPol[g].storm[j] = p}
Names(g, p) == \E k \in StormKinds : portPol[g].storm[k] = p
Detached(db, p) == [db EXCEPT ![p].at = NoUser, ![p].type = "MAX"]

-----------------------------------------------------------------------------
(* create_policer_id and remove_policer_id, which goes by the union and the *)
(* type: a storm policer has no type. *)
CreatePolicer(p, mode, r) ==
  /\ ~polDb[p].live
  /\ polDb' = [polDb EXCEPT ![p] = [NoPol EXCEPT !.live = TRUE, !.mode = mode, !.rate = r]]
  /\ UNCHANGED <<portPol, hwStorm, hwPort, hwFlow, orphan, astray>>
RemovePolicer(p) ==
  /\ polDb[p].live /\ polDb[p].at = NoUser /\ polDb[p].type = "MAX"
  /\ \A g \in PolPorts : ~Names(g, p)
  /\ polDb' = [polDb EXCEPT ![p] = NoPol]
  /\ UNCHANGED <<portPol, hwStorm, hwPort, hwFlow, orphan, astray>>

(* policer set_attr: the record takes the rate, then the user of the policer *)
(* is written. The chip's flow policer is looked for under the entry's *)
(* number, although it was set up under the policer's. *)
SetPolicer(p, r) ==
  LET g == polDb[p].at
      mode == polDb[p].mode
      type == polDb[p].type
  IN /\ polDb[p].live
     /\ polDb' = [polDb EXCEPT ![p].rate = r]
     /\ hwStorm' = IF mode = "STORM" /\ g \in PolPorts /\ portPol[g].live
                   THEN [hwStorm EXCEPT ![g] = [k \in StormKinds |->
                           IF portPol[g].storm[k] = p THEN r ELSE @[k]]]
                   ELSE hwStorm
     /\ hwPort' = IF mode = "TCM" /\ type = "PORT" THEN [hwPort EXCEPT ![g] = r] ELSE hwPort
     /\ IF mode = "TCM" /\ type = "FLOW"
        THEN /\ hwFlow' = [hwFlow EXCEPT ![g] = r]
             /\ astray' = IF g = p THEN astray ELSE astray \cup {g, p}
        ELSE UNCHANGED <<hwFlow, astray>>
     /\ UNCHANGED <<portPol, orphan>>

-----------------------------------------------------------------------------
(* _ctc_sai_port_set_policer with a storm policer p of kind k on port g: it *)
(* is set, recorded, and the one it replaces is released when no other kind *)
(* of the port has it. *)
CanStorm(g, p) == polDb[p].live /\ polDb[p].mode = "STORM" /\ polDb[p].at \in {g, NoUser}
\* mutant: the replaced policer is released although another kind uses it
MustRevert_always(g, k, p, old) == old \notin {0, p}
MustRevert(g, k, p, old) == old \notin {0, p} /\ Sharing(g, k, old) = {}
SetStorm(g, k, p) ==
  LET old == portPol[g].storm[k]
      rev == MustRevert(g, k, p, old)
      set == [polDb EXCEPT ![p].at = g]
  IN /\ portPol[g].live /\ CanStorm(g, p)
     /\ \A h \in PolPorts \ {g} : ~Names(h, p)
     /\ portPol' = [portPol EXCEPT ![g].storm[k] = p]
     /\ hwStorm' = [hwStorm EXCEPT ![g][k] = polDb[p].rate]
     /\ polDb' = IF rev /\ polDb[old].live THEN Detached(set, old) ELSE set
     /\ orphan' = orphan \ {<<g, k>>}
     /\ UNCHANGED <<hwPort, hwFlow, astray>>

(* The same with the null object: the recorded policer p is taken off. A *)
(* policer that another kind has given back is found unattached and the chip *)
(* keeps the storm control; one that serves another port is refused, and one *)
(* that is gone is not found: then nothing happens. *)
StormOff(st, g, k) ==
  LET p == st.port[g].storm[k]
      kept == st.pol[p].at = NoUser
      fail == p = 0 \/ ~st.pol[p].live \/ st.pol[p].mode # "STORM"
                \/ (~kept /\ st.pol[p].at # g)
      share == {j \in StormKinds \ {k} : st.port[g].storm[j] = p}
  IN IF p = 0 \/ fail THEN st
     ELSE [pol |-> [st.pol EXCEPT ![p].at = NoUser],
           port |-> [st.port EXCEPT ![g].storm[k] = 0],
           hw |-> IF kept THEN st.hw ELSE [st.hw EXCEPT ![g][k] = 0],
           orph |-> IF kept THEN st.orph
                    ELSE (st.orph \ {<<g, k>>}) \cup {<<g, j>> : j \in share}]
StormState == [pol |-> polDb, port |-> portPol, hw |-> hwStorm, orph |-> orphan]
ClearStorm(g, k) ==
  LET st == StormOff(StormState, g, k)
  IN /\ portPol[g].live /\ portPol[g].storm[k] # 0
     /\ polDb' = st.pol /\ portPol' = st.port /\ hwStorm' = st.hw /\ orphan' = st.orph
     /\ UNCHANGED <<hwPort, hwFlow, astray>>

(* SAI_PORT_ATTR_POLICER_ID with a policer and with the null object. *)
SetPortPolicer(g, p) ==
  LET old == portPol[g].main
      set == [polDb EXCEPT ![p].at = g, ![p].type = "PORT"]
  IN /\ portPol[g].live
     /\ polDb[p].live /\ polDb[p].mode = "TCM"
     /\ polDb[p].at = NoUser \/ (polDb[p].at = g /\ polDb[p].type = "PORT")
     /\ portPol' = [portPol EXCEPT ![g].main = p]
     /\ hwPort' = [hwPort EXCEPT ![g] = polDb[p].rate]
     /\ polDb' = IF old \in {0, p} THEN set ELSE Detached(set, old)
     /\ UNCHANGED <<hwStorm, hwFlow, orphan, astray>>
ClearPortPolicer(g) ==
  LET p == portPol[g].main
  IN /\ portPol[g].live /\ p # 0 /\ polDb[p].live /\ polDb[p].at = g
     /\ portPol' = [portPol EXCEPT ![g].main = 0]
     /\ hwPort' = [hwPort EXCEPT ![g] = 0]
     /\ polDb' = Detached(polDb, p)
     /\ UNCHANGED <<hwStorm, hwFlow, orphan, astray>>

(* remove_port takes off the policer and each storm policer, whatever the *)
(* calls return, and frees the record; create_port starts a new one. *)
AllStormOff(st, g) ==
  LET Off(s, k) == StormOff(s, g, k)
      one == IF "flood" \in StormKinds THEN Off(st, "flood") ELSE st
      two == IF "bcast" \in StormKinds THEN Off(one, "bcast") ELSE one
  IN IF "mcast" \in StormKinds THEN Off(two, "mcast") ELSE two
RemovePort(g) ==
  LET p == portPol[g].main
      db == IF p = 0 THEN polDb ELSE Detached(polDb, p)
      st == AllStormOff([StormState EXCEPT !.pol = db], g)
  IN /\ portPol[g].live
     /\ polDb' = st.pol
     /\ portPol' = [portPol EXCEPT ![g] = [FreshPortPol EXCEPT !.live = FALSE]]
     /\ hwStorm' = st.hw /\ hwPort' = [hwPort EXCEPT ![g] = 0]
     /\ orphan' = st.orph
     /\ UNCHANGED <<hwFlow, astray>>
CreatePort(g) ==
  /\ ~portPol[g].live
  /\ portPol' = [portPol EXCEPT ![g] = FreshPortPol]
  /\ UNCHANGED <<polDb, hwStorm, hwPort, hwFlow, orphan, astray>>

-----------------------------------------------------------------------------
(* ctc_sai_policer_acl_set_policer, called when an entry with a policer *)
(* action is written to the chip and when it is taken out. *)
AclAttach(e, p) ==
  /\ polDb[p].live /\ polDb[p].mode = "TCM"
  /\ polDb[p].at = NoUser \/ (polDb[p].at = e /\ polDb[p].type = "FLOW")
  /\ polDb' = [polDb EXCEPT ![p].at = e, ![p].type = "FLOW"]
  /\ hwFlow' = [hwFlow EXCEPT ![p] = polDb[p].rate]
  /\ astray' = astray \ {p}
  /\ UNCHANGED <<portPol, hwStorm, hwPort, orphan>>
AclDetach(e, p) ==
  /\ polDb[p].live /\ polDb[p].at = e /\ polDb[p].type = "FLOW"
  /\ polDb' = Detached(polDb, p)
  /\ hwFlow' = [hwFlow EXCEPT ![p] = 0] /\ astray' = astray \ {p}
  /\ UNCHANGED <<portPol, hwStorm, hwPort, orphan>>

PolNext ==
  \/ \E p \in Policers, mode \in PolModes, r \in Rates : CreatePolicer(p, mode, r)
  \/ \E p \in Policers : RemovePolicer(p)
  \/ \E p \in Policers, r \in Rates : SetPolicer(p, r)
  \/ \E g \in PolPorts, k \in StormKinds, p \in Policers : SetStorm(g, k, p)
  \/ \E g \in PolPorts, k \in StormKinds : ClearStorm(g, k)
  \/ \E g \in PolPorts, p \in Policers : SetPortPolicer(g, p)
  \/ \E g \in PolPorts : ClearPortPolicer(g) \/ RemovePort(g) \/ CreatePort(g)
  \/ \E e \in PolEntries, p \in Policers : AclAttach(e, p) \/ AclDetach(e, p)
PolSpec == PolInit /\ [][PolNext]_polVars

-----------------------------------------------------------------------------
\* a policer that a port's record names exists, serves that port, and the chip has
\* its rate; where none is named the chip polices nothing
PortPolicersExact ==
  \A g \in PolPorts :
    /\ hwPort[g] = IF portPol[g].main = 0 THEN 0 ELSE polDb[portPol[g].main].rate
    /\ portPol[g].main # 0 => /\ polDb[portPol[g].main].live
                              /\ polDb[portPol[g].main].at = g
                              /\ polDb[portPol[g].main].type = "PORT"
StormExact ==
  \A g \in PolPorts, k \in StormKinds :
    LET p == portPol[g].storm[k]
    IN <<g, k>> \notin orphan =>
         IF p = 0 THEN hwStorm[g][k] = 0
         ELSE polDb[p].live /\ polDb[p].at = g /\ hwStorm[g][k] = polDb[p].rate
\* a policer is one user's: the port whose record names it or the entry it was attached to
FlowExact ==
  \A p \in Policers :
    /\ p \notin astray => hwFlow[p] = IF polDb[p].type = "FLOW" THEN polDb[p].rate ELSE 0
    /\ polDb[p].type = "PORT" => portPol[polDb[p].at].main = p

(* The policers in use are the ones the chip polices with: every policer a *)
(* port's record names exists, serves that port and no other, and the chip *)
(* has its present rate; one that no record names polices nothing. This is *)
(* what the release of a replaced policer in _ctc_sai_port_set_policer, the *)
(* in-use check of remove_policer and the re-application by set_attr keep *)
(* up together, whatever the order of the calls. *)
PolicersExact == PortPolicersExact /\ StormExact /\ FlowExact
=============================================================================
