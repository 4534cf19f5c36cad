------------------------------ MODULE L2Ports ------------------------------
(***************************************************************************)
(* Link aggregation groups (ctc_sai_lag.c) and the bridge ports on them *)
(* (ctc_sai_bridge.c), with the VLAN members (ctc_sai_vlan.c) and the STP *)
(* ports (ctc_sai_stp.c) of those bridge ports. *)
(* *)
(* The chip has no configuration of a LAG: every handler writes it to each *)
(* member port, and a port that joins or leaves is told through a callback *)
(* that copies the records of the bridge port, or resets the port. Calls *)
(* run one at a time. The client puts a port in one LAG, once, and not *)
(* again after a removal that failed; and it removes *)
(* a bridge port when it has neither VLANs nor STP ports and its LAG no *)
(* members; none of that is checked by the code. linkagg_add_port and *)
(* _remove_port of the SDK also set the port's GPORT property, and the *)
(* latter refuses a port that is not in the group. *)
(***************************************************************************)
EXTENDS Naturals, FiniteSets

CONSTANTS
  Lags,         \* ids of pool LAG
  MemberPorts,  \* the ports of the chip that may join
  LagVlans,     \* VLANs, by their vlanptr
  LagStps,      \* STP instances
  MaxSkew       \* bound: kinds of unrecorded writes at a time

\* what a bridge port sets on its ports: ADMIN_STATE (transmit and receive) and
\* the VLAN filters; the isolation group and the action beyond the MAC limit are
\* set, recorded, copied and reset as the filters are
BpAttrs == {"admin", "filter"}
StpStates == {"FORWARDING", "BLOCKING"}
Disables == {"none", "in", "eg", "both"}

VARIABLES
  lagDb,     \* ctc_sai_lag_info_t of every LAG
  bpDb,      \* ctc_sai_bridge_port_t of the LAG's bridge port
  hwMem,     \* per port: whether linkagg holds it, its GPORT, its configuration
  skew,      \* what is written without a record, or recorded without a write:
             \* <<lag, attribute>>, <<lag, "tag", VLAN>> or <<lag, "stp", instance>>
  stray      \* ports that left while the chip did not have them in the group
lpVars == <<lagDb, bpDb, hwMem, skew, stray>>

NoLag == [live |-> FALSE, mem |-> {}, egDis |-> {}, inDis |-> {},
          dropU |-> FALSE, dropT |-> FALSE, cb |-> FALSE]
NoBp == [live |-> FALSE, cfg |-> [a \in BpAttrs |-> FALSE],
         vlans |-> [v \in LagVlans |-> "no"], stps |-> [s \in LagStps |-> "no"]]
\* a port the callback has reset: traffic on, filters off, no MAC limit
LeftCfg == [a \in BpAttrs |-> a = "admin"]
FreshPort == [agg |-> FALSE, gport |-> "own", cfg |-> LeftCfg,
              vlans |-> [v \in LagVlans |-> "no"], stps |-> [s \in LagStps |-> "FORWARDING"],
              ctl |-> [u |-> FALSE, t |-> FALSE]]

LpInit ==
  /\ lagDb = [l \in Lags |-> NoLag] /\ bpDb = [l \in Lags |-> NoBp]
  /\ hwMem = [p \in MemberPorts |-> FreshPort]
  /\ skew = {} /\ stray = {}

LiveLag(l) == lagDb[l].live
Members(l) == lagDb[l].mem
\* write every member of l with W(port record)
WriteMembers(l, W(_)) == [p \in MemberPorts |-> IF p \in Members(l) THEN W(hwMem[p]) ELSE hwMem[p]]

-----------------------------------------------------------------------------
(* ctc_sai_lag_create_lag: the id, the SDK's group, the record; only the *)
(* modes SAI names are given. remove_lag looks for router interfaces alone. *)
CreateLag(l, u, t) ==
  /\ ~LiveLag(l)
  /\ lagDb' = [lagDb EXCEPT ![l] = [NoLag EXCEPT !.live = TRUE, !.dropU = u, !.dropT = t]]
  /\ UNCHANGED <<bpDb, hwMem, skew, stray>>
RemoveLag(l) ==
  /\ LiveLag(l) /\ Members(l) = {} /\ ~bpDb[l].live
  /\ lagDb' = [lagDb EXCEPT ![l] = NoLag]
  /\ skew' = {x \in skew : x[1] # l}
  /\ UNCHANGED <<bpDb, hwMem, stray>>

(* ctc_sai_port_mapping_tags_mode: a request that changes nothing leaves *)
(* *mode at the caller's 0, ALLOW_ALL_PACKETS. *)
TagsMode(ctl, tag, on) ==
  IF on = (IF tag = "u" THEN ctl.u ELSE ctl.t) THEN [u |-> FALSE, t |-> FALSE]
  ELSE IF tag = "u" THEN [ctl EXCEPT !.u = on] ELSE [ctl EXCEPT !.t = on]
(* ctc_sai_lag_set_info, DROP_UNTAGGED and DROP_TAGGED: the mode is computed *)
(* from the first member and written to all. *)
SetLagDrop(l, tag, on) ==
  /\ LiveLag(l)
  /\ hwMem' = [p \in MemberPorts |-> IF p \notin Members(l) THEN hwMem[p] ELSE
        LET first == CHOOSE q \in Members(l) : TRUE
        IN [hwMem[p] EXCEPT !.ctl = TagsMode(hwMem[first].ctl, tag, on)]]
  /\ lagDb' = IF tag = "u" THEN [lagDb EXCEPT ![l].dropU = on]
                            ELSE [lagDb EXCEPT ![l].dropT = on]
  /\ UNCHANGED <<bpDb, stray>>
  /\ skew' = IF on = (IF tag = "u" THEN lagDb[l].dropU ELSE lagDb[l].dropT) /\ Members(l) # {}
             THEN skew \cup {<<l, "ctl">>} ELSE skew

-----------------------------------------------------------------------------
(* _ctc_sai_bridge_port_lag_member_change_cb_fn, for a port that joins ... *)
JoinedPort(h, bp) ==
  [h EXCEPT !.cfg = bp.cfg,
            !.vlans = [v \in LagVlans |-> IF bp.vlans[v] = "no" THEN @[v] ELSE bp.vlans[v]],
            !.stps = [s \in LagStps |-> IF bp.stps[s] = "no" THEN @[s] ELSE bp.stps[s]]]
(* ... and for one that leaves. *)
\* mutant: the VLANs of the bridge port stay on the port
LeavingPort_vlans(h, bp) ==
  [h EXCEPT !.cfg = LeftCfg,
            !.stps = [s \in LagStps |-> IF bp.stps[s] = "no" THEN @[s] ELSE "FORWARDING"]]
LeavingPort(h, bp) ==
  [h EXCEPT !.cfg = LeftCfg,
            !.vlans = [v \in LagVlans |-> IF bp.vlans[v] = "no" THEN @[v] ELSE "no"],
            !.stps = [s \in LagStps |-> IF bp.stps[s] = "no" THEN @[s] ELSE "FORWARDING"]]
(* The callback finds nothing to do when the bridge port is gone. *)
MemberChange(l, h, joins) ==
  IF ~lagDb[l].cb \/ ~bpDb[l].live THEN h
  ELSE IF joins THEN JoinedPort(h, bpDb[l]) ELSE LeavingPort(h, bpDb[l])

(* _ctc_sai_lag_create_lag_member. d tells which directions are disabled: a *)
(* member that may not send is kept out of the group and given the LAG's *)
(* GPORT by hand; one that may not receive gets its own GPORT back. A failure *)
(* that reaches error1 to error4 puts all of it back: no step. *)
CreateLagMember(l, p, d) ==
  /\ LiveLag(l) /\ p \notin stray /\ \A k \in Lags : p \notin Members(k)
  /\ lagDb' = [lagDb EXCEPT ![l].mem = @ \cup {p},
        ![l].egDis = IF d \in {"eg", "both"} THEN @ \cup {p} ELSE @,
        ![l].inDis = IF d \in {"in", "both"} THEN @ \cup {p} ELSE @]
  /\ LET h == [hwMem[p] EXCEPT !.agg = d \in {"none", "in"},
                 !.gport = CASE d = "in" -> "own" [] d = "both" -> @ [] OTHER -> "lag",
                 !.ctl = [u |-> lagDb[l].dropU, t |-> lagDb[l].dropT]]
     IN hwMem' = [hwMem EXCEPT ![p] = MemberChange(l, h, TRUE)]
  /\ UNCHANGED <<bpDb, skew, stray>>

(* _ctc_sai_lag_remove_lag_member: the bits go first; when the chip does not *)
(* have the port in the group, the call ends there and no callback runs. The *)
(* port keeps all it had; being out of every property, it is not followed *)
(* further. Nor are the tag modes of a port outside, which joining rewrites. *)
RemoveLagMember(l, p) ==
  /\ p \in Members(l)
  /\ lagDb' = [lagDb EXCEPT ![l].mem = @ \ {p}, ![l].egDis = @ \ {p}, ![l].inDis = @ \ {p}]
  /\ IF hwMem[p].agg
     THEN /\ hwMem' = [hwMem EXCEPT ![p] =
               MemberChange(l, [hwMem[p] EXCEPT !.agg = FALSE, !.gport = "own",
                                                 !.ctl = FreshPort.ctl], FALSE)]
          /\ UNCHANGED stray
     ELSE stray' = stray \cup {p} /\ hwMem' = [hwMem EXCEPT ![p] = FreshPort]
  /\ UNCHANGED <<bpDb, skew>>

(* ctc_sai_lag_set_lag_member_info answers only for a member whose egress is *)
(* disabled, so egress can be enabled and not disabled. *)
SetLagMember(l, p, dir, on) ==
  /\ p \in lagDb[l].egDis
  /\ \/ /\ dir = "eg" /\ ~on
        /\ lagDb' = [lagDb EXCEPT ![l].egDis = @ \ {p}]
        /\ hwMem' = [hwMem EXCEPT ![p].agg = TRUE,
                       ![p].gport = IF p \in lagDb[l].inDis THEN "own" ELSE "lag"]
     \/ /\ dir = "in" /\ on # (p \in lagDb[l].inDis)
        /\ lagDb' = [lagDb EXCEPT ![l].inDis = IF on THEN @ \cup {p} ELSE @ \ {p}]
        /\ hwMem' = [hwMem EXCEPT ![p].gport = IF on THEN "own" ELSE "lag"]
  /\ UNCHANGED <<bpDb, skew, stray>>

-----------------------------------------------------------------------------
(* ctc_sai_bridge_create_bridge_port on a LAG, type PORT. The filters of the *)
(* call go to the members and not into the record; an admin state of down is *)
(* what the zeroed record says already, so the members are left as they are. *)
CreateBridgePort(l, admin, filter) ==
  /\ LiveLag(l) /\ ~bpDb[l].live
  /\ bpDb' = [bpDb EXCEPT ![l] = [NoBp EXCEPT !.live = TRUE, !.cfg.admin = admin]]
  /\ hwMem' = WriteMembers(l, LAMBDA h : [h EXCEPT !.cfg.filter = filter,
                                            !.cfg.admin = IF admin THEN TRUE ELSE @])
  /\ lagDb' = [lagDb EXCEPT ![l].cb = TRUE]
  /\ skew' = skew \cup (IF filter THEN {<<l, "filter">>} ELSE {})
                  \cup (IF ~admin THEN {<<l, "admin">>} ELSE {})
  /\ UNCHANGED stray
RemoveBridgePort(l) ==
  /\ bpDb[l].live /\ Members(l) = {}
  /\ bpDb[l].vlans = NoBp.vlans /\ bpDb[l].stps = NoBp.stps
  /\ bpDb' = [bpDb EXCEPT ![l] = NoBp]
  /\ skew' = {x \in skew : x[1] # l}
  /\ UNCHANGED <<lagDb, hwMem, stray>>

(* ctc_sai_bridge_port_set_port_property: to each member, then the record. *)
(* set_admin_state returns at once when the record has the value already. *)
\* mutant: the record is not kept
SetBridgePort_norecord(l, a, on) ==
  /\ bpDb[l].live
  /\ hwMem' = WriteMembers(l, LAMBDA h : [h EXCEPT !.cfg[a] = on])
  /\ UNCHANGED <<bpDb, lagDb, skew, stray>>
SetBridgePort(l, a, on) ==
  /\ bpDb[l].live
  /\ ~(a = "admin" /\ on = bpDb[l].cfg.admin)
  /\ hwMem' = WriteMembers(l, LAMBDA h : [h EXCEPT !.cfg[a] = on])
  /\ bpDb' = [bpDb EXCEPT ![l].cfg[a] = on]
  /\ skew' = skew \ {<<l, a>>}
  /\ UNCHANGED <<lagDb, stray>>

(* _ctc_sai_vlan_create_vlan_member and _remove_vlan_member on a bridge port *)
(* and set_vlan_member_tag, which leaves the record's tag mode alone. *)
CreateVlanMember(l, v, tag) ==
  /\ bpDb[l].live /\ bpDb[l].vlans[v] = "no"
  /\ hwMem' = WriteMembers(l, LAMBDA h : [h EXCEPT !.vlans[v] = tag])
  /\ bpDb' = [bpDb EXCEPT ![l].vlans[v] = tag]
  /\ UNCHANGED <<lagDb, skew, stray>>
RemoveVlanMember(l, v) ==
  /\ bpDb[l].live /\ bpDb[l].vlans[v] # "no"
  /\ hwMem' = WriteMembers(l, LAMBDA h : [h EXCEPT !.vlans[v] = "no"])
  /\ bpDb' = [bpDb EXCEPT ![l].vlans[v] = "no"]
  /\ skew' = skew \ {<<l, "tag", v>>} /\ UNCHANGED <<lagDb, stray>>
SetVlanMemberTag(l, v, tag) ==
  /\ bpDb[l].live /\ bpDb[l].vlans[v] \notin {"no", tag}
  /\ hwMem' = WriteMembers(l, LAMBDA h : [h EXCEPT !.vlans[v] = tag])
  /\ skew' = skew \cup {<<l, "tag", v>>} /\ UNCHANGED <<bpDb, lagDb, stray>>

(* _ctc_sai_stp_create_stp_port, _remove_stp_port and set_port_info, which *)
(* leaves the record's state alone. *)
CreateStpPort(l, s, st) ==
  /\ bpDb[l].live /\ bpDb[l].stps[s] = "no"
  /\ hwMem' = WriteMembers(l, LAMBDA h : [h EXCEPT !.stps[s] = st])
  /\ bpDb' = [bpDb EXCEPT ![l].stps[s] = st]
  /\ UNCHANGED <<lagDb, skew, stray>>
RemoveStpPort(l, s) ==
  /\ bpDb[l].live /\ bpDb[l].stps[s] # "no"
  /\ hwMem' = WriteMembers(l, LAMBDA h : [h EXCEPT !.stps[s] = "FORWARDING"])
  /\ bpDb' = [bpDb EXCEPT ![l].stps[s] = "no"]
  /\ skew' = skew \ {<<l, "stp", s>>} /\ UNCHANGED <<lagDb, stray>>
SetStpPort(l, s, st) ==
  /\ bpDb[l].live /\ bpDb[l].stps[s] \notin {"no", st}
  /\ hwMem' = WriteMembers(l, LAMBDA h : [h EXCEPT !.stps[s] = st])
  /\ skew' = skew \cup {<<l, "stp", s>>} /\ UNCHANGED <<bpDb, lagDb, stray>>

LpSteps ==
  \E l \in Lags :
    \/ \E u, t \in BOOLEAN : CreateLag(l, u, t)
    \/ RemoveLag(l) \/ RemoveBridgePort(l)
    \/ \E tag \in {"u", "t"}, on \in BOOLEAN : SetLagDrop(l, tag, on)
    \/ \E p \in MemberPorts, d \in Disables : CreateLagMember(l, p, d)
    \/ \E p \in MemberPorts : RemoveLagMember(l, p)
    \/ \E p \in MemberPorts, dir \in {"in", "eg"}, on \in BOOLEAN : SetLagMember(l, p, dir, on)
    \/ \E admin, filter \in BOOLEAN : CreateBridgePort(l, admin, filter)
    \/ \E a \in BpAttrs, on \in BOOLEAN : SetBridgePort(l, a, on)
    \/ \E v \in LagVlans, tag \in {"tagged", "untagged"} :
         CreateVlanMember(l, v, tag) \/ SetVlanMemberTag(l, v, tag)
    \/ \E v \in LagVlans : RemoveVlanMember(l, v)
    \/ \E s \in LagStps, st \in StpStates : CreateStpPort(l, s, st) \/ SetStpPort(l, s, st)
    \/ \E s \in LagStps : RemoveStpPort(l, s)

LpNext == LpSteps /\ Cardinality(skew') <= MaxSkew
LpSpec == LpInit /\ [][LpNext]_lpVars

-----------------------------------------------------------------------------
(* The members of a LAG all behave as the records of its bridge port say, *)
(* whether they joined before or after each attribute, VLAN or STP port was *)
(* set, apart from the attributes that the code writes without recording. *)
InStep(l, a) == <<l, a>> \notin skew
MembersFollow ==
  \A l \in Lags : \A p \in Members(l) \ stray :
    /\ InStep(l, "ctl") => hwMem[p].ctl = [u |-> lagDb[l].dropU, t |-> lagDb[l].dropT]
    /\ bpDb[l].live =>
         /\ \A a \in BpAttrs : InStep(l, a) => hwMem[p].cfg[a] = bpDb[l].cfg[a]
         /\ \A v \in LagVlans : /\ (hwMem[p].vlans[v] = "no") = (bpDb[l].vlans[v] = "no")
                                /\ <<l, "tag", v>> \notin skew => hwMem[p].vlans[v] = bpDb[l].vlans[v]
         /\ \A s \in LagStps : bpDb[l].stps[s] # "no" /\ <<l, "stp", s>> \notin skew =>
                                 hwMem[p].stps[s] = bpDb[l].stps[s]

(* The chip sends over exactly the members that may send and takes what comes *)
(* in on exactly the members that may receive for the LAG; and a port that *)
(* left carries nothing over from the LAG's bridge port: its VLANs, STP *)
(* states, filters and limits are those of a port on its own. Excepted is a *)
(* port whose removal failed because its egress was disabled. *)
AggregationExact ==
  \A p \in MemberPorts \ stray :
    /\ hwMem[p].agg = (\E l \in Lags : p \in Members(l) \ lagDb[l].egDis)
    /\ (hwMem[p].gport = "lag") = (\E l \in Lags : p \in Members(l) \ lagDb[l].inDis)
    /\ (\A l \in Lags : p \notin Members(l)) =>
         /\ hwMem[p].cfg = LeftCfg /\ hwMem[p].vlans = FreshPort.vlans
         /\ hwMem[p].stps = FreshPort.stps
=============================================================================
