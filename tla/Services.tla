------------------------------ MODULE Services ------------------------------
(* The services built on top of the ports and the routing (overlays, groups of *)
(* receivers, monitoring sessions, system-wide settings) and the interfaces *)
(* without a port of their own, one per behaviour: as in Platform, no action of *)
(* one part reads or writes a variable of another. *)
EXTENDS L3Interface, Bfd, OamEvents, Y1731, AttrApi, Twamp, Tunnel, Mpls,
        Mcast, Rpf, Nat, Isolation, WarmBoot, ApiTable, TimeSync, UdfHash,
        DropCounter, PortConfig

VARIABLE part     \* the part this behaviour exercises

Parts == {"interfaces", "bfd", "oamevents", "y1731", "attrs", "twamp",
          "tunnels", "mpls", "mcast", "rpf", "nat", "isolation", "warmboot",
          "apitable", "timesync", "udf", "drops", "ports"}

ServicesInit ==
  /\ part \in Parts
  /\ Init
  /\ BfdInit
  /\ OamInit
  /\ Y1731Init
  /\ AttrInit
  /\ TwInit
  /\ TnInit
  /\ MpInit
  /\ McInit
  /\ RpfInit
  /\ NatInit
  /\ IsoInit
  /\ WbInit
  /\ QInit
  /\ PtInit
  /\ UdfInit
  /\ DcInit
  /\ PoInit
  /\ part # "bfd" => bfdHost = {} /\ ~bfdGlobal

ServicesNext ==
  \/ /\ part = "interfaces" /\ Next
     /\ UNCHANGED <<part, bfdVars, oamVars, y1731Vars, attrVars, twVars,
                    tnVars, mpVars, mcVars, rpfVars, natVars, isoVars,
                    wbVars, qVars, ptVars, udfVars, dcVars, poVars>>
  \/ /\ part = "bfd" /\ BfdNext
     /\ UNCHANGED <<part, vars, oamVars, y1731Vars, attrVars, twVars, tnVars,
                    mpVars, mcVars, rpfVars, natVars, isoVars, wbVars, qVars,
                    ptVars, udfVars, dcVars, poVars>>
  \/ /\ part = "oamevents" /\ OamNext
     /\ UNCHANGED <<part, vars, bfdVars, y1731Vars, attrVars, twVars, tnVars,
                    mpVars, mcVars, rpfVars, natVars, isoVars, wbVars, qVars,
                    ptVars, udfVars, dcVars, poVars>>
  \/ /\ part = "y1731" /\ Y1731Next
     /\ UNCHANGED <<part, vars, bfdVars, oamVars, attrVars, twVars, tnVars,
                    mpVars, mcVars, rpfVars, natVars, isoVars, wbVars, qVars,
                    ptVars, udfVars, dcVars, poVars>>
  \/ /\ part = "attrs" /\ AttrNext
     /\ UNCHANGED <<part, vars, bfdVars, oamVars, y1731Vars, twVars, tnVars,
                    mpVars, mcVars, rpfVars, natVars, isoVars, wbVars, qVars,
                    ptVars, udfVars, dcVars, poVars>>
  \/ /\ part = "twamp" /\ TwNext
     /\ UNCHANGED <<part, vars, bfdVars, oamVars, y1731Vars, attrVars,
                    tnVars, mpVars, mcVars, rpfVars, natVars, isoVars,
                    wbVars, qVars, ptVars, udfVars, dcVars, poVars>>
  \/ /\ part = "tunnels" /\ TnNext
     /\ UNCHANGED <<part, vars, bfdVars, oamVars, y1731Vars, attrVars,
                    twVars, mpVars, mcVars, rpfVars, natVars, isoVars,
                    wbVars, qVars, ptVars, udfVars, dcVars, poVars>>
  \/ /\ part = "mpls" /\ MpNext
     /\ UNCHANGED <<part, vars, bfdVars, oamVars, y1731Vars, attrVars,
                    twVars, tnVars, mcVars, rpfVars, natVars, isoVars,
                    wbVars, qVars, ptVars, udfVars, dcVars, poVars>>
  \/ /\ part = "mcast" /\ McNext
     /\ UNCHANGED <<part, vars, bfdVars, oamVars, y1731Vars, attrVars,
                    twVars, tnVars, mpVars, rpfVars, natVars, isoVars,
                    wbVars, qVars, ptVars, udfVars, dcVars, poVars>>
  \/ /\ part = "rpf" /\ RpfNext
     /\ UNCHANGED <<part, vars, bfdVars, oamVars, y1731Vars, attrVars,
                    twVars, tnVars, mpVars, mcVars, natVars, isoVars, wbVars,
                    qVars, ptVars, udfVars, dcVars, poVars>>
  \/ /\ part = "nat" /\ NatNext
     /\ UNCHANGED <<part, vars, bfdVars, oamVars, y1731Vars, attrVars,
                    twVars, tnVars, mpVars, mcVars, rpfVars, isoVars, wbVars,
                    qVars, ptVars, udfVars, dcVars, poVars>>
  \/ /\ part = "isolation" /\ IsoNext
     /\ UNCHANGED <<part, vars, bfdVars, oamVars, y1731Vars, attrVars,
                    twVars, tnVars, mpVars, mcVars, rpfVars, natVars, wbVars,
                    qVars, ptVars, udfVars, dcVars, poVars>>
  \/ /\ part = "warmboot" /\ WbNext
     /\ UNCHANGED <<part, vars, bfdVars, oamVars, y1731Vars, attrVars,
                    twVars, tnVars, mpVars, mcVars, rpfVars, natVars,
                    isoVars, qVars, ptVars, udfVars, dcVars, poVars>>
  \/ /\ part = "apitable" /\ QNext
     /\ UNCHANGED <<part, vars, bfdVars, oamVars, y1731Vars, attrVars,
                    twVars, tnVars, mpVars, mcVars, rpfVars, natVars,
                    isoVars, wbVars, ptVars, udfVars, dcVars, poVars>>
  \/ /\ part = "timesync" /\ PtNext
     /\ UNCHANGED <<part, vars, bfdVars, oamVars, y1731Vars, attrVars,
                    twVars, tnVars, mpVars, mcVars, rpfVars, natVars,
                    isoVars, wbVars, qVars, udfVars, dcVars, poVars>>
  \/ /\ part = "udf" /\ UdfNext
     /\ UNCHANGED <<part, vars, bfdVars, oamVars, y1731Vars, attrVars,
                    twVars, tnVars, mpVars, mcVars, rpfVars, natVars,
                    isoVars, wbVars, qVars, ptVars, dcVars, poVars>>
  \/ /\ part = "drops" /\ DcNext
     /\ UNCHANGED <<part, vars, bfdVars, oamVars, y1731Vars, attrVars,
                    twVars, tnVars, mpVars, mcVars, rpfVars, natVars,
                    isoVars, wbVars, qVars, ptVars, udfVars, poVars>>
  \/ /\ part = "ports" /\ PoNext
     /\ UNCHANGED <<part, vars, bfdVars, oamVars, y1731Vars, attrVars,
                    twVars, tnVars, mpVars, mcVars, rpfVars, natVars,
                    isoVars, wbVars, qVars, ptVars, udfVars, dcVars>>

ServicesSpec ==
  /\ ServicesInit
  /\ [][ServicesNext]_<<part, vars, bfdVars, oamVars, y1731Vars, attrVars,
                        twVars, tnVars, mpVars, mcVars, rpfVars, natVars,
                        isoVars, wbVars, qVars, ptVars, udfVars, dcVars,
                        poVars>>

(* The OAM sessions (create_bfd_session, create_y1731_session and *)
(* create_twamp_session) hold the routes, next hops and MEPs they need, and only *)
(* those, and the events of oam_event_process reach the client under the right *)
(* name. *)
OamExact ==
  /\ BfdExact
  /\ Y1731Exact
  /\ OamToldExact
  /\ TwampExact

(* The system-wide services: attributes behave as the headers declare *)
(* (ctc_sai_set_attribute, ctc_sai_get_attribute), and a warm restart brings back *)
(* the objects, their data and their ids (ctc_sai_warmboot_sync, *)
(* ctc_sai_warmboot_reload); a client that lists objects (sai_get_object_key) is *)
(* told of those there throughout; the hashes are computed from the bytes their *)
(* groups name (_ctc_sai_udf_set_hash_mask); and debug counters count what they *)
(* are read for (ctc_sai_debug_counter_get_port_stats). *)
SystemExact ==
  /\ AttributesExact
  /\ WarmExact
  /\ QueriesExact
  /\ HashExact
  /\ DropsExact

(* What a port or a clock was set to is what the chip does, whatever was set *)
(* elsewhere since: the clocks and the time-of-day frame are those of the domain *)
(* (ctc_sai_ptp_set_info), and the sizes, the flow control and the rewriting of a *)
(* port are its own (_ctc_sai_port_set_max_frame). *)
SettingsExact ==
  /\ TimeSyncExact
  /\ PortsExact

(* Where frames are delivered: multicast replication follows the groups and the *)
(* lookups behind it (mcast_sync_output_id), and a reverse path check accepts *)
(* exactly the interfaces of its group (create_rpf_group_member), translated *)
(* addresses follow the NAT entries (_ctc_sai_create_nat_entry), isolated *)
(* ports are those of their groups (remove_group), and a label sends packets *)
(* where its record says (_ctc_sai_mpls_set_attr). *)
DeliveryExact ==
  /\ McastExact
  /\ RpfExact
  /\ NatExact
  /\ IsolationExact
  /\ MplsExact
=============================================================================
