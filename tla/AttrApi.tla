------------------------------ MODULE AttrApi ------------------------------
(* Setting and getting attributes (ctc_sai.c): a call finds the attribute in *)
(* the table of the object's type and runs its function. A behaviour watches *)
(* one attribute of one object that was created with value 0: what the code *)
(* stores for it, what the client last asked for and what it is told. *)
EXTENDS Naturals, AttrContract, AttrTables

CONSTANTS AttrVals     \* values a client sets; one of them is over a byte

ASSUME AttrAssumption == AttrVals \subseteq Nat

VARIABLES
  aWatched,   \* the object's type and the attribute
  aStored,    \* its value in the record or the hardware
  aAsked,     \* the value the client believes it has
  aAccepted,  \* a set of it has returned success
  aTold       \* the answer to the last get

attrVars == <<aWatched, aStored, aAsked, aAccepted, aTold>>

NoAnswer == [status |-> "none", value |-> 0]
Types == DOMAIN Table
Declared(t) == Contract[t].co \cup Contract[t].cs \cup Contract[t].ro

(* sai_api_initialize registers the method tables of all modules but that of *)
(* the telemetry objects, for which sai_api_query answers NOT_SUPPORTED. *)
Telemetry == {"tam", "tam_math_func", "tam_report", "tam_event_threshold",
              "tam_tel_type", "tam_transport", "tam_telemetry",
              "tam_collector", "tam_event_action", "tam_event"}
Registered == Types \ Telemetry

Watch(t, a) ==
  /\ aWatched = <<"none", "none">>
  /\ aWatched' = <<t, a>>
  /\ UNCHANGED <<aStored, aAsked, aAccepted, aTold>>

\* mutant: a call goes to the get function where there is no set function
FindAttribute_any(t, a, op) ==
  LET tab == Table[t] IN a \in tab.rw \cup tab.r \cup tab.w

(* _ctc_sai_find_attribute_fn and the check for a null pointer in *)
(* ctc_sai_set_attribute and ctc_sai_get_attribute *)
FindAttribute(t, a, op) ==
  LET tab == Table[t] IN
    a \in tab.rw \cup (IF op = "set" THEN tab.w ELSE tab.r)

Stores(t, a, v) == IF a \in SetFn[t].odd THEN v % 256 ELSE v

(* ctc_sai_set_attribute of attribute b, the watched one or another one whose *)
(* function writes it too *)
SetAttribute(b, v) ==
  LET t == aWatched[1]
      a == aWatched[2]
      f == SetFn[t]
  IN
  /\ b = a \/ <<b, a>> \in f.spills
  /\ FindAttribute(t, b, "set") /\ b \notin f.refused
  /\ aStored' = IF b \in f.idle THEN aStored ELSE Stores(t, b, v)
  /\ aAsked' = IF b = a THEN v ELSE aAsked
  /\ aAccepted' = (aAccepted \/ b = a)
  /\ aTold' = NoAnswer
  /\ UNCHANGED aWatched

(* ctc_sai_get_attribute *)
GetAttribute ==
  LET t == aWatched[1]
      a == aWatched[2]
      f == GetFn[t]
  IN
  /\ aTold' =
       IF ~FindAttribute(t, a, "get") \/ a \in f.refused
       THEN [status |-> "refused", value |-> 0]
       ELSE IF a \in f.idle THEN [status |-> "silent", value |-> 0]
       ELSE IF a \in f.odd THEN [status |-> "ok", value |-> 65535]
       ELSE [status |-> "ok", value |-> aStored]
  /\ UNCHANGED <<aWatched, aStored, aAsked, aAccepted>>

AttrInit ==
  /\ aWatched = <<"none", "none">>
  /\ aStored = 0 /\ aAsked = 0 /\ aAccepted = FALSE /\ aTold = NoAnswer

AttrNext ==
  \/ \E t \in Registered : \E a \in Declared(t) : Watch(t, a)
  \/ aWatched[1] # "none" /\ \E v \in AttrVals : SetAttribute(aWatched[2], v)
  \/ /\ aWatched[1] # "none"
     /\ \E b \in {p[1] : p \in SetFn[aWatched[1]].spills}, v \in AttrVals :
          b # aWatched[2] /\ SetAttribute(b, v)
  \/ aWatched[1] # "none" /\ GetAttribute

(* Where the code departs from the contract: *)
(* attributes a client may not set and yet can, *)
LooseAttrs ==
  [acl_entry |-> {"FIELD_MPLS_LABEL2_BOS"},
   bfd_session |-> {"HW_LOOKUP_VALID", "LOCAL_DISCRIMINATOR",
                    "REMOTE_DISCRIMINATOR", "UDP_SRC_PORT", "MULTIHOP",
                    "BFD_ENCAPSULATION_TYPE", "OFFLOAD_TYPE",
                    "MPLS_ENCAP_BFD_TYPE", "ACH_HEADER_VALID",
                    "TP_ROUTER_INTERFACE_ID"},
   counter |-> {"TYPE"},
   ptp_domain |-> {"PTP_ENABLE_BASED_TYPE", "DEVICE_TYPE"},
   router_interface |-> {"VIRTUAL_ROUTER_ID", "TYPE", "PORT_ID", "VLAN_ID",
                         "OUTER_VLAN_ID", "INNER_VLAN_ID"},
   switch |-> {"MAX_TWAMP_SESSION"}]

(* attributes that do not read as they were set or created, *)
BentAttrs ==
  [bfd_session |-> {"HW_LOOKUP_VALID", "LOCAL_DISCRIMINATOR",
                    "REMOTE_DISCRIMINATOR", "UDP_SRC_PORT", "MULTIHOP",
                    "BFD_ENCAPSULATION_TYPE", "OFFLOAD_TYPE", "IPHDR_VERSION",
                    "MPLS_ENCAP_BFD_TYPE", "ACH_HEADER_VALID",
                    "TP_ROUTER_INTERFACE_ID", "NEXT_HOP_ID", "MPLS_TTL",
                    "MIN_TX", "MIN_RX"},
   next_hop |-> {"MPLS_ENCAP_TUNNEL_ID", "MPLS_DECAP_TUNNEL_ID",
                 "SEGMENTROUTE_SIDLIST_ID", "SEGMENTROUTE_ENDPOINT_TYPE",
                 "SEGMENTROUTE_ENDPOINT_POP_TYPE"},
   ptp_domain |-> {"ADJUEST_CLOCK_OFFSET"},
   router_interface |-> {"TYPE", "PORT_ID", "VLAN_ID", "OUTER_VLAN_ID",
                         "BRIDGE_ID", "IS_VIRTUAL"},
   switch |-> {"ECMP_DEFAULT_HASH_SEED", "LAG_DEFAULT_HASH_SEED",
               "ECMP_DEFAULT_SYMMETRIC_HASH", "LAG_DEFAULT_SYMMETRIC_HASH"},
   tunnel |-> {"TERM_TABLE_ENTRY_LIST"},
   y1731_session |-> {"CCM_PERIOD", "LM_ENABLE"}]

(* and attributes that can be set and not read. *)
MuteAttrs ==
  [inseg_entry |-> {"TRAP_PRIORITY"}, port |-> {"INGRESS_ACL"},
   router_interface |-> {"INNER_VLAN_ID"},
   vlan |-> {"INGRESS_ACL", "EGRESS_ACL", "PTP_DOMAIN_ID"}]

In(lists) == aWatched[1] \in DOMAIN lists /\ aWatched[2] \in lists[aWatched[1]]

(* The attribute contract of the headers, kept by ctc_sai_set_attribute and *)
(* ctc_sai_get_attribute with the tables and functions of all types: only *)
(* what is declared CREATE_AND_SET can be set, an answer is what the client *)
(* last set however it has set other attributes, and what was set can be *)
(* read; the exceptions are the ones listed. *)
AttributesExact ==
  aWatched[1] # "none" =>
    /\ aAccepted => aWatched[2] \in Contract[aWatched[1]].cs \/ In(LooseAttrs)
    /\ aTold.status = "silent" => In(BentAttrs)
    /\ aTold.status = "ok" => aTold.value = aAsked \/ In(BentAttrs)
    /\ aAccepted /\ aTold.status = "refused" => In(MuteAttrs)
=============================================================================
