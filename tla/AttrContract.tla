---------------------------- MODULE AttrContract ----------------------------
(* The contract of the SAI headers (src/inc): which attributes an object type *)
(* has and, by their @flags, whether a client may give them a value only when *)
(* it creates the object (co), also later (cs), or never (ro). A name is the *)
(* enumerator's without its prefix; the types are those for which the code *)
(* has a table (AttrTables). Long enumerations are split. *)

Joined(parts) == [k \in {"co", "cs", "ro"} |-> UNION {p[k] : p \in parts}]

AclTableGroupContract ==
  [co |-> {"ACL_STAGE", "ACL_BIND_POINT_TYPE_LIST", "TYPE"}, cs |-> {},
   ro |-> {"MEMBER_LIST"}]

AclTableGroupMemberContract ==
  [co |-> {"ACL_TABLE_GROUP_ID", "ACL_TABLE_ID", "PRIORITY"}, cs |-> {},
   ro |-> {}]

AclTableContract1 ==
  [co |-> {"ACL_STAGE", "ACL_BIND_POINT_TYPE_LIST", "SIZE",
           "ACL_ACTION_TYPE_LIST", "FIELD_SRC_IPV6", "FIELD_DST_IPV6",
           "FIELD_INNER_SRC_IPV6", "FIELD_INNER_DST_IPV6", "FIELD_SRC_MAC",
           "FIELD_DST_MAC", "FIELD_INNER_SRC_MAC"}, cs |-> {}, ro |-> {}]

AclTableContract2 ==
  [co |-> {"FIELD_INNER_DST_MAC", "FIELD_SRC_IP", "FIELD_DST_IP",
           "FIELD_INNER_SRC_IP", "FIELD_INNER_DST_IP", "FIELD_IN_PORTS",
           "FIELD_OUT_PORTS", "FIELD_IN_PORT", "FIELD_OUT_PORT",
           "FIELD_SRC_PORT", "FIELD_OUTER_VLAN_ID", "FIELD_OUTER_VLAN_PRI",
           "FIELD_OUTER_VLAN_CFI", "FIELD_INNER_VLAN_ID",
           "FIELD_INNER_VLAN_PRI", "FIELD_INNER_VLAN_CFI"}, cs |-> {},
   ro |-> {}]

AclTableContract3 ==
  [co |-> {"FIELD_L4_SRC_PORT", "FIELD_L4_DST_PORT", "FIELD_INNER_L4_SRC_PORT",
           "FIELD_INNER_L4_DST_PORT", "FIELD_ETHER_TYPE",
           "FIELD_INNER_ETHER_TYPE", "FIELD_IP_PROTOCOL",
           "FIELD_INNER_IP_PROTOCOL", "FIELD_IP_IDENTIFICATION", "FIELD_DSCP",
           "FIELD_ECN", "FIELD_TTL", "FIELD_TOS", "FIELD_IP_FLAGS",
           "FIELD_TCP_FLAGS", "FIELD_ACL_IP_TYPE"}, cs |-> {}, ro |-> {}]

AclTableContract4 ==
  [co |-> {"FIELD_ACL_IP_FRAG", "FIELD_IPV6_FLOW_LABEL", "FIELD_TC",
           "FIELD_ICMP_TYPE", "FIELD_ICMP_CODE", "FIELD_ICMPV6_TYPE",
           "FIELD_ICMPV6_CODE", "FIELD_PACKET_VLAN", "FIELD_TUNNEL_VNI",
           "FIELD_HAS_VLAN_TAG", "FIELD_MACSEC_SCI", "FIELD_MPLS_LABEL0_LABEL",
           "FIELD_MPLS_LABEL0_TTL", "FIELD_MPLS_LABEL0_EXP",
           "FIELD_MPLS_LABEL0_BOS", "FIELD_MPLS_LABEL1_LABEL"}, cs |-> {},
   ro |-> {}]

AclTableContract5 ==
  [co |-> {"FIELD_MPLS_LABEL1_TTL", "FIELD_MPLS_LABEL1_EXP",
           "FIELD_MPLS_LABEL1_BOS", "FIELD_MPLS_LABEL2_LABEL",
           "FIELD_MPLS_LABEL2_TTL", "FIELD_MPLS_LABEL2_EXP",
           "FIELD_MPLS_LABEL2_BOS", "FIELD_MPLS_LABEL3_LABEL",
           "FIELD_MPLS_LABEL3_TTL", "FIELD_MPLS_LABEL3_EXP",
           "FIELD_MPLS_LABEL3_BOS", "FIELD_MPLS_LABEL4_LABEL",
           "FIELD_MPLS_LABEL4_TTL", "FIELD_MPLS_LABEL4_EXP",
           "FIELD_MPLS_LABEL4_BOS", "FIELD_FDB_DST_USER_META"}, cs |-> {},
   ro |-> {}]

AclTableContract6 ==
  [co |-> {"FIELD_ROUTE_DST_USER_META", "FIELD_NEIGHBOR_DST_USER_META",
           "FIELD_PORT_USER_META", "FIELD_VLAN_USER_META",
           "FIELD_ACL_USER_META", "FIELD_FDB_NPU_META_DST_HIT",
           "FIELD_NEIGHBOR_NPU_META_DST_HIT", "FIELD_ROUTE_NPU_META_DST_HIT",
           "FIELD_BTH_OPCODE", "FIELD_AETH_SYNDROME",
           "USER_DEFINED_FIELD_GROUP_MIN", "USER_DEFINED_FIELD_GROUP_MAX",
           "FIELD_ACL_RANGE_TYPE", "FIELD_IPV6_NEXT_HEADER",
           "FIELD_TAM_INT_TYPE"}, cs |-> {}, ro |-> {}]

AclTableContract7 ==
  [co |-> {}, cs |-> {},
   ro |-> {"ENTRY_LIST", "AVAILABLE_ACL_ENTRY", "AVAILABLE_ACL_COUNTER"}]

AclTableContract ==
  Joined({AclTableContract1, AclTableContract2, AclTableContract3,
          AclTableContract4, AclTableContract5, AclTableContract6,
          AclTableContract7})

AclEntryContract1 ==
  [co |-> {"TABLE_ID"},
   cs |-> {"PRIORITY", "ADMIN_STATE", "FIELD_SRC_IPV6", "FIELD_DST_IPV6",
           "FIELD_INNER_SRC_IPV6", "FIELD_INNER_DST_IPV6", "FIELD_SRC_MAC",
           "FIELD_DST_MAC", "FIELD_SRC_IP", "FIELD_DST_IP",
           "FIELD_INNER_SRC_IP", "FIELD_INNER_DST_IP"}, ro |-> {}]

AclEntryContract2 ==
  [co |-> {},
   cs |-> {"FIELD_IN_PORTS", "FIELD_OUT_PORTS", "FIELD_IN_PORT",
           "FIELD_OUT_PORT", "FIELD_SRC_PORT", "FIELD_OUTER_VLAN_ID",
           "FIELD_OUTER_VLAN_PRI", "FIELD_OUTER_VLAN_CFI",
           "FIELD_INNER_VLAN_ID", "FIELD_INNER_VLAN_PRI",
           "FIELD_INNER_VLAN_CFI", "FIELD_L4_SRC_PORT", "FIELD_L4_DST_PORT",
           "FIELD_INNER_L4_SRC_PORT", "FIELD_INNER_L4_DST_PORT"}, ro |-> {}]

AclEntryContract3 ==
  [co |-> {},
   cs |-> {"FIELD_ETHER_TYPE", "FIELD_INNER_ETHER_TYPE", "FIELD_IP_PROTOCOL",
           "FIELD_INNER_IP_PROTOCOL", "FIELD_IP_IDENTIFICATION", "FIELD_DSCP",
           "FIELD_ECN", "FIELD_TTL", "FIELD_TOS", "FIELD_IP_FLAGS",
           "FIELD_TCP_FLAGS", "FIELD_ACL_IP_TYPE", "FIELD_ACL_IP_FRAG",
           "FIELD_IPV6_FLOW_LABEL", "FIELD_TC", "FIELD_ICMP_TYPE"}, ro |-> {}]

AclEntryContract4 ==
  [co |-> {},
   cs |-> {"FIELD_ICMP_CODE", "FIELD_ICMPV6_TYPE", "FIELD_ICMPV6_CODE",
           "FIELD_PACKET_VLAN", "FIELD_TUNNEL_VNI", "FIELD_HAS_VLAN_TAG",
           "FIELD_MACSEC_SCI", "FIELD_MPLS_LABEL0_LABEL",
           "FIELD_MPLS_LABEL0_TTL", "FIELD_MPLS_LABEL0_EXP",
           "FIELD_MPLS_LABEL0_BOS", "FIELD_MPLS_LABEL1_LABEL",
           "FIELD_MPLS_LABEL1_TTL", "FIELD_MPLS_LABEL1_EXP",
           "FIELD_MPLS_LABEL1_BOS", "FIELD_MPLS_LABEL2_LABEL"}, ro |-> {}]

AclEntryContract5 ==
  [co |-> {"FIELD_MPLS_LABEL2_BOS"},
   cs |-> {"FIELD_MPLS_LABEL2_TTL", "FIELD_MPLS_LABEL2_EXP",
           "FIELD_MPLS_LABEL3_LABEL", "FIELD_MPLS_LABEL3_TTL",
           "FIELD_MPLS_LABEL3_EXP", "FIELD_MPLS_LABEL3_BOS",
           "FIELD_MPLS_LABEL4_LABEL", "FIELD_MPLS_LABEL4_TTL",
           "FIELD_MPLS_LABEL4_EXP", "FIELD_MPLS_LABEL4_BOS",
           "FIELD_FDB_DST_USER_META", "FIELD_ROUTE_DST_USER_META",
           "FIELD_NEIGHBOR_DST_USER_META", "FIELD_PORT_USER_META"}, ro |-> {}]

AclEntryContract6 ==
  [co |-> {},
   cs |-> {"FIELD_VLAN_USER_META", "FIELD_ACL_USER_META",
           "FIELD_FDB_NPU_META_DST_HIT", "FIELD_NEIGHBOR_NPU_META_DST_HIT",
           "FIELD_ROUTE_NPU_META_DST_HIT", "FIELD_BTH_OPCODE",
           "FIELD_AETH_SYNDROME", "USER_DEFINED_FIELD_GROUP_MIN",
           "USER_DEFINED_FIELD_GROUP_MAX", "FIELD_ACL_RANGE_TYPE",
           "FIELD_IPV6_NEXT_HEADER", "FIELD_TAM_INT_TYPE"}, ro |-> {}]

AclEntryContract7 ==
  [co |-> {},
   cs |-> {"ACTION_REDIRECT", "ACTION_ENDPOINT_IP", "ACTION_REDIRECT_LIST",
           "ACTION_PACKET_ACTION", "ACTION_FLOOD", "ACTION_COUNTER",
           "ACTION_MIRROR_INGRESS", "ACTION_MIRROR_EGRESS",
           "ACTION_SET_POLICER", "ACTION_DECREMENT_TTL", "ACTION_SET_TC",
           "ACTION_SET_PACKET_COLOR"}, ro |-> {}]

AclEntryContract8 ==
  [co |-> {},
   cs |-> {"ACTION_SET_INNER_VLAN_ID", "ACTION_SET_INNER_VLAN_PRI",
           "ACTION_SET_OUTER_VLAN_ID", "ACTION_SET_OUTER_VLAN_PRI",
           "ACTION_SET_SRC_MAC", "ACTION_SET_DST_MAC", "ACTION_SET_SRC_IP",
           "ACTION_SET_DST_IP", "ACTION_SET_SRC_IPV6", "ACTION_SET_DST_IPV6",
           "ACTION_SET_DSCP", "ACTION_SET_ECN", "ACTION_SET_L4_SRC_PORT",
           "ACTION_SET_L4_DST_PORT", "ACTION_INGRESS_SAMPLEPACKET_ENABLE",
           "ACTION_EGRESS_SAMPLEPACKET_ENABLE"}, ro |-> {}]

AclEntryContract9 ==
  [co |-> {},
   cs |-> {"ACTION_SET_ACL_META_DATA", "ACTION_EGRESS_BLOCK_PORT_LIST",
           "ACTION_SET_USER_TRAP_ID", "ACTION_SET_DO_NOT_LEARN",
           "ACTION_ACL_DTEL_FLOW_OP", "ACTION_DTEL_INT_SESSION",
           "ACTION_DTEL_DROP_REPORT_ENABLE",
           "ACTION_DTEL_TAIL_DROP_REPORT_ENABLE",
           "ACTION_DTEL_FLOW_SAMPLE_PERCENT", "ACTION_DTEL_REPORT_ALL_PACKETS",
           "ACTION_NO_NAT", "ACTION_INT_INSERT", "ACTION_INT_DELETE"},
   ro |-> {}]

AclEntryContract10 ==
  [co |-> {},
   cs |-> {"ACTION_INT_REPORT_FLOW", "ACTION_INT_REPORT_DROPS",
           "ACTION_INT_REPORT_TAIL_DROPS", "ACTION_TAM_INT_OBJECT",
           "ACTION_SET_ISOLATION_GROUP", "ACTION_MACSEC_FLOW"}, ro |-> {}]

AclEntryContract ==
  Joined({AclEntryContract1, AclEntryContract2, AclEntryContract3,
          AclEntryContract4, AclEntryContract5, AclEntryContract6,
          AclEntryContract7, AclEntryContract8, AclEntryContract9,
          AclEntryContract10})

AclRangeContract ==
  [co |-> {"TYPE", "LIMIT"}, cs |-> {}, ro |-> {}]

AclCounterContract ==
  [co |-> {"TABLE_ID", "ENABLE_PACKET_COUNT", "ENABLE_BYTE_COUNT"},
   cs |-> {"PACKETS", "BYTES"}, ro |-> {}]

BfdSessionContract1 ==
  [co |-> {"TYPE", "HW_LOOKUP_VALID", "LOCAL_DISCRIMINATOR",
           "REMOTE_DISCRIMINATOR", "UDP_SRC_PORT", "VLAN_ID",
           "VLAN_HEADER_VALID", "BFD_ENCAPSULATION_TYPE"},
   cs |-> {"VIRTUAL_ROUTER", "PORT", "TC", "VLAN_TPID", "VLAN_PRI", "VLAN_CFI",
           "IPHDR_VERSION"}, ro |-> {}]

BfdSessionContract2 ==
  [co |-> {"SRC_IP_ADDRESS", "DST_IP_ADDRESS", "TUNNEL_SRC_IP_ADDRESS",
           "TUNNEL_DST_IP_ADDRESS", "MULTIHOP", "CBIT"},
   cs |-> {"TOS", "TTL", "TUNNEL_TOS", "TUNNEL_TTL", "SRC_MAC_ADDRESS",
           "DST_MAC_ADDRESS", "ECHO_ENABLE", "MIN_TX", "MIN_RX", "MULTIPLIER"},
   ro |-> {"REMOTE_MIN_TX"}]

BfdSessionContract3 ==
  [co |-> {"OFFLOAD_TYPE", "MPLS_ENCAP_BFD_TYPE", "ACH_HEADER_VALID",
           "ACH_CHANNEL_TYPE", "MPLS_IN_LABEL", "TP_CV_SRC_MEP_ID",
           "TP_ROUTER_INTERFACE_ID"},
   cs |-> {"MPLS_TTL", "MPLS_EXP", "TP_CV_ENABLE"},
   ro |-> {"REMOTE_MIN_RX", "STATE", "NEGOTIATED_TX", "NEGOTIATED_RX",
           "LOCAL_DIAG", "REMOTE_DIAG", "REMOTE_MULTIPLIER"}]

BfdSessionContract4 ==
  [co |-> {"TP_WITHOUT_GAL"},
   cs |-> {"NEXT_HOP_ID"}, ro |-> {}]

BfdSessionContract ==
  Joined({BfdSessionContract1, BfdSessionContract2, BfdSessionContract3,
          BfdSessionContract4})

BridgePortContract1 ==
  [co |-> {"TYPE", "PORT_ID", "VLAN_ID", "RIF_ID", "TUNNEL_ID"},
   cs |-> {"TAGGING_MODE", "BRIDGE_ID", "FDB_LEARNING_MODE",
           "MAX_LEARNED_ADDRESSES",
           "FDB_LEARNING_LIMIT_VIOLATION_PACKET_ACTION", "ADMIN_STATE",
           "INGRESS_FILTERING", "EGRESS_FILTERING"}, ro |-> {}]

BridgePortContract2 ==
  [co |-> {},
   cs |-> {"ISOLATION_GROUP", "CROSS_CONNECT_BRIDGE_PORT",
           "SUB_TUNNEL_PORT_OAM_ENABLE"}, ro |-> {}]

BridgePortContract == Joined({BridgePortContract1, BridgePortContract2})

BridgeContract ==
  [co |-> {"TYPE"},
   cs |-> {"MAX_LEARNED_ADDRESSES", "LEARN_DISABLE",
           "UNKNOWN_UNICAST_FLOOD_CONTROL_TYPE", "UNKNOWN_UNICAST_FLOOD_GROUP",
           "UNKNOWN_MULTICAST_FLOOD_CONTROL_TYPE",
           "UNKNOWN_MULTICAST_FLOOD_GROUP", "BROADCAST_FLOOD_CONTROL_TYPE",
           "BROADCAST_FLOOD_GROUP"},
   ro |-> {"PORT_LIST"}]

BufferProfileContract ==
  [co |-> {"POOL_ID", "THRESHOLD_MODE"},
   cs |-> {"RESERVED_BUFFER_SIZE", "SHARED_DYNAMIC_TH", "SHARED_STATIC_TH",
           "XOFF_TH", "XON_TH", "XON_OFFSET_TH"}, ro |-> {}]

IngressPriorityGroupContract ==
  [co |-> {"PORT", "INDEX"},
   cs |-> {"BUFFER_PROFILE", "TAM"}, ro |-> {}]

CounterContract ==
  [co |-> {"TYPE"}, cs |-> {}, ro |-> {}]

DebugCounterContract ==
  [co |-> {"TYPE", "BIND_METHOD"},
   cs |-> {"IN_DROP_REASON_LIST", "OUT_DROP_REASON_LIST"},
   ro |-> {"INDEX"}]

EsContract ==
  [co |-> {"ESI_LABEL"}, cs |-> {}, ro |-> {}]

FdbEntryContract ==
  [co |-> {},
   cs |-> {"TYPE", "PACKET_ACTION", "USER_TRAP_ID", "BRIDGE_PORT_ID",
           "META_DATA", "ENDPOINT_IP", "COUNTER_ID"}, ro |-> {}]

HostifContract ==
  [co |-> {"TYPE", "OBJ_ID", "NAME", "GENETLINK_MCGRP_NAME"},
   cs |-> {"OPER_STATUS", "QUEUE", "VLAN_TAG"}, ro |-> {}]

HostifTableEntryContract ==
  [co |-> {"TYPE", "OBJ_ID", "TRAP_ID", "CHANNEL_TYPE", "HOST_IF"}, cs |-> {},
   ro |-> {}]

HostifTrapGroupContract ==
  [co |-> {},
   cs |-> {"ADMIN_STATE", "QUEUE", "POLICER"}, ro |-> {}]

HostifTrapContract ==
  [co |-> {"TRAP_TYPE"},
   cs |-> {"PACKET_ACTION", "TRAP_PRIORITY", "EXCLUDE_PORT_LIST", "TRAP_GROUP",
           "MIRROR_SESSION", "COUNTER_ID"}, ro |-> {}]

HostifUserDefinedTrapContract ==
  [co |-> {"TYPE"},
   cs |-> {"TRAP_PRIORITY", "TRAP_GROUP"}, ro |-> {}]

IsolationGroupContract ==
  [co |-> {"TYPE"}, cs |-> {},
   ro |-> {"ISOLATION_MEMBER_LIST"}]

IsolationGroupMemberContract ==
  [co |-> {"ISOLATION_GROUP_ID", "ISOLATION_OBJECT"}, cs |-> {}, ro |-> {}]

LagContract ==
  [co |-> {"MODE"},
   cs |-> {"INGRESS_ACL", "EGRESS_ACL", "PORT_VLAN_ID",
           "DEFAULT_VLAN_PRIORITY", "DROP_UNTAGGED", "DROP_TAGGED"},
   ro |-> {"PORT_LIST"}]

LagMemberContract ==
  [co |-> {"LAG_ID", "PORT_ID"},
   cs |-> {"EGRESS_DISABLE", "INGRESS_DISABLE"}, ro |-> {}]

HashContract ==
  [co |-> {},
   cs |-> {"NATIVE_HASH_FIELD_LIST", "UDF_GROUP_LIST"}, ro |-> {}]

L2mcGroupContract ==
  [co |-> {}, cs |-> {},
   ro |-> {"L2MC_OUTPUT_COUNT", "L2MC_MEMBER_LIST"}]

L2mcGroupMemberContract ==
  [co |-> {"L2MC_GROUP_ID", "L2MC_OUTPUT_ID", "L2MC_ENDPOINT_IP"}, cs |-> {},
   ro |-> {}]

L2mcEntryContract ==
  [co |-> {},
   cs |-> {"PACKET_ACTION", "OUTPUT_GROUP_ID"}, ro |-> {}]

McastFdbEntryContract ==
  [co |-> {},
   cs |-> {"GROUP_ID", "PACKET_ACTION", "META_DATA"}, ro |-> {}]

IpmcGroupContract ==
  [co |-> {}, cs |-> {},
   ro |-> {"IPMC_OUTPUT_COUNT", "IPMC_MEMBER_LIST"}]

IpmcGroupMemberContract ==
  [co |-> {"IPMC_GROUP_ID", "IPMC_OUTPUT_ID"}, cs |-> {}, ro |-> {}]

RpfGroupContract ==
  [co |-> {}, cs |-> {},
   ro |-> {"RPF_INTERFACE_COUNT", "RPF_MEMBER_LIST"}]

RpfGroupMemberContract ==
  [co |-> {"RPF_GROUP_ID", "RPF_INTERFACE_ID"}, cs |-> {}, ro |-> {}]

IpmcEntryContract ==
  [co |-> {},
   cs |-> {"PACKET_ACTION", "OUTPUT_GROUP_ID", "RPF_GROUP_ID"}, ro |-> {}]

MirrorSessionContract1 ==
  [co |-> {"TYPE", "ERSPAN_ENCAPSULATION_TYPE"},
   cs |-> {"MONITOR_PORT", "TRUNCATE_SIZE", "SAMPLE_RATE", "CONGESTION_MODE",
           "TC", "VLAN_TPID", "VLAN_ID", "VLAN_PRI", "VLAN_CFI",
           "VLAN_HEADER_VALID", "IPHDR_VERSION"}, ro |-> {}]

MirrorSessionContract2 ==
  [co |-> {"MONITOR_PORTLIST_VALID"},
   cs |-> {"TOS", "TTL", "SRC_IP_ADDRESS", "DST_IP_ADDRESS", "SRC_MAC_ADDRESS",
           "DST_MAC_ADDRESS", "GRE_PROTOCOL_TYPE", "MONITOR_PORTLIST",
           "POLICER"}, ro |-> {}]

MirrorSessionContract == Joined({MirrorSessionContract1, MirrorSessionContract2})

InsegEntryContract ==
  [co |-> {},
   cs |-> {"NUM_OF_POP", "PACKET_ACTION", "TRAP_PRIORITY", "NEXT_HOP_ID",
           "TUNNEL_ID"}, ro |-> {}]

NatEntryContract1 ==
  [co |-> {},
   cs |-> {"NAT_TYPE", "SRC_IP", "SRC_IP_MASK", "VR_ID", "DST_IP",
           "DST_IP_MASK", "L4_SRC_PORT", "L4_DST_PORT", "ENABLE_PACKET_COUNT",
           "PACKET_COUNT", "ENABLE_BYTE_COUNT", "BYTE_COUNT", "HIT_BIT_COR"},
   ro |-> {}]

NatEntryContract2 ==
  [co |-> {},
   cs |-> {"HIT_BIT", "CUSTOM_DNAT_REROUTE"}, ro |-> {}]

NatEntryContract == Joined({NatEntryContract1, NatEntryContract2})

NeighborEntryContract ==
  [co |-> {},
   cs |-> {"DST_MAC_ADDRESS", "PACKET_ACTION", "USER_TRAP_ID", "NO_HOST_ROUTE",
           "META_DATA", "COUNTER_ID"}, ro |-> {}]

NextHopContract ==
  [co |-> {"TYPE", "IP", "ROUTER_INTERFACE_ID", "TUNNEL_ID",
           "SEGMENTROUTE_SIDLIST_ID", "LABELSTACK", "MPLS_ENCAP_TUNNEL_ID",
           "MPLS_DECAP_TUNNEL_ID"},
   cs |-> {"TUNNEL_VNI", "TUNNEL_MAC", "SEGMENTROUTE_ENDPOINT_TYPE",
           "SEGMENTROUTE_ENDPOINT_POP_TYPE", "COUNTER_ID",
           "NEXT_LEVEL_NEXT_HOP_ID"}, ro |-> {}]

NextHopGroupContract ==
  [co |-> {"TYPE"},
   cs |-> {"SET_SWITCHOVER", "COUNTER_ID"},
   ro |-> {"NEXT_HOP_COUNT", "NEXT_HOP_MEMBER_LIST"}]

NextHopGroupMemberContract ==
  [co |-> {"NEXT_HOP_GROUP_ID", "NEXT_HOP_ID", "CONFIGURED_ROLE"},
   cs |-> {"WEIGHT", "MONITORED_OBJECT"},
   ro |-> {"OBSERVED_ROLE"}]

NpmSessionContract ==
  [co |-> {"TYPE", "UDP_SRC_PORT", "UDP_DST_PORT", "SRC_IP", "DST_IP",
           "NPM_ENCAPSULATION_TYPE", "INWARD_VALID", "TX_PKT_PERIOD",
           "TX_RATE", "TX_PKT_CNT", "TX_PKT_DURATION", "MODE"},
   cs |-> {"PORT", "SESSION_ROLE", "TC", "VPN_VIRTUAL_ROUTE",
           "SESSION_ENABLE_TRANSMIT"}, ro |-> {}]

PolicerContract ==
  [co |-> {"METER_TYPE", "MODE", "COLOR_SOURCE"},
   cs |-> {"CBS", "CIR", "PBS", "PIR", "GREEN_PACKET_ACTION",
           "YELLOW_PACKET_ACTION", "RED_PACKET_ACTION",
           "ENABLE_COUNTER_PACKET_ACTION_LIST"}, ro |-> {}]

PortContract1 ==
  [co |-> {}, cs |-> {},
   ro |-> {"TYPE", "OPER_STATUS", "SUPPORTED_BREAKOUT_MODE_TYPE",
           "CURRENT_BREAKOUT_MODE_TYPE", "QOS_NUMBER_OF_QUEUES",
           "QOS_QUEUE_LIST", "QOS_NUMBER_OF_SCHEDULER_GROUPS",
           "QOS_SCHEDULER_GROUP_LIST", "SUPPORTED_SPEED", "SUPPORTED_FEC_MODE",
           "SUPPORTED_HALF_DUPLEX_SPEED", "SUPPORTED_AUTO_NEG_MODE",
           "SUPPORTED_FLOW_CONTROL_MODE", "SUPPORTED_ASYMMETRIC_PAUSE_MODE",
           "SUPPORTED_MEDIA_TYPE", "REMOTE_ADVERTISED_SPEED",
           "REMOTE_ADVERTISED_FEC_MODE"}]

PortContract2 ==
  [co |-> {"HW_LANE_LIST", "FULL_DUPLEX_MODE"},
   cs |-> {"SPEED", "AUTO_NEG_MODE", "ADMIN_STATE", "MEDIA_TYPE",
           "ADVERTISED_SPEED"},
   ro |-> {"REMOTE_ADVERTISED_HALF_DUPLEX_SPEED",
           "REMOTE_ADVERTISED_AUTO_NEG_MODE",
           "REMOTE_ADVERTISED_FLOW_CONTROL_MODE",
           "REMOTE_ADVERTISED_ASYMMETRIC_PAUSE_MODE",
           "REMOTE_ADVERTISED_MEDIA_TYPE", "REMOTE_ADVERTISED_OUI_CODE",
           "NUMBER_OF_INGRESS_PRIORITY_GROUPS", "INGRESS_PRIORITY_GROUP_LIST",
           "EYE_VALUES", "OPER_SPEED"}]

PortContract3 ==
  [co |-> {},
   cs |-> {"ADVERTISED_FEC_MODE", "ADVERTISED_HALF_DUPLEX_SPEED",
           "ADVERTISED_AUTO_NEG_MODE", "ADVERTISED_FLOW_CONTROL_MODE",
           "ADVERTISED_ASYMMETRIC_PAUSE_MODE", "ADVERTISED_MEDIA_TYPE",
           "ADVERTISED_OUI_CODE", "PORT_VLAN_ID", "DEFAULT_VLAN_PRIORITY",
           "DROP_UNTAGGED", "DROP_TAGGED", "INTERNAL_LOOPBACK_MODE",
           "FEC_MODE", "UPDATE_DSCP", "MTU"}, ro |-> {}]

PortContract4 ==
  [co |-> {},
   cs |-> {"FLOOD_STORM_CONTROL_POLICER_ID",
           "BROADCAST_STORM_CONTROL_POLICER_ID",
           "MULTICAST_STORM_CONTROL_POLICER_ID", "GLOBAL_FLOW_CONTROL_MODE",
           "INGRESS_ACL", "EGRESS_ACL", "INGRESS_MIRROR_SESSION",
           "EGRESS_MIRROR_SESSION", "INGRESS_SAMPLEPACKET_ENABLE",
           "EGRESS_SAMPLEPACKET_ENABLE", "POLICER_ID"}, ro |-> {}]

PortContract5 ==
  [co |-> {},
   cs |-> {"QOS_DEFAULT_TC", "QOS_DOT1P_TO_TC_MAP", "QOS_DOT1P_TO_COLOR_MAP",
           "QOS_DSCP_TO_TC_MAP", "QOS_DSCP_TO_COLOR_MAP",
           "QOS_TC_TO_QUEUE_MAP", "QOS_TC_AND_COLOR_TO_DOT1P_MAP",
           "QOS_TC_AND_COLOR_TO_DSCP_MAP", "QOS_TC_TO_PRIORITY_GROUP_MAP",
           "QOS_PFC_PRIORITY_TO_PRIORITY_GROUP_MAP"}, ro |-> {}]

PortContract6 ==
  [co |-> {},
   cs |-> {"QOS_PFC_PRIORITY_TO_QUEUE_MAP", "QOS_SCHEDULER_PROFILE_ID",
           "QOS_INGRESS_BUFFER_PROFILE_LIST", "QOS_EGRESS_BUFFER_PROFILE_LIST",
           "PRIORITY_FLOW_CONTROL_MODE", "PRIORITY_FLOW_CONTROL",
           "PRIORITY_FLOW_CONTROL_RX", "PRIORITY_FLOW_CONTROL_TX", "META_DATA",
           "EGRESS_BLOCK_PORT_LIST", "HW_PROFILE_ID"}, ro |-> {}]

PortContract7 ==
  [co |-> {},
   cs |-> {"EEE_ENABLE", "EEE_IDLE_TIME", "EEE_WAKE_TIME", "ISOLATION_GROUP",
           "PKT_TX_ENABLE", "TAM_OBJECT", "SERDES_PREEMPHASIS",
           "SERDES_IDRIVER", "SERDES_IPREDRIVER", "LINK_TRAINING_ENABLE",
           "PTP_MODE"},
   ro |-> {"PORT_POOL_LIST"}]

PortContract8 ==
  [co |-> {},
   cs |-> {"PTP_INGRESS_ASYMMETRY_DELAY", "PTP_EGRESS_ASYMMETRY_DELAY",
           "PTP_PATH_DELAY", "PTP_DOMAIN_ID", "ES", "Y1731_ENABLE",
           "Y1731_LM_ENABLE", "Y1731_MIP_ENABLE"},
   ro |-> {"PORT_SERDES_ID"}]

PortContract ==
  Joined({PortContract1, PortContract2, PortContract3, PortContract4,
          PortContract5, PortContract6, PortContract7, PortContract8})

PtpDomainContract ==
  [co |-> {"PTP_ENABLE_BASED_TYPE", "DEVICE_TYPE"},
   cs |-> {"ADJUEST_CLOCK_OFFSET", "TOD_INTF_FORMAT_TYPE",
           "TOD_INTF_LEAP_SECOND", "TOD_INTF_PPS_STATUS",
           "TOD_INTF_PPS_ACCURACY", "TOD_INTF_MODE", "TOD_INTF_ENABLE"},
   ro |-> {"TAI_TIMESTAMP", "CAPTURED_TIMESTAMP"}]

QosMapContract ==
  [co |-> {"TYPE"},
   cs |-> {"MAP_TO_VALUE_LIST"}, ro |-> {}]

QueueContract ==
  [co |-> {"TYPE", "PORT", "INDEX"},
   cs |-> {"PARENT_SCHEDULER_NODE", "WRED_PROFILE_ID", "BUFFER_PROFILE_ID",
           "SCHEDULER_PROFILE_ID", "ENABLE_PFC_DLDR", "PFC_DLR_INIT",
           "TAM_OBJECT"},
   ro |-> {"PAUSE_STATUS"}]

RouteEntryContract ==
  [co |-> {},
   cs |-> {"PACKET_ACTION", "USER_TRAP_ID", "NEXT_HOP_ID", "META_DATA",
           "COUNTER_ID"},
   ro |-> {"IP_ADDR_FAMILY"}]

RouterInterfaceContract1 ==
  [co |-> {"VIRTUAL_ROUTER_ID", "TYPE", "PORT_ID", "VLAN_ID", "OUTER_VLAN_ID",
           "INNER_VLAN_ID", "BRIDGE_ID"},
   cs |-> {"SRC_MAC_ADDRESS", "ADMIN_V4_STATE", "ADMIN_V6_STATE", "MTU",
           "INGRESS_ACL", "EGRESS_ACL"}, ro |-> {}]

RouterInterfaceContract2 ==
  [co |-> {"IS_VIRTUAL"},
   cs |-> {"NEIGHBOR_MISS_PACKET_ACTION", "V4_MCAST_ENABLE", "V6_MCAST_ENABLE",
           "LOOPBACK_PACKET_ACTION", "NAT_ZONE_ID", "CUSTOM_STATS_STATE"},
   ro |-> {}]

RouterInterfaceContract == Joined({RouterInterfaceContract1, RouterInterfaceContract2})

SamplepacketContract ==
  [co |-> {"TYPE", "MODE"},
   cs |-> {"SAMPLE_RATE"}, ro |-> {}]

SchedulerContract ==
  [co |-> {},
   cs |-> {"SCHEDULING_TYPE", "SCHEDULING_WEIGHT", "METER_TYPE",
           "MIN_BANDWIDTH_RATE", "MIN_BANDWIDTH_BURST_RATE",
           "MAX_BANDWIDTH_RATE", "MAX_BANDWIDTH_BURST_RATE"}, ro |-> {}]

SchedulerGroupContract ==
  [co |-> {"PORT_ID", "LEVEL", "MAX_CHILDS"},
   cs |-> {"SCHEDULER_PROFILE_ID", "PARENT_NODE"},
   ro |-> {"CHILD_COUNT", "CHILD_LIST"}]

StpContract ==
  [co |-> {}, cs |-> {},
   ro |-> {"VLAN_LIST", "BRIDGE_ID", "PORT_LIST"}]

StpPortContract ==
  [co |-> {"STP", "BRIDGE_PORT"},
   cs |-> {"STATE"}, ro |-> {}]

SwitchContract1 ==
  [co |-> {}, cs |-> {},
   ro |-> {"NUMBER_OF_ACTIVE_PORTS", "MAX_NUMBER_OF_SUPPORTED_PORTS",
           "PORT_LIST", "PORT_MAX_MTU", "CPU_PORT", "MAX_VIRTUAL_ROUTERS",
           "FDB_TABLE_SIZE", "L3_NEIGHBOR_TABLE_SIZE", "L3_ROUTE_TABLE_SIZE",
           "LAG_MEMBERS", "NUMBER_OF_LAGS", "ECMP_MEMBERS",
           "NUMBER_OF_ECMP_GROUPS", "NUMBER_OF_UNICAST_QUEUES",
           "NUMBER_OF_MULTICAST_QUEUES", "NUMBER_OF_QUEUES"}]

SwitchContract2 ==
  [co |-> {}, cs |-> {},
   ro |-> {"NUMBER_OF_CPU_QUEUES", "ON_LINK_ROUTE_SUPPORTED", "OPER_STATUS",
           "MAX_NUMBER_OF_TEMP_SENSORS", "TEMP_LIST", "MAX_TEMP",
           "AVERAGE_TEMP", "ACL_TABLE_MINIMUM_PRIORITY",
           "ACL_TABLE_MAXIMUM_PRIORITY", "ACL_ENTRY_MINIMUM_PRIORITY",
           "ACL_ENTRY_MAXIMUM_PRIORITY", "ACL_TABLE_GROUP_MINIMUM_PRIORITY",
           "ACL_TABLE_GROUP_MAXIMUM_PRIORITY", "FDB_DST_USER_META_DATA_RANGE",
           "ROUTE_DST_USER_META_DATA_RANGE",
           "NEIGHBOR_DST_USER_META_DATA_RANGE", "PORT_USER_META_DATA_RANGE"}]

SwitchContract3 ==
  [co |-> {},
   cs |-> {"INGRESS_ACL", "EGRESS_ACL"},
   ro |-> {"VLAN_USER_META_DATA_RANGE", "ACL_USER_META_DATA_RANGE",
           "ACL_USER_TRAP_ID_RANGE", "DEFAULT_VLAN_ID", "DEFAULT_STP_INST_ID",
           "MAX_STP_INSTANCE", "DEFAULT_VIRTUAL_ROUTER_ID",
           "DEFAULT_1Q_BRIDGE_ID", "QOS_MAX_NUMBER_OF_TRAFFIC_CLASSES",
           "QOS_MAX_NUMBER_OF_SCHEDULER_GROUP_HIERARCHY_LEVELS",
           "QOS_MAX_NUMBER_OF_SCHEDULER_GROUPS_PER_HIERARCHY_LEVEL",
           "QOS_MAX_NUMBER_OF_CHILDS_PER_SCHEDULER_GROUP", "TOTAL_BUFFER_SIZE"}]

SwitchContract4 ==
  [co |-> {}, cs |-> {},
   ro |-> {"INGRESS_BUFFER_POOL_NUM", "EGRESS_BUFFER_POOL_NUM",
           "AVAILABLE_IPV4_ROUTE_ENTRY", "AVAILABLE_IPV6_ROUTE_ENTRY",
           "AVAILABLE_IPV4_NEXTHOP_ENTRY", "AVAILABLE_IPV6_NEXTHOP_ENTRY",
           "AVAILABLE_IPV4_NEIGHBOR_ENTRY", "AVAILABLE_IPV6_NEIGHBOR_ENTRY",
           "AVAILABLE_NEXT_HOP_GROUP_ENTRY",
           "AVAILABLE_NEXT_HOP_GROUP_MEMBER_ENTRY", "AVAILABLE_FDB_ENTRY",
           "AVAILABLE_L2MC_ENTRY", "AVAILABLE_IPMC_ENTRY",
           "AVAILABLE_SNAT_ENTRY", "AVAILABLE_DNAT_ENTRY",
           "AVAILABLE_DOUBLE_NAT_ENTRY", "AVAILABLE_ACL_TABLE",
           "AVAILABLE_ACL_TABLE_GROUP"}]

SwitchContract5 ==
  [co |-> {},
   cs |-> {"RESTART_WARM", "WARM_RECOVER"},
   ro |-> {"DEFAULT_TRAP_GROUP", "ECMP_HASH", "LAG_HASH", "RESTART_TYPE",
           "MIN_PLANNED_RESTART_INTERVAL", "NV_STORAGE_SIZE",
           "MAX_ACL_ACTION_COUNT", "MAX_ACL_RANGE_COUNT", "ACL_CAPABILITY"}]

SwitchContract6 ==
  [co |-> {},
   cs |-> {"SWITCHING_MODE", "BCAST_CPU_FLOOD_ENABLE",
           "MCAST_CPU_FLOOD_ENABLE", "SRC_MAC_ADDRESS",
           "MAX_LEARNED_ADDRESSES", "FDB_AGING_TIME",
           "FDB_UNICAST_MISS_PACKET_ACTION",
           "FDB_BROADCAST_MISS_PACKET_ACTION",
           "FDB_MULTICAST_MISS_PACKET_ACTION", "ECMP_DEFAULT_HASH_ALGORITHM",
           "ECMP_DEFAULT_HASH_SEED", "ECMP_DEFAULT_SYMMETRIC_HASH",
           "ECMP_HASH_IPV4", "ECMP_HASH_IPV4_IN_IPV4"},
   ro |-> {"MCAST_SNOOPING_CAPABILITY"}]

SwitchContract7 ==
  [co |-> {},
   cs |-> {"ECMP_HASH_IPV6", "LAG_DEFAULT_HASH_ALGORITHM",
           "LAG_DEFAULT_HASH_SEED", "LAG_DEFAULT_SYMMETRIC_HASH",
           "LAG_HASH_IPV4", "LAG_HASH_IPV4_IN_IPV4", "LAG_HASH_IPV6",
           "COUNTER_REFRESH_INTERVAL", "QOS_DEFAULT_TC", "QOS_DOT1P_TO_TC_MAP",
           "QOS_DOT1P_TO_COLOR_MAP"}, ro |-> {}]

SwitchContract8 ==
  [co |-> {"SWITCH_PROFILE_ID", "SWITCH_HARDWARE_INFO", "FIRMWARE_PATH_NAME",
           "INIT_SWITCH"},
   cs |-> {"QOS_DSCP_TO_TC_MAP", "QOS_DSCP_TO_COLOR_MAP",
           "QOS_TC_TO_QUEUE_MAP", "QOS_TC_AND_COLOR_TO_DOT1P_MAP",
           "QOS_TC_AND_COLOR_TO_DSCP_MAP", "SWITCH_SHELL_ENABLE",
           "SWITCH_STATE_CHANGE_NOTIFY"}, ro |-> {}]

SwitchContract9 ==
  [co |-> {},
   cs |-> {"SWITCH_SHUTDOWN_REQUEST_NOTIFY", "FDB_EVENT_NOTIFY",
           "PORT_STATE_CHANGE_NOTIFY", "PACKET_EVENT_NOTIFY",
           "TWAMP_STATUS_CHANGE_NOTIFY", "FAST_API_ENABLE", "MIRROR_TC",
           "QUEUE_PFC_DEADLOCK_NOTIFY"},
   ro |-> {"MAX_TWAMP_SESSION", "ACL_STAGE_INGRESS", "ACL_STAGE_EGRESS",
           "SEGMENTROUTE_MAX_SID_DEPTH", "SEGMENTROUTE_TLV_TYPE",
           "QOS_NUM_LOSSLESS_QUEUES"}]

SwitchContract10 ==
  [co |-> {},
   cs |-> {"PFC_DLR_PACKET_ACTION", "PFC_TC_DLD_INTERVAL",
           "PFC_TC_DLR_INTERVAL", "TPID_OUTER_VLAN", "TPID_INNER_VLAN",
           "CRC_CHECK_ENABLE", "CRC_RECALCULATION_ENABLE",
           "BFD_SESSION_STATE_CHANGE_NOTIFY"},
   ro |-> {"PFC_TC_DLD_INTERVAL_RANGE", "PFC_TC_DLR_INTERVAL_RANGE",
           "SUPPORTED_PROTECTED_OBJECT_TYPE", "NUMBER_OF_BFD_SESSION",
           "MAX_BFD_SESSION", "SUPPORTED_IPV4_BFD_SESSION_OFFLOAD_TYPE",
           "SUPPORTED_IPV6_BFD_SESSION_OFFLOAD_TYPE"}]

SwitchContract11 ==
  [co |-> {},
   cs |-> {"ECN_ECT_THRESHOLD_ENABLE", "VXLAN_DEFAULT_ROUTER_MAC",
           "VXLAN_DEFAULT_PORT", "UNINIT_DATA_PLANE_ON_REMOVAL",
           "TAM_OBJECT_ID", "TAM_EVENT_NOTIFY", "PRE_SHUTDOWN",
           "NAT_ZONE_COUNTER_OBJECT_ID"},
   ro |-> {"MIN_BFD_RX", "MIN_BFD_TX", "MAX_MIRROR_SESSION",
           "MAX_SAMPLED_MIRROR_SESSION", "SUPPORTED_EXTENDED_STATS_MODE"}]

SwitchContract12 ==
  [co |-> {},
   cs |-> {"NAT_ENABLE", "Y1731_SESSION_EVENT_NOTIFY"},
   ro |-> {"NUMBER_OF_Y1731_SESSION", "MAX_Y1731_SESSION",
           "SUPPORTED_Y1731_SESSION_PERFORMANCE_MONITOR_OFFLOAD_TYPE"}]

SwitchContract ==
  Joined({SwitchContract1, SwitchContract2, SwitchContract3, SwitchContract4,
          SwitchContract5, SwitchContract6, SwitchContract7, SwitchContract8,
          SwitchContract9, SwitchContract10, SwitchContract11,
          SwitchContract12})

SynceContract ==
  [co |-> {},
   cs |-> {"RECOVERED_PORT", "CLOCK_DIVIDER"}, ro |-> {}]

TamContract ==
  [co |-> {"TAM_BIND_POINT_TYPE_LIST"},
   cs |-> {"TELEMETRY_OBJECTS_LIST", "EVENT_OBJECTS_LIST", "INT_OBJECTS_LIST"},
   ro |-> {}]

TamMathFuncContract ==
  [co |-> {},
   cs |-> {"TAM_TEL_MATH_FUNC_TYPE"}, ro |-> {}]

TamReportContract ==
  [co |-> {"HISTOGRAM_NUMBER_OF_BINS", "HISTOGRAM_BIN_BOUNDARY", "REPORT_MODE"},
   cs |-> {"TYPE", "QUOTA", "REPORT_INTERVAL"}, ro |-> {}]

TamEventThresholdContract ==
  [co |-> {},
   cs |-> {"HIGH_WATERMARK", "LOW_WATERMARK", "LATENCY", "RATE", "ABS_VALUE",
           "UNIT"}, ro |-> {}]

TamTelTypeContract1 ==
  [co |-> {"TAM_TELEMETRY_TYPE"},
   cs |-> {"INT_SWITCH_IDENTIFIER", "SWITCH_ENABLE_PORT_STATS",
           "SWITCH_ENABLE_PORT_STATS_INGRESS",
           "SWITCH_ENABLE_PORT_STATS_EGRESS",
           "SWITCH_ENABLE_VIRTUAL_QUEUE_STATS",
           "SWITCH_ENABLE_OUTPUT_QUEUE_STATS", "SWITCH_ENABLE_MMU_STATS",
           "SWITCH_ENABLE_FABRIC_STATS", "SWITCH_ENABLE_FILTER_STATS",
           "SWITCH_ENABLE_RESOURCE_UTILIZATION_STATS", "FABRIC_Q", "NE_ENABLE",
           "DSCP_VALUE", "MATH_FUNC"}, ro |-> {}]

TamTelTypeContract2 ==
  [co |-> {"REPORT_ID"}, cs |-> {}, ro |-> {}]

TamTelTypeContract == Joined({TamTelTypeContract1, TamTelTypeContract2})

TamTransportContract ==
  [co |-> {"TRANSPORT_TYPE"},
   cs |-> {"SRC_PORT", "DST_PORT", "TRANSPORT_AUTH_TYPE", "MTU"}, ro |-> {}]

TamTelemetryContract ==
  [co |-> {"COLLECTOR_LIST"},
   cs |-> {"TAM_TYPE_LIST", "TAM_REPORTING_UNIT", "REPORTING_INTERVAL"},
   ro |-> {}]

TamCollectorContract ==
  [co |-> {},
   cs |-> {"SRC_IP", "DST_IP", "LOCALHOST", "VIRTUAL_ROUTER_ID",
           "TRUNCATE_SIZE", "TRANSPORT", "DSCP_VALUE"}, ro |-> {}]

TamEventActionContract ==
  [co |-> {},
   cs |-> {"REPORT_TYPE", "QOS_ACTION_TYPE"}, ro |-> {}]

TamEventContract ==
  [co |-> {"TYPE", "ACTION_LIST", "COLLECTOR_LIST"},
   cs |-> {"THRESHOLD", "DSCP_VALUE"}, ro |-> {}]

TunnelMapEntryContract ==
  [co |-> {"TUNNEL_MAP_TYPE", "TUNNEL_MAP", "OECN_KEY", "OECN_VALUE",
           "UECN_KEY", "UECN_VALUE", "VLAN_ID_KEY", "VLAN_ID_VALUE",
           "VNI_ID_KEY", "VNI_ID_VALUE", "BRIDGE_ID_KEY", "BRIDGE_ID_VALUE",
           "VIRTUAL_ROUTER_ID_KEY", "VIRTUAL_ROUTER_ID_VALUE"}, cs |-> {},
   ro |-> {}]

TunnelMapContract ==
  [co |-> {"TYPE"}, cs |-> {},
   ro |-> {"ENTRY_LIST"}]

TunnelContract1 ==
  [co |-> {"TYPE", "UNDERLAY_INTERFACE", "OVERLAY_INTERFACE", "ENCAP_SRC_IP",
           "ENCAP_TTL_MODE", "ENCAP_TTL_VAL", "ENCAP_DSCP_MODE",
           "ENCAP_DSCP_VAL", "ENCAP_GRE_KEY_VALID", "ENCAP_ECN_MODE",
           "ENCAP_MAPPERS", "DECAP_ECN_MODE", "DECAP_MAPPERS"},
   cs |-> {"ENCAP_GRE_KEY"}, ro |-> {}]

TunnelContract2 ==
  [co |-> {"DECAP_TTL_MODE", "DECAP_DSCP_MODE", "DECAP_MPLS_PW_MODE",
           "ENCAP_MPLS_PW_MODE", "DECAP_EXP_MODE", "ENCAP_EXP_MODE",
           "ENCAP_EXP_VAL"},
   cs |-> {"DECAP_MPLS_PW_WITH_CW", "ENCAP_MPLS_PW_WITH_CW",
           "ENCAP_MPLS_PW_TAGGED_VLAN", "DECAP_ESI_LABEL_VALID",
           "ENCAP_ESI_LABEL_VALID", "DECAP_ACL_USE_OUTER_HDR_INFO"},
   ro |-> {"TERM_TABLE_ENTRY_LIST", "ENCAP_NEXTHOP_ID"}]

TunnelContract == Joined({TunnelContract1, TunnelContract2})

TunnelTermTableEntryContract ==
  [co |-> {"VR_ID", "TYPE", "DST_IP", "SRC_IP", "TUNNEL_TYPE",
           "ACTION_TUNNEL_ID"}, cs |-> {}, ro |-> {}]

TwampSessionContract1 ==
  [co |-> {"TYPE", "UDP_SRC_PORT", "UDP_DST_PORT", "SRC_IP", "DST_IP",
           "TWAMP_ENCAPSULATION_TYPE", "HW_LOOKUP_VALID"},
   cs |-> {"PORT", "SESSION_ROLE", "TC", "VPN_VIRTUAL_ROUTE",
           "SESSION_ENABLE_TRANSMIT", "PADDING_LENGTH", "NEXT_HOP_ID"},
   ro |-> {"STATE", "AUTH_MODE"}]

TwampSessionContract2 ==
  [co |-> {"TX_PKT_PERIOD", "TX_RATE", "TX_PKT_CNT", "TX_PKT_DURATION", "MODE"},
   cs |-> {}, ro |-> {}]

TwampSessionContract == Joined({TwampSessionContract1, TwampSessionContract2})

UdfGroupContract ==
  [co |-> {"TYPE", "LENGTH"}, cs |-> {},
   ro |-> {"UDF_LIST"}]

UdfMatchContract ==
  [co |-> {"L2_TYPE", "L3_TYPE", "GRE_TYPE", "PRIORITY"}, cs |-> {}, ro |-> {}]

UdfContract ==
  [co |-> {"MATCH_ID", "GROUP_ID", "OFFSET"},
   cs |-> {"BASE", "HASH_MASK"}, ro |-> {}]

VirtualRouterContract ==
  [co |-> {},
   cs |-> {"ADMIN_V4_STATE", "ADMIN_V6_STATE", "SRC_MAC_ADDRESS",
           "VIOLATION_TTL1_PACKET_ACTION",
           "VIOLATION_IP_OPTIONS_PACKET_ACTION",
           "UNKNOWN_L3_MULTICAST_PACKET_ACTION"}, ro |-> {}]

VlanContract1 ==
  [co |-> {"VLAN_ID"},
   cs |-> {"MAX_LEARNED_ADDRESSES", "STP_INSTANCE", "LEARN_DISABLE",
           "IPV4_MCAST_LOOKUP_KEY_TYPE", "IPV6_MCAST_LOOKUP_KEY_TYPE",
           "UNKNOWN_NON_IP_MCAST_OUTPUT_GROUP_ID",
           "UNKNOWN_IPV4_MCAST_OUTPUT_GROUP_ID",
           "UNKNOWN_IPV6_MCAST_OUTPUT_GROUP_ID",
           "UNKNOWN_LINKLOCAL_MCAST_OUTPUT_GROUP_ID"},
   ro |-> {"MEMBER_LIST"}]

VlanContract2 ==
  [co |-> {},
   cs |-> {"INGRESS_ACL", "EGRESS_ACL", "META_DATA",
           "UNKNOWN_UNICAST_FLOOD_CONTROL_TYPE", "UNKNOWN_UNICAST_FLOOD_GROUP",
           "UNKNOWN_MULTICAST_FLOOD_CONTROL_TYPE",
           "UNKNOWN_MULTICAST_FLOOD_GROUP", "BROADCAST_FLOOD_CONTROL_TYPE",
           "BROADCAST_FLOOD_GROUP", "PTP_DOMAIN_ID"}, ro |-> {}]

VlanContract3 ==
  [co |-> {},
   cs |-> {"CUSTOM_IGMP_SNOOPING_ENABLE", "CUSTOM_STATS_ENABLE", "TAM_OBJECT"},
   ro |-> {}]

VlanContract == Joined({VlanContract1, VlanContract2, VlanContract3})

VlanMemberContract ==
  [co |-> {"VLAN_ID", "BRIDGE_PORT_ID"},
   cs |-> {"VLAN_TAGGING_MODE"}, ro |-> {}]

WredContract1 ==
  [co |-> {},
   cs |-> {"GREEN_ENABLE", "GREEN_MIN_THRESHOLD", "GREEN_MAX_THRESHOLD",
           "GREEN_DROP_PROBABILITY", "YELLOW_ENABLE", "YELLOW_MIN_THRESHOLD",
           "YELLOW_MAX_THRESHOLD", "YELLOW_DROP_PROBABILITY", "RED_ENABLE",
           "RED_MIN_THRESHOLD", "RED_MAX_THRESHOLD", "RED_DROP_PROBABILITY",
           "WEIGHT"}, ro |-> {}]

WredContract2 ==
  [co |-> {},
   cs |-> {"ECN_MARK_MODE", "ECN_GREEN_MIN_THRESHOLD",
           "ECN_GREEN_MAX_THRESHOLD", "ECN_GREEN_MARK_PROBABILITY",
           "ECN_YELLOW_MIN_THRESHOLD", "ECN_YELLOW_MAX_THRESHOLD",
           "ECN_YELLOW_MARK_PROBABILITY", "ECN_RED_MIN_THRESHOLD",
           "ECN_RED_MAX_THRESHOLD", "ECN_RED_MARK_PROBABILITY"}, ro |-> {}]

WredContract3 ==
  [co |-> {},
   cs |-> {"ECN_COLOR_UNAWARE_MIN_THRESHOLD",
           "ECN_COLOR_UNAWARE_MAX_THRESHOLD",
           "ECN_COLOR_UNAWARE_MARK_PROBABILITY"}, ro |-> {}]

WredContract == Joined({WredContract1, WredContract2, WredContract3})

Y1731MegContract ==
  [co |-> {"TYPE", "NAME", "LEVEL"}, cs |-> {}, ro |-> {}]

Y1731SessionContract1 ==
  [co |-> {"MEG", "DIR", "VLAN_ID", "BRIDGE_ID", "PORT_ID", "MPLS_IN_LABEL",
           "LM_OFFLOAD_TYPE", "DM_OFFLOAD_TYPE"},
   cs |-> {"LOCAL_MEP_ID", "CCM_PERIOD", "CCM_ENABLE", "LM_ENABLE", "LM_TYPE"},
   ro |-> {"REMOTE_MEP_LIST"}]

Y1731SessionContract2 ==
  [co |-> {"TP_ROUTER_INTERFACE_ID", "TP_WITHOUT_GAL"},
   cs |-> {"DM_ENABLE", "LOCAL_RDI", "TTL", "EXP_OR_COS", "NEXT_HOP_ID"},
   ro |-> {}]

Y1731SessionContract == Joined({Y1731SessionContract1, Y1731SessionContract2})

Y1731RemoteMepContract ==
  [co |-> {"Y1731_SESSION_ID", "REMOTE_MEP_ID"},
   cs |-> {"REMOTE_MEP_MAC_ADDRESS"},
   ro |-> {"CONNECTION_ESTABLISHED"}]

(* The contract of each object type *)
Contract ==
  [acl_table_group |-> AclTableGroupContract,
   acl_table_group_member |-> AclTableGroupMemberContract,
   acl_table |-> AclTableContract,
   acl_entry |-> AclEntryContract,
   acl_range |-> AclRangeContract,
   acl_counter |-> AclCounterContract,
   bfd_session |-> BfdSessionContract,
   bridge_port |-> BridgePortContract,
   bridge |-> BridgeContract,
   buffer_profile |-> BufferProfileContract,
   ingress_priority_group |-> IngressPriorityGroupContract,
   counter |-> CounterContract,
   debug_counter |-> DebugCounterContract,
   es |-> EsContract,
   fdb_entry |-> FdbEntryContract,
   hostif |-> HostifContract,
   hostif_table_entry |-> HostifTableEntryContract,
   hostif_trap_group |-> HostifTrapGroupContract,
   hostif_trap |-> HostifTrapContract,
   hostif_user_defined_trap |-> HostifUserDefinedTrapContract,
   isolation_group |-> IsolationGroupContract,
   isolation_group_member |-> IsolationGroupMemberContract,
   lag |-> LagContract,
   lag_member |-> LagMemberContract,
   hash |-> HashContract,
   l2mc_group |-> L2mcGroupContract,
   l2mc_group_member |-> L2mcGroupMemberContract,
   l2mc_entry |-> L2mcEntryContract,
   mcast_fdb_entry |-> McastFdbEntryContract,
   ipmc_group |-> IpmcGroupContract,
   ipmc_group_member |-> IpmcGroupMemberContract,
   rpf_group |-> RpfGroupContract,
   rpf_group_member |-> RpfGroupMemberContract,
   ipmc_entry |-> IpmcEntryContract,
   mirror_session |-> MirrorSessionContract,
   inseg_entry |-> InsegEntryContract,
   nat_entry |-> NatEntryContract,
   neighbor_entry |-> NeighborEntryContract,
   next_hop |-> NextHopContract,
   next_hop_group |-> NextHopGroupContract,
   next_hop_group_member |-> NextHopGroupMemberContract,
   npm_session |-> NpmSessionContract,
   policer |-> PolicerContract,
   port |-> PortContract,
   ptp_domain |-> PtpDomainContract,
   qos_map |-> QosMapContract,
   queue |-> QueueContract,
   route_entry |-> RouteEntryContract,
   router_interface |-> RouterInterfaceContract,
   samplepacket |-> SamplepacketContract,
   scheduler |-> SchedulerContract,
   scheduler_group |-> SchedulerGroupContract,
   stp |-> StpContract,
   stp_port |-> StpPortContract,
   switch |-> SwitchContract,
   synce |-> SynceContract,
   tam |-> TamContract,
   tam_math_func |-> TamMathFuncContract,
   tam_report |-> TamReportContract,
   tam_event_threshold |-> TamEventThresholdContract,
   tam_tel_type |-> TamTelTypeContract,
   tam_transport |-> TamTransportContract,
   tam_telemetry |-> TamTelemetryContract,
   tam_collector |-> TamCollectorContract,
   tam_event_action |-> TamEventActionContract,
   tam_event |-> TamEventContract,
   tunnel_map_entry |-> TunnelMapEntryContract,
   tunnel_map |-> TunnelMapContract,
   tunnel |-> TunnelContract,
   tunnel_term_table_entry |-> TunnelTermTableEntryContract,
   twamp_session |-> TwampSessionContract,
   udf_group |-> UdfGroupContract,
   udf_match |-> UdfMatchContract,
   udf |-> UdfContract,
   virtual_router |-> VirtualRouterContract,
   vlan |-> VlanContract,
   vlan_member |-> VlanMemberContract,
   wred |-> WredContract,
   y1731_meg |-> Y1731MegContract,
   y1731_session |-> Y1731SessionContract,
   y1731_remote_mep |-> Y1731RemoteMepContract]

=============================================================================
