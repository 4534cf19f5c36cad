----------------------------- MODULE AttrTables -----------------------------
(* The attribute tables of the code, one per object type: the attributes with *)
(* a get and a set function (rw), with one of them (r, w) and with neither *)
(* (none). An attribute of the contract that is not in its table is unknown *)
(* to the code. After them, how the functions treat attributes they do not *)
(* simply store and read. *)

EXTENDS TLC

JoinedTable(parts) ==
  [k \in {"rw", "r", "w", "none"} |-> UNION {p[k] : p \in parts}]

AclTableGroupTable ==
  [rw |-> {},
   r |-> {"ACL_STAGE", "ACL_BIND_POINT_TYPE_LIST", "TYPE", "MEMBER_LIST"},
   w |-> {}, none |-> {}]

AclTableGroupMemberTable ==
  [rw |-> {},
   r |-> {"ACL_TABLE_GROUP_ID", "ACL_TABLE_ID", "PRIORITY"}, w |-> {},
   none |-> {}]

AclTableTable1 ==
  [rw |-> {},
   r |-> {"ACL_STAGE", "ACL_BIND_POINT_TYPE_LIST", "SIZE", "FIELD_SRC_IPV6",
          "FIELD_DST_IPV6", "FIELD_SRC_MAC", "FIELD_DST_MAC", "FIELD_SRC_IP",
          "FIELD_DST_IP", "FIELD_IN_PORTS", "FIELD_OUT_PORTS", "FIELD_IN_PORT",
          "FIELD_OUT_PORT", "FIELD_SRC_PORT", "FIELD_OUTER_VLAN_ID",
          "FIELD_OUTER_VLAN_PRI", "FIELD_OUTER_VLAN_CFI",
          "FIELD_INNER_VLAN_ID", "FIELD_INNER_VLAN_PRI",
          "FIELD_INNER_VLAN_CFI", "FIELD_L4_SRC_PORT", "FIELD_L4_DST_PORT",
          "FIELD_ETHER_TYPE", "FIELD_IP_PROTOCOL", "FIELD_DSCP", "FIELD_ECN",
          "FIELD_TCP_FLAGS"}, w |-> {},
   none |-> {"ACL_ACTION_TYPE_LIST", "FIELD_INNER_SRC_IPV6",
             "FIELD_INNER_DST_IPV6", "FIELD_INNER_SRC_IP",
             "FIELD_INNER_DST_IP", "FIELD_INNER_L4_SRC_PORT",
             "FIELD_INNER_L4_DST_PORT", "FIELD_INNER_ETHER_TYPE",
             "FIELD_INNER_IP_PROTOCOL", "FIELD_IP_IDENTIFICATION", "FIELD_TTL",
             "FIELD_TOS", "FIELD_IP_FLAGS", "FIELD_ACL_IP_TYPE",
             "FIELD_ACL_IP_FRAG", "FIELD_IPV6_FLOW_LABEL", "FIELD_TC",
             "FIELD_ICMP_TYPE", "FIELD_ICMP_CODE", "FIELD_ICMPV6_TYPE",
             "FIELD_ICMPV6_CODE", "FIELD_PACKET_VLAN"}]

AclTableTable2 ==
  [rw |-> {},
   r |-> {"FIELD_MPLS_LABEL0_LABEL", "FIELD_MPLS_LABEL0_TTL",
          "FIELD_MPLS_LABEL0_EXP", "FIELD_MPLS_LABEL1_BOS",
          "FIELD_MPLS_LABEL1_LABEL", "FIELD_MPLS_LABEL1_TTL",
          "FIELD_MPLS_LABEL1_EXP", "FIELD_MPLS_LABEL1_BOS",
          "FIELD_MPLS_LABEL1_BOS", "FIELD_MPLS_LABEL2_LABEL",
          "FIELD_MPLS_LABEL2_TTL", "FIELD_MPLS_LABEL2_EXP",
          "FIELD_MPLS_LABEL2_BOS", "ENTRY_LIST", "AVAILABLE_ACL_ENTRY"},
   w |-> {},
   none |-> {"FIELD_TUNNEL_VNI", "FIELD_HAS_VLAN_TAG", "FIELD_MACSEC_SCI",
             "FIELD_MPLS_LABEL3_LABEL", "FIELD_MPLS_LABEL3_TTL",
             "FIELD_MPLS_LABEL3_EXP", "FIELD_MPLS_LABEL3_BOS",
             "FIELD_MPLS_LABEL4_LABEL", "FIELD_MPLS_LABEL4_TTL",
             "FIELD_MPLS_LABEL4_EXP", "FIELD_MPLS_LABEL4_BOS",
             "FIELD_FDB_DST_USER_META", "FIELD_ROUTE_DST_USER_META",
             "FIELD_NEIGHBOR_DST_USER_META", "FIELD_PORT_USER_META",
             "FIELD_VLAN_USER_META", "FIELD_ACL_USER_META",
             "FIELD_FDB_NPU_META_DST_HIT", "FIELD_NEIGHBOR_NPU_META_DST_HIT",
             "FIELD_ROUTE_NPU_META_DST_HIT", "FIELD_BTH_OPCODE",
             "FIELD_AETH_SYNDROME", "USER_DEFINED_FIELD_GROUP_MIN",
             "USER_DEFINED_FIELD_GROUP_MAX", "FIELD_ACL_RANGE_TYPE",
             "FIELD_IPV6_NEXT_HEADER", "FIELD_TAM_INT_TYPE",
             "AVAILABLE_ACL_COUNTER"}]

AclTableTable == JoinedTable({AclTableTable1, AclTableTable2})

AclEntryTable1 ==
  [rw |-> {"PRIORITY", "ADMIN_STATE", "FIELD_SRC_IPV6", "FIELD_DST_IPV6",
           "FIELD_SRC_MAC", "FIELD_DST_MAC", "FIELD_SRC_IP", "FIELD_DST_IP",
           "FIELD_IN_PORTS", "FIELD_OUTER_VLAN_ID", "FIELD_OUTER_VLAN_PRI",
           "FIELD_OUTER_VLAN_CFI", "FIELD_INNER_VLAN_ID",
           "FIELD_INNER_VLAN_PRI", "FIELD_INNER_VLAN_CFI", "FIELD_L4_SRC_PORT",
           "FIELD_L4_DST_PORT", "FIELD_ETHER_TYPE", "FIELD_IP_PROTOCOL",
           "FIELD_DSCP", "FIELD_ECN", "FIELD_TTL", "FIELD_TCP_FLAGS",
           "FIELD_ICMP_TYPE", "FIELD_ICMP_CODE", "FIELD_ICMPV6_TYPE",
           "FIELD_ICMPV6_CODE", "FIELD_PACKET_VLAN", "FIELD_MPLS_LABEL0_LABEL",
           "FIELD_MPLS_LABEL0_TTL"},
   r |-> {"TABLE_ID"}, w |-> {},
   none |-> {"FIELD_INNER_SRC_IPV6", "FIELD_INNER_DST_IPV6",
             "FIELD_INNER_SRC_IP", "FIELD_INNER_DST_IP", "FIELD_OUT_PORTS",
             "FIELD_IN_PORT", "FIELD_OUT_PORT", "FIELD_SRC_PORT",
             "FIELD_IP_IDENTIFICATION", "FIELD_TOS", "FIELD_IP_FLAGS",
             "FIELD_ACL_IP_TYPE", "FIELD_ACL_IP_FRAG", "FIELD_IPV6_FLOW_LABEL",
             "FIELD_TC", "FIELD_TUNNEL_VNI", "FIELD_HAS_VLAN_TAG",
             "FIELD_MACSEC_SCI"}]

AclEntryTable2 ==
  [rw |-> {"FIELD_MPLS_LABEL0_EXP", "FIELD_MPLS_LABEL0_BOS",
           "FIELD_MPLS_LABEL1_LABEL", "FIELD_MPLS_LABEL1_TTL",
           "FIELD_MPLS_LABEL1_EXP", "FIELD_MPLS_LABEL1_BOS",
           "FIELD_MPLS_LABEL2_LABEL", "FIELD_MPLS_LABEL2_TTL",
           "FIELD_MPLS_LABEL2_EXP", "FIELD_MPLS_LABEL2_BOS",
           "FIELD_ACL_RANGE_TYPE", "FIELD_IPV6_NEXT_HEADER", "ACTION_REDIRECT",
           "ACTION_PACKET_ACTION", "ACTION_FLOOD", "ACTION_COUNTER",
           "ACTION_MIRROR_INGRESS", "ACTION_MIRROR_EGRESS",
           "ACTION_SET_POLICER", "ACTION_SET_PACKET_COLOR",
           "ACTION_SET_INNER_VLAN_ID", "ACTION_SET_INNER_VLAN_PRI",
           "ACTION_SET_OUTER_VLAN_ID", "ACTION_SET_OUTER_VLAN_PRI"}, r |-> {},
   w |-> {},
   none |-> {"FIELD_MPLS_LABEL3_LABEL", "FIELD_MPLS_LABEL3_TTL",
             "FIELD_MPLS_LABEL3_EXP", "FIELD_MPLS_LABEL3_BOS",
             "FIELD_MPLS_LABEL4_LABEL", "FIELD_MPLS_LABEL4_TTL",
             "FIELD_MPLS_LABEL4_EXP", "FIELD_MPLS_LABEL4_BOS",
             "FIELD_FDB_DST_USER_META", "FIELD_ROUTE_DST_USER_META",
             "FIELD_NEIGHBOR_DST_USER_META", "FIELD_PORT_USER_META",
             "FIELD_VLAN_USER_META", "FIELD_ACL_USER_META",
             "FIELD_FDB_NPU_META_DST_HIT", "FIELD_NEIGHBOR_NPU_META_DST_HIT",
             "FIELD_ROUTE_NPU_META_DST_HIT", "FIELD_BTH_OPCODE",
             "FIELD_AETH_SYNDROME", "USER_DEFINED_FIELD_GROUP_MIN",
             "USER_DEFINED_FIELD_GROUP_MAX", "ACTION_REDIRECT_LIST",
             "ACTION_DECREMENT_TTL", "ACTION_SET_TC", "ACTION_SET_SRC_MAC",
             "ACTION_SET_DST_MAC"}]

AclEntryTable3 ==
  [rw |-> {"ACTION_SET_DSCP", "ACTION_SET_ECN",
           "ACTION_INGRESS_SAMPLEPACKET_ENABLE", "ACTION_SET_USER_TRAP_ID",
           "ACTION_SET_DO_NOT_LEARN"}, r |-> {}, w |-> {},
   none |-> {"ACTION_SET_SRC_IP", "ACTION_SET_DST_IP", "ACTION_SET_SRC_IPV6",
             "ACTION_SET_DST_IPV6", "ACTION_SET_L4_SRC_PORT",
             "ACTION_SET_L4_DST_PORT", "ACTION_EGRESS_SAMPLEPACKET_ENABLE",
             "ACTION_SET_ACL_META_DATA", "ACTION_EGRESS_BLOCK_PORT_LIST"}]

AclEntryTable == JoinedTable({AclEntryTable1, AclEntryTable2, AclEntryTable3})

AclRangeTable ==
  [rw |-> {},
   r |-> {"TYPE", "LIMIT"}, w |-> {}, none |-> {}]

AclCounterTable ==
  [rw |-> {"PACKETS", "BYTES"},
   r |-> {"TABLE_ID", "ENABLE_PACKET_COUNT", "ENABLE_BYTE_COUNT"}, w |-> {},
   none |-> {}]

BfdSessionTable1 ==
  [rw |-> {"HW_LOOKUP_VALID", "VIRTUAL_ROUTER", "PORT", "LOCAL_DISCRIMINATOR",
           "REMOTE_DISCRIMINATOR", "UDP_SRC_PORT", "TC",
           "BFD_ENCAPSULATION_TYPE", "IPHDR_VERSION", "TOS", "TTL",
           "SRC_MAC_ADDRESS", "DST_MAC_ADDRESS", "MULTIHOP", "MIN_TX",
           "MIN_RX", "MULTIPLIER", "OFFLOAD_TYPE", "MPLS_ENCAP_BFD_TYPE",
           "ACH_HEADER_VALID", "MPLS_EXP", "TP_ROUTER_INTERFACE_ID"},
   r |-> {"TYPE", "SRC_IP_ADDRESS", "DST_IP_ADDRESS", "REMOTE_MIN_TX",
          "REMOTE_MIN_RX", "STATE", "NEGOTIATED_TX", "NEGOTIATED_RX",
          "LOCAL_DIAG", "REMOTE_DIAG", "REMOTE_MULTIPLIER", "ACH_CHANNEL_TYPE",
          "MPLS_IN_LABEL", "MPLS_TTL", "TP_CV_ENABLE", "TP_CV_SRC_MEP_ID"},
   w |-> {},
   none |-> {"VLAN_TPID", "VLAN_ID", "VLAN_PRI", "VLAN_CFI",
             "VLAN_HEADER_VALID", "TUNNEL_TOS", "TUNNEL_TTL",
             "TUNNEL_SRC_IP_ADDRESS", "TUNNEL_DST_IP_ADDRESS", "ECHO_ENABLE",
             "CBIT"}]

BfdSessionTable2 ==
  [rw |-> {"NEXT_HOP_ID"},
   r |-> {"TP_WITHOUT_GAL"}, w |-> {}, none |-> {}]

BfdSessionTable == JoinedTable({BfdSessionTable1, BfdSessionTable2})

BridgePortTable ==
  [rw |-> {"BRIDGE_ID", "FDB_LEARNING_MODE", "MAX_LEARNED_ADDRESSES",
           "FDB_LEARNING_LIMIT_VIOLATION_PACKET_ACTION", "ADMIN_STATE",
           "TAGGING_MODE", "INGRESS_FILTERING", "EGRESS_FILTERING",
           "ISOLATION_GROUP", "CROSS_CONNECT_BRIDGE_PORT"},
   r |-> {"TYPE", "PORT_ID", "VLAN_ID", "RIF_ID", "TUNNEL_ID"}, w |-> {},
   none |-> {}]

BridgeTable ==
  [rw |-> {"MAX_LEARNED_ADDRESSES", "LEARN_DISABLE",
           "UNKNOWN_UNICAST_FLOOD_CONTROL_TYPE", "UNKNOWN_UNICAST_FLOOD_GROUP",
           "UNKNOWN_MULTICAST_FLOOD_CONTROL_TYPE",
           "UNKNOWN_MULTICAST_FLOOD_GROUP", "BROADCAST_FLOOD_CONTROL_TYPE",
           "BROADCAST_FLOOD_GROUP"},
   r |-> {"TYPE", "PORT_LIST"}, w |-> {}, none |-> {}]

BufferProfileTable ==
  [rw |-> {"SHARED_DYNAMIC_TH", "SHARED_STATIC_TH", "XOFF_TH", "XON_TH"},
   r |-> {"POOL_ID", "RESERVED_BUFFER_SIZE", "THRESHOLD_MODE"}, w |-> {},
   none |-> {"XON_OFFSET_TH"}]

IngressPriorityGroupTable ==
  [rw |-> {"BUFFER_PROFILE"},
   r |-> {"PORT", "INDEX"}, w |-> {}, none |-> {}]

CounterTable ==
  [rw |-> {"TYPE"}, r |-> {}, w |-> {}, none |-> {}]

DebugCounterTable ==
  [rw |-> {"IN_DROP_REASON_LIST", "OUT_DROP_REASON_LIST"},
   r |-> {"INDEX", "TYPE", "BIND_METHOD"}, w |-> {}, none |-> {}]

EsTable ==
  [rw |-> {},
   r |-> {"ESI_LABEL"}, w |-> {}, none |-> {}]

FdbEntryTable ==
  [rw |-> {"TYPE", "BRIDGE_PORT_ID", "PACKET_ACTION", "ENDPOINT_IP",
           "META_DATA", "USER_TRAP_ID", "COUNTER_ID"}, r |-> {}, w |-> {},
   none |-> {}]

HostifTable ==
  [rw |-> {"OPER_STATUS", "QUEUE", "VLAN_TAG"},
   r |-> {"TYPE", "OBJ_ID", "NAME"}, w |-> {}, none |-> {}]

HostifTableEntryTable ==
  [rw |-> {},
   r |-> {"TYPE", "OBJ_ID", "TRAP_ID", "CHANNEL_TYPE", "HOST_IF"}, w |-> {},
   none |-> {}]

HostifTrapGroupTable ==
  [rw |-> {"ADMIN_STATE", "QUEUE", "POLICER"}, r |-> {}, w |-> {}, none |-> {}]

HostifTrapTable ==
  [rw |-> {"PACKET_ACTION", "TRAP_PRIORITY", "EXCLUDE_PORT_LIST", "TRAP_GROUP",
           "MIRROR_SESSION"},
   r |-> {"TRAP_TYPE"}, w |-> {}, none |-> {}]

HostifUserDefinedTrapTable ==
  [rw |-> {"TRAP_PRIORITY", "TRAP_GROUP"},
   r |-> {"TYPE"}, w |-> {}, none |-> {}]

IsolationGroupTable ==
  [rw |-> {},
   r |-> {"TYPE", "ISOLATION_MEMBER_LIST"}, w |-> {}, none |-> {}]

IsolationGroupMemberTable ==
  [rw |-> {},
   r |-> {"ISOLATION_GROUP_ID", "ISOLATION_OBJECT"}, w |-> {}, none |-> {}]

LagTable ==
  [rw |-> {"INGRESS_ACL", "PORT_VLAN_ID", "DEFAULT_VLAN_PRIORITY",
           "DROP_UNTAGGED", "DROP_TAGGED", "MODE"},
   r |-> {"PORT_LIST"}, w |-> {},
   none |-> {"EGRESS_ACL"}]

LagMemberTable ==
  [rw |-> {"EGRESS_DISABLE", "INGRESS_DISABLE"},
   r |-> {"LAG_ID", "PORT_ID"}, w |-> {}, none |-> {}]

HashTable ==
  [rw |-> {"NATIVE_HASH_FIELD_LIST", "UDF_GROUP_LIST"}, r |-> {}, w |-> {},
   none |-> {}]

L2mcGroupTable ==
  [rw |-> {},
   r |-> {"L2MC_OUTPUT_COUNT", "L2MC_MEMBER_LIST"}, w |-> {}, none |-> {}]

L2mcGroupMemberTable ==
  [rw |-> {},
   r |-> {"L2MC_GROUP_ID", "L2MC_OUTPUT_ID"}, w |-> {},
   none |-> {"L2MC_ENDPOINT_IP"}]

L2mcEntryTable ==
  [rw |-> {"PACKET_ACTION", "OUTPUT_GROUP_ID"}, r |-> {}, w |-> {},
   none |-> {}]

McastFdbEntryTable ==
  [rw |-> {"GROUP_ID", "PACKET_ACTION", "META_DATA"}, r |-> {}, w |-> {},
   none |-> {}]

IpmcGroupTable ==
  [rw |-> {},
   r |-> {"IPMC_OUTPUT_COUNT", "IPMC_MEMBER_LIST"}, w |-> {}, none |-> {}]

IpmcGroupMemberTable ==
  [rw |-> {},
   r |-> {"IPMC_GROUP_ID", "IPMC_OUTPUT_ID"}, w |-> {}, none |-> {}]

RpfGroupTable ==
  [rw |-> {},
   r |-> {"RPF_INTERFACE_COUNT", "RPF_MEMBER_LIST"}, w |-> {}, none |-> {}]

RpfGroupMemberTable ==
  [rw |-> {},
   r |-> {"RPF_GROUP_ID", "RPF_INTERFACE_ID"}, w |-> {}, none |-> {}]

IpmcEntryTable ==
  [rw |-> {"PACKET_ACTION", "OUTPUT_GROUP_ID", "RPF_GROUP_ID"}, r |-> {},
   w |-> {}, none |-> {}]

MirrorSessionTable ==
  [rw |-> {"MONITOR_PORT", "TRUNCATE_SIZE", "SAMPLE_RATE", "TC", "VLAN_TPID",
           "VLAN_ID", "VLAN_PRI", "VLAN_CFI", "VLAN_HEADER_VALID",
           "ERSPAN_ENCAPSULATION_TYPE", "IPHDR_VERSION", "TOS", "TTL",
           "SRC_IP_ADDRESS", "DST_IP_ADDRESS", "SRC_MAC_ADDRESS",
           "DST_MAC_ADDRESS", "GRE_PROTOCOL_TYPE", "CONGESTION_MODE",
           "MONITOR_PORTLIST"},
   r |-> {"TYPE", "MONITOR_PORTLIST_VALID"}, w |-> {}, none |-> {}]

InsegEntryTable ==
  [rw |-> {"NUM_OF_POP", "PACKET_ACTION", "TRAP_PRIORITY", "NEXT_HOP_ID"},
   r |-> {}, w |-> {}, none |-> {}]

NatEntryTable ==
  [rw |-> {"HIT_BIT"},
   r |-> {"NAT_TYPE", "SRC_IP", "DST_IP", "L4_SRC_PORT", "L4_DST_PORT"},
   w |-> {},
   none |-> {"SRC_IP_MASK", "VR_ID", "DST_IP_MASK", "ENABLE_PACKET_COUNT",
             "PACKET_COUNT", "ENABLE_BYTE_COUNT", "BYTE_COUNT", "HIT_BIT_COR"}]

NeighborEntryTable ==
  [rw |-> {"DST_MAC_ADDRESS", "PACKET_ACTION", "NO_HOST_ROUTE"}, r |-> {},
   w |-> {},
   none |-> {"USER_TRAP_ID", "META_DATA", "COUNTER_ID"}]

NextHopTable ==
  [rw |-> {},
   r |-> {"TYPE", "IP", "ROUTER_INTERFACE_ID", "TUNNEL_ID",
          "SEGMENTROUTE_SIDLIST_ID", "SEGMENTROUTE_ENDPOINT_TYPE",
          "SEGMENTROUTE_ENDPOINT_POP_TYPE", "LABELSTACK", "COUNTER_ID",
          "MPLS_ENCAP_TUNNEL_ID", "MPLS_DECAP_TUNNEL_ID",
          "NEXT_LEVEL_NEXT_HOP_ID"}, w |-> {}, none |-> {}]

NextHopGroupTable ==
  [rw |-> {"SET_SWITCHOVER"},
   r |-> {"NEXT_HOP_COUNT", "NEXT_HOP_MEMBER_LIST", "TYPE", "COUNTER_ID"},
   w |-> {}, none |-> {}]

NextHopGroupMemberTable ==
  [rw |-> {},
   r |-> {"NEXT_HOP_GROUP_ID", "NEXT_HOP_ID", "WEIGHT", "CONFIGURED_ROLE",
          "OBSERVED_ROLE", "MONITORED_OBJECT"}, w |-> {}, none |-> {}]

NpmSessionTable ==
  [rw |-> {"PORT", "SESSION_ROLE", "UDP_SRC_PORT", "UDP_DST_PORT", "SRC_IP",
           "DST_IP", "TC", "VPN_VIRTUAL_ROUTE", "NPM_ENCAPSULATION_TYPE",
           "SESSION_ENABLE_TRANSMIT", "TX_PKT_PERIOD", "TX_RATE", "TX_PKT_CNT",
           "TX_PKT_DURATION", "MODE"}, r |-> {}, w |-> {}, none |-> {}]

PolicerTable ==
  [rw |-> {"CBS", "CIR", "PBS", "PIR", "GREEN_PACKET_ACTION",
           "YELLOW_PACKET_ACTION", "RED_PACKET_ACTION"},
   r |-> {"METER_TYPE", "MODE", "COLOR_SOURCE"}, w |-> {},
   none |-> {"ENABLE_COUNTER_PACKET_ACTION_LIST"}]

PortTable ==
  [rw |-> {"SPEED", "AUTO_NEG_MODE", "ADMIN_STATE", "PORT_VLAN_ID",
           "DEFAULT_VLAN_PRIORITY", "DROP_UNTAGGED", "DROP_TAGGED",
           "INTERNAL_LOOPBACK_MODE", "FEC_MODE", "UPDATE_DSCP", "MTU",
           "FLOOD_STORM_CONTROL_POLICER_ID",
           "BROADCAST_STORM_CONTROL_POLICER_ID",
           "MULTICAST_STORM_CONTROL_POLICER_ID", "GLOBAL_FLOW_CONTROL_MODE",
           "INGRESS_MIRROR_SESSION", "EGRESS_MIRROR_SESSION",
           "INGRESS_SAMPLEPACKET_ENABLE", "EGRESS_SAMPLEPACKET_ENABLE",
           "POLICER_ID", "QOS_DOT1P_TO_TC_MAP", "QOS_DOT1P_TO_COLOR_MAP",
           "QOS_DSCP_TO_TC_MAP", "QOS_DSCP_TO_COLOR_MAP",
           "QOS_TC_AND_COLOR_TO_DOT1P_MAP", "QOS_TC_AND_COLOR_TO_DSCP_MAP",
           "QOS_SCHEDULER_PROFILE_ID", "PRIORITY_FLOW_CONTROL_MODE",
           "PRIORITY_FLOW_CONTROL", "PRIORITY_FLOW_CONTROL_RX",
           "PRIORITY_FLOW_CONTROL_TX", "META_DATA", "EGRESS_BLOCK_PORT_LIST",
           "EEE_ENABLE", "ISOLATION_GROUP", "PKT_TX_ENABLE", "ES", "PTP_MODE",
           "Y1731_ENABLE", "Y1731_LM_ENABLE", "Y1731_MIP_ENABLE",
           "PTP_INGRESS_ASYMMETRY_DELAY", "PTP_EGRESS_ASYMMETRY_DELAY",
           "PTP_PATH_DELAY", "PTP_DOMAIN_ID"},
   r |-> {"TYPE", "OPER_STATUS", "SUPPORTED_BREAKOUT_MODE_TYPE",
          "CURRENT_BREAKOUT_MODE_TYPE", "QOS_NUMBER_OF_QUEUES",
          "QOS_QUEUE_LIST", "QOS_NUMBER_OF_SCHEDULER_GROUPS",
          "QOS_SCHEDULER_GROUP_LIST", "SUPPORTED_SPEED", "SUPPORTED_FEC_MODE",
          "SUPPORTED_HALF_DUPLEX_SPEED", "SUPPORTED_AUTO_NEG_MODE",
          "SUPPORTED_FLOW_CONTROL_MODE", "SUPPORTED_ASYMMETRIC_PAUSE_MODE",
          "SUPPORTED_MEDIA_TYPE", "NUMBER_OF_INGRESS_PRIORITY_GROUPS",
          "INGRESS_PRIORITY_GROUP_LIST", "OPER_SPEED", "HW_LANE_LIST",
          "FULL_DUPLEX_MODE"},
   w |-> {"INGRESS_ACL"},
   none |-> {"REMOTE_ADVERTISED_SPEED", "REMOTE_ADVERTISED_FEC_MODE",
             "REMOTE_ADVERTISED_HALF_DUPLEX_SPEED",
             "REMOTE_ADVERTISED_AUTO_NEG_MODE",
             "REMOTE_ADVERTISED_FLOW_CONTROL_MODE",
             "REMOTE_ADVERTISED_ASYMMETRIC_PAUSE_MODE",
             "REMOTE_ADVERTISED_MEDIA_TYPE", "REMOTE_ADVERTISED_OUI_CODE",
             "EYE_VALUES", "MEDIA_TYPE", "ADVERTISED_SPEED",
             "ADVERTISED_FEC_MODE", "ADVERTISED_HALF_DUPLEX_SPEED",
             "ADVERTISED_AUTO_NEG_MODE", "ADVERTISED_FLOW_CONTROL_MODE",
             "ADVERTISED_ASYMMETRIC_PAUSE_MODE", "ADVERTISED_MEDIA_TYPE",
             "ADVERTISED_OUI_CODE", "EGRESS_ACL", "QOS_DEFAULT_TC",
             "QOS_TC_TO_QUEUE_MAP", "QOS_TC_TO_PRIORITY_GROUP_MAP",
             "QOS_PFC_PRIORITY_TO_PRIORITY_GROUP_MAP",
             "QOS_PFC_PRIORITY_TO_QUEUE_MAP",
             "QOS_INGRESS_BUFFER_PROFILE_LIST",
             "QOS_EGRESS_BUFFER_PROFILE_LIST", "HW_PROFILE_ID",
             "EEE_IDLE_TIME", "EEE_WAKE_TIME", "PORT_POOL_LIST", "TAM_OBJECT",
             "SERDES_PREEMPHASIS", "SERDES_IDRIVER", "SERDES_IPREDRIVER",
             "LINK_TRAINING_ENABLE", "PORT_SERDES_ID"}]

PtpDomainTable ==
  [rw |-> {"PTP_ENABLE_BASED_TYPE", "DEVICE_TYPE", "ADJUEST_CLOCK_OFFSET",
           "TOD_INTF_FORMAT_TYPE", "TOD_INTF_ENABLE", "TOD_INTF_MODE",
           "TOD_INTF_LEAP_SECOND", "TOD_INTF_PPS_STATUS",
           "TOD_INTF_PPS_ACCURACY"},
   r |-> {"TAI_TIMESTAMP", "CAPTURED_TIMESTAMP"}, w |-> {}, none |-> {}]

QosMapTable ==
  [rw |-> {"MAP_TO_VALUE_LIST"},
   r |-> {"TYPE"}, w |-> {}, none |-> {}]

QueueTable ==
  [rw |-> {"PARENT_SCHEDULER_NODE", "WRED_PROFILE_ID", "BUFFER_PROFILE_ID",
           "SCHEDULER_PROFILE_ID"},
   r |-> {"TYPE", "PORT", "INDEX"}, w |-> {},
   none |-> {"PAUSE_STATUS", "ENABLE_PFC_DLDR"}]

RouteEntryTable ==
  [rw |-> {"PACKET_ACTION", "USER_TRAP_ID", "NEXT_HOP_ID", "META_DATA",
           "COUNTER_ID"},
   r |-> {"IP_ADDR_FAMILY"}, w |-> {}, none |-> {}]

RouterInterfaceTable ==
  [rw |-> {"VIRTUAL_ROUTER_ID", "TYPE", "PORT_ID", "VLAN_ID", "OUTER_VLAN_ID",
           "INNER_VLAN_ID", "SRC_MAC_ADDRESS", "ADMIN_V4_STATE",
           "ADMIN_V6_STATE", "MTU", "INGRESS_ACL", "EGRESS_ACL",
           "NEIGHBOR_MISS_PACKET_ACTION", "V4_MCAST_ENABLE", "V6_MCAST_ENABLE",
           "CUSTOM_STATS_STATE", "NAT_ZONE_ID"},
   r |-> {"BRIDGE_ID", "IS_VIRTUAL"}, w |-> {}, none |-> {}]

SamplepacketTable ==
  [rw |-> {"SAMPLE_RATE"},
   r |-> {"TYPE", "MODE"}, w |-> {}, none |-> {}]

SchedulerTable ==
  [rw |-> {"SCHEDULING_TYPE", "SCHEDULING_WEIGHT", "MIN_BANDWIDTH_RATE",
           "MIN_BANDWIDTH_BURST_RATE", "MAX_BANDWIDTH_RATE",
           "MAX_BANDWIDTH_BURST_RATE"},
   r |-> {"METER_TYPE"}, w |-> {}, none |-> {}]

SchedulerGroupTable ==
  [rw |-> {"SCHEDULER_PROFILE_ID", "PARENT_NODE"},
   r |-> {"CHILD_COUNT", "CHILD_LIST", "PORT_ID", "LEVEL", "MAX_CHILDS"},
   w |-> {}, none |-> {}]

StpTable ==
  [rw |-> {},
   r |-> {"VLAN_LIST", "PORT_LIST", "BRIDGE_ID"}, w |-> {}, none |-> {}]

StpPortTable ==
  [rw |-> {"STATE"},
   r |-> {"STP", "BRIDGE_PORT"}, w |-> {}, none |-> {}]

SwitchTable1 ==
  [rw |-> {"INGRESS_ACL", "EGRESS_ACL", "RESTART_WARM", "SWITCHING_MODE",
           "BCAST_CPU_FLOOD_ENABLE", "MCAST_CPU_FLOOD_ENABLE",
           "SRC_MAC_ADDRESS", "MAX_LEARNED_ADDRESSES", "FDB_AGING_TIME",
           "FDB_UNICAST_MISS_PACKET_ACTION",
           "FDB_BROADCAST_MISS_PACKET_ACTION",
           "FDB_MULTICAST_MISS_PACKET_ACTION", "ECMP_DEFAULT_HASH_ALGORITHM",
           "ECMP_DEFAULT_HASH_SEED", "ECMP_DEFAULT_SYMMETRIC_HASH",
           "ECMP_HASH_IPV4", "ECMP_HASH_IPV4_IN_IPV4", "ECMP_HASH_IPV6",
           "LAG_DEFAULT_HASH_ALGORITHM", "LAG_DEFAULT_HASH_SEED",
           "LAG_DEFAULT_SYMMETRIC_HASH", "LAG_HASH_IPV4",
           "LAG_HASH_IPV4_IN_IPV4", "LAG_HASH_IPV6",
           "COUNTER_REFRESH_INTERVAL", "QOS_DEFAULT_TC", "QOS_DOT1P_TO_TC_MAP",
           "QOS_DOT1P_TO_COLOR_MAP", "QOS_DSCP_TO_TC_MAP",
           "QOS_DSCP_TO_COLOR_MAP", "QOS_TC_TO_QUEUE_MAP",
           "QOS_TC_AND_COLOR_TO_DOT1P_MAP", "QOS_TC_AND_COLOR_TO_DSCP_MAP",
           "SWITCH_SHELL_ENABLE", "SWITCH_STATE_CHANGE_NOTIFY",
           "SWITCH_SHUTDOWN_REQUEST_NOTIFY", "FDB_EVENT_NOTIFY",
           "PORT_STATE_CHANGE_NOTIFY", "PACKET_EVENT_NOTIFY",
           "TWAMP_STATUS_CHANGE_NOTIFY", "MAX_TWAMP_SESSION",
           "FAST_API_ENABLE", "MIRROR_TC", "QUEUE_PFC_DEADLOCK_NOTIFY",
           "PFC_DLR_PACKET_ACTION", "PFC_TC_DLD_INTERVAL_RANGE",
           "PFC_TC_DLD_INTERVAL", "PFC_TC_DLR_INTERVAL_RANGE",
           "PFC_TC_DLR_INTERVAL", "TPID_OUTER_VLAN", "TPID_INNER_VLAN",
           "CRC_CHECK_ENABLE", "CRC_RECALCULATION_ENABLE",
           "BFD_SESSION_STATE_CHANGE_NOTIFY", "VXLAN_DEFAULT_ROUTER_MAC",
           "VXLAN_DEFAULT_PORT"},
   r |-> {"NUMBER_OF_ACTIVE_PORTS", "MAX_NUMBER_OF_SUPPORTED_PORTS",
          "PORT_LIST", "PORT_MAX_MTU", "CPU_PORT", "MAX_VIRTUAL_ROUTERS",
          "FDB_TABLE_SIZE", "L3_NEIGHBOR_TABLE_SIZE", "L3_ROUTE_TABLE_SIZE",
          "LAG_MEMBERS", "NUMBER_OF_LAGS", "ECMP_MEMBERS",
          "NUMBER_OF_ECMP_GROUPS", "NUMBER_OF_UNICAST_QUEUES",
          "NUMBER_OF_MULTICAST_QUEUES", "NUMBER_OF_QUEUES",
          "NUMBER_OF_CPU_QUEUES", "ON_LINK_ROUTE_SUPPORTED", "OPER_STATUS",
          "MAX_NUMBER_OF_TEMP_SENSORS", "TEMP_LIST", "MAX_TEMP",
          "AVERAGE_TEMP", "ACL_TABLE_MINIMUM_PRIORITY",
          "ACL_TABLE_MAXIMUM_PRIORITY", "ACL_ENTRY_MINIMUM_PRIORITY",
          "ACL_ENTRY_MAXIMUM_PRIORITY", "ACL_TABLE_GROUP_MINIMUM_PRIORITY",
          "ACL_TABLE_GROUP_MAXIMUM_PRIORITY", "FDB_DST_USER_META_DATA_RANGE",
          "ROUTE_DST_USER_META_DATA_RANGE",
          "NEIGHBOR_DST_USER_META_DATA_RANGE", "PORT_USER_META_DATA_RANGE",
          "VLAN_USER_META_DATA_RANGE", "ACL_USER_META_DATA_RANGE",
          "ACL_USER_TRAP_ID_RANGE", "DEFAULT_VLAN_ID", "DEFAULT_STP_INST_ID",
          "MAX_STP_INSTANCE", "DEFAULT_VIRTUAL_ROUTER_ID",
          "DEFAULT_1Q_BRIDGE_ID", "QOS_MAX_NUMBER_OF_TRAFFIC_CLASSES",
          "QOS_MAX_NUMBER_OF_SCHEDULER_GROUP_HIERARCHY_LEVELS",
          "QOS_MAX_NUMBER_OF_SCHEDULER_GROUPS_PER_HIERARCHY_LEVEL",
          "QOS_MAX_NUMBER_OF_CHILDS_PER_SCHEDULER_GROUP", "TOTAL_BUFFER_SIZE",
          "INGRESS_BUFFER_POOL_NUM", "EGRESS_BUFFER_POOL_NUM",
          "AVAILABLE_IPV4_ROUTE_ENTRY", "AVAILABLE_IPV6_ROUTE_ENTRY",
          "AVAILABLE_IPV4_NEXTHOP_ENTRY", "AVAILABLE_IPV6_NEXTHOP_ENTRY",
          "AVAILABLE_IPV4_NEIGHBOR_ENTRY", "AVAILABLE_IPV6_NEIGHBOR_ENTRY",
          "AVAILABLE_NEXT_HOP_GROUP_ENTRY",
          "AVAILABLE_NEXT_HOP_GROUP_MEMBER_ENTRY", "AVAILABLE_FDB_ENTRY",
          "AVAILABLE_L2MC_ENTRY", "AVAILABLE_IPMC_ENTRY",
          "AVAILABLE_SNAT_ENTRY", "AVAILABLE_DNAT_ENTRY",
          "AVAILABLE_ACL_TABLE", "AVAILABLE_ACL_TABLE_GROUP",
          "DEFAULT_TRAP_GROUP", "ECMP_HASH", "LAG_HASH", "RESTART_TYPE",
          "MIN_PLANNED_RESTART_INTERVAL", "NV_STORAGE_SIZE",
          "MAX_ACL_ACTION_COUNT", "MAX_ACL_RANGE_COUNT", "ACL_CAPABILITY",
          "MCAST_SNOOPING_CAPABILITY", "SWITCH_PROFILE_ID",
          "SWITCH_HARDWARE_INFO", "FIRMWARE_PATH_NAME", "INIT_SWITCH",
          "ACL_STAGE_INGRESS", "ACL_STAGE_EGRESS",
          "SEGMENTROUTE_MAX_SID_DEPTH", "SEGMENTROUTE_TLV_TYPE",
          "QOS_NUM_LOSSLESS_QUEUES", "SUPPORTED_PROTECTED_OBJECT_TYPE",
          "NUMBER_OF_BFD_SESSION", "MAX_BFD_SESSION",
          "SUPPORTED_IPV4_BFD_SESSION_OFFLOAD_TYPE",
          "SUPPORTED_IPV6_BFD_SESSION_OFFLOAD_TYPE", "MIN_BFD_RX",
          "MIN_BFD_TX"}, w |-> {},
   none |-> {"AVAILABLE_DOUBLE_NAT_ENTRY", "WARM_RECOVER",
             "ECN_ECT_THRESHOLD_ENABLE", "MAX_MIRROR_SESSION"}]

SwitchTable2 ==
  [rw |-> {"UNINIT_DATA_PLANE_ON_REMOVAL", "PRE_SHUTDOWN",
           "Y1731_SESSION_EVENT_NOTIFY"},
   r |-> {"SUPPORTED_EXTENDED_STATS_MODE", "NUMBER_OF_Y1731_SESSION",
          "MAX_Y1731_SESSION",
          "SUPPORTED_Y1731_SESSION_PERFORMANCE_MONITOR_OFFLOAD_TYPE"},
   w |-> {},
   none |-> {"MAX_SAMPLED_MIRROR_SESSION", "TAM_OBJECT_ID", "TAM_EVENT_NOTIFY",
             "NAT_ZONE_COUNTER_OBJECT_ID", "NAT_ENABLE"}]

SwitchTable == JoinedTable({SwitchTable1, SwitchTable2})

SynceTable ==
  [rw |-> {"RECOVERED_PORT", "CLOCK_DIVIDER"}, r |-> {}, w |-> {}, none |-> {}]

TamTable ==
  [rw |-> {"TELEMETRY_OBJECTS_LIST", "EVENT_OBJECTS_LIST",
           "TAM_BIND_POINT_TYPE_LIST"}, r |-> {}, w |-> {}, none |-> {}]

TamMathFuncTable ==
  [rw |-> {"TAM_TEL_MATH_FUNC_TYPE"}, r |-> {}, w |-> {}, none |-> {}]

TamReportTable ==
  [rw |-> {"TYPE", "HISTOGRAM_NUMBER_OF_BINS", "HISTOGRAM_BIN_BOUNDARY"},
   r |-> {}, w |-> {}, none |-> {}]

TamEventThresholdTable ==
  [rw |-> {"HIGH_WATERMARK", "LOW_WATERMARK", "LATENCY", "RATE", "ABS_VALUE",
           "UNIT"}, r |-> {}, w |-> {}, none |-> {}]

TamTelTypeTable ==
  [rw |-> {"TAM_TELEMETRY_TYPE", "SWITCH_ENABLE_PORT_STATS",
           "SWITCH_ENABLE_PORT_STATS_INGRESS",
           "SWITCH_ENABLE_PORT_STATS_EGRESS",
           "SWITCH_ENABLE_VIRTUAL_QUEUE_STATS",
           "SWITCH_ENABLE_OUTPUT_QUEUE_STATS", "SWITCH_ENABLE_MMU_STATS",
           "SWITCH_ENABLE_FABRIC_STATS", "SWITCH_ENABLE_FILTER_STATS",
           "SWITCH_ENABLE_RESOURCE_UTILIZATION_STATS", "FABRIC_Q", "NE_ENABLE",
           "DSCP_VALUE", "MATH_FUNC", "REPORT_ID"}, r |-> {}, w |-> {},
   none |-> {}]

TamTransportTable ==
  [rw |-> {"TRANSPORT_TYPE", "SRC_PORT", "DST_PORT", "TRANSPORT_AUTH_TYPE",
           "MTU"}, r |-> {}, w |-> {}, none |-> {}]

TamTelemetryTable ==
  [rw |-> {"TAM_TYPE_LIST", "COLLECTOR_LIST", "TAM_REPORTING_UNIT",
           "REPORTING_INTERVAL"}, r |-> {}, w |-> {}, none |-> {}]

TamCollectorTable ==
  [rw |-> {"SRC_IP", "DST_IP", "LOCALHOST", "VIRTUAL_ROUTER_ID",
           "TRUNCATE_SIZE", "TRANSPORT", "DSCP_VALUE"}, r |-> {}, w |-> {},
   none |-> {}]

TamEventActionTable ==
  [rw |-> {"REPORT_TYPE", "QOS_ACTION_TYPE"}, r |-> {}, w |-> {}, none |-> {}]

TamEventTable ==
  [rw |-> {"TYPE", "ACTION_LIST", "COLLECTOR_LIST", "THRESHOLD", "DSCP_VALUE"},
   r |-> {}, w |-> {}, none |-> {}]

TunnelMapEntryTable ==
  [rw |-> {},
   r |-> {"TUNNEL_MAP_TYPE", "TUNNEL_MAP", "OECN_KEY", "OECN_VALUE",
          "UECN_KEY", "UECN_VALUE", "VLAN_ID_KEY", "VLAN_ID_VALUE",
          "VNI_ID_KEY", "VNI_ID_VALUE", "BRIDGE_ID_KEY", "BRIDGE_ID_VALUE",
          "VIRTUAL_ROUTER_ID_KEY", "VIRTUAL_ROUTER_ID_VALUE"}, w |-> {},
   none |-> {}]

TunnelMapTable ==
  [rw |-> {},
   r |-> {"TYPE", "ENTRY_LIST"}, w |-> {}, none |-> {}]

TunnelTable ==
  [rw |-> {"ENCAP_GRE_KEY_VALID", "ENCAP_GRE_KEY", "DECAP_MPLS_PW_WITH_CW",
           "ENCAP_MPLS_PW_WITH_CW", "ENCAP_MPLS_PW_TAGGED_VLAN",
           "DECAP_ESI_LABEL_VALID", "ENCAP_ESI_LABEL_VALID",
           "DECAP_ACL_USE_OUTER_HDR_INFO"},
   r |-> {"TYPE", "UNDERLAY_INTERFACE", "OVERLAY_INTERFACE", "ENCAP_SRC_IP",
          "ENCAP_TTL_MODE", "ENCAP_TTL_VAL", "ENCAP_DSCP_MODE",
          "ENCAP_DSCP_VAL", "ENCAP_ECN_MODE", "ENCAP_MAPPERS",
          "DECAP_ECN_MODE", "DECAP_MAPPERS", "DECAP_TTL_MODE",
          "DECAP_DSCP_MODE", "TERM_TABLE_ENTRY_LIST", "ENCAP_NEXTHOP_ID",
          "DECAP_MPLS_PW_MODE", "ENCAP_MPLS_PW_MODE", "DECAP_EXP_MODE",
          "ENCAP_EXP_MODE", "ENCAP_EXP_VAL"}, w |-> {}, none |-> {}]

TunnelTermTableEntryTable ==
  [rw |-> {},
   r |-> {"VR_ID", "TYPE", "DST_IP", "SRC_IP", "TUNNEL_TYPE",
          "ACTION_TUNNEL_ID"}, w |-> {}, none |-> {}]

TwampSessionTable ==
  [rw |-> {"PORT", "SESSION_ROLE", "UDP_SRC_PORT", "UDP_DST_PORT", "SRC_IP",
           "DST_IP", "TC", "VPN_VIRTUAL_ROUTE", "TWAMP_ENCAPSULATION_TYPE",
           "SESSION_ENABLE_TRANSMIT", "HW_LOOKUP_VALID", "PADDING_LENGTH",
           "STATE", "AUTH_MODE", "NEXT_HOP_ID", "TX_PKT_PERIOD", "TX_RATE",
           "TX_PKT_CNT", "TX_PKT_DURATION", "MODE"}, r |-> {}, w |-> {},
   none |-> {}]

UdfGroupTable ==
  [rw |-> {},
   r |-> {"UDF_LIST", "TYPE", "LENGTH"}, w |-> {}, none |-> {}]

UdfMatchTable ==
  [rw |-> {},
   r |-> {"L2_TYPE", "L3_TYPE", "GRE_TYPE", "PRIORITY"}, w |-> {}, none |-> {}]

UdfTable ==
  [rw |-> {"BASE", "HASH_MASK"},
   r |-> {"MATCH_ID", "GROUP_ID", "OFFSET"}, w |-> {}, none |-> {}]

VirtualRouterTable ==
  [rw |-> {"ADMIN_V4_STATE", "ADMIN_V6_STATE", "SRC_MAC_ADDRESS"}, r |-> {},
   w |-> {},
   none |-> {"VIOLATION_TTL1_PACKET_ACTION",
             "VIOLATION_IP_OPTIONS_PACKET_ACTION",
             "UNKNOWN_L3_MULTICAST_PACKET_ACTION"}]

VlanTable ==
  [rw |-> {"MAX_LEARNED_ADDRESSES", "STP_INSTANCE", "LEARN_DISABLE",
           "META_DATA", "UNKNOWN_UNICAST_FLOOD_CONTROL_TYPE",
           "IPV4_MCAST_LOOKUP_KEY_TYPE", "IPV6_MCAST_LOOKUP_KEY_TYPE",
           "UNKNOWN_MULTICAST_FLOOD_CONTROL_TYPE",
           "BROADCAST_FLOOD_CONTROL_TYPE", "CUSTOM_IGMP_SNOOPING_ENABLE",
           "CUSTOM_STATS_ENABLE", "PTP_DOMAIN_ID"},
   r |-> {"VLAN_ID", "MEMBER_LIST"},
   w |-> {"INGRESS_ACL", "EGRESS_ACL"}, none |-> {}]

VlanMemberTable ==
  [rw |-> {"VLAN_TAGGING_MODE"},
   r |-> {"VLAN_ID", "BRIDGE_PORT_ID"}, w |-> {}, none |-> {}]

WredTable ==
  [rw |-> {"GREEN_ENABLE", "GREEN_MIN_THRESHOLD", "GREEN_MAX_THRESHOLD",
           "GREEN_DROP_PROBABILITY", "YELLOW_ENABLE", "YELLOW_MIN_THRESHOLD",
           "YELLOW_MAX_THRESHOLD", "YELLOW_DROP_PROBABILITY", "RED_ENABLE",
           "RED_MIN_THRESHOLD", "RED_MAX_THRESHOLD", "RED_DROP_PROBABILITY"},
   r |-> {}, w |-> {},
   none |-> {"WEIGHT", "ECN_MARK_MODE"}]

Y1731MegTable ==
  [rw |-> {},
   r |-> {"TYPE", "NAME", "LEVEL"}, w |-> {}, none |-> {}]

Y1731SessionTable ==
  [rw |-> {"LOCAL_MEP_ID", "CCM_PERIOD", "CCM_ENABLE", "LM_ENABLE", "LM_TYPE",
           "DM_ENABLE", "LOCAL_RDI", "TTL", "EXP_OR_COS", "NEXT_HOP_ID"},
   r |-> {"MEG", "DIR", "VLAN_ID", "BRIDGE_ID", "PORT_ID", "MPLS_IN_LABEL",
          "REMOTE_MEP_LIST", "LM_OFFLOAD_TYPE", "DM_OFFLOAD_TYPE",
          "TP_ROUTER_INTERFACE_ID", "TP_WITHOUT_GAL"}, w |-> {}, none |-> {}]

Y1731RemoteMepTable ==
  [rw |-> {"REMOTE_MEP_MAC_ADDRESS"},
   r |-> {"Y1731_SESSION_ID", "REMOTE_MEP_ID", "CONNECTION_ESTABLISHED"},
   w |-> {}, none |-> {}]

(* The table of each object type *)
Table ==
  [acl_table_group |-> AclTableGroupTable,
   acl_table_group_member |-> AclTableGroupMemberTable,
   acl_table |-> AclTableTable,
   acl_entry |-> AclEntryTable,
   acl_range |-> AclRangeTable,
   acl_counter |-> AclCounterTable,
   bfd_session |-> BfdSessionTable,
   bridge_port |-> BridgePortTable,
   bridge |-> BridgeTable,
   buffer_profile |-> BufferProfileTable,
   ingress_priority_group |-> IngressPriorityGroupTable,
   counter |-> CounterTable,
   debug_counter |-> DebugCounterTable,
   es |-> EsTable,
   fdb_entry |-> FdbEntryTable,
   hostif |-> HostifTable,
   hostif_table_entry |-> HostifTableEntryTable,
   hostif_trap_group |-> HostifTrapGroupTable,
   hostif_trap |-> HostifTrapTable,
   hostif_user_defined_trap |-> HostifUserDefinedTrapTable,
   isolation_group |-> IsolationGroupTable,
   isolation_group_member |-> IsolationGroupMemberTable,
   lag |-> LagTable,
   lag_member |-> LagMemberTable,
   hash |-> HashTable,
   l2mc_group |-> L2mcGroupTable,
   l2mc_group_member |-> L2mcGroupMemberTable,
   l2mc_entry |-> L2mcEntryTable,
   mcast_fdb_entry |-> McastFdbEntryTable,
   ipmc_group |-> IpmcGroupTable,
   ipmc_group_member |-> IpmcGroupMemberTable,
   rpf_group |-> RpfGroupTable,
   rpf_group_member |-> RpfGroupMemberTable,
   ipmc_entry |-> IpmcEntryTable,
   mirror_session |-> MirrorSessionTable,
   inseg_entry |-> InsegEntryTable,
   nat_entry |-> NatEntryTable,
   neighbor_entry |-> NeighborEntryTable,
   next_hop |-> NextHopTable,
   next_hop_group |-> NextHopGroupTable,
   next_hop_group_member |-> NextHopGroupMemberTable,
   npm_session |-> NpmSessionTable,
   policer |-> PolicerTable,
   port |-> PortTable,
   ptp_domain |-> PtpDomainTable,
   qos_map |-> QosMapTable,
   queue |-> QueueTable,
   route_entry |-> RouteEntryTable,
   router_interface |-> RouterInterfaceTable,
   samplepacket |-> SamplepacketTable,
   scheduler |-> SchedulerTable,
   scheduler_group |-> SchedulerGroupTable,
   stp |-> StpTable,
   stp_port |-> StpPortTable,
   switch |-> SwitchTable,
   synce |-> SynceTable,
   tam |-> TamTable,
   tam_math_func |-> TamMathFuncTable,
   tam_report |-> TamReportTable,
   tam_event_threshold |-> TamEventThresholdTable,
   tam_tel_type |-> TamTelTypeTable,
   tam_transport |-> TamTransportTable,
   tam_telemetry |-> TamTelemetryTable,
   tam_collector |-> TamCollectorTable,
   tam_event_action |-> TamEventActionTable,
   tam_event |-> TamEventTable,
   tunnel_map_entry |-> TunnelMapEntryTable,
   tunnel_map |-> TunnelMapTable,
   tunnel |-> TunnelTable,
   tunnel_term_table_entry |-> TunnelTermTableEntryTable,
   twamp_session |-> TwampSessionTable,
   udf_group |-> UdfGroupTable,
   udf_match |-> UdfMatchTable,
   udf |-> UdfTable,
   virtual_router |-> VirtualRouterTable,
   vlan |-> VlanTable,
   vlan_member |-> VlanMemberTable,
   wred |-> WredTable,
   y1731_meg |-> Y1731MegTable,
   y1731_session |-> Y1731SessionTable,
   y1731_remote_mep |-> Y1731RemoteMepTable]

(* How a set or get function treats attributes it does not simply store or *)
(* read: refused returns an error whatever the value; idle returns success *)
(* and does nothing; a pair of spills writes the second attribute with the *)
(* first (a case without break, a wrong or a shared field); odd stores the *)
(* value cut to 8 bits, or reads another field than the one stored. What *)
(* depends on the object's state or on the SDK is not told apart. *)
Plain == [refused |-> {}, idle |-> {}, spills |-> {}, odd |-> {}]

Both(f, g) == [k \in DOMAIN f |-> f[k] \cup g[k]]

BfdSetInfo ==
  [Plain EXCEPT !.refused = {"VIRTUAL_ROUTER", "PORT", "TC", "SRC_MAC_ADDRESS",
                             "DST_MAC_ADDRESS"},
                !.idle = {"HW_LOOKUP_VALID", "LOCAL_DISCRIMINATOR",
                          "REMOTE_DISCRIMINATOR", "UDP_SRC_PORT",
                          "BFD_ENCAPSULATION_TYPE", "IPHDR_VERSION",
                          "MULTIHOP", "OFFLOAD_TYPE", "MPLS_ENCAP_BFD_TYPE",
                          "ACH_HEADER_VALID", "TP_ROUTER_INTERFACE_ID",
                          "NEXT_HOP_ID"},
                !.spills = {<<"TTL", "MPLS_TTL">>},
                !.odd = {"MIN_TX", "MIN_RX"}]

BridgePortSetProperty ==
  [Plain EXCEPT !.refused = {"TAGGING_MODE", "FDB_LEARNING_MODE"}]

BridgeSetProperty ==
  [Plain EXCEPT !.refused = {"UNKNOWN_UNICAST_FLOOD_GROUP",
                             "UNKNOWN_MULTICAST_FLOOD_GROUP",
                             "BROADCAST_FLOOD_GROUP"}]

FdbSetInfo ==
  [Plain EXCEPT !.refused = {"USER_TRAP_ID", "COUNTER_ID", "ENDPOINT_IP"}]

TrapSetProperty ==
  [Plain EXCEPT !.refused = {"MIRROR_SESSION"}]

\* mutant: the mode of a live LAG can be set
LagSetInfo_open == Plain

LagSetInfo ==
  [Plain EXCEPT !.refused = {"MODE"}]

MirrSetAttr ==
  [Plain EXCEPT !.refused = {"TC", "VLAN_TPID", "VLAN_PRI", "VLAN_CFI",
                             "ERSPAN_ENCAPSULATION_TYPE"}]

MplsSetAttr ==
  [Plain EXCEPT !.idle = {"TRAP_PRIORITY"}]

RouteSetAttr ==
  [Plain EXCEPT !.refused = {"USER_TRAP_ID"}]

RifSetAttr ==
  [Plain EXCEPT !.refused = {"INGRESS_ACL", "EGRESS_ACL"},
                !.idle = {"TYPE", "PORT_ID", "VLAN_ID", "OUTER_VLAN_ID",
                          "INNER_VLAN_ID"}]

SwitchSetAcl ==
  [Plain EXCEPT !.refused = {"EGRESS_ACL"}]

SwitchSetGlobal ==
  [Plain EXCEPT !.refused = {"SWITCHING_MODE", "BCAST_CPU_FLOOD_ENABLE",
                             "MCAST_CPU_FLOOD_ENABLE",
                             "COUNTER_REFRESH_INTERVAL", "FAST_API_ENABLE",
                             "MIRROR_TC"}]

SwitchSetHash ==
  [Plain EXCEPT !.refused = {"ECMP_HASH_IPV4", "ECMP_HASH_IPV4_IN_IPV4",
                             "ECMP_HASH_IPV6", "LAG_HASH_IPV4",
                             "LAG_HASH_IPV4_IN_IPV4", "LAG_HASH_IPV6"},
                !.idle = {"ECMP_DEFAULT_HASH_SEED", "LAG_DEFAULT_HASH_SEED"},
                !.spills = {<<"ECMP_DEFAULT_SYMMETRIC_HASH",
                  "LAG_DEFAULT_SYMMETRIC_HASH">>,
                  <<"LAG_DEFAULT_SYMMETRIC_HASH",
                  "ECMP_DEFAULT_SYMMETRIC_HASH">>}]

SwitchSetQos ==
  [Plain EXCEPT !.refused = {"QUEUE_PFC_DEADLOCK_NOTIFY",
                             "PFC_DLR_PACKET_ACTION",
                             "PFC_TC_DLD_INTERVAL_RANGE",
                             "PFC_TC_DLD_INTERVAL",
                             "PFC_TC_DLR_INTERVAL_RANGE",
                             "PFC_TC_DLR_INTERVAL"}]

TunnelSetProperty ==
  [Plain EXCEPT !.refused = {"ENCAP_GRE_KEY_VALID"}]

NpmSetAttr ==
  [Plain EXCEPT !.refused = {"PORT", "SESSION_ROLE", "UDP_SRC_PORT",
                             "UDP_DST_PORT", "SRC_IP", "DST_IP", "TC",
                             "VPN_VIRTUAL_ROUTE", "NPM_ENCAPSULATION_TYPE",
                             "TX_PKT_PERIOD", "TX_RATE", "TX_PKT_CNT",
                             "TX_PKT_DURATION", "MODE"}]

TwampSetAttr ==
  [Plain EXCEPT !.refused = {"PORT", "SESSION_ROLE", "UDP_SRC_PORT",
                             "UDP_DST_PORT", "SRC_IP", "DST_IP", "TC",
                             "VPN_VIRTUAL_ROUTE", "TWAMP_ENCAPSULATION_TYPE",
                             "HW_LOOKUP_VALID", "PADDING_LENGTH", "STATE",
                             "AUTH_MODE", "NEXT_HOP_ID", "TX_PKT_PERIOD",
                             "TX_RATE", "TX_PKT_CNT", "TX_PKT_DURATION",
                             "MODE"}]

UdfSetAttr ==
  [Plain EXCEPT !.refused = {"BASE"}]

SessionSetInfo ==
  [Plain EXCEPT !.spills = {<<"LOCAL_MEP_ID", "CCM_PERIOD">>, <<"LOCAL_RDI",
                            "LM_ENABLE">>}]

BfdGetInfo ==
  [Plain EXCEPT !.refused = {"TC", "REMOTE_MIN_TX", "REMOTE_MIN_RX"}]

BridgePortGetProperty ==
  [Plain EXCEPT !.refused = {"FDB_LEARNING_MODE"}]

BridgeGetProperty ==
  [Plain EXCEPT !.refused = {"UNKNOWN_UNICAST_FLOOD_GROUP",
                             "UNKNOWN_MULTICAST_FLOOD_GROUP",
                             "BROADCAST_FLOOD_GROUP"}]

FdbGetInfo ==
  [Plain EXCEPT !.refused = {"USER_TRAP_ID", "COUNTER_ID", "ENDPOINT_IP"}]

TrapGetProperty ==
  [Plain EXCEPT !.refused = {"MIRROR_SESSION"}]

MplsGetAttr ==
  [Plain EXCEPT !.refused = {"TRAP_PRIORITY"}]

MirrGetAttr ==
  [Plain EXCEPT !.refused = {"TC"}]

NextHopGetAttr ==
  [Plain EXCEPT !.idle = {"SEGMENTROUTE_SIDLIST_ID",
                          "SEGMENTROUTE_ENDPOINT_TYPE",
                          "SEGMENTROUTE_ENDPOINT_POP_TYPE"},
                !.odd = {"MPLS_ENCAP_TUNNEL_ID", "MPLS_DECAP_TUNNEL_ID"}]

GroupMemberGetAttr ==
  [Plain EXCEPT !.refused = {"WEIGHT", "MONITORED_OBJECT"}]

PtpGetInfo ==
  [Plain EXCEPT !.odd = {"ADJUEST_CLOCK_OFFSET"}]

RifGetAttr ==
  [Plain EXCEPT !.refused = {"INGRESS_ACL", "EGRESS_ACL", "INNER_VLAN_ID"},
                !.odd = {"BRIDGE_ID", "IS_VIRTUAL"}]

SwitchGetAcl ==
  [Plain EXCEPT !.refused = {"ACL_TABLE_GROUP_MINIMUM_PRIORITY",
                             "ACL_TABLE_GROUP_MAXIMUM_PRIORITY", "EGRESS_ACL",
                             "ACL_STAGE_EGRESS"}]

SwitchGetAvailable ==
  [Plain EXCEPT !.refused = {"AVAILABLE_ACL_TABLE",
                             "AVAILABLE_ACL_TABLE_GROUP"}]

SwitchGetGlobal ==
  [Plain EXCEPT !.refused = {"FIRMWARE_PATH_NAME"}]

SwitchGetHash ==
  [Plain EXCEPT !.refused = {"ECMP_HASH_IPV4", "ECMP_HASH_IPV4_IN_IPV4",
                             "ECMP_HASH_IPV6", "LAG_HASH_IPV4",
                             "LAG_HASH_IPV4_IN_IPV4", "LAG_HASH_IPV6"},
                !.odd = {"ECMP_DEFAULT_HASH_SEED", "LAG_DEFAULT_HASH_SEED"}]

SwitchGetQos ==
  [Plain EXCEPT !.refused = {"QOS_MAX_NUMBER_OF_TRAFFIC_CLASSES",
                  "QOS_MAX_NUMBER_OF_SCHEDULER_GROUP_HIERARCHY_LEVELS",
                  "QOS_MAX_NUMBER_OF_SCHEDULER_GROUPS_PER_HIERARCHY_LEVEL",
                  "QOS_MAX_NUMBER_OF_CHILDS_PER_SCHEDULER_GROUP",
                  "QUEUE_PFC_DEADLOCK_NOTIFY", "PFC_DLR_PACKET_ACTION",
                  "PFC_TC_DLD_INTERVAL_RANGE", "PFC_TC_DLD_INTERVAL",
                  "PFC_TC_DLR_INTERVAL_RANGE", "PFC_TC_DLR_INTERVAL"}]

TunnelGetProperty ==
  [Plain EXCEPT !.idle = {"TERM_TABLE_ENTRY_LIST"}]

VlanGetInfo ==
  [Plain EXCEPT !.refused = {"PTP_DOMAIN_ID"}]

(* The set functions of each object type *)
SetFn ==
   [bfd_session |-> BfdSetInfo,
    bridge_port |-> BridgePortSetProperty,
    bridge |-> BridgeSetProperty,
    fdb_entry |-> FdbSetInfo,
    hostif_trap |-> TrapSetProperty,
    lag |-> LagSetInfo,
    mirror_session |-> MirrSetAttr,
    inseg_entry |-> MplsSetAttr,
    route_entry |-> RouteSetAttr,
    router_interface |-> RifSetAttr,
    switch |-> Both(SwitchSetAcl, Both(SwitchSetGlobal, Both(SwitchSetHash, SwitchSetQos))),
    tunnel |-> TunnelSetProperty,
    npm_session |-> NpmSetAttr,
    twamp_session |-> TwampSetAttr,
    udf |-> UdfSetAttr,
    y1731_session |-> SessionSetInfo] @@ [t \in DOMAIN Table |-> Plain]

(* The get functions of each object type *)
GetFn ==
   [bfd_session |-> BfdGetInfo,
    bridge_port |-> BridgePortGetProperty,
    bridge |-> BridgeGetProperty,
    fdb_entry |-> FdbGetInfo,
    hostif_trap |-> TrapGetProperty,
    inseg_entry |-> MplsGetAttr,
    mirror_session |-> MirrGetAttr,
    next_hop |-> NextHopGetAttr,
    next_hop_group_member |-> GroupMemberGetAttr,
    ptp_domain |-> PtpGetInfo,
    router_interface |-> RifGetAttr,
    switch |-> Both(SwitchGetAcl, Both(SwitchGetAvailable, Both(SwitchGetGlobal, Both(SwitchGetHash, SwitchGetQos)))),
    tunnel |-> TunnelGetProperty,
    vlan |-> VlanGetInfo] @@ [t \in DOMAIN Table |-> Plain]

=============================================================================
