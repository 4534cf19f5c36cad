SPECIFICATION ServicesSpec
CONSTANTS
  Vrfs = {1}
  L3ifs = {1}
  Vifs = {1}
  StatsIds = {1, 2}
  Ports = {p1}
  Vlans = {vl1}
  Macs = {m1}
  DefaultMac = m1
  MaxRouterMac = 2
  RifTypes = {"VLAN", "BRIDGE", "LOOPBACK"}
  VirtualVals = {TRUE, FALSE}
  StatsAttrs = {"absent"}
  StatsTypes = {"VLAN"}
  V4Vals = {TRUE, FALSE}
  StatsSets = {TRUE}
  RifAttrs = {"stats"}
  VrAttrs = {"v4"}
  MaxPending = 1
  Faults = {"set_hw"}
  BfdSessions = {1, 2}
  BfdAddrs = {1}
  BfdNhs = {1, 2}
  BfdFaults = {"nh", "mep"}
  MepIdx = {1, 2}
  OamObjs = {1, 2}
  OamDefects = {1}
  MaxOamBatch = 2
  Megs = {1}
  YSessions = {1, 2}
  Rmeps = {1}
  MepKeys = {k1, k2}
  YAttrs = {"mepid", "period", "lm"}
  YValues = {0, 1}
  AttrVals = {0, 257}
  TwIds = {1, 2}
  TwPorts = {p1, p2}
  TwNhs = {1, 2, 3}
  OtherNhs = {1}
  TnMaps = {1}
  TnEntries = {1, 2}
  TnTunnels = {1}
  TnTerms = {1, 2}
  TnNhs = {1}
  TnVnis = {1, 2}
  TnDsts = {1}
  TnLports = {1, 2}
  TnStatsIds = {1, 2}
  TnTypes = {"GRE", "VXLAN"}
  MaxAttempts = 2
  MpLabels = {1, 2}
  MpSegs = {1}
  MpNhs = {1}
  MpIfs = {2}
  MpTuns = {1}
  MpPorts = {p1}
  MpActions = {"FORWARD"}
  McVlans = {1, 2}
  SgVlans = {1}
  McRifs = {3}
  McPorts = {p1}
  McGroups = {1, 2}
  McIpGroups = {1}
  RpfGroups = {1, 2}
  RpfIfs = {1, 2, 3}
  RpfEntries = {1}
  RpfSlots = {1, 2}
  NatSrcs = {1}
  NatDsts = {1, 2}
  NatNhs = {1, 2, 3}
  NatMacs = {1, 2}
  MaxBulk = 1
  IsoIds = {1, 2, 3}
  IsoPorts = {p1, p2}
  WbL3ifs = {1, 2}
  WbTwamps = {1}
  WbBridges = {1}
  QObjs = {1, 2}
  QVals = {1, 2}
  QMacs = {1, 2}
  QPage = 1
  PtPorts = {1}
  PtVals = {0, 1}
  SyIds = {1, 2}
  SyPorts = {1}
  UgIds = {1}
  UmIds = {1, 2}
  UdfIds = {1, 2}
  UdfOffsets = {0, 4}
  UgSlots = 2
  HashUsages = {"ECMP"}
  HashFields = {"SRC_IP"}
  DcIds = {1, 2}
  DcPorts = {1, 2}
  DcTypes = {"PORT_IN", "SWITCH_IN", "PORT_OUT"}
  DcReasons = {"FDB_UC_DISCARD", "BLACKHOLE_ROUTE", "EGRESS_VLAN_FILTER"}
  DcIndexes = 3
  DcMaxDrops = 1
  PoPorts = {1, 2}
  PoIfs = {1}
  PoSizes = {1, 2, 3}
  PoEntries = 2
  PoClasses = {1}
INVARIANTS
  VifPoolExact
  TunnelExact
  OamExact
  SystemExact
  SettingsExact
  DeliveryExact
