SPECIFICATION Spec
CONSTANTS
  IpNextHops = {n1}
  MplsNextHops = {n2}
  GroupIds = {1, 2}
  ApsIds = {1}
  MemberIds = {1, 2, 3}
  Counters = {}
  StatsIds = {}
  Prefixes = {}
  GroupTypes = {"ECMP", "PROTECTION"}
  Acts = {"FORWARD"}
  Drop = drop
  ToCpu = tocpu
  NoNh = nonh
  NoCtr = noctr
  Faults = {"nh", "db_add"}
INVARIANTS EcmpExact ProtectionBacked PoolsExact
CHECK_DEADLOCK FALSE
