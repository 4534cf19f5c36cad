SPECIFICATION Spec
CONSTANTS
  IpNextHops = {n1}
  MplsNextHops = {}
  GroupIds = {1}
  ApsIds = {}
  MemberIds = {}
  Counters = {c1, c2}
  StatsIds = {1, 2}
  Prefixes = {r1, r2}
  GroupTypes = {"ECMP"}
  Acts = {"FORWARD", "TRAP"}
  Drop = drop
  ToCpu = tocpu
  NoNh = nonh
  NoCtr = noctr
  Faults = {"ipuc"}
INVARIANTS TypeOK RouteHwExact StatsOwned
CHECK_DEADLOCK FALSE
