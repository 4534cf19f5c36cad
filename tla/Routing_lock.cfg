SPECIFICATION Spec
CONSTANTS
  IpNextHops = {n1}
  MplsNextHops = {}
  GroupIds = {1}
  ApsIds = {}
  MemberIds = {}
  Counters = {c1, c2}
  StatsIds = {1, 2}
  Prefixes = {r1, r2}
  GroupTypes = {"ECMP"}
  Acts = {"FORWARD", "CANCEL"}
  Drop = drop
  ToCpu = tocpu
  NoNh = nonh
  NoCtr = noctr
  Faults = {"ipuc"}
INVARIANTS CallReturns
CHECK_DEADLOCK FALSE
