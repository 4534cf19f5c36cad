SPECIFICATION Spec
CONSTANTS
  Vrfs = {1}
  L3ifs = {1, 2}
  Vifs = {1}
  StatsIds = {1, 2, 3, 4}
  StatsTypes = {"PORT", "SUB_PORT"}
  Ports = {p1}
  Vlans = {vl1, vl2}
  Macs = {m1, m2}
  DefaultMac = m1
  MaxRouterMac = 2
  RifTypes = {"PORT", "SUB_PORT", "BRIDGE"}
  VirtualVals = {FALSE}
  StatsAttrs = {"on", "off"}
  StatsSets = {TRUE}
  RifAttrs = {"mac"}
  V4Vals = {TRUE}
  VrAttrs = {"mac", "v4"}
  MaxPending = 1
  Faults = {"stats", "phy_if", "attr", "malloc"}
  p1 = p1
  vl1 = vl1
  vl2 = vl2
  m1 = m1
  m2 = m2
INVARIANTS
  TypeOK
  PoolsExact
  HwMatchesDb
  StatsExact
  PortModeExact
PROPERTIES
  CreatedInLiveVr
  FailedCreateUndone
