SPECIFICATION Spec
CONSTANTS
  Vrfs = {1}
  L3ifs = {1, 2}
  Vifs = {1}
  StatsIds = {1, 2, 3, 4}
  Ports = {p1}
  Vlans = {vl1}
  Macs = {m1, m2}
  DefaultMac = m1
  MaxRouterMac = 2
  RifTypes = {"PORT", "VLAN", "SUB_PORT"}
  VirtualVals = {FALSE}
  StatsAttrs = {"absent","on"}
  StatsTypes = {"PORT", "VLAN", "SUB_PORT"}
  V4Vals = {TRUE}
  StatsSets = {TRUE}
  RifAttrs = {"vr", "mac", "v4", "stats"}
  VrAttrs = {"mac"}
  MaxPending = 1
  Faults = {}
  p1 = p1
  vl1 = vl1
  m1 = m1
  m2 = m2
INVARIANTS
  StatsDefaultOn
