SPECIFICATION Spec
CONSTANTS
  VlanRifs = {v1}
  PortRifs = {}
  BridgeRifs = {}
  Ips = {ip1}
  Macs = {m1}
  Ports = {t1}
  NoMac = NoMac
  NoPort = NoPort
  NoHw = NoHw
  ArpIds = {1, 2}
  NhIds = {1, 2}
  OneVrf = FALSE
  MacAttrs = {TRUE}
  CreateActs = {"FORWARD"}
  SetActs = {"DROP"}
  MissActs = {"DROP"}
  HostAttrs = {"yes", "absent"}
  NbAttrs = {}
  RemoveAllUsed = FALSE
  BusyRifRemoved = FALSE
  HwLearning = TRUE
  MaxEvents = 1
  MaxNeighbors = 3
  CntWrap = 8
  Faults = {}
  v1 = v1
  ip1 = ip1
  m1 = m1
  t1 = t1
PROPERTIES
  FailedCreateUndone
CHECK_DEADLOCK TRUE
