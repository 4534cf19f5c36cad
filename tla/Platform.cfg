SPECIFICATION PlatformSpec
CONSTANTS
  Fids = {1, 2}
  Vids = {1, 2}
  StpIds = {1}
  FloodTypes = {"ucast"}
  MissActs = {"FORWARD", "TRAP"}
  NumStats = 3
  MaxBinds = 2
  Lags = {l1}
  MemberPorts = {p1, p2}
  LagVlans = {v1}
  LagStps = {s1}
  MaxSkew = 1
  NumQ = 2
  Scheds = {1, 2}
  SchGroups = {1}
  MaxChilds = 1
  MaxSchRef = 2
  Policers = {1, 2}
  PolPorts = {1, 2}
  PolEntries = {2}
  StormKinds = {"flood", "bcast"}
  Rates = {1, 2}
  MapIds = {1, 2, 3}
  MapLists = {1, 2}
  QosPorts = {g1, g2}
  NumDomains = 3
  Wreds = {1}
  Bufs = {1, 2}
  ProfQueues = {q1}
  Pgs = {pg1}
  Thresholds = {1, 2}
  MaxUsed = 2
  NormalReasons = {"lldp"}
  SpecialReasons = {"ttl"}
  UserReasons = {"router"}
  TrapGroups = {1, 2}
  CpuQueues = {1}
  EntryIds = {1, 2}
  MaxTrapRef = 2
  HifPorts = {"p1"}
  HifLags = {"l1"}
  HifVlans = {"v1"}
  Fds = {1, 2, 3}
  AclTables = {1, 2, 3}
  AclGroups = {4}
  AclEntries = {1}
  AclPrios = {1, 2}
  AclPoints = {p1}
  Egress = {3}
  SequentialGroups = {}
  AclTableSize = 1
  BlockNum = 2
  ActPoints = {q1, q2}
  ActionKinds = {"FORWARD", "TRAP", "DENY"}
  MaxActRef = 1
  MirSessions = {1, 2}
  MirDests = {d1, d2, d3}
  MirUsers = {1, 2, 3}
  AclUsers = {3}
  SlotNum = 1
  NhNum = 2
  Samples = {1, 2}
  SampleRates = {40, 70}
  SamPorts = {p1}
  SamDirs = {"in", "out"}
  SamEntries = {1, 2}
  MaxRate = 64
INVARIANTS
  MembersFollow
  AggregationExact
  CpuPathExact
  AclsExact
  MonitoringExact
  BridgingExact
  QosExact
