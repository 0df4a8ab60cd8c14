SPECIFICATION TopologySpec
CONSTANTS
  n1 = n1
  n2 = n2
  n3 = n3
  n4 = n4
  n5 = n5
  RoleDevices = {d1, d2}
  Detectors = {t1}
  Editors = {a1}
  ManualRoles = {"router"}
  Notes = {"none", "rack 1"}
  NoRow = NoRow
  Situations <- RoleSituations
  Nodes = {n1, n2, n3, n4, n5}
  Networks <- PathNetworks
  CoreSets <- PathCores
  NoEnd = NoEnd
  ViewDevices = {1, 2, 3}
  Ports <- ViewPortIds
  PortOf <- ViewPorts
  Cables <- ViewCables
  Views = {"graph", "layout", "links", "cable-map"}
  MaxCommits = 3
  Errors = {0, 25, 499}
  Drops = {0, 50, 999}
  Percents = {79, 80, 95}
  Powers <- HealthPowers
  Degrees = {54, 55, 70}
  NoReading = NoReading
  MaxWorse = 3
  SnapDevices = {d1, d2}
  Hostnames = {"sw1", "sw2"}
  LinkIds = {k1}
  NoSerial = NoSerial
  MaxSnapshots = 2
  MaxChanges = 2
  ta = ta
  tb = tb
  te = te
  mac1 = mac1
  mac2 = mac2
  ip1 = ip1
  EndpointRows <- TraceRows
  TraceMacs = {mac1}
  TraceAddresses = {ip1}
  TraceHosts = {"host"}
  FdbLimit = 3
  IpamFdbLimit = 1
  IfaceLimit = 1
  MaxReplaced = 2
  Nothing = Nothing
INVARIANTS MetadataKept  NotFoundIsCut CableEndsNamed LayoutPlacesEach DiffRebuilds 
PROPERTIES ManualSticks HealthNeverImproves
CHECK_DEADLOCK FALSE
