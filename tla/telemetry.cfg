SPECIFICATION TelemetrySpec
CONSTANTS
  d1 = d1
  d2 = d2
  SeriesIfs = {e1, e2}
  Wrap = 3
  MaxMoved = 2
  NoOctets = NoOctets
  TcpClients = {c1}
  Udp = udp
  Streams <- SysStreams
  Datagrams <- SysDatagrams
  ChunkMax = 3
  QueueMax = 1
  Burst = 2
  HitMax = 2
  SiemWindow = 0
  Retention = 0
  MaxDatagrams = 2
  MaxSysTime = 1
  NoJob = NoJob
  Sweeps = {s1, s2}
  SweepDevices = {d1, d2}
  NoAddressSets <- SweepNoAddress
  ThinDevices = {d1}
  Orders <- SweepOrders
  MaxRenames = 1
  NoSweep = NoSweep
INVARIANTS LinesAreFramed BurstReported RunConsistent
PROPERTIES  DatagramsDrain SweepsEnd
CHECK_DEADLOCK FALSE
