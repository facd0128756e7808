SPECIFICATION FairSpec
CONSTANTS
  c1 = c1
  s1 = s1
  s2 = s2
  i1 = i1
  p1 = p1
  p2 = p2
  k1 = k1
  k2 = k2
  None = None
  Ports = {c1}
  StreamIds = {s1, s2}
  Identities = {i1}
  MuxIdentities = {}
  Pools = {p1}
  Sockets = {k1}
  MaxPorts = 1
  MaxPools = 1
  MaxStreams = 2
  MaxStreamsPerPool = 2
  MaxPendingFrames = 0
  MaxPendingBytes = 0
  MaxFrameBytes = 1
  ControlBytes = 1
  DataBytes = {1}
  CloseCodes = {1006}
  Address = i1
  MaxRequests = 2
  MaxEvents = 1
VIEW View
CHECK_DEADLOCK FALSE
PROPERTIES
  LeaseRepaired
  ManualCloseFinalizes
  FinalizedForgotten
