SPECIFICATION Spec
CONSTANTS
  c1 = c1
  c2 = c2
  s1 = s1
  s2 = s2
  s3 = s3
  i1 = i1
  i2 = i2
  p1 = p1
  p2 = p2
  k1 = k1
  k2 = k2
  k3 = k3
  None = None
  Ports = {c1, c2}
  StreamIds = {s1, s2}
  Identities = {i1, i2}
  MuxIdentities = {i1}
  Pools = {p1, p2}
  Sockets = {k1, k2}
  MaxPorts = 2
  MaxPools = 2
  MaxStreams = 2
  MaxStreamsPerPool = 1
  MaxPendingFrames = 0
  MaxPendingBytes = 0
  MaxFrameBytes = 1
  ControlBytes = 1
  DataBytes = {1}
  CloseCodes = {1000, 1006}
INVARIANTS
  RegistryAgrees
  ClosingPoolAwaitsClose
PROPERTIES
  KeepsOwnership
  ClosingIsFinal
SYMMETRY Symmetry
VIEW View
