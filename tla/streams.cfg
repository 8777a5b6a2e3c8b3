CONSTANTS
  s1 = s1  s2 = s2  s3 = s3  c1 = c1  k1 = k1  k2 = k2  None = None  UnixKey = UnixKey
  Streams <- ThreeStreams
  Conns <- TwoConns
  StreamCommands <- OneCommand
  PendingCap = 1
  MaxStreamSubs = 2
  MaxHellos = 4
SPECIFICATION StreamsSpec
INVARIANTS
  StreamOwnsList

  
SYMMETRY StreamSymmetry
CHECK_DEADLOCK FALSE
