SPECIFICATION FairSpec
CONSTANTS
  x = x
  Ifs = {e1, e2}
  Ports = {p1, p2}
  Addrs = {a1, a2}
  Local = Local
  Frames <- SharedFrames
  LocalTtls = {3}
  MaxNeighbors = 1
  MaxAge = 2
  AllowClear = TRUE
INVARIANT RefcountExact
PROPERTIES OnlyOwnEnd SilentLeaves OrphanFreed
