SPECIFICATION IfacesFairSpec
CONSTANTS
  Ifs = {e1, e2}
  Dirs = {"rxtx", "off"}
  Default = "rxtx"
  Indices = {1}
  MaxCount = 1
  MaxEvents = 2
INVARIANTS HashExact ConfigApplied
PROPERTIES CountersKept CountersReach
CHECK_DEADLOCK FALSE
