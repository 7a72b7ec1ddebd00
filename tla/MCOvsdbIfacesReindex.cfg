SPECIFICATION IfacesSpec
CONSTANTS
  Ifs = {e1, e2}
  Dirs = {"rxtx", "off"}
  Default = "rxtx"
  Indices = {1, 2}
  MaxCount = 1
  MaxEvents = 2
INVARIANT HashExact
CHECK_DEADLOCK FALSE
