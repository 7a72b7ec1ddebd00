SPECIFICATION ConfigSpec
CONSTANTS
  None = None
  Ifs = {i1}
  Tlvs = {"sys_name"}
  Sessions = {s1}
  Timers = {30, 32768}
  Holds = {10}
  Reinits = {3}
  Addrs = {a1, a2}
  MaxEvents = 3
  Forwarding = FALSE
  MaxNbrs = 1
  PIfs = {j1, j2}
  Ports = {p1, p2}
  Vids = {1, 2}
  Absent = Absent
  Freed = Freed
  Configs <- PortConfigs
  MaxPortEvents = 3
INVARIANTS ShownIsApplied RunningConfigRestores TotalNoWrap
PROPERTIES TableServed VlansOfMembers
CHECK_DEADLOCK FALSE
