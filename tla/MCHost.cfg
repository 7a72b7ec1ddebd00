SPECIFICATION HostSpec
CONSTANTS
  Order <- MCOrder
  Kind <- MCKind
  Link <- MCLink
  Settings <- MCSettings
  Members <- MCMembers
  Addresses <- MCAddresses
  NoDev = NoDev
  MaxChanges = 2
  Procs = {"p1", "p2"}
  NoOne = "no one"
  Stale = "stale"
  MaxStarts = 3
  Ifaces = {"eth0"}
  Files = {"ip_forward", "passwd"}
  Authorized = {"ip_forward"}
  Peers = {"sw1"}
  Addrs = {"a1"}
  Nobody = Nobody
  None = None
  Faults = {"child_dies", "monitor_dies"}
INVARIANT OneDaemon
PROPERTIES Implements CallReturns NeverAlone LinksSettle Resumes
CHECK_DEADLOCK FALSE
