SPECIFICATION SnmpSpec
CONSTANTS
  Nothing = Nothing
  Hw <- MCHw
  Heard = {1}
  Local <- MCLocal
  Frames <- MCFrames
  MaxNow = 1
  MaxChanges = 3
  Absent = Absent
  Names <- MCNames
  LldpDirs = {"tx", "rxtx"}
  ScalarKeys = {"lldp_hold"}
  MibTlvs = {"port_desc"}
  CacheTimeout = 2
  MaxClock = 2
  MaxWrites = 2
  Receivers <- MCReceivers
INVARIANTS WalkComplete TrapAnswered MibRecent RoundServed
CHECK_DEADLOCK FALSE
