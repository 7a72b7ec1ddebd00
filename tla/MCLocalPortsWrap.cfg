SPECIFICATION LocalPortsSpec
CONSTANTS
  Modes = {1, 3}
  Lldp = 1
  Ids = {a, b}
  MaxNbrs = 2
  Hides <- AllHides
  Levels <- AllLevels
  Width = 8
  Intervals = {2, 3, 6}
  Holds = {2, 3}
  ClientTx <- WrappingTx
  Reinits = {0, 3}
  FastInit = 3
  FastIntervals = {1, 5}
INVARIANT KeptAlive
