SPECIFICATION LocalPortsSpec
CONSTANTS
  Modes = {1, 3}
  Lldp = 1
  Ids = {a, b}
  MaxNbrs = 2
  Hides <- AllHides
  Levels <- AllLevels
  Width = 8
  Intervals = {2, 6}
  Holds = {2, 3}
  ClientTx <- FittingTx
  Reinits = {0, 3}
  FastInit = 2
  FastIntervals = {1, 5}
INVARIANT KeptAlive
PROPERTIES ShownAgain QuietAfterUp SendsEventually
