SPECIFICATION ClientSpec
CONSTANTS
  Modes = {"sync", "async"}
  MaxRequests = 3
  MaxNotes = 3
  MaxConns = 2
  Words <- MCWords
  Values = {"eth0"}
  Begins <- MCBegins
  Programs = {p1, p2}
  Interfaces = {"eth0", "eth1"}
  Restrictions = {{"eth0", "eth1"}, {"eth0"}}
  Numbers <- MCNumbers
  Strings = {0, 1}
  PortSets <- MCPortSets
  MaxCommands = 2
  MaxSets = 2
  MaxMoves = 1
INVARIANTS OwnAnswer InOrder ArgumentsComplete SetsOne PortConsistent AtomsExact
PROPERTY Answered
CHECK_DEADLOCK FALSE
