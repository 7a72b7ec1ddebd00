SPECIFICATION CodecsSpec
CONSTANTS
  Locals <- AllLocals
  FlagSets <- SomeFlags
  Mtus = {1500, 300}
  Source = "source"
  Null = Null
  OwnTtl = 120
  Modes = {"cdpv1", "cdpv2", "fdp", "edp", "sonmp"}
  Systems <- SomeSystems
  LineMtus = {1500, 100}
  Bodies <- SomeBodies
  DamagedBytes = {0, 1, 255}
  MaxSends = 3
INVARIANTS RoundTrip Understood
PROPERTY DamagedRefused
CHECK_DEADLOCK FALSE
