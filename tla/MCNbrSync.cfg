SPECIFICATION MCSpec
CONSTANTS
  e1 = e1
  e2 = e2
  m1 = m1
  x = x
  y = y
  Ifs = {e1}
  Ids = {m1, m2}
  Infos = {x}
  Ttl = 1
  MaxNbrs = 2
  MaxEvents = 3
  MaxFailures = 1
  AllowGarbage = TRUE
  AllowError = TRUE
  MaxLate = 1
INVARIANT SingleInSync
PROPERTIES CrowdedEmptied CrowdedShown
