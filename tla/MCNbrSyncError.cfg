SPECIFICATION Spec
CONSTANTS
  Ifs = {e1}
  Ids = {m1}
  Infos = {x, y}
  Ttl = 1
  MaxNbrs = 1
  MaxEvents = 3
  MaxFailures = 1
  AllowGarbage = FALSE
  AllowError = TRUE
  MaxLate = 3
INVARIANT InSync
