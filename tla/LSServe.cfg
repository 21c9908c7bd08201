SYMMETRY ServerSymmetry
SPECIFICATION ServerSpec
CONSTANTS
  Conns = {c1, c2, c3}
  Browser = {c1, c2}
  Entries = {e1, e2}
  Commands = {k}
  MaxWorkers = 2
  RequestSlots = 1
INVARIANT ResourcesAccounted
INVARIANT StopsCompletely
 
CHECK_DEADLOCK FALSE
