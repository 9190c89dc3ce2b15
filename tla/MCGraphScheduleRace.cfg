\* Two threads schedule a graph each.
SPECIFICATION Spec
CONSTANTS
  Graphs = {g1, g2}
  NumSlots = 2
  Depth = 2
  Schedulers = {t, u}
  Waiters = {t, u}
  NoGraph = NoGraph
INVARIANTS
  OwnPosition
CHECK_DEADLOCK FALSE
