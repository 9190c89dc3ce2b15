\* One thread schedules two graphs, another waits for them at any moment.
SPECIFICATION FairSpec
CONSTANTS
  Graphs = {g1, g2}
  NumSlots = 2
  Depth = 3
  Schedulers = {s}
  Waiters = {w}
  NoGraph = NoGraph
 
PROPERTIES   ReleaseReturns 
