\* Four slots: a graph, a node, a parameter and an image, an image with
\* regions of regions; a pyramid with two levels and a region of one of them.
SPECIFICATION Spec
CONSTANTS
  MaxRefs = 4
  NumFields = 2
  MaxExternal = 2
  Retained = {"graph", "node"}
  Handles = {h}
INVARIANTS CountsPointers LiveIfReferenced SubimagesAlive CollectsAll
CHECK_DEADLOCK FALSE
