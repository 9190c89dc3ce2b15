\* An image made from a handle, and two regions of it.
SPECIFICATION Spec
CONSTANTS
  MaxRefs = 3
  NumFields = 1
  MaxExternal = 1
  Retained = {}
  Handles = {h1, h2}
INVARIANT RegionsShareMemory
CHECK_DEADLOCK FALSE
