\* Two patches at a time of an image, an image of the host and an array, with
\* room for both in the table of maps and for one in the table of accessors;
\* one of them gets up to two odd commits.
SPECIFICATION Spec
CONSTANTS
  Threads = {t1, t2}
  Objects = {"image", "host", "array"}
  Host = {"host"}
  Arrays = {"array"}
  NumMaps = 2
  NumAccessors = 1
  MaxOdd = 2
SYMMETRY Symmetry
INVARIANTS MapsAreOwned LockCounts PatchesKeepAlive
\* A copy given up with an empty commit keeps the lock, and the threads that
\* wait for it wait for ever.
CHECK_DEADLOCK FALSE
