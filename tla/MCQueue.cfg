\* Two writers that compete for the room, one of which may wake up for nothing,
\* a reader on its own and a popper.
SPECIFICATION FairSpec
CONSTANTS
  w1 = w1
  w2 = w2
  r1 = r1
  p1 = p1
  a = a
  b = b
  Writers = {w1, w2}
  Readers = {r1}
  Poppers = {p1}
  Items = {a, b}
  NoItem = NoItem
  NoThread = NoThread
  MaxCalls = 2
  Spurious = {w2}
  Depth = 2
INVARIANTS NoLostWakeup FailOnlyIfPopped
PROPERTIES IsFifo PopReleasesAll Settles
CHECK_DEADLOCK FALSE
