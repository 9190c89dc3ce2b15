SPECIFICATION FairSpec
CONSTANTS
  Nodes = {n1, n2, n3}
  Refs <- MCRefs
  Area <- MCArea
  Aged <- MCAged
  Bindings <- MCBindings
  Buffers = {"buffer", "spare"}
  Modes = {TRUE, FALSE}
  Disciplined = TRUE
INVARIANTS VerifiedIsFresh RefusesOnlyCycles NeverTwice ProducersFirst RunIsComplete
PROPERTY Terminates
