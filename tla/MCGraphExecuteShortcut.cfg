SPECIFICATION Spec
CONSTANTS
  Nodes = {n1, n2}
  Refs <- MCRefs
  Area <- MCArea
  Aged <- MCAged
  Bindings <- FewBindings
  Buffers = {"top", "bottom"}
  Modes = {FALSE}
  Disciplined = FALSE
INVARIANT RunIsComplete
