SPECIFICATION Spec
CONSTANTS
  Clients = {c1, c2}
  Paths = {simulated}
  Pinned = {}
  Descriptors <- MCDescriptors
  ClientLimit = 2
  OwnReference = FALSE
  NULL = NULL
INVARIANT DestroyBeforeClose
CHECK_DEADLOCK FALSE
