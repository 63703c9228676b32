SPECIFICATION FairSpec
CONSTANTS
  Clients = {c1, c2}
  Paths = {simulated, other}
  Pinned = {other}
  Descriptors <- MCDescriptors
  ClientLimit = 2
  OwnReference = FALSE
  NULL = NULL
INVARIANTS
  
  NoModuleLeaked
PROPERTIES
  WaitersWoken
