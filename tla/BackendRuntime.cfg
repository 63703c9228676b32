SPECIFICATION Spec
CONSTANTS
  Clients = {c1, c2, c3}
  Paths = {simulated, other}
  Pinned = {other}
  Descriptors <- MCDescriptors
  ClientLimit = 2
  OwnReference = TRUE
  NULL = NULL
SYMMETRY ClientSymmetry
INVARIANTS
  TypeOK
  BackendCodeMapped
  ReferencesCounted
PROPERTY ImplementsSharedModule
