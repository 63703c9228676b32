SPECIFICATION MCSpec
CONSTANTS
  Sessions = {s1, s2}
  BufferCount = 2
  Faults = {"callback", "configuration", "frame", "tracking"}
  MaxSequence = 3
  Counts <- AllCounts
  ArgumentLists <- AllArgumentLists
  DefaultCount = 3
  NoSession = NoSession
SYMMETRY SessionSymmetry
INVARIANTS
  TypeOK
  LifecyclesAgree
  BackendNeverMisused
  DestroyedClosed
  TokensAccounted
  ValidFramesOutstanding
  StatusTellsTheRun
PROPERTY ImplementsFrameLease
CHECK_DEADLOCK FALSE
