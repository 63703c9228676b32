SPECIFICATION MCSpec
CONSTANTS
  Buffers = {b1, b2}
  SequenceModulus = 2
  PlaneMayFail = TRUE
  NULL = NULL
  Files = {f1, f2}
  RequestedFormats <- Requests
  Width = 4
  Height = 2
  MaxU32 = 65535
  Second = 3
  Jiffy = 2
  MaxJiffyOffset = 8
  MaxU64 = 255
  Numerator = 1
  Denominator = 1
INVARIANTS
  TypeOK
  OwnedOnce
  QuietWhenStopped
  LifetimesNest
  FramesFit
  AtMostOneAhead
PROPERTIES
  ImagesStable
  ImplementsVideoQueue
  BuffersComeBack
