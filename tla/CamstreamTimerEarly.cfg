SPECIFICATION TimedSpec
CONSTANTS
  Buffers = {b1, b2}
  SequenceModulus = 2
  PlaneMayFail = FALSE
  NULL = NULL
  Second = 3
  Jiffy = 2
  MaxJiffyOffset = 8
  MaxU64 = 255
  Numerator = 1
  Denominator = 1
PROPERTY NotEarly
