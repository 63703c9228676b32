SPECIFICATION Spec
CONSTANTS
  Sessions = {s1}
  BufferCount = 2
  Faults = {"duplicate"}
  MaxSequence = 3
INVARIANT ValidFramesOutstanding
CHECK_DEADLOCK FALSE
