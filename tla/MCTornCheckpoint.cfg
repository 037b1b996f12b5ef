SPECIFICATION Spec
CONSTANTS
  Window = 3
  Advance = 2
  Padding = 3
  Lag = 1
  None = None
  MaxChunk = 3
  MaxHeard = 6
  MaxRestores = 2
INVARIANT CheckpointAfterItsChunk
CHECK_DEADLOCK FALSE
