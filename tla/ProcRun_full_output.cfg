\* A pipe that holds more than the last reads take.
SPECIFICATION Spec
CONSTANTS
  Helper = {}
  PipeCap = 5
  ReadSize = 1
  DrainRounds = 4
  SockCap = 1
  MaxOut = 5
  Env = {}
INVARIANTS
  AllOutputCaptured
\* The run ends.
CHECK_DEADLOCK FALSE
