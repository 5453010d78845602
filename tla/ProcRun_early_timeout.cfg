\* The deadline passes before setsid().
SPECIFICATION FairSpec
CONSTANTS
  Helper = {}
  PipeCap = 1
  ReadSize = 1
  DrainRounds = 4
  SockCap = 1
  MaxOut = 1
  Env = {"slow_start"}
PROPERTIES
  TimeoutEndsRun
\* The run ends.
CHECK_DEADLOCK FALSE
