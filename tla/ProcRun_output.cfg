\* Both streams, partial reads, a helper that may keep the pipes open.
SPECIFICATION Spec
CONSTANTS
  Helper = {h1}
  PipeCap = 3
  ReadSize = 2
  DrainRounds = 1
  SockCap = 1
  MaxOut = 3
  Env = {}
INVARIANTS
  TypeOK
  VerdictHonest
  StreamedIsCaptured
  SmallOutputKept
\* The run ends.
CHECK_DEADLOCK FALSE
