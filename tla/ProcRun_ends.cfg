\* Runs end, whatever fails.
SPECIFICATION FairSpec
CONSTANTS
  Helper = {h1}
  PipeCap = 1
  ReadSize = 1
  DrainRounds = 1
  SockCap = 1
  MaxOut = 1
  Env = {"gone", "sigpipe", "sigchld", "nospace", "spawn"}
INVARIANTS
  GroupSwept
PROPERTIES
  TimeoutEndsRun
  ExitEndsRun
\* The run ends.
CHECK_DEADLOCK FALSE
