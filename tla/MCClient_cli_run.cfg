\* agentbox run with nothing failing but the commit itself.
SPECIFICATION CSpec
CONSTANTS
  Path <- FlatPaths
  Anc <- FlatAnc
  Content = {u}
  Special = {}
  MaxCheckpoints = 1
  MountCap = 2
  MaxGen = 3
  Faults = {}
  Leftovers = {}
  Users = {"cli"}
  MaxDepth = 0
INVARIANTS
  FailedRunLeavesFiles
\* The program may be done.
CHECK_DEADLOCK FALSE
