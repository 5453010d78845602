\* The mount options hold fewer layers than the table.
SPECIFICATION Spec
CONSTANTS
  Path <- OnePaths
  Anc <- OneAnc
  Content = {u}
  Special = {}
  MaxCheckpoints = 3
  MountCap = 2
  MaxGen = 4
  Faults = {}
  Leftovers = {}
INVARIANTS
  OnlyTableLimits
\* The sandbox may be closed for good.
CHECK_DEADLOCK FALSE
