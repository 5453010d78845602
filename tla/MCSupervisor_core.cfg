\* Three layers deep, regular and special files, merges that fail anywhere.
SPECIFICATION Spec
CONSTANTS
  Path <- TwoPaths
  Anc <- TwoAnc
  Content = {u, s}
  Special = {s}
  MaxCheckpoints = 2
  MountCap = 3
  MaxGen = 4
  Faults = {"merge"}
  Leftovers = {}
INVARIANTS
  TypeOK
  TableOrdered
  ScratchMatchesTable
  CheckpointsIntact
  CommitPublishes
  DiffReportsLeaves
  DiffReportsDeletions
PROPERTIES
  MergeKeepsView
\* The sandbox may be closed for good.
CHECK_DEADLOCK FALSE
