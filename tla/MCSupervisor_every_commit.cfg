\* A commit after a failed one.
SPECIFICATION Spec
CONSTANTS
  Path <- TwoPaths
  Anc <- TwoAnc
  Content = {u}
  Special = {}
  MaxCheckpoints = 1
  MountCap = 2
  MaxGen = 4
  Faults = {"merge"}
  Leftovers = {}
INVARIANTS
  EveryCommitPublishes
\* The sandbox may be closed for good.
CHECK_DEADLOCK FALSE
