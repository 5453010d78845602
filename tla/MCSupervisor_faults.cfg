\* Every system call may fail, processes outlive their command.
SPECIFICATION Spec
CONSTANTS
  Path <- OnePaths
  Anc <- OneAnc
  Content = {u}
  Special = {}
  MaxCheckpoints = 2
  MountCap = 2
  MaxGen = 3
  Faults = {"umount", "mount", "mkdir", "purge", "mkdir_p", "getxattr", "merge", "spawn"}
  Leftovers = {"escaped"}
INVARIANTS
  NoScratchLeak
  MountMatchesTable
PROPERTIES
  MountLossReported
\* The sandbox may be closed for good.
CHECK_DEADLOCK FALSE
