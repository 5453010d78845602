\* Nested transactions and agentbox run, with failing system calls.
SPECIFICATION CFairSpec
CONSTANTS
  Path <- OnePaths
  Anc <- OneAnc
  Content = {u}
  Special = {}
  MaxCheckpoints = 2
  MountCap = 3
  MaxGen = 4
  Faults = {"merge", "mount", "umount", "spawn"}
  Leftovers = {}
  Users = {"api", "cli"}
  MaxDepth = 2
INVARIANTS
  ClientTypeOK
  RunIsTransaction
PROPERTIES
  TransactionUndone
  ImplementsSnapshots
  CommitAnswered
\* The program may be done.
CHECK_DEADLOCK FALSE
