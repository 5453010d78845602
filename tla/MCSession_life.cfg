CONSTANTS
  Box = {b1, b2}
  Requests = {"DIFF", "RUN"}
  Machines <- AllMachines
  SockCap = 2
  Scenarios = {{"kill", "death", "big", "shared", "fault"}, {"threads", "kill", "death", "fault"}, {"fault", "sigchld"}}

SPECIFICATION FairSpec
CHECK_DEADLOCK FALSE

INVARIANTS
  TypeOK
  Synchronised
  OwnRequests
  OwnLayers
  NothingLeft
  SetupEnables
PROPERTIES
  CallsReturn
  OrphansEnd
