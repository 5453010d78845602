CONSTANTS
  Box = {b1, b2}
  Requests = {"RUN"}
  Machines <- OneMachine
  SockCap = 2
  Scenarios = {{"kill"}}

SPECIFICATION FairSpec
CHECK_DEADLOCK FALSE

PROPERTIES
  EveryCallReturns
