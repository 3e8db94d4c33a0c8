SPECIFICATION FairSpec
CONSTANTS
  Attempts = 2
  OpenTimeout = 1
  RecvTimeout = 2
  MaxSessions = 2
  MaxOpens = 2
  MaxFaults = 2
INVARIANTS
  SocketContract
  NoSessionForgotten
PROPERTIES
  CallsReturn
CHECK_DEADLOCK FALSE
