SPECIFICATION Spec
CHECK_DEADLOCK FALSE
CONSTANTS
  Requests <- MCRequests
  Hosts <- MCHosts
  Classes = {184}
  Locals <- MCLocals
INVARIANTS
  RepliesAsPromised
  SetStandsTogether
PROPERTIES
  ServiceEnds
