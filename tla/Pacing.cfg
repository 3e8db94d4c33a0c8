SPECIFICATION Spec
CHECK_DEADLOCK FALSE
CONSTANTS
  Count = 2
  Interval <- MCInterval
  Duration <- MCDuration
  ProbeTimeout = 3
  Budgets = {1, 2}
  Pacings = {"Staggered", "Burst"}
  Latencies = {1}
  MaxSendTime = 1
  MaxBlocks = 1
  MaxTime = 10
INVARIANTS
  NeverOversleeps
PROPERTIES
  SendsPaced
