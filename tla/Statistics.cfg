SPECIFICATION MCSpec
CHECK_DEADLOCK FALSE
CONSTANTS
  MaxProbes = 3
  MaxEvents = 6
  SeqSpace = 8
  FirstSeq = 6
  SequenceLimit = 2
  CounterRange = 6
  CountLimit = 3
  TimeLimit = 1
  Backdating = {1, 2}
  Delays = {1, 2}
INVARIANTS
  TotalsTrue
  RollingTrue
