SPECIFICATION FairSpec
CONSTANTS
  Ids = {a}
  Configs = {c1, c2}
  MaxLive = 2
  Configurations <- MCConfigurations
  InitialDelay = 1
  MaxDelay = 2
  FinalDrain = 1
  ProbeTimeout = 1
  TargetBudget = 2
  TimeoutBudget = 1
  ReceiveBudget = 2
  MaxGenerations = 2
  MaxSends = 1
INVARIANTS
  TableSound
  OutcomesTrue
PROPERTIES
  RetirementOrderly
  StoppingEnds
  TimeoutsServed
