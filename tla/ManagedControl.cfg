SPECIFICATION FairSpec
CONSTANTS
  Stoppers = {stop1}
  Updaters = {update1, update2}
  Capacity = 1
  CommandBudget = 1
INVARIANTS
  StopThenRefused
  SettledInAgreement
PROPERTIES
  CommandsAnswered
  StopEnds
