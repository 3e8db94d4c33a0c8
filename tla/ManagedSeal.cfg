SPECIFICATION Spec
CONSTANTS
  Stoppers = {stop1}
  Updaters = {update1}
  Capacity = 1
  CommandBudget = 1
INVARIANTS
  AcceptedReceiptsSettled
