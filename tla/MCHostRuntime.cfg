SPECIFICATION Spec
CONSTANTS
  p1 = p1
  Plugins = {p1}
  Main = Main
  Unlimited = Unlimited
  Budgets <- MCBudgets
  Cadence = 2
  MaxAge = 4
  MaxPages = 1
CHECK_DEADLOCK FALSE
INVARIANT TimeNotEarly
INVARIANT TickerOutlivesCalls
PROPERTY CallsEnd
PROPERTY ShutdownEnds
