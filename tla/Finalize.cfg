SPECIFICATION Spec
CONSTANTS
  Ids = {1, 2, 3}
  Ghosts = {9}
CHECK_DEADLOCK FALSE
INVARIANT IrOrdered
PROPERTY ImplementsTopologicalOrder
PROPERTY Terminates
