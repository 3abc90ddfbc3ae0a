SPECIFICATION Spec
CONSTANTS
  Specs <- MCSpecs
  Schemas <- MCSchemas
CHECK_DEADLOCK FALSE
INVARIANT ContextFollowsCalls
INVARIANT NoReentry
INVARIANT ComponentsServed
INVARIANT RefsResolve
PROPERTY InlineReplacesNothing
PROPERTY Terminates
