SPECIFICATION Spec
CONSTANTS
  Specs <- MCSpecs
INVARIANT ContextFollowsRefs
INVARIANT NoRefReentry
INVARIANT OperationIdsUnique
INVARIANT CallbacksResolve
INVARIANT LowersWhatIsWritten
PROPERTY Terminates
