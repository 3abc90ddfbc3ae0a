SPECIFICATION Spec
CONSTANTS
  Specs <- MCSpecs
  Schemas <- MCSchemas
CHECK_DEADLOCK FALSE
INVARIANT AllOfSeesTarget
