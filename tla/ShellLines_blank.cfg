SPECIFICATION Spec
CONSTANTS
  MaxLength = 2
INVARIANTS
  EmptyIsRejected
