SPECIFICATION Spec
CONSTANTS
  MaxLength = 6
INVARIANTS
  TypeOK
  RunsWhatWasTyped
  MemoryBalanced
  UndefinedOnlyIfEmpty
