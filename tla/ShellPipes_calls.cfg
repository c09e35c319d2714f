SPECIFICATION FairSpec
CONSTANTS
  MaxProcs = 4
  MaxStages = 3
INVARIANTS
  TypeOK
  StagesConnected
  NoDescriptorLeft
  ReaderOutlivesWriter
PROPERTIES
  PromptReturns
