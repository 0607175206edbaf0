SPECIFICATION FairSpec
CONSTANTS
  MaxStarts = 4
  MaxGeneration = 8
INVARIANTS TypeOK NothingLeftBehind
PROPERTIES ImplementsProtection ObjectsEnd
