SPECIFICATION FairSpec
CONSTANTS
  Raw <- Strings
  Segment <- AllSegments
  Slashed <- SlashedStrings
  Parts <- PartsOfStrings
  MaxInserts = 3
INVARIANTS
  TypeOK
  NodesAreCovered
  EndIsListed
PROPERTY ImplementsIndex
