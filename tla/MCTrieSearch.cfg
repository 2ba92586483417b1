SPECIFICATION Spec
CONSTANTS
  Raw <- Strings
  Segment <- AllSegments
  Slashed <- SlashedStrings
  Parts <- PartsOfStrings
  MaxInserts = 2
PROPERTY SearchFindsInserted
