SPECIFICATION Spec
CONSTANTS
  Char = {"x", "y"}
  MaxLen = 5
  New <- Replacement
  MaxTimes = 2
INVARIANTS
  TypeOK
  ResultIsReplaced
PROPERTY IterationShortens
CHECK_DEADLOCK FALSE
