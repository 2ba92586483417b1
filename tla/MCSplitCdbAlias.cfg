SPECIFICATION Spec
CONSTANTS
  N = 3
  Key <- SharedKeys
  Dir <- SharedDirs
  At <- AtShared
  Workers = 2
  Faults = {}
INVARIANT EveryCommandIsOutput
CHECK_DEADLOCK FALSE
