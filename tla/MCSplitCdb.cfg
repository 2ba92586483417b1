SPECIFICATION FairSpec
CONSTANTS
  N = 4
  Key <- OwnKeys
  Dir <- OwnDirs
  At <- AtOwn
  Workers = 2
  Faults = {"mkdir", "open", "write", "command"}
INVARIANTS
  TypeOK
  GroupsInOrder
  TasksDoNotMix
  NoTornFile
  EveryCommandIsOutput
PROPERTY ImplementsDistribution
CHECK_DEADLOCK FALSE
