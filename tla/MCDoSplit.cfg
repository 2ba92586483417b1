SPECIFICATION FairSplitSpec
CONSTANTS
  Base <- BaseDir
  Dest <- DestDir
  Projects <- ArtAndHw
  Commands <- Compiles
  Existing <- ExistingDirs
  N = 2
  Databases <- Pairs
  Workers = 2
  Faults = {"mkdir", "command"}
INVARIANTS
  SplitTypeOK
  FilesRelocated
  ArgumentsRelocated
  ProjectsServed
  FoldersComplete
PROPERTY ImplementsSplitCdb
CHECK_DEADLOCK FALSE
