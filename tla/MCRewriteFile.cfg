SPECIFICATION Spec
CONSTANTS
  Base <- BaseDir
  Dest <- DestDir
  Projects <- ArtAndHw
  Commands <- Compiles
  Existing <- ExistingDirs
INVARIANT EveryFileRelocated
CHECK_DEADLOCK FALSE
