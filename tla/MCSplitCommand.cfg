SPECIFICATION FairSpec
CONSTANTS
  XmlFile <- MCXmlFile
  OtherFile <- MCOtherFile
  Limit = 1
  Asserts = FALSE
INVARIANTS
  TypeOK
  RejectionChangesNothing
  NothingStale
  SilenceMeansOutput
  FolderCapped
PROPERTIES
  ImplementsRun
CHECK_DEADLOCK FALSE
