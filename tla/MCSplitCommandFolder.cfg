SPECIFICATION Spec
CONSTANTS
  XmlFile <- MCXmlFile
  OtherFile <- MCOtherFile
  Limit = 1
  Asserts = TRUE
INVARIANTS
  FolderIsRead
CHECK_DEADLOCK FALSE
