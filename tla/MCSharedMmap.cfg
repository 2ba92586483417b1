SPECIFICATION SharedSpec
CONSTANTS
  o1 = o1
  o2 = o2
  o3 = o3
  r1 = r1
  r2 = r2
  r3 = r3
  s1 = s1
  s2 = s2
  NoRegion = NoRegion
  Nobody = Nobody
  Obj <- MCObj
  Handle <- MCHandle
  Region <- MCRegion
  Holder <- MCHolder
  Word = 16
  PageSize = 4
  Size = 6
  Offsets <- MCOffsets
  Lengths <- MCLengths
SYMMETRY Symmetry
INVARIANTS
  SharedTypeOK
  HandlesAccounted
  RegionsOwned
  BytesInFile
PROPERTIES
  UserHandlesKept
  HoldersUndisturbed
  FailureChangesNothing
