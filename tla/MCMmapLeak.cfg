SPECIFICATION Spec
CONSTANTS
  o1 = o1
  o2 = o2
  r1 = r1
  r2 = r2
  r3 = r3
  NoRegion = NoRegion
  Obj <- MCObj
  Handle <- MCHandle
  Region <- MCRegion
  Word = 16
  PageSize = 4
  Size = 6
  Offsets <- MCOffsets
  Lengths <- MCLengths
SYMMETRY Symmetry
INVARIANTS
  HandlesReturned
