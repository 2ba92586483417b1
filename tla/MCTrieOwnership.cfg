SPECIFICATION FairSpec
CONSTANTS
  t1 = t1
  t2 = t2
  a = a
  b = b
  n1 = n1
  n2 = n2
  n3 = n3
  n4 = n4
  Null = Null
  Destroyed = Destroyed
  MovedFrom = MovedFrom
  NoCall = NoCall
  Tries <- MCTries
  Node <- MCNode
  Paths <- MCPaths
CHECK_DEADLOCK FALSE
INVARIANTS
  TypeOK
  NodesOwned
  OneOwner
PROPERTIES
  ImplementsValues
  Returns
