SPECIFICATION Spec
CONSTANTS
  doc = doc
  arg = arg
  a = a
  A = A
  b = b
  NoKey = NoKey
  Root = {doc, arg}
  Key = {a, A, b}
  Names = {{a, A}, {b}}
  MaxNodes = 3
  MaxIndex = 1
  MaxCached = 2
SYMMETRY Symmetry
CONSTRAINT Bound
CHECK_DEADLOCK FALSE
INVARIANTS
  OwnedOnce
PROPERTIES
  CacheFollows
