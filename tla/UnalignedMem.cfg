SPECIFICATION Spec
CONSTANTS
  Size = 8
  Quads = {r}
  Values = {0, 1}
  Bytes = {0, 3}
INVARIANTS
  TypeOK
  HalfMoved
  AccessesAsListed
PROPERTY ImplementsQuad
