SPECIFICATION Spec
CONSTANTS
  A = A
  B = B
  C = C
  D = D
  F = F
  x = x
  y = y
  z = z
  M = M
  Names <- MCNames
  NoName = NoName
  Programs <- MCPrograms
INVARIANT
  OffsetsAreOwn
