SPECIFICATION FairSpec
CONSTANTS
  A = A
  B = B
  C = C
  D = D
  F = F
  x = x
  y = y
  z = z
  M = M
  Names <- MCNames
  NoName = NoName
  Programs <- MCPrograms
INVARIANTS
  TypeOK
  RecursionBounded
  FieldNamesUnique
  LayoutOrdered
  CyclesReported
  ShapeIsSum
  OwnMethodWins
  ExtensionsKeepLayout
PROPERTIES
  FlattenedOnce
  Terminates
