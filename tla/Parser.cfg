SPECIFICATION Spec
CONSTANT Programs <- MCPrograms
INVARIANTS
  StructureKept
  NothingLost
  LevelsNest
  CorrectAccepted
PROPERTY GetsOn
