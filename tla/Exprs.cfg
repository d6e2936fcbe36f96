SPECIFICATION Spec
CONSTANT Programs <- MCPrograms
INVARIANT
  ResolvedOnce
  SizesRight
  QbeAccepts
  ValuesFollow
PROPERTY Ends
