SPECIFICATION Spec
CONSTANTS
  Chars <- MCChars
  Keywords <- MCKeywords
  PageSize = 4
  Paths <- MCPaths
  Content <- MCContent
  CommandLines <- MCCommandLines
  MaxReports = 1
INVARIANTS
  CutsLongest
  TokensTile
  LocationsRight
  CodeIfCorrect
PROPERTY
  Ends
