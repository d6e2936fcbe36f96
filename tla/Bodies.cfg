SPECIFICATION Spec
CONSTANTS
  Names = {"x", "y", "f"}
  Exprs <- MCExprs
  Stmts <- MCStmts
  Programs <- MCPrograms
INVARIANTS
  ResolvesLexically
  ReportsExactly
  SlotsApart
  UsesOwnFrame
