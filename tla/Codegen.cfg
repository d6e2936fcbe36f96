SPECIFICATION ExecSpec
CONSTANTS
  Exprs <- MCExprs
  Stmts <- MCStmts
  Bodies <- MCBodies
INVARIANTS
  LabelsUnique
  SupportedCompiles
PROPERTY FollowsSource
