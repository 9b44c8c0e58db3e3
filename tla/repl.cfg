SPECIFICATION Spec
CONSTANTS
  Goal <- MCGoal
  EndsInAnd <- MCEndsInAnd
  BodyOnly <- MCBodyOnly
  Literal <- MCLiteral
  Dangerous <- MCDangerous
  Id <- MCId
  EndsInIf <- MCEndsInIf
  Junk <- MCJunk
  TypedLines <- MCTypedLines
  Queries <- MCQueries
  Files <- MCFiles
  Commands <- MCCommands
  Disk <- MCDisk
  Preloads <- MCPreloads
  NotGiven = "none"
  MaxSize = 3
  MaxInputs = 4
INVARIANTS
  SessionChecks
  PasteSafe
  LinesGroupAsDocumented
  ExitTellsOutcome
  QueriesKeepNamedKb
PROPERTY InputOnlyAdds
CHECK_DEADLOCK FALSE
