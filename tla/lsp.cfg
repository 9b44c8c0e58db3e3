SPECIFICATION Spec
CONSTANTS
  Goal <- MCGoal
  EndsInAnd <- MCEndsInAnd
  BodyOnly <- MCBodyOnly
  Literal <- MCLiteral
  Dangerous <- MCDangerous
  Junk <- MCJunk
  Id <- MCId
  Negated <- MCNegated
  Predicate <- MCPredicate
  Arity <- MCArity
  Vars <- MCVars
  Closed <- MCClosed
  Excess <- MCExcess
  NoPredicate <- MCNoPredicate
  Docs = {"d"}
  Lines <- MCLines
  Files <- MCFiles
  Unfinished <- MCUnfinished
  Completable <- MCCompletable
  Mentions <- MCMentions
  Begun <- MCBegun
  MaxLines = 4
  MaxVersion = 4
INVARIANTS
  PublishedIsCurrent
  LinesAreLocated
  EditorReadsWhatRuns
  AnswersFitText
  NoFalseCircle
