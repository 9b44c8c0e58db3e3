SPECIFICATION Spec
CONSTANTS
  Atom <- MCAtom
  Operation <- MCOperation
  Arithmetic <- MCArithmetic
  Value <- MCValue
  RuleId <- MCRuleId
  NoId <- MCNoId
  Jobs <- MCJobs
  MaxDepth = 3
  MaxStatements = 1
INVARIANT NegatedQueriesAnswered
CHECK_DEADLOCK FALSE
