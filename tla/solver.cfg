SPECIFICATION Spec
CONSTANTS
  Atom <- MCAtom
  Operation <- MCOperation
  Arithmetic <- MCArithmetic
  Value <- MCValue
  RuleId <- MCRuleId
  NoId <- MCNoId
  Jobs <- MCJobs
  MaxDepth = 3
  MaxStatements = 4
INVARIANTS
  BackendsAgree
  AnsweredIffItFollows
  NegationMeansFalse
  CapOnlyTruncates
  ProofsAreProofs
CHECK_DEADLOCK FALSE
