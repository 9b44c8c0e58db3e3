SPECIFICATION Session
CONSTANTS
  s1 = s1  s2 = s2  s3 = s3  s4 = s4  s5 = s5
  k1 = k1  k2 = k2  k3 = k3
  p1 = p1  p2 = p2  p3 = p3
  KB = {k1, k2, k3}
  Statement = {s1, s2, s3, s4, s5}
  Pred = {p1, p2, p3}
  Statements <- MCStatements
  HeadPred <- MCHeadPred
  Unsigned = {s5}
  Rejected = {s4}
  NoHash = NoHash
  MaxCommands = 5
CHECK_DEADLOCK FALSE
INVARIANTS LoadOkMeansVisible RebuildIsExact
