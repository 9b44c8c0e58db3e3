SPECIFICATION Spec
CONSTANTS
  s1 = s1  s2 = s2  s3 = s3
  k1 = k1  k2 = k2
  p1 = p1  p2 = p2
  c1 = c1  c2 = c2
  KB = {k1, k2}
  Statement = {s1, s2, s3}
  Pred = {p1, p2}
  Statements <- MCStatements
  HeadPred <- MCHeadPred
  Unsigned = {}
  Rejected = {s3}
  NoHash = NoHash
  Client = {c1, c2}
  NoClient = NoClient
  NoAnswer = NoAnswer
  Calls <- ExecuteCalls
  RestartEvery = 0
  MaxCalls = 3
  MaxCrashes = 0
  MaxLaunchFailures = 0
CHECK_DEADLOCK FALSE
INVARIANT AnswersOverOwnKB
