SPECIFICATION Spec
CONSTANTS
  f1 = f1  f2 = f2  bad = bad
  q1 = q1  q2 = q2  q3 = q3
  i1 = i1  i2 = i2
  c1 = c1  c2 = c2
  Client = {c1, c2}
  Line = {f1, f2, bad}
  Malformed = {bad}
  Query = {q1, q2, q3}
  NoQuery = NoQuery
  Unsafe = {q3}
  KbId = {i1, i2}
  BadId = BadId
  NoId = NoId
  NoText = NoText
  Preloaded = NoText
  Calls <- RegistryCalls
  MaxLines = 1
  MaxKbs = 1
  MaxParsed = 2
  MaxCalls = 3
SYMMETRY Threads
CHECK_DEADLOCK FALSE
INVARIANTS
  IdentityPinsAnswer AnswersOwnQuery WhatIfComparesOneBase
  RegisteredKbsAreAccepted
