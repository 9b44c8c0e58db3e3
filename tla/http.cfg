SPECIFICATION FairSpec
CONSTANTS
  c1 = c1  c2 = c2
  Client = {c1, c2}
  NoClient = NoClient
  Offers <- MCOffers
  Files = {"good", "invalid"}
  Backends = {"prolog", "invalid"}
  Buckets = 2
  Took <- MCTook
  MaxFound = 1
  MaxLeft = 1
CHECK_DEADLOCK FALSE
INVARIANTS
  CountedOnce OkMeansRan  FailureReportedOnce ClosedClean
  PageAddsUp
PROPERTIES
  ConnectionsEnd SignalEndsServer
