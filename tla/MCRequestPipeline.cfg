SPECIFICATION FairSpec
CONSTANTS
  Requests = {r1}
  Users = {m1}
  e1 = e1
  e2 = e2
  e3 = e3
  Endpoints = {e1, e2, e3}
  Routes <- MCRoutes
  RouteOf <- MCRouteOf
  NoEndpoint = NoEndpoint
  MaxUses = 3
  MaxNext = 2
  MaxRuns = 3
INVARIANTS
  TypeOK
  AccessorReady
  NoDanglingEndpoint
  ParamsAreOwn
PROPERTIES
  Dispatched
  Answered
CHECK_DEADLOCK FALSE
