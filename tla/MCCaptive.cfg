SPECIFICATION Spec
CONSTANTS
  r1 = r1
  r2 = r2
  Root = Root
  Singletons = Singletons
  Requests = {r1, r2}
  SelfType = "ServiceProvider"
  Interfaces <- MCInterfaces
  Impls <- MCImpls
  Faulty = {}
  Factories = {}
  Registrations <- LayeredOnly
  Bootstrap <- MCBootstrap
  UserCalls <- MCUserCalls
  MaxThrows = 1
INVARIANT
  ScopedDifferPerRequest
CHECK_DEADLOCK FALSE
