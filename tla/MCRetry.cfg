SPECIFICATION Spec
CONSTANTS
  r1 = r1
  r2 = r2
  Root = Root
  Singletons = Singletons
  Requests = {r1}
  SelfType = "ServiceProvider"
  Interfaces <- MCInterfaces
  Impls <- MCImpls
  Faulty = {"NetLog"}
  Factories = {}
  Registrations <- SelfAllOnly
  Bootstrap <- MCBootstrap
  UserCalls <- MCUserCalls
  MaxThrows = 1
INVARIANT
  OneInstancePerSingleton
CHECK_DEADLOCK FALSE
