SPECIFICATION Spec
CONSTANTS
  r1 = r1
  r2 = r2
  Root = Root
  Singletons = Singletons
  Requests = {r1, r2}
  SelfType = "ServiceProvider"
  Interfaces <- MCInterfaces
  Impls <- MCImpls
  Faulty = {"Settings", "FileLog", "SqlRepo"}
  Factories = {"Task", "MainRepo"}
  Registrations <- MCRegistrations
  Bootstrap <- MCBootstrap
  UserCalls <- MCUserCalls
  MaxThrows = 2
SYMMETRY Symmetry
INVARIANTS
  GuardExact
  NoDanglingPointer
  FirstIsMain
  SealedIsComplete
  ScopePlacement
PROPERTIES
  SingletonsFrozen
  LifetimesKept
CHECK_DEADLOCK FALSE
