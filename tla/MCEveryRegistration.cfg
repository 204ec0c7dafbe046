SPECIFICATION FairSpec
CONSTANTS
  r1 = r1
  r2 = r2
  Root = Root
  Singletons = Singletons
  Requests = {r1}
  SelfType = "ServiceProvider"
  Interfaces <- MCInterfaces
  Impls <- MCImpls
  Faulty = {"SqlRepo"}
  Factories = {"Task"}
  Registrations <- EveryRegistration
  Bootstrap <- MCBootstrap
  UserCalls <- AllUserCalls
  MaxThrows = 1
INVARIANTS
  OneEachUnlessThrown
PROPERTIES
  CallsReturn
  PrebuildEnds
CHECK_DEADLOCK FALSE
