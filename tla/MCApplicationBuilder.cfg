SPECIFICATION Spec
CONSTANTS
  Interfaces <- MCInterfaces
  Impls <- MCImpls
  UserServices <- MCUserServices
  MaxAdds = 5
INVARIANTS
  CollectionsWellFormed
  MainIsNewest
  AllArrive
  BuiltWithDefaults
  NoBuildAfterThrow
PROPERTIES
  NothingLost
CHECK_DEADLOCK FALSE
