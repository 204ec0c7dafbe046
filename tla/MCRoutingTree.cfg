SPECIFICATION Spec
CONSTANTS
  Methods = {"Get", "Post"}
  Menus <- MCMenus
  Words <- MCWords
  Orders <- MCOrders
  Copies = 2
  MaxAdds = 3
  Empty <- MCEmpty
  None = None
INVARIANTS
  MatchIsBest
  OneEndpointPerRoute
CHECK_DEADLOCK FALSE
