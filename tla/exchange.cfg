SPECIFICATION Spec
CONSTANTS
  Participants = {"YOU", "MKR", "NSE", "MM"}
  Requests <- MCRequests
  Amendments <- MCAmendments
  MaxOrders = 5
  Fairs = {2}
  baseHalfSpread = 1
  invSkew = 1
  quoteSize = 2
  maxInventory = 1
INVARIANTS BookSound MakerBounded
PROPERTIES FokAllOrNothing ImplementsPriceTime
CHECK_DEADLOCK FALSE
