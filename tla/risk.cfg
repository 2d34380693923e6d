SPECIFICATION FairSpec
CONSTANTS
  Orders = {o1}
  Writers = {w1}
  NoOrder = NoOrder
  NoEvent = NoEvent
  MaxRows = 3
  Relays = {r1}
  BATCH = 2
  MAX_SEND_ATTEMPTS = 2
  Unparseable = {3}
  Unsendable = {}
  MaxCrashes = 1
  MaxTimeouts = 1
  MaxSendFailures = 0
  MaxRestarts = 1
  MaxRebalances = 1
  MaxBadRecords = 1
  MaxUpsets = 1
INVARIANT ViewIsTrue
PROPERTIES EventuallySettled ViewConverges 
CHECK_DEADLOCK FALSE
