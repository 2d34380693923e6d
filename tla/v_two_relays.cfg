SPECIFICATION Spec
CONSTANTS
  Orders = {o1}
  Writers = {w1}
  NoOrder = NoOrder
  NoEvent = NoEvent
  MaxRows = 2
  Relays = {r1, r2}
  BATCH = 2
  MAX_SEND_ATTEMPTS = 2
  Unparseable = {}
  Unsendable = {}
  MaxCrashes = 0
  MaxTimeouts = 0
  MaxSendFailures = 0
  MaxRestarts = 0
  MaxRebalances = 0
  MaxBadRecords = 0
  MaxUpsets = 0
INVARIANT QuietViewIsCurrent
CHECK_DEADLOCK FALSE
