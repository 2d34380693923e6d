SPECIFICATION OutboxSpec
CONSTANTS
  Orders = {o1}
  Writers = {w1}
  NoOrder = NoOrder
  MaxRows = 2
  Relays = {r1, r2}
  BATCH = 2
  MAX_SEND_ATTEMPTS = 2
  Unparseable = {}
  Unsendable = {}
  MaxCrashes = 1
  MaxTimeouts = 1
  MaxSendFailures = 1
INVARIANT FeedIsTrue
PROPERTY ImplementsFeed
CHECK_DEADLOCK FALSE
