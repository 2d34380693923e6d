SPECIFICATION WriterSpec
CONSTANTS
  Orders = {o1, o2}
  Writers = {w1, w2, w3}
  NoOrder = NoOrder
  MaxRows = 4
INVARIANTS OutboxMatchesOrders IdsFollowLifecycle
CHECK_DEADLOCK FALSE
