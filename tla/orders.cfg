SPECIFICATION Spec
CONSTANTS
  o1 = o1 o2 = o2 o3 = o3 o4 = o4 c1 = c1 c2 = c2 m1 = m1 b1 = b1 b2 = b2 k1 = k1
  Orders = {o1, o2, o3}
  Threads = {c1, c2, m1}
  Keys = {k1}
  KeyOf <- MCKeyOf
  Side <- MCSide
  Qty <- MCQty
  Replicas = {b1, b2}
  ReplicaOf <- TwoReplicas
  Makers = {m1}
  NoOrder = NoOrder
  RfqOrders = {o3}
  MarketOrders = {o2}
  MAX_ATTEMPTS = 3
  SIZE = 1
  MaxOps = 5
  MaxRestarts = 1
  MaxFailures = 1
INVARIANTS FillsMatchStatus PositionsAddUp 
PROPERTY FollowsLifecycle
CHECK_DEADLOCK FALSE
