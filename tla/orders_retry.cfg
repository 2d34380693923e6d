SPECIFICATION FairSpec
CONSTANTS
  o1 = o1 o2 = o2 o3 = o3 o4 = o4 c1 = c1 c2 = c2 m1 = m1 b1 = b1 b2 = b2 k1 = k1
  Orders = {o1, o2, o3, o4}
  Threads = {c1, m1}
  Keys = {k1}
  KeyOf <- MCKeyOf
  Side <- AllBuy
  Qty <- ThreeEach
  Replicas = {b1}
  ReplicaOf <- OneReplica
  Makers = {m1}
  NoOrder = NoOrder
  RfqOrders = {o2, o3, o4}
  MarketOrders = {}
  MAX_ATTEMPTS = 3
  SIZE = 1
  MaxOps = 6
  MaxRestarts = 1
  MaxFailures = 0
PROPERTIES  OnlyFirstInsertLost OperationsEnd
CHECK_DEADLOCK FALSE
