-------------------------- MODULE MCOrderExecution --------------------------
(* Constants of the runs of order execution: attributes of orders and threads. *)
EXTENDS OrderExecution

CONSTANTS o1, o2, o3, o4, c1, c2, m1, b1, b2, k1

MCKeyOf     == [o \in Orders |-> k1]
MCSide      == [o \in Orders |-> IF o = o2 THEN "SELL" ELSE "BUY"]
AllBuy      == [o \in Orders |-> "BUY"]
MCQty       == [o \in Orders |-> IF o = o1 THEN 2 ELSE 1]
ThreeEach   == [o \in Orders |-> 3]
OneReplica  == [t \in Threads |-> b1]
TwoReplicas == [t \in Threads |-> IF t = c1 THEN b1 ELSE b2]
=============================================================================
