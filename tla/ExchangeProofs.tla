-------------------------- MODULE ExchangeProofs --------------------------
(***************************************************************************)
(* Proofs about ExchangeSim, for any participants, requests, amendments,   *)
(* number of orders, fair prices, quote size and inventory bound.          *)
(*                                                                         *)
(* - The book is sound (BookAlwaysSound).  BookSound speaks of the totals  *)
(*   and of the states between two calls; the invariant BookInv says what  *)
(*   holds within a call: each queue is in order of arrival and of limit   *)
(*   orders of its side and price, each total is the sum of what its live  *)
(*   orders want, and only the level being swept may have no live order.   *)
(* - The maker is bounded (MakerAlwaysBounded).  InventoryBounded is about *)
(*   what has traded; the invariant MakerInv also counts what may still    *)
(*   trade: every order of the maker, resting or being matched, is the bid *)
(*   or the ask it remembers, and even all of it is within the bounds.     *)
(* - The engine is an order book with price-time priority, step by step    *)
(*   (EngineIsPriceTime).  BookInv makes the head of the best queue the    *)
(*   first; Passive says that a post-only order has nothing to sweep.      *)
(* - Fill-or-kill is all or nothing (FokAlwaysAllOrNothing): what the gate *)
(*   adds up level by level stays as much as the taker wants (Covered).    *)
(***************************************************************************)
EXTENDS ExchangeSim, FoldTheorems

(***************************************************************************)
(* The shapes of orders, and what a level of the book is: a queue in order *)
(* of arrival of limit orders of its side and price, and the total of what *)
(* its live orders still want.                                             *)
(***************************************************************************)
OrderRec == [id : Nat, participant : Participants \cup {"nobody"}, side : Sides, type : {"LIMIT", "MARKET"},
             tif : {"GTC", "IOC", "FOK"}, postOnly : BOOLEAN, price : Int, qty : Int,
             active : BOOLEAN]
Orders == [Ids -> OrderRec]

Total(ord, ids) == SumFunctionOnSet([i \in ids |-> ord[i].qty], ids)
LiveIn(l, ord) == {i \in ToSet(l.orders) : ord[i].active}
Resting(o, i, s, p) ==
  o.id = i /\ o.side = s /\ o.price = p /\ o.type = "LIMIT" /\ o.qty \in Nat \ {0}
Ascending(q) == \A j, k \in 1 .. Len(q) : j < k => q[j] < q[k]

QueueOK(l, s, p, ord) ==
  /\ l \in Level /\ Ascending(l.orders)
  /\ \A i \in ToSet(l.orders) : Resting(ord[i], i, s, p)
  /\ l.total = Total(ord, LiveIn(l, ord))
LevelOK(l, s, p, ord) == QueueOK(l, s, p, ord) /\ l.orders # <<>>

-----------------------------------------------------------------------------
\* Ids are numbers.
LEMMA IdsAre == \A i \in Ids : i \in Nat /\ i # 0
BY BookAssumption DEF Ids

\* NoOrder and NoRequest are of the types of orders and requests, and nobody's.
LEMMA NoOrderIs ==
  /\ NoOrder \in OrderRec /\ NoOrder.id = 0 /\ NoOrder.qty = 0 /\ NoOrder.active = FALSE
  /\ NoOrder.participant # ID /\ NoRequest \in Request
<1>1. NoRequest \in Request
  BY DEF NoRequest, Request, Sides
<1> QED
  BY <1>1 DEF NoOrder, OrderRec, Sides, ID

\* The order a request turns into.
LEMMA OrderIs ==
  ASSUME NEW r \in Request, NEW i \in Nat \ {0}
  PROVE  /\ Order(r, i) \in OrderRec /\ Order(r, i) # NoOrder /\ Order(r, i).id = i
         /\ Order(r, i).active = TRUE
         /\ Order(r, i).participant = r.participant /\ Order(r, i).side = r.side
         /\ Order(r, i).type = r.type /\ Order(r, i).postOnly = r.postOnly
         /\ Order(r, i).tif = r.tif /\ Order(r, i).price = r.price /\ Order(r, i).qty = r.qty
<1>1. Order(r, i).id = i /\ NoOrder.id = 0
  BY NoOrderIs DEF Order
<1>2. Order(r, i) # NoOrder
  BY <1>1
<1> QED
  BY <1>1, <1>2 DEF OrderRec, Order, Request

\* A queue as a set: finite, and orders on file.
LEMMA QueueSet ==
  ASSUME NEW q \in Seq(Ids)
  PROVE  /\ ToSet(q) \subseteq Ids /\ ToSet(q) = {q[j] : j \in 1 .. Len(q)}
         /\ \A T : T \subseteq ToSet(q) => IsFiniteSet(T)
<1>1. DOMAIN q = 1 .. Len(q) /\ \A j \in 1 .. Len(q) : q[j] \in Ids
  OBVIOUS
<1>2. ToSet(q) \subseteq Ids /\ ToSet(q) = {q[j] : j \in 1 .. Len(q)}
  BY <1>1 DEF ToSet
<1>3. IsFiniteSet(Ids)
  BY BookAssumption, FS_Interval DEF Ids
<1>4. \A T : T \subseteq ToSet(q) => IsFiniteSet(T)
  BY <1>2, <1>3, FS_Subset
<1> QED
  BY <1>2, <1>4

\* The head of a queue, and the others.
LEMMA HeadAndTail ==
  ASSUME NEW q \in Seq(Ids), q # <<>>, Ascending(q)
  PROVE  /\ Head(q) \in ToSet(q) /\ Tail(q) \in Seq(Ids) /\ Ascending(Tail(q))
         /\ Head(q) \notin ToSet(Tail(q)) /\ ToSet(q) = {Head(q)} \cup ToSet(Tail(q))
         /\ \A i \in ToSet(Tail(q)) : Head(q) < i
<1>1. /\ Len(q) \in Nat \ {0} /\ Head(q) = q[1] /\ Tail(q) \in Seq(Ids)
      /\ Len(Tail(q)) = Len(q) - 1 /\ \A j \in 1 .. Len(q) - 1 : Tail(q)[j] = q[j + 1]
      /\ \A j \in 1 .. Len(q) : q[j] \in Int
  <2>1. Len(q) \in Nat /\ Len(q) # 0
    BY EmptySeq
  <2>2. \A j \in 1 .. Len(q) : q[j] \in Ids
    OBVIOUS
  <2>3. /\ Head(q) = q[1] /\ Tail(q) \in Seq(Ids) /\ Len(Tail(q)) = Len(q) - 1
        /\ \A j \in 1 .. Len(Tail(q)) : Tail(q)[j] = q[j + 1]
    BY HeadTailProperties
  <2> QED
    BY <2>1, <2>2, <2>3, IdsAre
<1>2. ToSet(q) = {q[j] : j \in 1 .. Len(q)} /\ ToSet(Tail(q)) = {Tail(q)[j] : j \in 1 .. Len(Tail(q))}
  BY <1>1, QueueSet
<1>3. \A j \in 1 .. Len(q) - 1 : j + 1 \in 1 .. Len(q) /\ q[1] < q[j + 1]
  BY <1>1 DEF Ascending
<1>4. \A i \in ToSet(Tail(q)) : \E j \in 1 .. Len(q) - 1 : i = q[j + 1]
  BY <1>1, <1>2
<1>5. \A i \in ToSet(Tail(q)) : i \in ToSet(q) /\ Head(q) < i /\ i \in Int
  BY <1>1, <1>2, <1>3, <1>4
<1>6. Head(q) \in ToSet(q)
  BY <1>1, <1>2
<1>7. ASSUME NEW i \in ToSet(q), i # Head(q) PROVE i \in ToSet(Tail(q))
  <2>1. PICK j \in 1 .. Len(q) : i = q[j]
    BY <1>2
  <2>2. j - 1 \in 1 .. Len(q) - 1 /\ (j - 1) + 1 = j
    BY <1>1, <1>7, <2>1
  <2>3. Tail(q)[j - 1] = i
    BY <1>1, <2>1, <2>2
  <2> QED
    BY <1>1, <1>2, <2>2, <2>3
<1>8. Ascending(Tail(q))
  <2> SUFFICES ASSUME NEW j \in 1 .. Len(Tail(q)), NEW k \in 1 .. Len(Tail(q)), j < k
               PROVE  Tail(q)[j] < Tail(q)[k]
    BY DEF Ascending
  <2>1. j + 1 \in 1 .. Len(q) /\ k + 1 \in 1 .. Len(q) /\ j + 1 < k + 1
    BY <1>1
  <2>2. q[j + 1] < q[k + 1]
    BY <2>1 DEF Ascending
  <2> QED
    BY <1>1, <2>2
<1>9. Head(q) \in Int /\ Head(q) \notin ToSet(Tail(q))
  <2>1. Head(q) \in Int
    BY <1>1
  <2> QED
    BY <1>5, <2>1
<1> QED
  BY <1>1, <1>5, <1>6, <1>7, <1>8, <1>9

\* Sums of what orders want: equal summands, one less, one changed, one more.
LEMMA SumLooksAt ==
  ASSUME NEW ord \in Orders, NEW other \in Orders, NEW T \in SUBSET (Ids),
         \A i \in T : other[i].qty = ord[i].qty
  PROVE  Total(other, T) = Total(ord, T)
<1>1. [i \in T |-> other[i].qty] = [i \in T |-> ord[i].qty]
  OBVIOUS
<1> QED
  BY <1>1 DEF Total

\* Sets of ids are finite.
LEMMA FiniteIds == \A T \in SUBSET (Ids) : IsFiniteSet(T)
<1>1. IsFiniteSet(Ids)
  BY BookAssumption, FS_Interval DEF Ids
<1> QED
  BY <1>1, FS_Subset

\* Taking one order out of a sum.
LEMMA SumWithout ==
  ASSUME NEW ord \in Orders, NEW T \in SUBSET (Ids), NEW i \in T
  PROVE  Total(ord, T \ {i}) = Total(ord, T) - ord[i].qty
<1> DEFINE f == [k \in T |-> ord[k].qty]
           g == [k \in T \ {i} |-> ord[k].qty]
<1>1. IsFiniteSet(T) /\ IsFiniteSet(T \ {i})
  BY FiniteIds
<1>2. \A k \in Ids : ord[k].qty \in Int
  BY DEF Orders, OrderRec
<1>3. \A k \in T : f[k] \in Int
  BY <1>2
<1>4. \A k \in T \ {i} : f[k] \in Int /\ g[k] = f[k]
  BY <1>2
<1>5. f[i] = ord[i].qty
  OBVIOUS
<1>6. Total(ord, T) = SumFunctionOnSet(f, T) /\ Total(ord, T \ {i}) = SumFunctionOnSet(g, T \ {i})
  BY DEF Total
<1> HIDE DEF f, g
<1>7. SumFunctionOnSet(f, T) = f[i] + SumFunctionOnSet(f, T \ {i})
  BY <1>1, <1>3, SumRemove
<1>8. SumFunctionOnSet(g, T \ {i}) = SumFunctionOnSet(f, T \ {i})
  BY <1>1, <1>4, SumSame
<1>9. SumFunctionOnSet(f, T \ {i}) \in Int
  BY <1>1, <1>4, SumType
<1> QED
  BY <1>3, <1>5, <1>6, <1>7, <1>8, <1>9

\* Live orders want something: the total is positive exactly when there are any.
LEMMA SumOfLive ==
  ASSUME NEW ord \in Orders, NEW T \in SUBSET (Ids), \A i \in T : ord[i].qty \in Nat \ {0}
  PROVE  /\ Total(ord, T) \in Nat /\ (Total(ord, T) = 0 <=> T = {})
         /\ \A i \in T : ord[i].qty <= Total(ord, T)
<1>1. \A R \in SUBSET T : Total(ord, R) \in Nat
  <2> SUFFICES ASSUME NEW R \in SUBSET T PROVE Total(ord, R) \in Nat
    OBVIOUS
  <2> DEFINE f == [k \in R |-> ord[k].qty]
  <2>1. IsFiniteSet(R) /\ \A k \in R : f[k] \in Nat
    BY FiniteIds
  <2> HIDE DEF f
  <2>2. SumFunctionOnSet(f, R) \in Nat
    BY <2>1, SumNat
  <2> QED
    BY <2>2 DEF Total, f
<1>2. \A i \in T : Total(ord, T \ {i}) = Total(ord, T) - ord[i].qty
  BY SumWithout
<1>3. ASSUME NEW i \in T PROVE ord[i].qty <= Total(ord, T) /\ Total(ord, T) # 0
  <2>1. Total(ord, T) \in Nat /\ Total(ord, T \ {i}) \in Nat /\ ord[i].qty \in Nat \ {0}
    BY <1>1
  <2>2. Total(ord, T \ {i}) = Total(ord, T) - ord[i].qty
    BY <1>2
  <2> QED
    BY <2>1, <2>2
<1>4. ASSUME T = {} PROVE Total(ord, T) = 0
  BY <1>4, SumEmpty DEF Total
<1>5. T # {} => Total(ord, T) # 0
  BY <1>3
<1>6. Total(ord, T) \in Nat
  BY <1>1
<1> QED
  BY <1>3, <1>4, <1>5, <1>6

-----------------------------------------------------------------------------
(***************************************************************************)
(* What the engine does to a level.                                        *)
(***************************************************************************)
\* The parts of a level that is in order.
LEMMA QueueIs ==
  ASSUME NEW ord \in Orders, NEW l, NEW s, NEW p, QueueOK(l, s, p, ord)
  PROVE  /\ l.orders \in Seq(Ids) /\ l.total \in Nat /\ ToSet(l.orders) \in SUBSET Ids
         /\ LiveIn(l, ord) \in SUBSET Ids /\ LiveIn(l, ord) \subseteq ToSet(l.orders)
         /\ (l.total = 0 <=> LiveIn(l, ord) = {})
         /\ \A i \in LiveIn(l, ord) : ord[i].qty <= l.total
         /\ \A i \in ToSet(l.orders) : Resting(ord[i], i, s, p) /\ ord[i] # NoOrder
<1>1. l.orders \in Seq(Ids)
  BY DEF QueueOK, Level
<1>2. ToSet(l.orders) \in SUBSET Ids
  BY <1>1, QueueSet
<1>3. LiveIn(l, ord) \in SUBSET Ids /\ LiveIn(l, ord) \subseteq ToSet(l.orders)
  BY <1>2 DEF LiveIn
<1>4. \A i \in LiveIn(l, ord) : ord[i].qty \in Nat \ {0}
  BY <1>3 DEF QueueOK, Resting
<1>5. /\ Total(ord, LiveIn(l, ord)) \in Nat
      /\ (Total(ord, LiveIn(l, ord)) = 0 <=> LiveIn(l, ord) = {})
      /\ \A i \in LiveIn(l, ord) : ord[i].qty <= Total(ord, LiveIn(l, ord))
  BY <1>3, <1>4, SumOfLive
<1>6. l.total = Total(ord, LiveIn(l, ord))
  BY DEF QueueOK
<1>7. \A i \in ToSet(l.orders) : Resting(ord[i], i, s, p)
  BY DEF QueueOK
<1>8. \A i \in ToSet(l.orders) : ord[i].qty # 0 /\ ord[i] # NoOrder
  BY <1>7, NoOrderIs DEF Resting
<1> QED
  BY <1>1, <1>2, <1>3, <1>5, <1>6, <1>7, <1>8

\* A level depends on the orders in its queue only.
LEMMA QueueLooksAt ==
  ASSUME NEW ord \in Orders, NEW other \in Orders, NEW l, NEW s, NEW p, QueueOK(l, s, p, ord),
         \A i \in ToSet(l.orders) : other[i] = ord[i]
  PROVE  QueueOK(l, s, p, other)
<1>1. LiveIn(l, other) = LiveIn(l, ord)
  BY DEF LiveIn
<1>2. LiveIn(l, ord) \in SUBSET Ids /\ \A i \in LiveIn(l, ord) : other[i].qty = ord[i].qty
  BY QueueIs
<1>3. Total(other, LiveIn(l, other)) = Total(ord, LiveIn(l, ord))
  BY <1>1, <1>2, SumLooksAt
<1> QED
  BY <1>3 DEF QueueOK

\* The head leaves: what it wanted leaves the total, if it was live.
LEMMA HeadLeaves ==
  ASSUME NEW ord \in Orders, NEW other \in Orders, NEW l, NEW m, NEW s, NEW p, LevelOK(l, s, p, ord),
         m \in Level, m.orders = Tail(l.orders),
         m.total = IF ord[Head(l.orders)].active
                     THEN l.total - ord[Head(l.orders)].qty ELSE l.total,
         \A i \in ToSet(l.orders) : i # Head(l.orders) => other[i] = ord[i]
  PROVE  QueueOK(m, s, p, other)
<1> DEFINE h == Head(l.orders)
           L == LiveIn(l, ord)
           M == LiveIn(m, other)
<1>1. l.orders \in Seq(Ids) /\ l.orders # <<>> /\ Ascending(l.orders) /\ l.total = Total(ord, L)
  BY DEF LevelOK, QueueOK, Level
<1>2. /\ h \in ToSet(l.orders) /\ Ascending(m.orders) /\ h \notin ToSet(m.orders)
      /\ ToSet(l.orders) = {h} \cup ToSet(m.orders)
  BY <1>1, HeadAndTail
<1>3. \A i \in ToSet(m.orders) : other[i] = ord[i] /\ Resting(other[i], i, s, p)
  BY <1>2 DEF LevelOK, QueueOK
<1>4. M = L \ {h} /\ L \in SUBSET Ids /\ M \in SUBSET Ids
  <2>1. L \in SUBSET Ids
    BY QueueIs DEF LevelOK
  <2>2. M = L \ {h}
    BY <1>2, <1>3 DEF LiveIn
  <2> QED
    BY <2>1, <2>2
<1>5. Total(other, M) = Total(ord, M)
  BY <1>3, <1>4, SumLooksAt DEF LiveIn
<1>6. h \in L <=> ord[h].active
  BY <1>2 DEF LiveIn
<1>7. m.total = Total(other, M)
  <2>1. CASE ord[h].active
    <3>1. Total(ord, L \ {h}) = Total(ord, L) - ord[h].qty
      BY <1>4, <1>6, <2>1, SumWithout
    <3> QED
      BY <1>1, <1>4, <1>5, <2>1, <3>1
  <2>2. CASE ~ord[h].active
    <3>1. L \ {h} = L
      BY <1>6, <2>2
    <3> QED
      BY <1>1, <1>4, <1>5, <2>2, <3>1
  <2> QED
    BY <2>1, <2>2
<1> QED
  BY <1>2, <1>3, <1>7 DEF QueueOK

\* One order changes: it wants n, or it is live no more.
SameOtherwise(ord, other, i) ==
  /\ other \in Orders /\ \A k \in Ids : k # i => other[k] = ord[k]
  /\ other[i].id = ord[i].id /\ other[i].participant = ord[i].participant
  /\ other[i].side = ord[i].side /\ other[i].type = ord[i].type /\ other[i].price = ord[i].price
Wants(ord, other, i, n) ==
  SameOtherwise(ord, other, i) /\ other[i].qty = n /\ other[i].active = ord[i].active
Stopped(ord, other, i) ==
  SameOtherwise(ord, other, i) /\ other[i].qty = ord[i].qty /\ other[i].active = FALSE

\* Setting an order's quantity changes nothing else of it.
LEMMA WantsIs ==
  ASSUME NEW ord \in Orders, NEW i \in Ids, NEW n \in Int
  PROVE  Wants(ord, [ord EXCEPT ![i] = [ord[i] EXCEPT !.qty = n]], i, n)
<1> DEFINE o == [ord[i] EXCEPT !.qty = n]
<1>1. ord[i] \in OrderRec
  BY DEF Orders
<1>2. /\ o \in OrderRec /\ o.qty = n /\ o.id = ord[i].id /\ o.participant = ord[i].participant
      /\ o.side = ord[i].side /\ o.type = ord[i].type /\ o.price = ord[i].price
      /\ o.active = ord[i].active
  BY <1>1 DEF OrderRec
<1> HIDE DEF o
<1>3. /\ [ord EXCEPT ![i] = o] \in Orders /\ [ord EXCEPT ![i] = o][i] = o
      /\ \A k \in Ids : k # i => [ord EXCEPT ![i] = o][k] = ord[k]
  BY <1>2 DEF Orders
<1>4. Wants(ord, [ord EXCEPT ![i] = o], i, n)
  BY <1>2, <1>3 DEF Wants, SameOtherwise
<1> QED
  BY <1>4 DEF o

\* Marking an order inactive changes nothing else of it.
LEMMA StoppedIs ==
  ASSUME NEW ord \in Orders, NEW i \in Ids
  PROVE  Stopped(ord, [ord EXCEPT ![i] = [ord[i] EXCEPT !.active = FALSE]], i)
<1> DEFINE o == [ord[i] EXCEPT !.active = FALSE]
<1>1. ord[i] \in OrderRec
  BY DEF Orders
<1>2. /\ o \in OrderRec /\ o.qty = ord[i].qty /\ o.id = ord[i].id
      /\ o.participant = ord[i].participant
      /\ o.side = ord[i].side /\ o.type = ord[i].type /\ o.price = ord[i].price
      /\ o.active = FALSE
  BY <1>1 DEF OrderRec
<1> HIDE DEF o
<1>3. /\ [ord EXCEPT ![i] = o] \in Orders /\ [ord EXCEPT ![i] = o][i] = o
      /\ \A k \in Ids : k # i => [ord EXCEPT ![i] = o][k] = ord[k]
  BY <1>2 DEF Orders
<1>4. Stopped(ord, [ord EXCEPT ![i] = o], i)
  BY <1>2, <1>3 DEF Stopped, SameOtherwise
<1> QED
  BY <1>4 DEF o

\* A live order wants something else: so does its level.
LEMMA OneWants ==
  ASSUME NEW ord \in Orders, NEW l, NEW m, NEW s, NEW p, LevelOK(l, s, p, ord),
         NEW i \in LiveIn(l, ord), NEW n \in Nat \ {0},
         NEW other, Wants(ord, other, i, n),
         m \in Level, m.orders = l.orders, m.total = l.total - (ord[i].qty - n)
  PROVE  LevelOK(m, s, p, other)
<1> DEFINE L == LiveIn(l, ord)
<1>1. l.orders \in Seq(Ids) /\ l.orders # <<>> /\ Ascending(l.orders) /\ l.total = Total(ord, L)
  BY DEF LevelOK, QueueOK, Level
<1>2. L \in SUBSET Ids /\ i \in ToSet(l.orders) /\ ToSet(l.orders) \in SUBSET Ids
  BY QueueIs DEF LevelOK, LiveIn
<1>3. ord[i] \in OrderRec /\ ord[i].qty \in Int
  BY <1>2 DEF Orders, OrderRec
<1>4. /\ other[i].qty = n /\ other[i].id = ord[i].id /\ other[i].side = ord[i].side
      /\ other[i].price = ord[i].price /\ other[i].type = ord[i].type
      /\ other[i].active = ord[i].active /\ other \in Orders
  BY DEF Wants, SameOtherwise
<1>5. \A k \in Ids : k # i => other[k] = ord[k]
  BY DEF Wants, SameOtherwise
<1>6. \A k \in ToSet(m.orders) : Resting(other[k], k, s, p)
  BY <1>2, <1>4, <1>5 DEF LevelOK, QueueOK, Resting
<1>7. LiveIn(m, other) = L
  BY <1>2, <1>4, <1>5 DEF LiveIn
<1>8. Total(ord, L \ {i}) = Total(ord, L) - ord[i].qty
  BY <1>2, SumWithout
<1>9. Total(other, L \ {i}) = Total(other, L) - other[i].qty
  BY <1>2, <1>4, SumWithout
<1>10. Total(other, L \ {i}) = Total(ord, L \ {i})
  <2>1. L \ {i} \in SUBSET Ids /\ \A k \in L \ {i} : other[k].qty = ord[k].qty
    BY <1>2, <1>5
  <2> HIDE DEF L
  <2> QED
    BY <1>4, <2>1, SumLooksAt
<1>11. \A k \in L : ord[k].qty \in Nat \ {0} /\ other[k].qty \in Nat \ {0}
  <2>1. \A k \in L : k \in ToSet(l.orders) /\ k \in Ids
    BY <1>2 DEF LiveIn
  <2>2. \A k \in L : ord[k].qty \in Nat \ {0}
    BY <2>1 DEF LevelOK, QueueOK, Resting
  <2>3. \A k \in L : k # i => other[k].qty = ord[k].qty
    BY <1>5, <2>1
  <2> QED
    BY <1>4, <2>2, <2>3
<1>12. Total(ord, L) \in Nat /\ Total(other, L) \in Nat
  <2> HIDE DEF L
  <2>1. Total(ord, L) \in Nat
    BY <1>2, <1>4, <1>11, SumOfLive
  <2>2. Total(other, L) \in Nat
    BY <1>2, <1>4, <1>11, SumOfLive
  <2> QED
    BY <2>1, <2>2
<1>13. m.total = Total(other, LiveIn(m, other))
  <2>1. other[i].qty = n
    BY <1>4
  <2> HIDE DEF L
  <2>2. Total(other, L) = Total(ord, L) - (ord[i].qty - n)
    BY <1>3, <1>8, <1>9, <1>10, <1>12, <2>1
  <2> QED
    BY <1>1, <1>7, <2>2
<1> QED
  BY <1>1, <1>6, <1>13 DEF LevelOK, QueueOK

\* A live order is cancelled: it stays in the queue, and wants nothing any more.
LEMMA OneCancelled ==
  ASSUME NEW ord \in Orders, NEW l, NEW m, NEW s, NEW p, LevelOK(l, s, p, ord),
         NEW i \in LiveIn(l, ord),
         NEW other, Stopped(ord, other, i),
         m \in Level, m.orders = l.orders, m.total = l.total - ord[i].qty
  PROVE  LevelOK(m, s, p, other)
<1> DEFINE L == LiveIn(l, ord)
           M == LiveIn(m, other)
<1>1. l.orders \in Seq(Ids) /\ l.orders # <<>> /\ Ascending(l.orders) /\ l.total = Total(ord, L)
  BY DEF LevelOK, QueueOK, Level
<1>2. L \in SUBSET Ids /\ i \in ToSet(l.orders) /\ ToSet(l.orders) \in SUBSET Ids
  BY QueueIs DEF LevelOK, LiveIn
<1>3. ord[i] \in OrderRec
  BY <1>2 DEF Orders
<1>4. /\ other[i].qty = ord[i].qty /\ other[i].id = ord[i].id /\ other[i].side = ord[i].side
      /\ other[i].price = ord[i].price /\ other[i].type = ord[i].type
      /\ other[i].active = FALSE /\ other \in Orders
  BY DEF Stopped, SameOtherwise
<1>5. \A k \in Ids : k # i => other[k] = ord[k]
  BY DEF Stopped, SameOtherwise
<1>6. \A k \in ToSet(m.orders) : Resting(other[k], k, s, p)
  BY <1>2, <1>4, <1>5 DEF LevelOK, QueueOK, Resting
<1>7. M = L \ {i}
  BY <1>2, <1>4, <1>5 DEF LiveIn
<1>8. Total(ord, L \ {i}) = Total(ord, L) - ord[i].qty
  BY <1>2, SumWithout
<1>9. Total(other, L \ {i}) = Total(ord, L \ {i})
  <2>1. L \ {i} \in SUBSET Ids /\ \A k \in L \ {i} : other[k].qty = ord[k].qty
    BY <1>2, <1>5
  <2> HIDE DEF L
  <2> QED
    BY <1>4, <2>1, SumLooksAt
<1>10. m.total = Total(other, M)
  <2> HIDE DEF L, M
  <2> QED
    BY <1>1, <1>7, <1>8, <1>9
<1> QED
  BY <1>1, <1>6, <1>10 DEF LevelOK, QueueOK

Latest(l, i) == \A k \in ToSet(l.orders) : k < i
Joined(l, m, i, o) == m.orders = Append(l.orders, i) /\ m.total = l.total + o.qty
Filing(ord, other, i, o) == other[i] = o /\ o.active = TRUE /\ \A k \in Ids : k # i => other[k] = ord[k]

\* An order arrives at the end of the queue.
LEMMA OneArrives ==
  ASSUME NEW ord \in Orders, NEW l, NEW m, NEW s, NEW p, QueueOK(l, s, p, ord),
         NEW i \in Ids, Latest(l, i),
         NEW o \in OrderRec, Resting(o, i, s, p),
         NEW other \in Orders, Filing(ord, other, i, o),
         m \in Level, Joined(l, m, i, o)
  PROVE  LevelOK(m, s, p, other) /\ ToSet(m.orders) = ToSet(l.orders) \cup {i}
<1> DEFINE q == l.orders
           r == Append(q, i)
           L == LiveIn(l, ord)
           M == LiveIn(m, other)
<1>1. q \in Seq(Ids) /\ Ascending(q) /\ l.total = Total(ord, L) /\ l.total \in Nat
  BY QueueIs DEF QueueOK, Level
<1>2. /\ Len(q) \in Nat /\ r \in Seq(Ids) /\ Len(r) = Len(q) + 1 /\ r[Len(q) + 1] = i
      /\ \A j \in 1 .. Len(q) : r[j] = q[j] /\ q[j] \in Ids
  BY <1>1, AppendProperties
<1>3. ToSet(q) = {q[j] : j \in 1 .. Len(q)} /\ ToSet(r) = {r[j] : j \in 1 .. Len(r)}
  BY <1>1, <1>2, QueueSet
<1> HIDE DEF q, r
<1>4. ToSet(r) = ToSet(q) \cup {i}
  BY <1>2, <1>3
<1>5. i \notin ToSet(q) /\ \A k \in ToSet(q) : k < i
  BY IdsAre DEF q, Latest
<1>6. r # <<>>
  BY <1>2, EmptySeq
<1>7. Ascending(r)
  <2> SUFFICES ASSUME NEW j \in 1 .. Len(r), NEW k \in 1 .. Len(r), j < k PROVE r[j] < r[k]
    BY DEF Ascending
  <2>1. CASE k = Len(q) + 1
    <3>1. j \in 1 .. Len(q)
      BY <1>2, <2>1
    <3>2. q[j] \in ToSet(q)
      BY <1>3, <3>1
    <3> QED
      BY <1>2, <1>5, <2>1, <3>1, <3>2
  <2>2. CASE k # Len(q) + 1
    <3>1. j \in 1 .. Len(q) /\ k \in 1 .. Len(q)
      <4>1. Len(q) \in Nat /\ j \in 1 .. Len(q) + 1 /\ k \in 1 .. Len(q) + 1
        BY <1>2
      <4> QED
        BY <2>2, <4>1
    <3> QED
      BY <1>1, <1>2, <3>1 DEF Ascending
  <2> QED
    BY <2>1, <2>2
<1>8. other[i] = o /\ o.active = TRUE /\ \A k \in Ids : k # i => other[k] = ord[k]
  BY DEF Filing
<1>9. ToSet(q) \in SUBSET Ids /\ L \in SUBSET Ids /\ L \subseteq ToSet(q)
  BY QueueIs DEF q
<1>10. \A k \in ToSet(m.orders) : Resting(other[k], k, s, p)
  BY <1>4, <1>5, <1>8, <1>9 DEF QueueOK, q, r, Joined
<1>11. M = L \cup {i} /\ i \notin L /\ M \in SUBSET Ids
  <2>1. m.orders = r /\ l.orders = q
    BY DEF r, q, Joined
  <2>2. M = L \cup {i}
    BY <1>4, <1>5, <1>8, <1>9, <2>1 DEF LiveIn
  <2> QED
    BY <1>5, <1>9, <2>2
<1>12. L = M \ {i} /\ i \in M
  BY <1>11
<1>13. Total(other, L) = Total(ord, L)
  <2>1. \A k \in L : other[k].qty = ord[k].qty
    BY <1>8, <1>9, <1>11
  <2> HIDE DEF L
  <2> QED
    BY <1>9, <2>1, SumLooksAt
<1>14. Total(other, M \ {i}) = Total(other, M) - o.qty
  <2>1. M \in SUBSET Ids /\ i \in M
    BY <1>11, <1>12
  <2> HIDE DEF L, M
  <2>2. Total(other, M \ {i}) = Total(other, M) - other[i].qty
    BY <2>1, SumWithout
  <2> QED
    BY <1>8, <2>2
<1>15. Total(other, M) \in Nat /\ o.qty \in Nat
  <2>1. \A k \in M : other[k].qty \in Nat \ {0}
    BY <1>10 DEF LiveIn, Resting
  <2>2. o.qty \in Nat
    BY DEF Resting
  <2> HIDE DEF M
  <2> QED
    BY <1>11, <2>1, <2>2, SumOfLive
<1>16. m.total = Total(other, M)
  <2> HIDE DEF L, M
  <2> QED
    BY <1>1, <1>12, <1>13, <1>14, <1>15 DEF Joined
<1> QED
  BY <1>4, <1>6, <1>7, <1>10, <1>16 DEF LevelOK, QueueOK, r, q, Joined

-----------------------------------------------------------------------------
(***************************************************************************)
(* The book: levels at positive prices, every level in order, every live   *)
(* order in the queue of its price.                                        *)
(***************************************************************************)
Shaped(lv) ==
  /\ DOMAIN lv = Sides
  /\ \A s \in Sides : DOMAIN lv[s] \in SUBSET (Nat \ {0}) /\ IsFiniteSet(DOMAIN lv[s])
Leveled(lv, ord) == \A s \in Sides : \A p \in DOMAIN lv[s] : LevelOK(lv[s][p], s, p, ord)
Queued(lv, ord) ==
  \A i \in Ids : ord[i].active =>
     /\ ord[i].price \in DOMAIN lv[ord[i].side]
     /\ i \in ToSet(lv[ord[i].side][ord[i].price].orders)
Named(ord) == \A i \in Ids : ord[i] = NoOrder \/ (ord[i].id = i /\ ord[i].qty \in Nat \ {0})
Standing(lv, ord) == Shaped(lv) /\ ord \in Orders /\ Leveled(lv, ord) /\ Queued(lv, ord) /\ Named(ord)

\* A level is put at a price: the other levels stay as they are.
LevelPut(lv, new, s, p, m) ==
  /\ DOMAIN new = Sides /\ \A t \in Sides : t # s => new[t] = lv[t]
  /\ DOMAIN new[s] = DOMAIN lv[s] \cup {p}
  /\ \A x \in DOMAIN new[s] : new[s][x] = IF x = p THEN m ELSE lv[s][x]
LevelGone(lv, new, s, p) ==
  /\ DOMAIN new = Sides /\ \A t \in Sides : t # s => new[t] = lv[t]
  /\ DOMAIN new[s] = DOMAIN lv[s] \ {p}
  /\ \A x \in DOMAIN new[s] : new[s][x] = lv[s][x]

\* With puts a level, and leaves the others.
LEMMA WithIs ==
  ASSUME NEW s \in Sides, NEW p, NEW m, DOMAIN levels = Sides
  PROVE  LevelPut(levels, With(s, p, m), s, p, m)
<1> DEFINE f == [x \in DOMAIN levels[s] \cup {p} |-> IF x = p THEN m ELSE levels[s][x]]
<1>1. DOMAIN f = DOMAIN levels[s] \cup {p} /\ \A x \in DOMAIN f : f[x] = IF x = p THEN m ELSE levels[s][x]
  OBVIOUS
<1>2. With(s, p, m) = [levels EXCEPT ![s] = f]
  BY DEF With
<1> HIDE DEF f
<1>3. DOMAIN With(s, p, m) = Sides /\ With(s, p, m)[s] = f /\ \A t \in Sides : t # s => With(s, p, m)[t] = levels[t]
  BY <1>2
<1> QED
  BY <1>1, <1>3 DEF LevelPut

\* Without drops a level, and leaves the others.
LEMMA WithoutIs ==
  ASSUME NEW s \in Sides, NEW p, DOMAIN levels = Sides
  PROVE  LevelGone(levels, Without(s, p), s, p)
<1> DEFINE f == [x \in DOMAIN levels[s] \ {p} |-> levels[s][x]]
<1>1. DOMAIN f = DOMAIN levels[s] \ {p} /\ \A x \in DOMAIN f : f[x] = levels[s][x]
  OBVIOUS
<1>2. Without(s, p) = [levels EXCEPT ![s] = f]
  BY DEF Without
<1> HIDE DEF f
<1>3. DOMAIN Without(s, p) = Sides /\ Without(s, p)[s] = f /\ \A t \in Sides : t # s => Without(s, p)[t] = levels[t]
  BY <1>2
<1> QED
  BY <1>1, <1>3 DEF LevelGone

\* Every order that changes was on no file, or at one price of one side.
ChangedAt(ord, other, s, p) ==
  \A i \in Ids : other[i] # ord[i] => ord[i] = NoOrder \/ (ord[i].side = s /\ ord[i].price = p)

\* Orders elsewhere do not notice a change at one price of one side.
LEMMA OthersStand ==
  ASSUME NEW lv, NEW ord, Standing(lv, ord), NEW s \in Sides, NEW p, NEW other \in Orders,
         ChangedAt(ord, other, s, p),
         NEW t \in Sides, NEW x \in DOMAIN lv[t], t # s \/ x # p
  PROVE  LevelOK(lv[t][x], t, x, other)
<1> DEFINE l == lv[t][x]
<1>1. ord \in Orders /\ QueueOK(l, t, x, ord) /\ l.orders # <<>>
  BY DEF Standing, Leveled, LevelOK
<1> HIDE DEF l
<1>2. \A i \in ToSet(l.orders) : i \in Ids /\ Resting(ord[i], i, t, x) /\ ord[i] # NoOrder
  BY <1>1, QueueIs
<1>3. \A i \in ToSet(l.orders) : other[i] = ord[i]
  BY <1>2 DEF Resting, ChangedAt
<1>4. QueueOK(l, t, x, other)
  BY <1>1, <1>3, QueueLooksAt
<1> QED
  BY <1>1, <1>4 DEF LevelOK, l

\* A book stands when one level was replaced by a sound one and only its orders changed.
LEMMA PutLevel ==
  ASSUME NEW lv, NEW ord, Standing(lv, ord), NEW s \in Sides, NEW p \in Nat \ {0},
         NEW m, NEW new, LevelPut(lv, new, s, p, m), NEW other \in Orders, LevelOK(m, s, p, other),
         ChangedAt(ord, other, s, p),
         \A i \in Ids : other[i] # ord[i] =>
            other[i] = NoOrder \/ (other[i].id = i /\ other[i].qty \in Nat \ {0}
                                   /\ other[i].side = s /\ other[i].price = p),
         \A i \in Ids : other[i].active /\ other[i].side = s /\ other[i].price = p => i \in ToSet(m.orders)
  PROVE  Standing(new, other)
<1>1. Shaped(new)
  <2>1. IsFiniteSet(DOMAIN lv[s] \cup {p})
    BY FS_AddElement DEF Standing, Shaped
  <2> QED
    BY <2>1 DEF Standing, Shaped, LevelPut
<1>2. Leveled(new, other)
  <2> SUFFICES ASSUME NEW t \in Sides, NEW x \in DOMAIN new[t] PROVE LevelOK(new[t][x], t, x, other)
    BY DEF Leveled
  <2>1. CASE t = s /\ x = p
    BY <2>1 DEF LevelPut
  <2>2. CASE ~(t = s /\ x = p)
    <3>1. x \in DOMAIN lv[t] /\ new[t][x] = lv[t][x]
      BY <2>2 DEF LevelPut
    <3>2. LevelOK(lv[t][x], t, x, other)
      BY <2>2, <3>1, OthersStand
    <3> QED
      BY <3>1, <3>2
  <2> QED
    BY <2>1, <2>2
<1>3. Queued(new, other)
  <2> SUFFICES ASSUME NEW i \in Ids, other[i].active
               PROVE  /\ other[i].price \in DOMAIN new[other[i].side]
                      /\ i \in ToSet(new[other[i].side][other[i].price].orders)
    BY DEF Queued
  <2>1. other[i] # NoOrder /\ other[i].side \in Sides
    BY NoOrderIs DEF Orders, OrderRec
  <2>2. CASE other[i].side = s /\ other[i].price = p
    BY <2>2 DEF LevelPut
  <2>3. CASE ~(other[i].side = s /\ other[i].price = p)
    <3>1. other[i] = ord[i]
      BY <2>1, <2>3 DEF ChangedAt
    <3>2. ord[i].price \in DOMAIN lv[ord[i].side] /\ i \in ToSet(lv[ord[i].side][ord[i].price].orders)
      BY <3>1 DEF Standing, Queued
    <3> QED
      BY <2>1, <2>3, <3>1, <3>2 DEF LevelPut
  <2> QED
    BY <2>2, <2>3
<1>4. Named(other)
  BY DEF Standing, Named
<1> QED
  BY <1>1, <1>2, <1>3, <1>4 DEF Standing

\* A book stands when one level was dropped with all of its orders.
LEMMA DropLevel ==
  ASSUME NEW lv, NEW ord, Standing(lv, ord), NEW s \in Sides, NEW p,
         NEW new, LevelGone(lv, new, s, p), NEW other \in Orders,
         ChangedAt(ord, other, s, p),
         \A i \in Ids : other[i] # ord[i] => other[i] = NoOrder,
         \A i \in Ids : other[i].side = s /\ other[i].price = p => ~other[i].active
  PROVE  Standing(new, other)
<1>1. Shaped(new)
  <2>1. IsFiniteSet(DOMAIN lv[s] \ {p})
    BY FS_Subset DEF Standing, Shaped
  <2> QED
    BY <2>1 DEF Standing, Shaped, LevelGone
<1>2. Leveled(new, other)
  <2> SUFFICES ASSUME NEW t \in Sides, NEW x \in DOMAIN new[t] PROVE LevelOK(new[t][x], t, x, other)
    BY DEF Leveled
  <2>1. x \in DOMAIN lv[t] /\ new[t][x] = lv[t][x] /\ (t # s \/ x # p)
    BY DEF LevelGone
  <2>2. LevelOK(lv[t][x], t, x, other)
    BY <2>1, OthersStand
  <2> QED
    BY <2>1, <2>2
<1>3. Queued(new, other)
  <2> SUFFICES ASSUME NEW i \in Ids, other[i].active
               PROVE  /\ other[i].price \in DOMAIN new[other[i].side]
                      /\ i \in ToSet(new[other[i].side][other[i].price].orders)
    BY DEF Queued
  <2>1. other[i] # NoOrder /\ other[i].side \in Sides
    BY NoOrderIs DEF Orders, OrderRec
  <2>2. other[i] = ord[i] /\ ~(ord[i].side = s /\ ord[i].price = p)
    BY <2>1
  <2>3. ord[i].price \in DOMAIN lv[ord[i].side] /\ i \in ToSet(lv[ord[i].side][ord[i].price].orders)
    BY <2>2 DEF Standing, Queued
  <2> QED
    BY <2>1, <2>2, <2>3 DEF LevelGone
<1>4. Named(other)
  BY DEF Standing, Named
<1> QED
  BY <1>1, <1>2, <1>3, <1>4 DEF Standing

-----------------------------------------------------------------------------
\* The best price of a side is one of its prices, and the best of them.
LEMMA BestIs ==
  ASSUME NEW lv, Shaped(lv), NEW s \in Sides
  PROVE  /\ BestOf(lv, s) \in Nat /\ (BestOf(lv, s) = 0 <=> DOMAIN lv[s] = {})
         /\ BestOf(lv, s) # 0 => BestOf(lv, s) \in DOMAIN lv[s]
         /\ s = "BUY" => \A p \in DOMAIN lv[s] : BestOf(lv, s) >= p
         /\ s = "SELL" => \A p \in DOMAIN lv[s] : BestOf(lv, s) <= p
<1> DEFINE D == DOMAIN lv[s]
<1>1. D \in SUBSET (Nat \ {0}) /\ D \in SUBSET Nat /\ IsFiniteSet(D)
  BY DEF Shaped
<1>2. CASE D = {}
  BY <1>2 DEF BestOf
<1>3. CASE D # {} /\ s = "BUY"
  <2>1. BestOf(lv, s) = CHOOSE x \in D : \A y \in D : x >= y
    BY <1>3 DEF BestOf, Max
  <2> HIDE DEF D
  <2>2. \E x \in D : \A y \in D : x >= y
    BY <1>1, <1>3, MaximalNat
  <2>3. BestOf(lv, s) \in D /\ \A y \in D : BestOf(lv, s) >= y
    BY <2>1, <2>2
  <2> QED
    BY <1>1, <1>3, <2>3 DEF D
<1>4. CASE D # {} /\ s # "BUY"
  <2>1. BestOf(lv, s) = CHOOSE x \in D : \A y \in D : x <= y
    BY <1>4 DEF BestOf, Min
  <2> HIDE DEF D
  <2>2. \E x \in D : \A y \in D : x <= y
    BY <1>1, <1>4, MinimalNat
  <2>3. BestOf(lv, s) \in D /\ \A y \in D : BestOf(lv, s) <= y
    BY <2>1, <2>2
  <2> QED
    BY <1>1, <1>4, <2>3 DEF D
<1> QED
  BY <1>2, <1>3, <1>4

-----------------------------------------------------------------------------
(***************************************************************************)
(* The inductive invariant of the engine.                                  *)
(***************************************************************************)
Indexed == byId = {i \in Ids : order[i].active}
Filed == \A i \in Ids : order[i] # NoOrder => i <= seq /\ (taker # NoOrder => i < seq)
Taking ==
  /\ taker \in OrderRec /\ taker.qty \in Nat
  /\ taker # NoOrder => /\ taker.id = seq /\ seq # 0 /\ taker.active = TRUE
                        /\ taker.type = "LIMIT" => taker.price \in Nat \ {0}
                        /\ amended = NoRequest
Counted == seq \in 0 .. MaxOrders /\ amended \in Request /\ top \in [Sides -> Nat]
FullLevels ==
  \A s \in Sides : \A p \in DOMAIN levels[s] :
    levels[s][p].total \in Nat \ {0} \/ (Sweeping /\ s = Opp /\ p = Best)
CachedTop == taker = NoOrder => top = Refreshed(levels)
Apart == \A p \in DOMAIN levels["BUY"], q \in DOMAIN levels["SELL"] : p < q

BookInv ==
  Standing(levels, order) /\ Indexed /\ Filed /\ Taking /\ Counted /\ FullLevels /\ CachedTop /\ Apart

-----------------------------------------------------------------------------
\* Where the taker is matched.
LEMMA HeadIs ==
  ASSUME BookInv, Sweeping
  PROVE  /\ Opp \in Sides /\ taker # NoOrder /\ taker.qty \in Nat \ {0}
         /\ Best \in DOMAIN levels[Opp] /\ Best \in Nat \ {0}
         /\ LevelOK(levels[Opp][Best], Opp, Best, order)
         /\ levels[Opp][Best].orders \in Seq(Ids) /\ levels[Opp][Best].total \in Nat
         /\ HeadId \in ToSet(levels[Opp][Best].orders) /\ HeadId \in Ids
         /\ ToSet(levels[Opp][Best].orders) \in SUBSET Ids
         /\ Resting(order[HeadId], HeadId, Opp, Best) /\ order[HeadId] # NoOrder
<1>1. Opp \in Sides /\ taker # NoOrder /\ taker.qty \in Nat \ {0}
  BY DEF BookInv, Taking, Sweeping, Opp, Opposite, Sides
<1>2. Best \in DOMAIN levels[Opp] /\ Best \in Nat \ {0}
  <2>1. Shaped(levels) /\ Best # 0
    BY DEF BookInv, Standing, Sweeping
  <2>2. Best \in DOMAIN levels[Opp]
    BY <1>1, <2>1, BestIs DEF Best
  <2> QED
    BY <1>1, <2>1, <2>2 DEF Shaped
<1> DEFINE l == levels[Opp][Best]
<1>3. LevelOK(l, Opp, Best, order) /\ order \in Orders
  BY <1>1, <1>2 DEF BookInv, Standing, Leveled
<1>4. HeadId = Head(l.orders)
  BY DEF HeadId
<1> HIDE DEF l
<1>5. l.orders \in Seq(Ids) /\ l.orders # <<>> /\ Ascending(l.orders) /\ QueueOK(l, Opp, Best, order)
  BY <1>3 DEF LevelOK, QueueOK, Level
<1>6. HeadId \in ToSet(l.orders)
  BY <1>4, <1>5, HeadAndTail
<1>7. /\ l.total \in Nat /\ ToSet(l.orders) \in SUBSET Ids
      /\ \A i \in ToSet(l.orders) : Resting(order[i], i, Opp, Best) /\ order[i] # NoOrder
  BY <1>3, <1>5, QueueIs
<1>8. HeadId \in Ids
  BY <1>6, <1>7
<1> QED
  BY <1>1, <1>2, <1>3, <1>5, <1>6, <1>7, <1>8 DEF l

\* An iteration puts the level back or drops it.
LEMMA IteratedIs ==
  ASSUME BookInv, Sweeping, NEW m, NEW left
  PROVE  \/ /\ m.orders # <<>> /\ (left # 0 \/ m.total # 0)
            /\ LevelPut(levels, Iterated(m, left), Opp, Best, m)
         \/ /\ m.orders = <<>> \/ (left = 0 /\ m.total = 0)
            /\ LevelGone(levels, Iterated(m, left), Opp, Best)
<1>1. Opp \in Sides /\ DOMAIN levels = Sides
  BY HeadIs DEF BookInv, Standing, Shaped
<1>2. LevelPut(levels, With(Opp, Best, m), Opp, Best, m)
  BY <1>1, WithIs
<1>3. LevelGone(levels, Without(Opp, Best), Opp, Best)
  BY <1>1, WithoutIs
<1> QED
  BY <1>2, <1>3 DEF Iterated

\* The head goes, and with the level what is left of its queue: the book stands.
LEMMA HeadGone ==
  ASSUME BookInv, Sweeping, NEW m \in Level, NEW left \in Nat,
         m.orders = Tail(levels[Opp][Best].orders),
         m.total = IF order[HeadId].active
                     THEN levels[Opp][Best].total - order[HeadId].qty ELSE levels[Opp][Best].total,
         NEW gone, gone = {HeadId} \cup (IF left = 0 /\ m.total = 0
                                           THEN ToSet(levels[Opp][Best].orders) ELSE {})
  PROVE  /\ Standing(Iterated(m, left), Kept(gone))
         /\ \A i \in Ids : Kept(gone)[i].active <=> order[i].active /\ i # HeadId
<1> DEFINE l == levels[Opp][Best]
           other == Kept(gone)
           new == Iterated(m, left)
<1>1. /\ Opp \in Sides /\ Best \in Nat \ {0} /\ LevelOK(l, Opp, Best, order) /\ l.orders \in Seq(Ids)
      /\ HeadId \in ToSet(l.orders) /\ HeadId \in Ids /\ ToSet(l.orders) \in SUBSET Ids
      /\ HeadId = Head(l.orders)
  BY HeadIs DEF HeadId
<1>2. Standing(levels, order) /\ order \in Orders
  BY DEF BookInv, Standing
<1>3. /\ m.orders = Tail(l.orders)
      /\ m.total = IF order[HeadId].active THEN l.total - order[HeadId].qty ELSE l.total
  OBVIOUS
<1>4. gone \in SUBSET ToSet(l.orders) /\ HeadId \in gone
      /\ gone = {HeadId} \cup (IF left = 0 /\ m.total = 0 THEN ToSet(l.orders) ELSE {})
  BY <1>1
<1>5. other \in Orders /\ \A i \in Ids : other[i] = IF i \in gone THEN NoOrder ELSE order[i]
  BY <1>2, NoOrderIs DEF Kept, Orders
<1>6. (m.orders # <<>> /\ LevelPut(levels, new, Opp, Best, m) /\ (left # 0 \/ m.total # 0))
      \/ (LevelGone(levels, new, Opp, Best) /\ (m.orders = <<>> \/ (left = 0 /\ m.total = 0)))
  BY IteratedIs
<1> HIDE DEF l, other, new
<1>7. l.orders # <<>> /\ Ascending(l.orders) /\ QueueOK(l, Opp, Best, order)
      /\ \A i \in ToSet(l.orders) : Resting(order[i], i, Opp, Best)
  BY <1>1 DEF LevelOK, QueueOK
<1>8. HeadId \notin ToSet(m.orders) /\ ToSet(l.orders) = {HeadId} \cup ToSet(m.orders)
  BY <1>1, <1>3, <1>7, HeadAndTail
<1> DEFINE first == Kept({HeadId})
<1>9. first \in Orders /\ first[HeadId] = NoOrder /\ \A i \in Ids : i # HeadId => first[i] = order[i]
  BY <1>1, <1>2, NoOrderIs DEF Kept, Orders
<1> HIDE DEF first
<1>10. QueueOK(m, Opp, Best, first)
  <2>1. \A i \in ToSet(l.orders) : i # Head(l.orders) => first[i] = order[i]
    BY <1>1, <1>9
  <2>2. m.total = IF order[Head(l.orders)].active THEN l.total - order[Head(l.orders)].qty ELSE l.total
    BY <1>1, <1>3
  <2> QED
    BY <1>1, <1>2, <1>3, <1>9, <2>1, <2>2, HeadLeaves
<1>11. \A i \in Ids : order[i].active /\ order[i].side = Opp /\ order[i].price = Best => i \in ToSet(l.orders)
  BY <1>1, <1>2 DEF Standing, Queued, l
<1>12. ChangedAt(order, other, Opp, Best)
  BY <1>4, <1>5, <1>7 DEF ChangedAt, Resting
<1>13. \A i \in Ids : other[i] # order[i] => other[i] = NoOrder
  BY <1>5
<1>14. m.total = 0 => \A i \in ToSet(m.orders) : ~order[i].active
  <2>1. m.total = 0 => LiveIn(m, first) = {}
    BY <1>9, <1>10, QueueIs
  <2> QED
    BY <1>1, <1>8, <1>9, <2>1 DEF LiveIn
<1>15. \A i \in Ids : other[i].active <=> order[i].active /\ i # HeadId
  <2>1. NoOrder.active = FALSE
    BY NoOrderIs
  <2>2. \A i \in gone : i = HeadId \/ ~order[i].active
    BY <1>4, <1>8, <1>14
  <2> QED
    BY <1>4, <1>5, <2>1, <2>2
<1>16. CASE m.orders # <<>> /\ LevelPut(levels, new, Opp, Best, m) /\ (left # 0 \/ m.total # 0)
  <2>1. gone = {HeadId} /\ other = first
    BY <1>4, <1>16 DEF other, first
  <2>2. LevelOK(m, Opp, Best, other)
    BY <1>10, <1>16, <2>1 DEF LevelOK
  <2>3. \A i \in Ids : other[i].active /\ other[i].side = Opp /\ other[i].price = Best => i \in ToSet(m.orders)
    BY <1>5, <1>8, <1>11, <1>13, <1>15, <2>1
  <2>4. LevelPut(levels, new, Opp, Best, m)
    BY <1>16
  <2>5. Standing(new, other)
    BY <1>1, <1>2, <1>5, <1>12, <1>13, <2>2, <2>3, <2>4, PutLevel
  <2> QED
    BY <1>15, <2>5 DEF other, new
<1>17. CASE LevelGone(levels, new, Opp, Best) /\ (m.orders = <<>> \/ (left = 0 /\ m.total = 0))
  <2>1. \A i \in ToSet(l.orders) : i \in gone \/ ~order[i].active
    <3>1. CASE m.orders = <<>>
      <4>1. ToSet(m.orders) = {}
        <5>1. m.orders \in Seq(Ids) /\ Len(m.orders) = 0
          BY <3>1 DEF Level
        <5>2. ToSet(m.orders) = {m.orders[j] : j \in 1 .. Len(m.orders)}
          BY <5>1, QueueSet
        <5> QED
          BY <5>1, <5>2
      <4> QED
        BY <1>4, <1>8, <4>1
    <3>2. CASE left = 0 /\ m.total = 0
      BY <1>4, <3>2
    <3> QED
      BY <1>17, <3>1, <3>2
  <2>2. \A i \in Ids : other[i].side = Opp /\ other[i].price = Best => ~other[i].active
    BY <1>5, <1>11, <1>13, <1>15, <2>1, NoOrderIs
  <2>3. LevelGone(levels, new, Opp, Best)
    BY <1>17
  <2>4. Standing(new, other)
    BY <1>1, <1>2, <1>5, <1>12, <1>13, <2>2, <2>3, DropLevel
  <2> QED
    BY <1>15, <2>4 DEF other, new
<1> QED
  BY <1>6, <1>16, <1>17

-----------------------------------------------------------------------------
(***************************************************************************)
(* One lemma for each operation of the engine: it keeps the invariant.     *)
(***************************************************************************)
\* An iteration that leaves a standing book, with "left" wanted by the taker.
LEMMA IterationKeeps ==
  ASSUME BookInv, Sweeping, NEW m, NEW left \in Nat,
         levels' = Iterated(m, left), Standing(levels', order'), Indexed',
         taker' \in OrderRec, taker'.id = taker.id, taker'.side = taker.side,
         taker'.type = taker.type, taker'.price = taker.price, taker'.active = taker.active,
         taker'.qty = left,
         \A i \in Ids : order'[i] # NoOrder => order[i] # NoOrder,
         UNCHANGED <<top, seq, amended>>
  PROVE  BookInv'
<1>1. /\ Opp \in Sides /\ Best \in DOMAIN levels[Opp] /\ taker # NoOrder
      /\ Shaped(levels) /\ Shaped(levels')
  BY HeadIs DEF BookInv, Standing
<1>2. taker' # NoOrder /\ taker.id # 0
  BY <1>1, NoOrderIs DEF BookInv, Taking, Counted
<1>3. Filed' /\ Taking' /\ Counted' /\ CachedTop'
  <2>1. Filed'
    BY <1>1 DEF BookInv, Filed
  <2>2. Taking'
    BY <1>1 DEF BookInv, Taking
  <2>3. Counted'
    BY DEF BookInv, Counted
  <2>4. CachedTop'
    BY <1>2 DEF CachedTop
  <2> QED
    BY <2>1, <2>2, <2>3, <2>4
<1>4. \A s \in Sides : DOMAIN levels'[s] \subseteq DOMAIN levels[s]
  BY <1>1, IteratedIs DEF LevelPut, LevelGone
<1>5. Apart'
  BY <1>4 DEF BookInv, Apart, Sides
<1>6. FullLevels'
  <2> SUFFICES ASSUME NEW s \in Sides, NEW p \in DOMAIN levels'[s]
               PROVE  levels'[s][p].total \in Nat \ {0} \/ (Sweeping' /\ s = Opp' /\ p = Best')
    BY DEF FullLevels
  <2>1. LevelOK(levels'[s][p], s, p, order') /\ order' \in Orders
    BY DEF Standing, Leveled
  <2>2. levels'[s][p].total \in Nat
    <3> DEFINE k == levels'[s][p]
    <3>1. QueueOK(k, s, p, order') /\ order' \in Orders
      BY <2>1 DEF LevelOK
    <3> HIDE DEF k
    <3>2. k.total \in Nat
      BY <3>1, QueueIs
    <3> QED
      BY <3>2 DEF k
  <2>3. CASE s = Opp /\ p = Best
    <3>1. LevelPut(levels, levels', Opp, Best, m) /\ (left # 0 \/ m.total # 0)
      BY <2>3, IteratedIs DEF LevelGone
    <3>2. levels'[s][p] = m /\ \A t \in Sides : DOMAIN levels'[t] = DOMAIN levels[t]
      BY <1>1, <2>3, <3>1 DEF LevelPut
    <3>3. Opp' = Opp
      BY DEF Opp
    <3>4. Best' = Best
      BY <1>1, <3>2, <3>3 DEF Best, BestOf
    <3>5. Crosses(taker', Best')
      BY <3>4 DEF Sweeping, Crosses
    <3>6. CASE left # 0
      <4>1. Sweeping'
        BY <1>2, <3>4, <3>5, <3>6 DEF Sweeping
      <4> QED
        BY <2>3, <3>3, <3>4, <4>1
    <3>7. CASE m.total # 0
      BY <2>2, <3>2, <3>7
    <3> QED
      BY <3>1, <3>6, <3>7
  <2>4. CASE ~(s = Opp /\ p = Best)
    <3>1. p \in DOMAIN levels[s] /\ levels'[s][p] = levels[s][p]
      BY <1>1, <2>4, IteratedIs DEF LevelPut, LevelGone
    <3> QED
      BY <2>4, <3>1 DEF BookInv, FullLevels
  <2> QED
    BY <2>3, <2>4
<1> QED
  BY <1>3, <1>5, <1>6 DEF BookInv

\* Skipping a cancelled order keeps the invariant.
LEMMA DiscardKeeps ==
  ASSUME BookInv, DiscardCancelled
  PROVE  BookInv'
<1> DEFINE l == levels[Opp][Best]
           m == [orders |-> Tail(l.orders), total |-> l.total]
           left == taker.qty
           gone == {HeadId}
<1>1. Sweeping /\ ~order[HeadId].active /\ levels' = Iterated(m, left) /\ order' = Kept(gone)
      /\ UNCHANGED <<byId, top, seq, taker, amended>>
  BY DEF DiscardCancelled
<1>2. /\ l.orders \in Seq(Ids) /\ l.total \in Nat /\ LevelOK(l, Opp, Best, order) /\ HeadId \in Ids
      /\ left \in Nat \ {0}
  BY <1>1, HeadIs
<1>3. m \in Level /\ m.orders = Tail(l.orders) /\ m.total = l.total
  <2>1. l.orders # <<>> /\ Ascending(l.orders)
    BY <1>2 DEF LevelOK, QueueOK
  <2>2. Tail(l.orders) \in Seq(Ids)
    BY <1>2, <2>1, HeadAndTail
  <2> QED
    BY <1>2, <2>2 DEF Level
<1>4. gone = {HeadId} \cup (IF left = 0 /\ m.total = 0 THEN ToSet(l.orders) ELSE {})
  BY <1>2
<1> HIDE DEF m, left, gone
<1>5. Standing(levels', order') /\ \A i \in Ids : order'[i].active <=> order[i].active /\ i # HeadId
  BY <1>1, <1>2, <1>3, <1>4, HeadGone
<1>6. Indexed'
  BY <1>1, <1>5 DEF BookInv, Indexed
<1>7. \A i \in Ids : order'[i] # NoOrder => order[i] # NoOrder
  BY <1>1 DEF Kept
<1>8. taker \in OrderRec /\ taker.qty = left
  BY DEF BookInv, Taking, left
<1> QED
  BY <1>1, <1>2, <1>5, <1>6, <1>7, <1>8, IterationKeeps

\* Self-trade prevention keeps the invariant.
LEMMA PreventKeeps ==
  ASSUME BookInv, PreventSelfTrade
  PROVE  BookInv'
<1> DEFINE l == levels[Opp][Best]
           m == [orders |-> Tail(l.orders), total |-> l.total - order[HeadId].qty]
           left == taker.qty
           gone == {HeadId}
<1>1. Sweeping /\ order[HeadId].active /\ levels' = Iterated(m, left) /\ order' = Kept(gone)
      /\ byId' = byId \ {HeadId} /\ UNCHANGED <<top, seq, taker, amended>>
  BY DEF PreventSelfTrade
<1>2. /\ l.orders \in Seq(Ids) /\ l.total \in Nat /\ LevelOK(l, Opp, Best, order) /\ HeadId \in Ids
      /\ left \in Nat \ {0} /\ order[HeadId].qty \in Nat
  BY <1>1, HeadIs DEF Resting
<1>3. m \in Level /\ m.orders = Tail(l.orders) /\ m.total = l.total - order[HeadId].qty
  <2>1. l.orders # <<>> /\ Ascending(l.orders)
    BY <1>2 DEF LevelOK, QueueOK
  <2>2. Tail(l.orders) \in Seq(Ids)
    BY <1>2, <2>1, HeadAndTail
  <2> QED
    BY <1>2, <2>2 DEF Level
<1>4. gone = {HeadId} \cup (IF left = 0 /\ m.total = 0 THEN ToSet(l.orders) ELSE {})
  BY <1>2
<1> HIDE DEF m, left, gone
<1>5. Standing(levels', order') /\ \A i \in Ids : order'[i].active <=> order[i].active /\ i # HeadId
  BY <1>1, <1>2, <1>3, <1>4, HeadGone
<1>6. Indexed'
  BY <1>1, <1>5 DEF BookInv, Indexed
<1>7. \A i \in Ids : order'[i] # NoOrder => order[i] # NoOrder
  BY <1>1 DEF Kept
<1>8. taker \in OrderRec /\ taker.qty = left
  BY DEF BookInv, Taking, left
<1> QED
  BY <1>1, <1>2, <1>5, <1>6, <1>7, <1>8, IterationKeeps

\* What changes hands: something, and no more than either side has.
LEMMA TradedIs ==
  ASSUME taker.qty \in Nat \ {0}, order[HeadId].qty \in Nat \ {0}
  PROVE  /\ Traded \in Nat \ {0} /\ Traded <= taker.qty /\ Traded <= order[HeadId].qty
         /\ Traded = taker.qty \/ Traded = order[HeadId].qty
<1> DEFINE a == taker.qty
           b == order[HeadId].qty
<1>1. Traded = CHOOSE x \in {a, b} : \A y \in {a, b} : x <= y
  BY DEF Traded, Min
<1>2. a \in Nat \ {0} /\ b \in Nat \ {0}
  OBVIOUS
<1> HIDE DEF a, b
<1>3. \E x \in {a, b} : \A y \in {a, b} : x <= y
  <2>1. CASE a <= b
    BY <1>2, <2>1
  <2>2. CASE b <= a
    BY <1>2, <2>2
  <2> QED
    BY <1>2, <2>1, <2>2
<1>4. Traded \in {a, b} /\ \A y \in {a, b} : Traded <= y
  BY <1>1, <1>3
<1> QED
  BY <1>2, <1>4 DEF a, b

\* A trade keeps the invariant.
LEMMA TradeKeeps ==
  ASSUME BookInv, Trade
  PROVE  BookInv'
<1> DEFINE l == levels[Opp][Best]
           n == Traded
           filled == order[HeadId].qty = n
           m == [orders |-> IF filled THEN Tail(l.orders) ELSE l.orders, total |-> l.total - n]
           left == taker.qty - n
<1>1. /\ Sweeping /\ order[HeadId].active /\ levels' = Iterated(m, left)
      /\ order' = IF filled
           THEN Kept({HeadId} \cup (IF taker.qty = n /\ m.total = 0 THEN ToSet(l.orders) ELSE {}))
           ELSE [order EXCEPT ![HeadId] = [order[HeadId] EXCEPT !.qty = order[HeadId].qty - n]]
      /\ byId' = IF filled THEN byId \ {HeadId} ELSE byId
      /\ taker' = [taker EXCEPT !.qty = taker.qty - n]
      /\ UNCHANGED <<top, seq, amended>>
  BY DEF Trade
<1>2. /\ l.orders \in Seq(Ids) /\ l.total \in Nat /\ LevelOK(l, Opp, Best, order) /\ HeadId \in Ids
      /\ taker.qty \in Nat \ {0} /\ order[HeadId].qty \in Nat \ {0}
      /\ Opp \in Sides /\ Best \in Nat \ {0} /\ HeadId \in ToSet(l.orders)
      /\ Resting(order[HeadId], HeadId, Opp, Best) /\ order[HeadId] # NoOrder
      /\ Best \in DOMAIN levels[Opp]
  BY <1>1, HeadIs DEF Resting
<1>3. n \in Nat \ {0} /\ n <= taker.qty /\ n <= order[HeadId].qty /\ (n = taker.qty \/ filled)
  BY <1>2, TradedIs
<1>4. left \in Nat /\ (left = 0 <=> taker.qty = n)
  BY <1>2, <1>3
<1>5. l.orders # <<>> /\ Ascending(l.orders) /\ QueueOK(l, Opp, Best, order) /\ order \in Orders
  BY <1>2 DEF LevelOK, QueueOK, BookInv, Standing
<1>6. m \in Level
  <2>1. Tail(l.orders) \in Seq(Ids)
    BY <1>2, <1>5, HeadAndTail
  <2> QED
    BY <1>2, <1>3, <2>1 DEF Level
<1>7. /\ taker' \in OrderRec /\ taker'.id = taker.id /\ taker'.side = taker.side
      /\ taker'.type = taker.type /\ taker'.price = taker.price /\ taker'.active = taker.active
      /\ taker'.qty = left
  <2>1. taker \in OrderRec
    BY DEF BookInv, Taking
  <2> QED
    BY <1>1, <1>2, <1>3, <2>1 DEF OrderRec
<1>8. /\ m.orders = (IF filled THEN Tail(l.orders) ELSE l.orders)
      /\ m.total = l.total - n
  OBVIOUS
<1>9. CASE filled
  <2> DEFINE gone == {HeadId} \cup (IF left = 0 /\ m.total = 0 THEN ToSet(l.orders) ELSE {})
  <2>1. order' = Kept(gone) /\ byId' = byId \ {HeadId}
    BY <1>1, <1>4, <1>9
  <2>2. m.orders = Tail(l.orders) /\ m.total = l.total - order[HeadId].qty
    BY <1>8, <1>9
  <2> HIDE DEF m, left, filled, gone
  <2>3. gone = {HeadId} \cup (IF left = 0 /\ m.total = 0 THEN ToSet(l.orders) ELSE {})
    BY DEF gone
  <2>4. /\ Standing(Iterated(m, left), Kept(gone))
        /\ \A i \in Ids : Kept(gone)[i].active <=> order[i].active /\ i # HeadId
    BY <1>1, <1>4, <1>6, <2>2, <2>3, HeadGone
  <2>5. Standing(levels', order') /\ \A i \in Ids : order'[i].active <=> order[i].active /\ i # HeadId
    BY <1>1, <2>1, <2>4
  <2>6. Indexed'
    BY <2>1, <2>5 DEF BookInv, Indexed
  <2>7. \A i \in Ids : order'[i] # NoOrder => order[i] # NoOrder
    BY <2>1 DEF Kept
  <2> QED
    BY <1>1, <1>4, <1>7, <2>5, <2>6, <2>7, IterationKeeps
<1>10. CASE ~filled
  <2> DEFINE k == order[HeadId].qty - n
  <2>1. /\ n = taker.qty /\ left = 0 /\ k \in Nat \ {0} /\ byId' = byId
        /\ m.total = l.total - (order[HeadId].qty - k)
    <3>1. n = taker.qty /\ left = 0 /\ byId' = byId /\ order[HeadId].qty # n
      BY <1>1, <1>3, <1>4, <1>10
    <3> HIDE DEF n, m, l, left, filled
    <3>2. k \in Nat \ {0} /\ n = order[HeadId].qty - k
      BY <1>2, <1>3, <3>1
    <3> HIDE DEF k
    <3>3. m.total = l.total - (order[HeadId].qty - k)
      BY <1>8, <3>2
    <3> QED
      BY <3>1, <3>2, <3>3
  <2>2. /\ order' = [order EXCEPT ![HeadId] = [order[HeadId] EXCEPT !.qty = k]]
        /\ m.orders = l.orders
    BY <1>1, <1>8, <1>10
  <2> HIDE DEF m, left, filled, n, k, l
  <2>3. Wants(order, order', HeadId, k)
    <3>1. k \in Int
      BY <2>1
    <3>2. Wants(order, [order EXCEPT ![HeadId] = [order[HeadId] EXCEPT !.qty = k]], HeadId, k)
      BY <1>2, <1>5, <3>1, WantsIs
    <3> QED
      BY <2>2, <3>2
  <2>4. /\ order'[HeadId].qty = k /\ order'[HeadId].active = order[HeadId].active
        /\ order'[HeadId].id = HeadId /\ order'[HeadId].side = Opp /\ order'[HeadId].price = Best
    BY <1>2, <2>3 DEF Wants, SameOtherwise, Resting
  <2>5. order' \in Orders /\ \A i \in Ids : i # HeadId => order'[i] = order[i]
    BY <2>3 DEF Wants, SameOtherwise
  <2>6. HeadId \in LiveIn(l, order)
    BY <1>1, <1>2 DEF LiveIn
  <2>7. LevelOK(m, Opp, Best, order')
    BY <1>2, <1>5, <1>6, <2>1, <2>2, <2>3, <2>6, OneWants
  <2>8. m.total # 0
    <3>1. order[HeadId].qty <= l.total
      BY <1>5, <2>6, QueueIs
    <3> QED
      BY <1>2, <1>3, <2>1, <3>1
  <2>9. LevelPut(levels, levels', Opp, Best, m)
    <3>1. m.orders # <<>>
      BY <1>5, <2>2
    <3> QED
      BY <1>1, <2>8, <3>1, IteratedIs
  <2>10. ChangedAt(order, order', Opp, Best)
    BY <1>2, <2>5 DEF ChangedAt, Resting
  <2>11. \A i \in Ids : order'[i] # order[i] =>
            order'[i] = NoOrder \/ (order'[i].id = i /\ order'[i].qty \in Nat \ {0}
                                   /\ order'[i].side = Opp /\ order'[i].price = Best)
    BY <2>1, <2>4, <2>5
  <2>12. \A i \in Ids : order'[i].active <=> order[i].active
    BY <2>4, <2>5
  <2>13. \A i \in Ids : order'[i].active /\ order'[i].side = Opp /\ order'[i].price = Best => i \in ToSet(m.orders)
    <3>1. \A i \in Ids : order[i].active /\ order[i].side = Opp /\ order[i].price = Best => i \in ToSet(l.orders)
      BY DEF BookInv, Standing, Queued, l
    <3> QED
      BY <1>2, <2>2, <2>4, <2>5, <2>12, <3>1
  <2>14. Standing(levels, order)
    BY DEF BookInv
  <2>15. Standing(levels', order')
    BY <1>2, <2>5, <2>7, <2>9, <2>10, <2>11, <2>13, <2>14, PutLevel
  <2>16. Indexed'
    BY <2>1, <2>12 DEF BookInv, Indexed
  <2>17. \A i \in Ids : order'[i] # NoOrder => order[i] # NoOrder
    BY <1>2, <2>5
  <2> QED
    BY <1>1, <1>4, <1>7, <2>15, <2>16, <2>17, IterationKeeps
<1> QED
  BY <1>9, <1>10

\* The cache, computed anew.
LEMMA RefreshedIs ==
  ASSUME Shaped(levels) PROVE Refreshed(levels) \in [Sides -> Nat]
BY BestIs DEF Refreshed

\* The end of a submit whose remainder dies keeps the invariant.
LEMMA FinishKeeps ==
  ASSUME BookInv, Finish
  PROVE  BookInv'
<1>1. taker # NoOrder /\ ~Sweeping /\ taker' = NoOrder /\ top' = Refreshed(levels)
      /\ UNCHANGED <<levels, order, byId, seq, amended>>
  BY DEF Finish
<1>2. Standing(levels', order') /\ Indexed' /\ Filed' /\ Apart'
  BY <1>1 DEF BookInv, Indexed, Filed, Apart
<1>3. Taking'
  BY <1>1, NoOrderIs DEF Taking
<1>4. Counted'
  BY <1>1, RefreshedIs DEF BookInv, Counted, Standing
<1>5. FullLevels'
  BY <1>1 DEF BookInv, FullLevels
<1>6. CachedTop'
  BY <1>1 DEF CachedTop, Refreshed, BestOf
<1> QED
  BY <1>2, <1>3, <1>4, <1>5, <1>6 DEF BookInv

\* The end of a submit whose remainder rests keeps the invariant.
LEMMA RestKeeps ==
  ASSUME BookInv, Rest
  PROVE  BookInv'
<1> DEFINE s == taker.side
           p == taker.price
           i == taker.id
           l == IF p \in DOMAIN levels[s] THEN levels[s][p] ELSE [orders |-> <<>>, total |-> 0]
           m == [orders |-> Append(l.orders, i), total |-> l.total + taker.qty]
<1>1. /\ taker # NoOrder /\ ~Sweeping /\ taker.qty > 0 /\ taker.type = "LIMIT"
      /\ levels' = With(s, p, m) /\ order' = [order EXCEPT ![i] = taker] /\ byId' = byId \cup {i}
      /\ top' = Refreshed(levels') /\ taker' = NoOrder /\ UNCHANGED <<seq, amended>>
  BY DEF Rest, Rests
<1>2. /\ s \in Sides /\ p \in Nat \ {0} /\ i \in Ids /\ i = seq /\ taker \in OrderRec
      /\ taker.qty \in Nat \ {0} /\ taker.active = TRUE /\ Resting(taker, i, s, p)
  <2>1. taker \in OrderRec /\ i = seq /\ seq # 0 /\ seq \in 0 .. MaxOrders /\ p \in Nat \ {0}
        /\ taker.qty \in Nat \ {0} /\ taker.active = TRUE
    BY <1>1 DEF BookInv, Taking, Counted
  <2>2. s \in Sides
    BY <2>1 DEF OrderRec
  <2>3. i \in Ids
    BY <2>1, BookAssumption DEF Ids
  <2> QED
    BY <1>1, <2>1, <2>2, <2>3 DEF Resting
<1>3. Standing(levels, order) /\ order \in Orders /\ DOMAIN levels = Sides /\ Shaped(levels)
  BY DEF BookInv, Standing, Shaped
<1>4. order[i] = NoOrder /\ \A k \in Ids : order[k] # NoOrder => k < i
  BY <1>1, <1>2, IdsAre DEF BookInv, Filed
<1>5. QueueOK(l, s, p, order)
  <2>1. CASE p \in DOMAIN levels[s]
    BY <1>2, <1>3, <2>1 DEF Standing, Leveled, LevelOK
  <2>2. CASE p \notin DOMAIN levels[s]
    <3>1. l.orders = <<>> /\ l.total = 0
      BY <2>2
    <3>2. <<>> \in Seq(Ids) /\ Len(<<>>) = 0
      OBVIOUS
    <3>3. ToSet(<<>>) = {}
      <4>1. ToSet(<<>>) = {<<>>[j] : j \in 1 .. Len(<<>>)}
        BY <3>2, QueueSet
      <4> QED
        BY <3>2, <4>1
    <3>4. l \in Level
      <4>1. l = [orders |-> <<>>, total |-> 0]
        BY <2>2
      <4> HIDE DEF l
      <4> QED
        BY <3>2, <4>1 DEF Level
    <3>5. Total(order, {}) = 0
      BY SumEmpty DEF Total
    <3> HIDE DEF l
    <3>6. LiveIn(l, order) = {} /\ Ascending(l.orders)
      BY <3>1, <3>2, <3>3 DEF LiveIn, Ascending
    <3> QED
      BY <3>1, <3>3, <3>4, <3>5, <3>6 DEF QueueOK
  <2> QED
    BY <2>1, <2>2
<1>6. p \in DOMAIN levels[s] => l = levels[s][p]
  OBVIOUS
<1>7. Joined(l, m, i, taker)
  BY DEF Joined
<1>8. LevelPut(levels, levels', s, p, m)
  BY <1>1, <1>2, <1>3, WithIs
<1>9. m \in Level
  <2> HIDE DEF l
  <2>1. l.orders \in Seq(Ids) /\ l.total \in Nat
    BY <1>3, <1>5, QueueIs
  <2>2. Append(l.orders, i) \in Seq(Ids)
    BY <1>2, <2>1, AppendProperties
  <2> QED
    BY <1>2, <2>1, <2>2 DEF Level
<1> HIDE DEF l, m, s, p, i
<1>10. /\ order' \in Orders /\ order'[i] = taker /\ order' = [order EXCEPT ![i] = taker]
       /\ \A k \in Ids : k # i => order'[k] = order[k]
  BY <1>1, <1>2, <1>3 DEF Orders
<1>11. Latest(l, i)
  <2>1. ToSet(l.orders) \in SUBSET Ids /\ \A k \in ToSet(l.orders) : order[k] # NoOrder
    BY <1>3, <1>5, QueueIs
  <2> QED
    BY <1>4, <2>1 DEF Latest
<1>12. LevelOK(m, s, p, order') /\ ToSet(m.orders) = ToSet(l.orders) \cup {i}
  <2>1. order' \in Orders /\ Filing(order, order', i, taker) /\ Resting(taker, i, s, p)
    BY <1>2, <1>10 DEF Filing
  <2>2. taker \in OrderRec /\ i \in Ids /\ order \in Orders
    BY <1>2, <1>3
  <2>3. QueueOK(l, s, p, order) /\ Latest(l, i) /\ m \in Level
    BY <1>5, <1>9, <1>11
  <2> QED
    BY <1>7, <2>1, <2>2, <2>3, OneArrives
<1>13. Standing(levels', order')
  <2>1. ChangedAt(order, order', s, p)
    BY <1>4, <1>10 DEF ChangedAt
  <2>2. \A k \in Ids : order'[k] # order[k] =>
           order'[k] = NoOrder \/ (order'[k].id = k /\ order'[k].qty \in Nat \ {0}
                                  /\ order'[k].side = s /\ order'[k].price = p)
    BY <1>2, <1>10 DEF Resting
  <2>3. \A k \in Ids : order'[k].active /\ order'[k].side = s /\ order'[k].price = p => k \in ToSet(m.orders)
    <3> SUFFICES ASSUME NEW k \in Ids, order'[k].active, order'[k].side = s, order'[k].price = p, k # i
                 PROVE  k \in ToSet(m.orders)
      BY <1>12
    <3>1. order[k].active /\ order[k].side = s /\ order[k].price = p
      BY <1>10
    <3>2. p \in DOMAIN levels[s] /\ k \in ToSet(levels[s][p].orders)
      BY <1>3, <3>1 DEF Standing, Queued
    <3> QED
      BY <1>6, <1>12, <3>2
  <2>4. Standing(levels', order')
    <3>1. Standing(levels, order) /\ s \in Sides /\ p \in Nat \ {0} /\ order' \in Orders
      BY <1>2, <1>3, <1>10
    <3>2. LevelOK(m, s, p, order')
      BY <1>12
    <3> QED
      BY <1>8, <2>1, <2>2, <2>3, <3>1, <3>2, PutLevel
  <2> QED
    BY <2>4
<1>14. Indexed'
  BY <1>1, <1>2, <1>10 DEF BookInv, Indexed
<1>15. Filed'
  BY <1>1, <1>2, <1>10, IdsAre DEF BookInv, Filed
<1>16. Taking'
  BY <1>1, NoOrderIs DEF Taking
<1>17. Shaped(levels')
  BY <1>13 DEF Standing
<1>18. Counted' /\ CachedTop'
  <2>1. top' \in [Sides -> Nat]
    BY <1>1, <1>17, BestIs DEF Refreshed
  <2> QED
    BY <1>1, <2>1 DEF BookInv, Counted, CachedTop
<1>19. FullLevels'
  <2> SUFFICES ASSUME NEW t \in Sides, NEW x \in DOMAIN levels'[t]
               PROVE  levels'[t][x].total \in Nat \ {0}
    BY DEF FullLevels
  <2>1. CASE t = s /\ x = p
    <3>1. levels'[t][x] = m
      BY <1>8, <2>1 DEF LevelPut
    <3>2. l.total \in Nat
      BY <1>3, <1>5, QueueIs
    <3> QED
      BY <1>2, <1>7, <3>1, <3>2 DEF Joined
  <2>2. CASE ~(t = s /\ x = p)
    <3>1. x \in DOMAIN levels[t] /\ levels'[t][x] = levels[t][x]
      BY <1>8, <2>2 DEF LevelPut
    <3> QED
      BY <1>1, <3>1 DEF BookInv, FullLevels
  <2> QED
    BY <2>1, <2>2
<1>20. Apart'
  <2> SUFFICES ASSUME NEW x \in DOMAIN levels'["BUY"], NEW y \in DOMAIN levels'["SELL"]
               PROVE  x < y
    BY DEF Apart
  <2>1. /\ "BUY" \in Sides /\ "SELL" \in Sides /\ DOMAIN levels'[s] = DOMAIN levels[s] \cup {p}
        /\ \A t \in Sides : t # s => DOMAIN levels'[t] = DOMAIN levels[t]
    BY <1>8 DEF LevelPut, Sides
  <2>2. Best = BestOf(levels, Opp) /\ Opp = (IF s = "BUY" THEN "SELL" ELSE "BUY") /\ Opp \in Sides
    BY <2>1 DEF Best, Opp, Opposite, s
  <2>3. Best = 0 \/ ~Crosses(taker, Best)
    BY <1>1 DEF Sweeping
  <2>4. /\ Best \in Nat /\ (Best = 0 => DOMAIN levels[Opp] = {})
        /\ Opp = "BUY" => \A z \in DOMAIN levels[Opp] : Best >= z
        /\ Opp = "SELL" => \A z \in DOMAIN levels[Opp] : Best <= z
    BY <1>3, <2>2, BestIs
  <2>5. CASE s = "BUY"
    <3>1. y \in DOMAIN levels["SELL"] /\ y \in Nat /\ y >= Best /\ Best > p
      BY <1>2, <1>3, <2>1, <2>2, <2>3, <2>4, <2>5 DEF Crosses, s, p, Shaped
    <3>2. CASE x = p
      BY <1>2, <2>4, <3>1, <3>2
    <3>3. CASE x \in DOMAIN levels["BUY"]
      BY <3>1, <3>3 DEF BookInv, Apart
    <3> QED
      BY <2>1, <2>5, <3>2, <3>3
  <2>6. CASE s = "SELL"
    <3>1. x \in DOMAIN levels["BUY"] /\ x \in Nat /\ x <= Best /\ Best < p
      BY <1>2, <1>3, <2>1, <2>2, <2>3, <2>4, <2>6 DEF Crosses, s, p, Shaped
    <3>2. CASE y = p
      BY <1>2, <2>4, <3>1, <3>2
    <3>3. CASE y \in DOMAIN levels["SELL"]
      BY <3>1, <3>3 DEF BookInv, Apart
    <3> QED
      BY <2>1, <2>6, <3>2, <3>3
  <2> QED
    BY <1>2, <2>5, <2>6 DEF Sides
<1> QED
  BY <1>13, <1>14, <1>15, <1>16, <1>18, <1>19, <1>20 DEF BookInv

\* Where a live order rests.
LEMMA LiveIs ==
  ASSUME BookInv, NEW i \in byId
  PROVE  /\ i \in Ids /\ order[i].active /\ order[i] \in OrderRec /\ order[i] # NoOrder
         /\ order[i].side \in Sides /\ order[i].price \in DOMAIN levels[order[i].side]
         /\ order[i].price \in Nat \ {0}
         /\ LevelOK(levels[order[i].side][order[i].price], order[i].side, order[i].price, order)
         /\ i \in LiveIn(levels[order[i].side][order[i].price], order)
         /\ order[i].qty \in Nat \ {0} /\ order[i].qty <= levels[order[i].side][order[i].price].total
         /\ levels[order[i].side][order[i].price].total \in Nat
<1> DEFINE s == order[i].side
           p == order[i].price
           l == levels[s][p]
<1>1. i \in Ids /\ order[i].active /\ order[i] \in OrderRec /\ order[i] # NoOrder
  BY NoOrderIs DEF BookInv, Indexed, Standing, Orders
<1>2. s \in Sides
  BY <1>1 DEF OrderRec
<1>3. p \in DOMAIN levels[s] /\ i \in ToSet(l.orders)
  BY <1>1 DEF BookInv, Standing, Queued
<1>4. p \in Nat \ {0} /\ LevelOK(l, s, p, order) /\ order \in Orders
  BY <1>2, <1>3 DEF BookInv, Standing, Shaped, Leveled
<1>5. i \in LiveIn(l, order)
  BY <1>1, <1>3 DEF LiveIn
<1> HIDE DEF l, s, p
<1>6. l.total \in Nat /\ order[i].qty <= l.total /\ Resting(order[i], i, s, p)
  <2>1. QueueOK(l, s, p, order)
    BY <1>4 DEF LevelOK
  <2> QED
    BY <1>3, <1>4, <1>5, <2>1, QueueIs
<1>7. order[i].qty \in Nat \ {0}
  BY <1>6 DEF Resting
<1> QED
  BY <1>1, <1>2, <1>3, <1>4, <1>5, <1>6, <1>7 DEF l, s, p

\* Between two iterations nothing else moves: what an idle book needs to be in order.
LEMMA IdleBook ==
  ASSUME BookInv, taker = NoOrder, UNCHANGED <<seq, taker>>, amended' \in Request,
         Standing(levels', order'), Indexed', top' \in [Sides -> Nat], top' = Refreshed(levels'),
         \A i \in Ids : order'[i] # NoOrder => order[i] # NoOrder,
         \A s \in Sides : DOMAIN levels'[s] \subseteq DOMAIN levels[s],
         \A s \in Sides : \A p \in DOMAIN levels'[s] : levels'[s][p].total \in Nat \ {0}
  PROVE  BookInv'
<1>1. Filed' /\ Taking' /\ Counted' /\ CachedTop' /\ FullLevels'
  BY DEF BookInv, Filed, Taking, Counted, CachedTop, FullLevels
<1>2. Apart'
  BY DEF BookInv, Apart, Sides
<1> QED
  BY <1>1, <1>2 DEF BookInv

\* The lazy cancel keeps the invariant.
LEMMA CancelledKeeps ==
  ASSUME BookInv, taker = NoOrder, NEW i \in byId, Cancelled(i),
         UNCHANGED <<seq, taker>>, amended' \in Request
  PROVE  BookInv'
<1> DEFINE s == order[i].side
           p == order[i].price
           l == levels[s][p]
           left == l.total - order[i].qty
           m == [orders |-> l.orders, total |-> left]
<1>1. /\ levels' = IF left <= 0 THEN Without(s, p) ELSE With(s, p, m)
      /\ order' = IF left <= 0 THEN Kept(ToSet(l.orders))
                  ELSE [order EXCEPT ![i] = [order[i] EXCEPT !.active = FALSE]]
      /\ byId' = byId \ {i}
      /\ top' = Refreshed(levels')
  BY DEF Cancelled
<1>2. /\ i \in Ids /\ order[i].active /\ order[i] \in OrderRec /\ order[i] # NoOrder
      /\ s \in Sides /\ p \in DOMAIN levels[s] /\ p \in Nat \ {0} /\ LevelOK(l, s, p, order)
      /\ i \in LiveIn(l, order) /\ order[i].qty \in Nat \ {0} /\ order[i].qty <= l.total /\ l.total \in Nat
  BY LiveIs
<1>3. Standing(levels, order) /\ order \in Orders /\ DOMAIN levels = Sides /\ Shaped(levels)
  BY DEF BookInv, Standing, Shaped
<1>4. m.orders = l.orders /\ m.total = l.total - order[i].qty /\ left \in Nat /\ m.total = left
  BY <1>2
<1>5. m \in Level
  BY <1>2, <1>4 DEF LevelOK, QueueOK, Level
<1>6. LevelPut(levels, With(s, p, m), s, p, m) /\ LevelGone(levels, Without(s, p), s, p)
  BY <1>2, <1>3, WithIs, WithoutIs
<1>7. \A k \in Ids : order[k].active /\ order[k].side = s /\ order[k].price = p => k \in ToSet(l.orders)
  BY <1>3 DEF Standing, Queued
<1>8. \A t \in Sides : \A x \in DOMAIN levels[t] : levels[t][x].total \in Nat \ {0}
  BY DEF BookInv, FullLevels, Sweeping
<1> HIDE DEF m, left, l
<1>9. QueueOK(l, s, p, order) /\ ToSet(l.orders) \in SUBSET Ids
      /\ \A k \in ToSet(l.orders) : Resting(order[k], k, s, p) /\ order[k] # NoOrder
  <2>1. QueueOK(l, s, p, order)
    BY <1>2 DEF LevelOK
  <2> QED
    BY <1>3, <2>1, QueueIs
<1> HIDE DEF s, p
<1>10. CASE left = 0
  <2> DEFINE other == Kept(ToSet(l.orders))
  <2>1. levels' = Without(s, p) /\ order' = other /\ LevelGone(levels, levels', s, p)
    BY <1>1, <1>6, <1>10
  <2>2. other \in Orders /\ \A k \in Ids : other[k] = IF k \in ToSet(l.orders) THEN NoOrder ELSE order[k]
    BY <1>3, NoOrderIs DEF Kept, Orders
  <2> HIDE DEF other
  <2>3. LiveIn(l, order) = {i}
    <3> DEFINE L == LiveIn(l, order)
    <3>1. L \in SUBSET Ids /\ i \in L /\ l.total = Total(order, L) /\ \A k \in L : order[k].qty \in Nat \ {0}
      BY <1>2, <1>9 DEF LiveIn, QueueOK, Resting
    <3> HIDE DEF L
    <3>2. Total(order, L \ {i}) = Total(order, L) - order[i].qty
      BY <1>3, <3>1, SumWithout
    <3>3. Total(order, L \ {i}) = 0
      BY <1>2, <1>4, <1>10, <3>1, <3>2
    <3>4. L \ {i} \in SUBSET Ids /\ \A k \in L \ {i} : order[k].qty \in Nat \ {0}
      BY <3>1
    <3>5. L \ {i} = {}
      BY <1>3, <3>3, <3>4, SumOfLive
    <3> QED
      BY <3>1, <3>5 DEF L
  <2>4. \A k \in Ids : other[k].active <=> order[k].active /\ k # i
    <3>1. \A k \in ToSet(l.orders) : order[k].active <=> k = i
      BY <2>3 DEF LiveIn
    <3>2. i \in ToSet(l.orders)
      BY <2>3 DEF LiveIn
    <3> QED
      BY <2>2, <3>1, <3>2, NoOrderIs
  <2>5. ChangedAt(order, other, s, p) /\ \A k \in Ids : other[k] # order[k] => other[k] = NoOrder
    BY <1>9, <2>2 DEF ChangedAt, Resting
  <2>6. \A k \in Ids : other[k].side = s /\ other[k].price = p => ~other[k].active
    BY <1>7, <2>2, <2>4, NoOrderIs
  <2>7. Standing(levels', order')
    <3>1. \A k \in Ids : other[k] # order[k] => other[k] = NoOrder
      BY <2>5
    <3>2. ChangedAt(order, other, s, p)
      BY <2>5
    <3>3. s \in Sides /\ Standing(levels, order) /\ other \in Orders /\ LevelGone(levels, levels', s, p)
      BY <1>2, <1>3, <2>1, <2>2
    <3>4. Standing(levels', other)
      BY <2>6, <3>1, <3>2, <3>3, DropLevel
    <3> QED
      BY <2>1, <3>4
  <2>8. Indexed'
    BY <1>1, <2>1, <2>4 DEF BookInv, Indexed
  <2>9. top' \in [Sides -> Nat]
    BY <1>1, <2>7, BestIs DEF Refreshed, Standing
  <2>10. \A k \in Ids : order'[k] # NoOrder => order[k] # NoOrder
    BY <2>1, <2>2
  <2>11. \A t \in Sides : DOMAIN levels'[t] \subseteq DOMAIN levels[t]
    BY <2>1 DEF LevelGone
  <2>12. \A t \in Sides : \A x \in DOMAIN levels'[t] : levels'[t][x].total \in Nat \ {0}
    <3>1. \A t \in Sides : \A x \in DOMAIN levels'[t] : x \in DOMAIN levels[t] /\ levels'[t][x] = levels[t][x]
      BY <2>1 DEF LevelGone
    <3> QED
      BY <1>8, <3>1
  <2> QED
    BY <1>1, <2>7, <2>8, <2>9, <2>10, <2>11, <2>12, IdleBook
<1>11. CASE left # 0
  <2>1. /\ levels' = With(s, p, m) /\ LevelPut(levels, levels', s, p, m)
        /\ order' = [order EXCEPT ![i] = [order[i] EXCEPT !.active = FALSE]]
    BY <1>1, <1>4, <1>6, <1>11
  <2>2. Stopped(order, order', i)
    BY <1>2, <1>3, <2>1, StoppedIs
  <2>3. LevelOK(m, s, p, order')
    BY <1>2, <1>3, <1>4, <1>5, <2>2, OneCancelled
  <2>4. /\ order' \in Orders /\ \A k \in Ids : k # i => order'[k] = order[k]
        /\ order'[i].active = FALSE /\ order'[i].id = i /\ order'[i].side = s /\ order'[i].price = p
        /\ order'[i].qty \in Nat \ {0}
    <3>1. Resting(order[i], i, s, p)
      BY <1>2, <1>9 DEF LiveIn
    <3> QED
      BY <2>2, <3>1 DEF Stopped, SameOtherwise, Resting
  <2>5. ChangedAt(order, order', s, p)
    BY <2>4 DEF ChangedAt, s, p
  <2>6. \A k \in Ids : order'[k] # order[k] =>
           order'[k] = NoOrder \/ (order'[k].id = k /\ order'[k].qty \in Nat \ {0}
                                  /\ order'[k].side = s /\ order'[k].price = p)
    BY <2>4
  <2>7. \A k \in Ids : order'[k].active <=> order[k].active /\ k # i
    BY <2>4
  <2>8. \A k \in Ids : order'[k].active /\ order'[k].side = s /\ order'[k].price = p => k \in ToSet(m.orders)
    BY <1>4, <1>7, <2>4, <2>7
  <2>9. Standing(levels', order')
    <3>1. s \in Sides /\ p \in Nat \ {0} /\ Standing(levels, order) /\ order' \in Orders
      BY <1>2, <1>3, <2>4
    <3>2. LevelPut(levels, levels', s, p, m)
      BY <2>1
    <3> QED
      BY <2>3, <2>5, <2>6, <2>8, <3>1, <3>2, PutLevel
  <2>10. Indexed'
    BY <1>1, <2>7 DEF BookInv, Indexed
  <2>11. top' \in [Sides -> Nat]
    BY <1>1, <2>9, BestIs DEF Refreshed, Standing
  <2>12. \A k \in Ids : order'[k] # NoOrder => order[k] # NoOrder
    BY <1>2, <2>4
  <2>13. \A t \in Sides : DOMAIN levels'[t] \subseteq DOMAIN levels[t]
    BY <1>2, <2>1 DEF LevelPut
  <2>14. \A t \in Sides : \A x \in DOMAIN levels'[t] : levels'[t][x].total \in Nat \ {0}
    <3> SUFFICES ASSUME NEW t \in Sides, NEW x \in DOMAIN levels'[t]
                 PROVE  levels'[t][x].total \in Nat \ {0}
      OBVIOUS
    <3>1. CASE t = s /\ x = p
      <4>1. levels'[t][x] = m
        BY <2>1, <3>1 DEF LevelPut
      <4> QED
        BY <1>4, <1>11, <4>1
    <3>2. CASE ~(t = s /\ x = p)
      <4>1. x \in DOMAIN levels[t] /\ levels'[t][x] = levels[t][x]
        BY <2>1, <3>2 DEF LevelPut
      <4> QED
        BY <1>8, <4>1
    <3> QED
      BY <3>1, <3>2
  <2> QED
    BY <1>1, <2>9, <2>10, <2>11, <2>12, <2>13, <2>14, IdleBook
<1> QED
  BY <1>10, <1>11

\* Shrinking an order in place keeps the invariant.
LEMMA InPlaceKeeps ==
  ASSUME BookInv, NEW i, NEW x, NEW n \in Int, ReplaceInPlace(i, x, n)
  PROVE  BookInv'
<1> DEFINE s == order[i].side
           p == order[i].price
           l == levels[s][p]
           m == [orders |-> l.orders, total |-> l.total - (order[i].qty - n)]
<1>1. /\ ~InCall /\ i \in byId /\ n < order[i].qty /\ n > 0
      /\ levels' = With(s, p, m)
      /\ order' = [order EXCEPT ![i] = [order[i] EXCEPT !.qty = n]]
      /\ UNCHANGED <<byId, top, seq, taker, amended>>
  BY DEF ReplaceInPlace, Shrinks
<1>2. /\ i \in Ids /\ order[i].active /\ order[i] \in OrderRec /\ order[i] # NoOrder
      /\ s \in Sides /\ p \in DOMAIN levels[s] /\ p \in Nat \ {0} /\ LevelOK(l, s, p, order)
      /\ i \in LiveIn(l, order) /\ order[i].qty \in Nat \ {0} /\ order[i].qty <= l.total /\ l.total \in Nat
  BY <1>1, LiveIs
<1>3. /\ Standing(levels, order) /\ order \in Orders /\ DOMAIN levels = Sides /\ Shaped(levels)
      /\ taker = NoOrder /\ top = Refreshed(levels)
  BY <1>1 DEF BookInv, Standing, Shaped, InCall, CachedTop
<1>4. m.orders = l.orders /\ m.total = l.total - (order[i].qty - n)
  OBVIOUS
<1>5. m \in Level /\ n \in Nat \ {0} /\ m.total \in Nat \ {0}
  <2>1. l.orders \in Seq(Ids)
    BY <1>2 DEF LevelOK, QueueOK, Level
  <2>2. n \in Nat \ {0} /\ l.total - (order[i].qty - n) \in Nat \ {0}
    <3> DEFINE t == l.total
               q == order[i].qty
    <3>1. t \in Nat /\ q \in Nat /\ q <= t /\ n < q /\ n > 0
      BY <1>1, <1>2
    <3> HIDE DEF t, q
    <3>2. n \in Nat \ {0} /\ t - (q - n) \in Nat \ {0}
      BY <3>1
    <3> QED
      BY <3>2 DEF t, q
  <2> DEFINE t == l.total - (order[i].qty - n)
  <2>3. t \in Nat \ {0} /\ m = [orders |-> l.orders, total |-> t]
    BY <2>2
  <2> HIDE DEF t, l, m
  <2>4. m \in Level /\ m.total = t
    BY <2>1, <2>3 DEF Level
  <2> QED
    BY <2>2, <2>3, <2>4
<1>6. LevelPut(levels, levels', s, p, m)
  BY <1>1, <1>2, <1>3, WithIs
<1>7. \A k \in Ids : order[k].active /\ order[k].side = s /\ order[k].price = p => k \in ToSet(l.orders)
  BY <1>3 DEF Standing, Queued
<1>8. \A t \in Sides : \A y \in DOMAIN levels[t] : levels[t][y].total \in Nat \ {0}
  BY <1>3 DEF BookInv, FullLevels, Sweeping
<1>9. Resting(order[i], i, s, p)
  BY <1>2 DEF LevelOK, QueueOK, LiveIn
<1> HIDE DEF m, l, s, p
<1>10. Wants(order, order', i, n)
  <2>1. Wants(order, [order EXCEPT ![i] = [order[i] EXCEPT !.qty = n]], i, n)
    BY <1>2, <1>3, WantsIs
  <2> QED
    BY <1>1, <2>1
<1>11. /\ order' \in Orders /\ \A k \in Ids : k # i => order'[k] = order[k]
       /\ order'[i].active = order[i].active /\ order'[i].id = i /\ order'[i].side = s
       /\ order'[i].price = p /\ order'[i].qty = n
  BY <1>9, <1>10 DEF Wants, SameOtherwise, Resting
<1>12. LevelOK(m, s, p, order')
  BY <1>2, <1>3, <1>4, <1>5, <1>10, OneWants
<1>13. Standing(levels', order')
  <2>1. s \in Sides /\ p \in Nat \ {0} /\ Standing(levels, order) /\ order' \in Orders
    BY <1>2, <1>3, <1>11
  <2>2. ChangedAt(order, order', s, p)
    BY <1>11 DEF ChangedAt, s, p
  <2>3. \A k \in Ids : order'[k] # order[k] =>
           order'[k] = NoOrder \/ (order'[k].id = k /\ order'[k].qty \in Nat \ {0}
                                  /\ order'[k].side = s /\ order'[k].price = p)
    BY <1>5, <1>11
  <2>4. \A k \in Ids : order'[k].active /\ order'[k].side = s /\ order'[k].price = p => k \in ToSet(m.orders)
    <3>1. \A k \in Ids : order'[k].active /\ order'[k].side = s /\ order'[k].price = p =>
             order[k].active /\ order[k].side = s /\ order[k].price = p
      BY <1>11 DEF s, p
    <3> QED
      BY <1>4, <1>7, <3>1
  <2> QED
    BY <1>6, <1>12, <2>1, <2>2, <2>3, <2>4, PutLevel
<1>14. Indexed'
  <2>1. \A k \in Ids : order'[k].active <=> order[k].active
    BY <1>11
  <2> QED
    BY <1>1, <2>1 DEF BookInv, Indexed
<1>15. /\ DOMAIN levels' = Sides /\ \A t \in Sides : DOMAIN levels'[t] = DOMAIN levels[t]
  BY <1>2, <1>6 DEF LevelPut
<1>16. Refreshed(levels') = Refreshed(levels)
  BY <1>15 DEF Refreshed, BestOf
<1>17. \A t \in Sides : \A y \in DOMAIN levels'[t] : levels'[t][y].total \in Nat \ {0}
  <2> SUFFICES ASSUME NEW t \in Sides, NEW y \in DOMAIN levels'[t]
               PROVE  levels'[t][y].total \in Nat \ {0}
    OBVIOUS
  <2>1. CASE t = s /\ y = p
    BY <1>5, <1>6, <2>1 DEF LevelPut
  <2>2. CASE ~(t = s /\ y = p)
    <3>1. y \in DOMAIN levels[t] /\ levels'[t][y] = levels[t][y]
      BY <1>6, <2>2 DEF LevelPut
    <3> QED
      BY <1>8, <3>1
  <2> QED
    BY <2>1, <2>2
<1>18. \A k \in Ids : order'[k] # NoOrder => order[k] # NoOrder
  BY <1>2, <1>11
<1>19. top' \in [Sides -> Nat] /\ top' = Refreshed(levels') /\ amended' \in Request
  BY <1>1, <1>3, <1>16 DEF BookInv, Counted
<1>20. \A t \in Sides : DOMAIN levels'[t] \subseteq DOMAIN levels[t]
  BY <1>15
<1>21. taker = NoOrder /\ UNCHANGED <<seq, taker>>
  BY <1>1, <1>3
<1> QED
  BY <1>13, <1>14, <1>17, <1>18, <1>19, <1>20, <1>21, IdleBook

\* cancel() keeps the invariant.
LEMMA CancelKeeps ==
  ASSUME BookInv, NEW i, Cancel(i)
  PROVE  BookInv'
<1>1. taker = NoOrder /\ i \in byId /\ Cancelled(i) /\ UNCHANGED <<seq, taker, amended>>
  BY DEF Cancel, InCall
<1>2. amended' \in Request
  BY <1>1 DEF BookInv, Counted
<1> QED
  BY <1>1, <1>2, CancelledKeeps

\* The cancel of an amendment keeps the invariant.
LEMMA AnewKeeps ==
  ASSUME BookInv, NEW i, NEW x \in Int, NEW n \in Int, order[i].participant \in Participants \cup {"nobody"},
         ReplaceAnew(i, x, n)
  PROVE  BookInv'
<1>1. taker = NoOrder /\ i \in byId /\ Cancelled(i) /\ UNCHANGED <<seq, taker>>
      /\ amended' = [participant |-> order[i].participant, side |-> order[i].side,
                     type |-> order[i].type, tif |-> order[i].tif,
                     postOnly |-> order[i].postOnly, price |-> x, qty |-> n]
  BY DEF ReplaceAnew, InCall
<1>2. order[i] \in OrderRec
  BY <1>1, LiveIs
<1>3. amended' \in Request
  BY <1>1, <1>2 DEF OrderRec, Request
<1> QED
  BY <1>1, <1>3, CancelledKeeps

\* The gates of submit() keep the invariant.
LEMMA SubmitKeeps ==
  ASSUME BookInv, NEW r \in Request, Submit(r)
  PROVE  BookInv'
<1>1. /\ taker = NoOrder /\ seq < MaxOrders /\ seq' = seq + 1
      /\ taker' = IF Refused(r) THEN NoOrder ELSE Order(r, seq + 1)
      /\ amended' = NoRequest /\ UNCHANGED <<levels, order, byId, top>>
  BY DEF Submit
<1>2. seq \in Nat /\ seq' \in 0 .. MaxOrders /\ seq' # 0 /\ seq + 1 \in Nat \ {0}
  BY <1>1, BookAssumption DEF BookInv, Counted
<1>3. Standing(levels', order') /\ Indexed' /\ Apart'
  BY <1>1 DEF BookInv, Indexed, Apart
<1>4. Filed'
  BY <1>1, <1>2, IdsAre DEF BookInv, Filed
<1>5. Counted'
  BY <1>1, <1>2, NoOrderIs DEF BookInv, Counted
<1>6. FullLevels'
  BY <1>1 DEF BookInv, FullLevels, Sweeping
<1>7. CachedTop'
  BY <1>1 DEF BookInv, CachedTop, Refreshed, BestOf
<1>8. Taking'
  <2>1. CASE Refused(r)
    BY <1>1, <2>1, NoOrderIs DEF Taking
  <2>2. CASE ~Refused(r)
    <3>1. r.qty > 0 /\ r.qty \in Int /\ r.price \in Int /\ (r.type = "LIMIT" => r.price > 0)
      BY <2>2 DEF Refused, Valid, Request
    <3>2. taker' = Order(r, seq + 1)
      BY <1>1, <2>2
    <3>3. /\ taker' \in OrderRec /\ taker'.id = seq + 1 /\ taker'.active = TRUE /\ taker'.type = r.type
          /\ taker'.price = r.price /\ taker'.qty = r.qty
      BY <1>2, <3>2, OrderIs
    <3> QED
      BY <1>1, <1>2, <3>1, <3>3 DEF Taking
  <2> QED
    BY <2>1, <2>2
<1> QED
  BY <1>3, <1>4, <1>5, <1>6, <1>7, <1>8 DEF BookInv

\* The empty book.
LEMMA InitBook == BookInit => BookInv
<1> SUFFICES ASSUME BookInit PROVE BookInv
  OBVIOUS
<1>1. /\ levels = [s \in Sides |-> <<>>] /\ order = [i \in Ids |-> NoOrder] /\ byId = {}
      /\ top = [s \in Sides |-> 0] /\ seq = 0 /\ taker = NoOrder /\ amended = NoRequest
  BY DEF BookInit
<1>2. DOMAIN <<>> = {}
  OBVIOUS
<1>3. DOMAIN levels = Sides /\ \A s \in Sides : DOMAIN levels[s] = {}
  BY <1>1, <1>2
<1>4. IsFiniteSet({})
  BY FS_EmptySet
<1>5. Shaped(levels)
  BY <1>3, <1>4 DEF Shaped
<1>6. order \in Orders /\ \A i \in Ids : order[i] = NoOrder /\ ~order[i].active
  BY <1>1, NoOrderIs DEF Orders
<1>7. Standing(levels, order)
  BY <1>3, <1>5, <1>6 DEF Standing, Leveled, Queued, Named
<1>8. Indexed /\ Filed /\ Taking
  BY <1>1, <1>6, NoOrderIs DEF Indexed, Filed, Taking
<1>9. Counted
  BY <1>1, NoOrderIs, BookAssumption DEF Counted
<1>10. FullLevels /\ Apart
  BY <1>3 DEF FullLevels, Apart, Sides
<1>11. CachedTop
  BY <1>1, <1>3 DEF CachedTop, Refreshed, BestOf
<1> QED
  BY <1>7, <1>8, <1>9, <1>10, <1>11 DEF BookInv

-----------------------------------------------------------------------------
\* What the invariant says of the book.
LEMMA BookInvSays == BookInv => BookTypeOK /\ BookConsistent /\ NeverCrossed
<1> SUFFICES ASSUME BookInv PROVE BookTypeOK /\ BookConsistent /\ NeverCrossed
  OBVIOUS
<1>1. /\ Shaped(levels) /\ order \in Orders /\ Leveled(levels, order) /\ Queued(levels, order)
      /\ Named(order)
  BY DEF BookInv, Standing
<1>2. ASSUME NEW s \in Sides, NEW p \in DOMAIN levels[s]
      PROVE  /\ levels[s][p] \in Level /\ levels[s][p].total = Wanted(Live(s, p))
             /\ Live(s, p) = LiveIn(levels[s][p], order)
             /\ \A i \in Live(s, p) : i \in Ids /\ order[i].active
  <2> DEFINE l == levels[s][p]
  <2>1. QueueOK(l, s, p, order) /\ l \in Level /\ l.total = Total(order, LiveIn(l, order))
    BY <1>1, <1>2 DEF Leveled, LevelOK, QueueOK
  <2>2. Live(s, p) = LiveIn(l, order)
    BY DEF Live, LiveIn
  <2>3. Wanted(Live(s, p)) = Total(order, Live(s, p))
    BY DEF Wanted, Total
  <2> HIDE DEF l
  <2>4. LiveIn(l, order) \in SUBSET Ids
    BY <1>1, <2>1, QueueIs
  <2>5. \A i \in Live(s, p) : i \in Ids /\ order[i].active
    BY <2>2, <2>4 DEF LiveIn
  <2> QED
    BY <2>1, <2>2, <2>3, <2>5 DEF l
<1>3. BookTypeOK
  <2>1. DOMAIN levels = Sides /\ \A s \in Sides : DOMAIN levels[s] \subseteq Nat \ {0}
    BY <1>1 DEF Shaped
  <2>2. DOMAIN order = Ids /\ byId \subseteq Ids
    BY <1>1 DEF Orders, BookInv, Indexed
  <2>3. \A i \in DOMAIN order : order[i] # NoOrder => order[i].id = i /\ order[i].qty > 0
    BY <1>1, <2>2 DEF Named
  <2>4. top \in [Sides -> Nat] /\ seq \in 0 .. MaxOrders
    BY DEF BookInv, Counted
  <2>5. taker.qty >= 0 /\ taker.id \in 0 .. seq
    <3>1. seq \in Nat
      BY <2>4
    <3>2. taker.qty \in Nat /\ (taker = NoOrder \/ taker.id = seq)
      BY DEF BookInv, Taking
    <3> QED
      BY <3>1, <3>2, NoOrderIs
  <2> QED
    BY <1>2, <2>1, <2>2, <2>3, <2>4, <2>5 DEF BookTypeOK
<1>4. BookConsistent
  <2>1. ~InCall => \A s \in Sides : \A p \in DOMAIN levels[s] : levels[s][p].total > 0
    BY DEF InCall, BookInv, FullLevels, Sweeping
  <2>2. ~InCall => top = Refreshed(levels)
    BY DEF InCall, BookInv, CachedTop
  <2>3. byId = UNION {UNION {Live(s, p) : p \in DOMAIN levels[s]} : s \in Sides}
    <3>1. byId = {i \in Ids : order[i].active}
      BY DEF BookInv, Indexed
    <3>2. ASSUME NEW i \in byId PROVE \E s \in Sides : \E p \in DOMAIN levels[s] : i \in Live(s, p)
      <4>1. /\ order[i].side \in Sides /\ order[i].price \in DOMAIN levels[order[i].side]
            /\ i \in LiveIn(levels[order[i].side][order[i].price], order)
        BY LiveIs
      <4>2. i \in Live(order[i].side, order[i].price)
        BY <1>2, <4>1
      <4> QED
        BY <4>1, <4>2
    <3>3. \A s \in Sides : \A p \in DOMAIN levels[s] : Live(s, p) \subseteq byId
      BY <1>2, <3>1
    <3> QED
      BY <3>2, <3>3
  <2> QED
    BY <1>2, <2>1, <2>2, <2>3 DEF BookConsistent
<1>5. NeverCrossed
  <2> SUFFICES ASSUME ~InCall, top["BUY"] # 0, top["SELL"] # 0 PROVE top["BUY"] < top["SELL"]
    BY DEF NeverCrossed
  <2>1. top = Refreshed(levels)
    BY DEF InCall, BookInv, CachedTop
  <2>2. /\ "BUY" \in Sides /\ "SELL" \in Sides /\ top["BUY"] = BestOf(levels, "BUY")
        /\ top["SELL"] = BestOf(levels, "SELL")
    BY <2>1 DEF Refreshed, Sides
  <2>3. top["BUY"] \in DOMAIN levels["BUY"] /\ top["SELL"] \in DOMAIN levels["SELL"]
    BY <1>1, <2>2, BestIs
  <2> QED
    BY <2>3 DEF BookInv, Apart
<1> QED
  BY <1>3, <1>4, <1>5

-----------------------------------------------------------------------------
(***************************************************************************)
(* The inductive invariant of the market maker: every order of the maker,  *)
(* resting or being matched, is the bid or the ask it remembers, and even  *)
(* if all of it trades the inventory is within its bounds.                 *)
(***************************************************************************)
Most == maxInventory - 1 + quoteSize
Own(o, i, inv, bid, ask) ==
  o.participant = ID =>
    /\ (o.side = "BUY" /\ i = bid) \/ (o.side = "SELL" /\ i = ask)
    /\ o.side = "BUY" => inv + o.qty <= Most
    /\ o.side = "SELL" => inv - o.qty >= -Most
Quotes ==
  /\ \A i \in Ids : order[i].active => Own(order[i], i, inventory, bidId, askId)
  /\ Own(taker, taker.id, inventory, bidId, askId)
Phases ==
  /\ fair \in Fairs /\ bidId \in 0 .. seq /\ askId \in 0 .. seq
  /\ quoting \in {"idle", "cancel bid", "cancel ask", "bid", "ask"}
  /\ quoting \in {"cancel bid", "cancel ask", "bid"} => ~InCall
  /\ quoting = "cancel ask" => bidId \notin byId
  /\ quoting = "bid" => bidId = 0 /\ askId = 0
  /\ quoting = "ask" => askId = 0
Bounded == inventory \in -Most .. Most
Foreign == amended.participant # ID
MakerInv == Quotes /\ Phases /\ Bounded /\ Foreign

Inv == BookInv /\ MakerInv

\* What is live wants something.
LEMMA LiveWants ==
  ASSUME BookInv
  PROVE  /\ Most \in Nat /\ seq \in Nat
         /\ \A i \in Ids : order[i].active => order[i].qty \in Nat \ {0} /\ order[i] \in OrderRec
         /\ taker.qty \in Nat /\ taker \in OrderRec
<1>1. Most \in Nat
  BY MakerAssumption DEF Most
<1>2. \A i \in Ids : order[i].active => order[i].qty \in Nat \ {0} /\ order[i] \in OrderRec
  BY NoOrderIs DEF BookInv, Standing, Named, Orders
<1>3. taker.qty \in Nat /\ taker \in OrderRec /\ seq \in Nat
  BY DEF BookInv, Taking, Counted
<1> QED
  BY <1>1, <1>2, <1>3

\* One order wants no more than another of the same side and participant.
Less(o, was) ==
  o.participant = was.participant /\ o.side = was.side /\ o.qty <= was.qty /\ o.qty \in Int /\ was.qty \in Int

\* An order that wants less at the same inventory is still within the bounds.
LEMMA OwnLess ==
  ASSUME NEW inv \in Int, NEW bid, NEW ask, NEW o, NEW was, NEW i,
         Less(o, was), Own(was, i, inv, bid, ask)
  PROVE  Own(o, i, inv, bid, ask)
<1>1. Most \in Int
  BY MakerAssumption DEF Most
<1>2. /\ o.participant = was.participant /\ o.side = was.side
      /\ o.qty <= was.qty /\ o.qty \in Int /\ was.qty \in Int
  BY DEF Less
<1>3. was.participant = ID /\ was.side = "BUY" => inv + o.qty <= Most
  BY <1>1, <1>2 DEF Own
<1>4. was.participant = ID /\ was.side = "SELL" => inv - o.qty >= -Most
  BY <1>1, <1>2 DEF Own
<1> QED
  BY <1>2, <1>3, <1>4 DEF Own

\* Other people's orders are none of the maker's.
LEMMA OwnNone ==
  ASSUME NEW inv, NEW bid, NEW ask, NEW o, NEW i, o.participant # ID
  PROVE  Own(o, i, inv, bid, ask)
BY DEF Own

\* Orders leave, or want less: what the maker has out only shrinks.
Shrinking(ord, other) ==
  \A i \in Ids : other[i].active => ord[i].active /\ Less(other[i], ord[i])

\* The maker's quotes stay within the bounds when orders leave or shrink.
LEMMA QuotesShrink ==
  ASSUME Inv, Shrinking(order, order'), taker' = NoOrder \/ UNCHANGED taker,
         UNCHANGED <<inventory, bidId, askId>>
  PROVE  Quotes' /\ Bounded'
<1>1. inventory \in Int
  BY LiveWants DEF Inv, MakerInv, Bounded
<1>2. ASSUME NEW i \in Ids, order'[i].active PROVE Own(order'[i], i, inventory', bidId', askId')
  <2>1. Less(order'[i], order[i]) /\ Own(order[i], i, inventory, bidId, askId)
    BY <1>2 DEF Shrinking, Inv, MakerInv, Quotes
  <2>2. Own(order'[i], i, inventory, bidId, askId)
    BY <1>1, <2>1, OwnLess
  <2> QED
    BY <2>2
<1>3. Own(taker', taker'.id, inventory', bidId', askId')
  <2>1. Own(taker, taker.id, inventory, bidId, askId)
    BY DEF Inv, MakerInv, Quotes
  <2>2. Own(NoOrder, NoOrder.id, inventory, bidId, askId)
    BY NoOrderIs, OwnNone
  <2> QED
    BY <2>1, <2>2
<1> QED
  BY <1>2, <1>3 DEF Quotes, Inv, MakerInv, Bounded

\* Most of what can happen to orders shrinks them.
LEMMA SameShrinks ==
  ASSUME BookInv, NEW other, \A i \in Ids : other[i] = order[i] \/ ~other[i].active
  PROVE  Shrinking(order, other)
<1> SUFFICES ASSUME NEW i \in Ids, other[i].active PROVE order[i].active /\ Less(other[i], order[i])
  BY DEF Shrinking
<1>1. other[i] = order[i] /\ order[i].active
  OBVIOUS
<1>2. order[i].qty \in Nat
  BY <1>1, LiveWants
<1>3. order[i].qty <= order[i].qty /\ order[i].qty \in Int
  BY <1>2
<1> QED
  BY <1>1, <1>3 DEF Less

\* A cancel only takes orders out.
LEMMA CancelledShrinks ==
  ASSUME BookInv, NEW i \in byId, Cancelled(i)
  PROVE  Shrinking(order, order') /\ byId' = byId \ {i}
<1>1. i \in Ids /\ order \in Orders
  BY LiveIs DEF BookInv, Standing
<1>2. byId' = byId \ {i} /\ \/ \E ids : order' = Kept(ids)
                            \/ order' = [order EXCEPT ![i] = [order[i] EXCEPT !.active = FALSE]]
  BY DEF Cancelled
<1>3. ASSUME NEW ids, order' = Kept(ids) PROVE \A k \in Ids : order'[k] = order[k] \/ ~order'[k].active
  BY <1>3, NoOrderIs DEF Kept
<1>4. ASSUME order' = [order EXCEPT ![i] = [order[i] EXCEPT !.active = FALSE]]
      PROVE  \A k \in Ids : order'[k] = order[k] \/ ~order'[k].active
  <2>1. Stopped(order, order', i)
    BY <1>1, <1>4, StoppedIs
  <2> QED
    BY <2>1 DEF Stopped, SameOtherwise
<1>5. \A k \in Ids : order'[k] = order[k] \/ ~order'[k].active
  BY <1>2, <1>3, <1>4
<1> DEFINE other == order'
<1>6. \A k \in Ids : other[k] = order[k] \/ ~other[k].active
  BY <1>5
<1> HIDE DEF other
<1>7. Shrinking(order, other)
  BY <1>6, SameShrinks
<1> QED
  BY <1>2, <1>7 DEF other

-----------------------------------------------------------------------------
(***************************************************************************)
(* One lemma for each action of the simulation.                            *)
(***************************************************************************)
LEMMA PhasesStay ==
  ASSUME Inv, quoting \in {"idle", "ask"}, UNCHANGED makerVars, seq' \in Nat, seq' >= seq
  PROVE  Phases'
<1>1. UNCHANGED <<fair, inventory, bidId, askId, quoting>>
  BY DEF makerVars
<1>2. seq \in Nat
  BY LiveWants DEF Inv
<1>3. bidId' \in 0 .. seq' /\ askId' \in 0 .. seq'
  <2>1. bidId \in 0 .. seq /\ askId \in 0 .. seq
    BY DEF Inv, MakerInv, Phases
  <2> QED
    BY <1>1, <1>2, <2>1
<1> QED
  BY <1>1, <1>3 DEF Inv, MakerInv, Phases

\* Somebody else submits an order.
LEMMA OthersSubmit ==
  ASSUME Inv, NEW r \in Request, r.participant # ID, Submit(r), quoting \in {"idle", "ask"}, UNCHANGED makerVars
  PROVE  Inv'
<1>1. BookInv'
  BY SubmitKeeps DEF Inv
<1>2. /\ seq \in Nat /\ seq' = seq + 1 /\ amended' = NoRequest /\ UNCHANGED order
      /\ taker' = NoOrder \/ taker' = Order(r, seq + 1)
  BY LiveWants DEF Submit, Inv
<1>3. UNCHANGED <<fair, inventory, bidId, askId, quoting>>
  BY DEF makerVars
<1>4. Phases'
  BY <1>2, PhasesStay
<1>5. taker'.participant # ID
  <2>1. NoOrder.participant # ID
    BY NoOrderIs
  <2>2. Order(r, seq + 1).participant = r.participant
    BY DEF Order
  <2> QED
    BY <1>2, <2>1, <2>2
<1>6. Quotes'
  <2>1. Own(taker', taker'.id, inventory', bidId', askId')
    BY <1>5 DEF Own
  <2> QED
    BY <1>2, <1>3, <2>1 DEF Quotes, Inv, MakerInv
<1>7. Bounded' /\ Foreign'
  BY <1>2, <1>3 DEF Inv, MakerInv, Bounded, Foreign, NoRequest, ID
<1> QED
  BY <1>1, <1>4, <1>6, <1>7 DEF Inv, MakerInv

\* A participant's call keeps the invariant.
LEMMA CallKeeps ==
  ASSUME Inv, ParticipantCall
  PROVE  Inv'
<1>1. quoting = "idle" /\ ~InCall /\ UNCHANGED makerVars
      /\ UNCHANGED <<fair, inventory, bidId, askId, quoting>>
  BY DEF ParticipantCall, makerVars
<1>2. seq \in Nat /\ inventory \in Int
  BY LiveWants DEF Inv, MakerInv, Bounded
<1>3. ASSUME NEW r \in Requests, Submit(r) PROVE Inv'
  <2>1. r \in Request /\ r.participant # ID
    BY BookAssumption, MakerAssumption
  <2> QED
    BY <1>1, <1>3, <2>1, OthersSubmit
<1>4. ASSUME NEW i \in byId, Cancel(i) PROVE Inv'
  <2>1. BookInv'
    BY <1>4, CancelKeeps DEF Inv
  <2>2. Cancelled(i) /\ UNCHANGED <<seq, taker, amended>>
    BY <1>4 DEF Cancel
  <2>3. Shrinking(order, order')
    BY <2>2, CancelledShrinks DEF Inv
  <2>4. Quotes' /\ Bounded'
    BY <1>1, <2>2, <2>3, QuotesShrink
  <2>5. Phases'
    BY <1>1, <1>2, <2>2, PhasesStay
  <2>6. Foreign'
    BY <2>2 DEF Inv, MakerInv, Foreign
  <2> QED
    BY <2>1, <2>4, <2>5, <2>6 DEF Inv, MakerInv
<1>5. ASSUME NEW i \in byId, NEW a \in Amendments, order[i].participant # ID,
             ReplaceInPlace(i, a.price, a.qty)
      PROVE  Inv'
  <2>1. a.qty \in Int
    BY MakerAssumption
  <2>2. BookInv'
    BY <1>5, <2>1, InPlaceKeeps DEF Inv
  <2>3. /\ order' = [order EXCEPT ![i] = [order[i] EXCEPT !.qty = a.qty]] /\ a.qty < order[i].qty
        /\ UNCHANGED <<seq, taker, amended>>
    BY <1>5 DEF ReplaceInPlace, Shrinks
  <2>4. i \in Ids /\ order \in Orders /\ order[i].active /\ order[i].qty \in Nat
    BY LiveIs DEF Inv, BookInv, Standing
  <2>5. Wants(order, order', i, a.qty)
    <3>1. Wants(order, [order EXCEPT ![i] = [order[i] EXCEPT !.qty = a.qty]], i, a.qty)
      BY <2>1, <2>4, WantsIs
    <3> QED
      BY <2>3, <3>1
  <2>6. Shrinking(order, order')
    <3> SUFFICES ASSUME NEW k \in Ids, order'[k].active PROVE order[k].active /\ Less(order'[k], order[k])
      BY DEF Shrinking
    <3>1. CASE k = i
      <4>1. order'[i].participant = order[i].participant /\ order'[i].side = order[i].side /\ order'[i].qty = a.qty
        BY <2>5 DEF Wants, SameOtherwise
      <4>2. order'[i].qty <= order[i].qty /\ order'[i].qty \in Int /\ order[i].qty \in Int
        BY <2>1, <2>3, <2>4, <4>1
      <4> QED
        BY <2>4, <3>1, <4>1, <4>2 DEF Less
    <3>2. CASE k # i
      <4>1. order'[k] = order[k] /\ order[k].active
        BY <2>5, <3>2 DEF Wants, SameOtherwise
      <4>2. order[k].qty \in Nat /\ order[k].qty <= order[k].qty
        BY <4>1, LiveWants DEF Inv
      <4> QED
        BY <4>1, <4>2 DEF Less
    <3> QED
      BY <3>1, <3>2
  <2>7. Quotes' /\ Bounded'
    BY <1>1, <2>3, <2>6, QuotesShrink
  <2>8. Phases'
    BY <1>1, <1>2, <2>3, PhasesStay
  <2>9. Foreign'
    BY <2>3 DEF Inv, MakerInv, Foreign
  <2> QED
    BY <2>2, <2>7, <2>8, <2>9 DEF Inv, MakerInv
<1>6. ASSUME NEW i \in byId, NEW a \in Amendments, order[i].participant # ID,
             ReplaceAnew(i, a.price, a.qty)
      PROVE  Inv'
  <2>1. a.qty \in Int /\ a.price \in Int
    BY MakerAssumption
  <2>2. order[i].participant \in Participants \cup {"nobody"}
    BY LiveIs DEF Inv, OrderRec
  <2>3. BookInv'
    BY <1>6, <2>1, <2>2, AnewKeeps DEF Inv
  <2>4. Cancelled(i) /\ UNCHANGED <<seq, taker>> /\ amended'.participant = order[i].participant
    BY <1>6 DEF ReplaceAnew
  <2>5. Shrinking(order, order')
    BY <2>4, CancelledShrinks DEF Inv
  <2>6. Quotes' /\ Bounded'
    BY <1>1, <2>4, <2>5, QuotesShrink
  <2>7. Phases'
    BY <1>1, <1>2, <2>4, PhasesStay
  <2>8. Foreign'
    BY <1>6, <2>4 DEF Foreign
  <2> QED
    BY <2>3, <2>6, <2>7, <2>8 DEF Inv, MakerInv
<1> QED
  BY <1>3, <1>4, <1>5, <1>6 DEF ParticipantCall

\* The start of a requote keeps the invariant.
LEMMA StartKeeps ==
  ASSUME Inv, StartRequote
  PROVE  Inv'
<1>1. ~InCall /\ fair' \in Fairs /\ quoting' = "cancel bid" /\ UNCHANGED <<bookVars, inventory, bidId, askId>>
  BY DEF StartRequote
<1>2. UNCHANGED <<levels, order, byId, top, seq, taker, amended>>
  BY <1>1 DEF bookVars
<1>3. BookInv'
  BY <1>2 DEF Inv, BookInv, Indexed, Filed, Taking, Counted, FullLevels, CachedTop, Apart,
              Sweeping, Opp, Best, BestOf, Refreshed
<1>4. Quotes' /\ Bounded' /\ Foreign'
  BY <1>1, <1>2 DEF Inv, MakerInv, Quotes, Bounded, Foreign
<1>5. Phases'
  BY <1>1, <1>2 DEF Inv, MakerInv, Phases, InCall
<1> QED
  BY <1>3, <1>4, <1>5 DEF Inv, MakerInv

\* A quote is cancelled, if it is live.
LEMMA QuoteCancelled ==
  ASSUME Inv, NEW i, CancelQuote(i), ~InCall
  PROVE  /\ BookInv' /\ Shrinking(order, order') /\ byId' \subseteq byId /\ i \notin byId'
         /\ UNCHANGED <<seq, taker, amended, inventory>> /\ ~InCall'
<1>1. /\ IF i \in byId THEN Cancelled(i) ELSE UNCHANGED <<levels, order, byId, top>>
      /\ UNCHANGED <<seq, taker, amended, fair, inventory>> /\ taker = NoOrder /\ ~InCall'
  BY DEF CancelQuote, InCall
<1>2. CASE i \in byId
  <2>1. Cancelled(i) /\ amended' \in Request /\ UNCHANGED <<seq, taker>>
    BY <1>1, <1>2 DEF Inv, BookInv, Counted
  <2>2. BookInv'
    BY <1>1, <1>2, <2>1, CancelledKeeps DEF Inv
  <2>3. Shrinking(order, order') /\ byId' = byId \ {i}
    BY <1>2, <2>1, CancelledShrinks DEF Inv
  <2> QED
    BY <1>1, <2>2, <2>3
<1>3. CASE i \notin byId
  <2>1. UNCHANGED <<levels, order, byId, top, seq, taker, amended>>
    BY <1>1, <1>3
  <2>2. BookInv'
    BY <2>1 DEF Inv, BookInv, Indexed, Filed, Taking, Counted, FullLevels, CachedTop, Apart,
                Sweeping, Opp, Best, BestOf, Refreshed
  <2>3. Shrinking(order, order)
    BY SameShrinks DEF Inv
  <2> QED
    BY <1>1, <1>3, <2>1, <2>2, <2>3
<1> QED
  BY <1>2, <1>3

\* Cancelling the old bid keeps the invariant.
LEMMA CancelBidKeeps ==
  ASSUME Inv, CancelBid
  PROVE  Inv'
<1>1. quoting = "cancel bid" /\ CancelQuote(bidId) /\ quoting' = "cancel ask" /\ UNCHANGED <<bidId, askId>>
  BY DEF CancelBid
<1>2. ~InCall
  BY <1>1 DEF Inv, MakerInv, Phases
<1>3. /\ BookInv' /\ Shrinking(order, order') /\ byId' \subseteq byId /\ bidId \notin byId'
      /\ UNCHANGED <<seq, taker, amended, inventory>> /\ ~InCall'
  BY <1>1, <1>2, QuoteCancelled
<1>4. Quotes' /\ Bounded'
  BY <1>1, <1>3, QuotesShrink
<1>5. fair' = fair
  BY <1>1 DEF CancelQuote
<1>6. Phases' /\ Foreign'
  BY <1>1, <1>3, <1>5 DEF Inv, MakerInv, Phases, Foreign
<1> QED
  BY <1>3, <1>4, <1>6 DEF Inv, MakerInv

\* Both quotes are gone: the maker has nothing in the book.
LEMMA CancelAskKeeps ==
  ASSUME Inv, CancelAsk
  PROVE  Inv'
<1>1. quoting = "cancel ask" /\ CancelQuote(askId) /\ quoting' = "bid" /\ bidId' = 0 /\ askId' = 0
  BY DEF CancelAsk
<1>2. ~InCall /\ bidId \notin byId
  BY <1>1 DEF Inv, MakerInv, Phases
<1>3. /\ BookInv' /\ Shrinking(order, order') /\ byId' \subseteq byId /\ askId \notin byId'
      /\ UNCHANGED <<seq, taker, amended, inventory>> /\ ~InCall'
  BY <1>1, <1>2, QuoteCancelled
<1>4. fair' = fair /\ seq \in Nat
  BY <1>1, LiveWants DEF CancelQuote, Inv
<1>5. ASSUME NEW i \in Ids, order'[i].active PROVE order'[i].participant # ID
  <2>1. order[i].active /\ order'[i].participant = order[i].participant
    BY <1>3, <1>5 DEF Shrinking, Less
  <2>2. i \in byId'
    BY <1>3, <1>5 DEF BookInv, Indexed
  <2>3. i # bidId /\ i # askId
    BY <1>2, <1>3, <2>2
  <2>4. Own(order[i], i, inventory, bidId, askId)
    BY <2>1 DEF Inv, MakerInv, Quotes
  <2> QED
    BY <2>1, <2>3, <2>4 DEF Own
<1>6. taker'.participant # ID
  BY <1>2, <1>3, NoOrderIs DEF InCall
<1>7. Quotes'
  BY <1>5, <1>6 DEF Quotes, Own
<1>8. Phases' /\ Foreign' /\ Bounded'
  <2>1. 0 \in 0 .. seq' /\ fair \in Fairs
    <3>1. seq' \in Nat
      BY <1>3, <1>4
    <3>2. fair \in Fairs
      BY DEF Inv, MakerInv, Phases
    <3> QED
      BY <3>1, <3>2
  <2> QED
    BY <1>1, <1>3, <1>4, <2>1 DEF Inv, MakerInv, Phases, Foreign, Bounded
<1> QED
  BY <1>3, <1>7, <1>8 DEF Inv, MakerInv

\* The maker submits a quote, with the id it will remember.
LEMMA QuoteSubmitted ==
  ASSUME Inv, NEW side \in Sides, NEW price \in Int, Submit(Quote(side, price)), ~InCall
  PROVE  /\ BookInv' /\ UNCHANGED order /\ seq' = seq + 1 /\ amended' = NoRequest /\ Foreign'
         /\ Refused(Quote(side, price)) => taker' = NoOrder
         /\ ~Refused(Quote(side, price)) =>
              taker'.id = seq' /\ taker'.side = side /\ taker'.qty = quoteSize
<1> DEFINE r == Quote(side, price)
<1>1. r \in Request /\ r.side = side /\ r.qty = quoteSize
  BY MakerAssumption DEF Quote, Request
<1>2. Submit(r)
  OBVIOUS
<1>3. BookInv'
  BY <1>1, <1>2, SubmitKeeps DEF Inv
<1>4. /\ UNCHANGED order /\ seq' = seq + 1 /\ amended' = NoRequest
      /\ taker' = IF Refused(r) THEN NoOrder ELSE Order(r, seq + 1)
  BY <1>2 DEF Submit
<1>5. /\ Order(r, seq + 1).id = seq + 1 /\ Order(r, seq + 1).side = side
      /\ Order(r, seq + 1).qty = quoteSize
  BY <1>1 DEF Order
<1>6. Foreign'
  BY <1>4 DEF Foreign, NoRequest, ID
<1> QED
  BY <1>3, <1>4, <1>5, <1>6

\* Submitting the new bid keeps the invariant.
LEMMA QuoteBidKeeps ==
  ASSUME Inv, QuoteBid
  PROVE  Inv'
<1>1. /\ quoting = "bid" /\ ~InCall /\ quoting' = "ask" /\ UNCHANGED <<fair, inventory, askId>>
      /\ IF MayBid THEN Submit(Bid) ELSE UNCHANGED bookVars
      /\ bidId' = IF MayBid /\ ~Refused(Bid) THEN seq' ELSE 0
  BY DEF QuoteBid
<1>2. /\ bidId = 0 /\ askId = 0 /\ inventory \in -Most .. Most /\ Foreign /\ fair \in Fairs
      /\ taker = NoOrder
  BY <1>1 DEF Inv, MakerInv, Phases, Bounded, InCall
<1>3. /\ seq \in Nat /\ Most \in Nat /\ inventory \in Int /\ Most = maxInventory - 1 + quoteSize
      /\ maxInventory \in Nat \ {0} /\ quoteSize \in Nat \ {0} /\ fair \in Nat
      /\ baseHalfSpread \in Nat /\ invSkew \in Nat
  BY <1>2, LiveWants, MakerAssumption DEF Inv, Most
<1>4. \A i \in Ids : order[i].active => order[i].participant # ID
  <2> SUFFICES ASSUME NEW i \in Ids, order[i].active PROVE order[i].participant # ID
    OBVIOUS
  <2>1. i # 0 /\ Own(order[i], i, inventory, bidId, askId)
    BY IdsAre DEF Inv, MakerInv, Quotes
  <2> QED
    BY <1>2, <2>1 DEF Own
<1>5. CASE ~MayBid
  <2>1. UNCHANGED <<levels, order, byId, top, seq, taker, amended>> /\ bidId' = 0
    BY <1>1, <1>5 DEF bookVars
  <2>2. BookInv'
    BY <2>1 DEF Inv, BookInv, Indexed, Filed, Taking, Counted, FullLevels, CachedTop, Apart,
                Sweeping, Opp, Best, BestOf, Refreshed
  <2>3. Quotes'
    <3>1. NoOrder.participant # ID
      BY NoOrderIs
    <3> QED
      BY <1>2, <1>4, <2>1, <3>1 DEF Quotes, Own
  <2>4. Phases' /\ Bounded' /\ Foreign'
    BY <1>1, <1>2, <1>3, <2>1 DEF Phases, Bounded, Foreign
  <2> QED
    BY <2>2, <2>3, <2>4 DEF Inv, MakerInv
<1>6. CASE MayBid
  <2> DEFINE price == reservation - baseHalfSpread
  <2>1. price \in Int /\ Bid = Quote("BUY", price) /\ "BUY" \in Sides
    BY <1>3 DEF reservation, Bid, Sides
  <2> HIDE DEF price
  <2>2. Submit(Quote("BUY", price))
    BY <1>1, <1>6, <2>1
  <2>3. /\ BookInv' /\ UNCHANGED order /\ seq' = seq + 1 /\ amended' = NoRequest /\ Foreign'
        /\ Refused(Quote("BUY", price)) => taker' = NoOrder
        /\ ~Refused(Quote("BUY", price)) =>
             taker'.id = seq' /\ taker'.side = "BUY" /\ taker'.qty = quoteSize
    BY <1>1, <2>1, <2>2, QuoteSubmitted
  <2>4. inventory + quoteSize <= Most
    <3>1. inventory < maxInventory
      BY <1>6 DEF MayBid
    <3> QED
      BY <1>3, <3>1
  <2>5. Own(taker', taker'.id, inventory', bidId', askId')
    <3>1. CASE Refused(Bid)
      <4>1. taker' = NoOrder
        BY <2>1, <2>3, <3>1
      <4> QED
        BY <4>1, NoOrderIs DEF Own
    <3>2. CASE ~Refused(Bid)
      <4>1. taker'.id = bidId' /\ taker'.side = "BUY" /\ taker'.qty = quoteSize
        BY <1>1, <1>6, <2>1, <2>3, <3>2
      <4> QED
        BY <1>1, <2>4, <4>1 DEF Own
    <3> QED
      BY <3>1, <3>2
  <2>6. Quotes'
    BY <1>4, <2>3, <2>5 DEF Quotes, Own
  <2>7. bidId' \in 0 .. seq' /\ askId' \in 0 .. seq'
    BY <1>1, <1>2, <1>3, <2>3
  <2>8. Phases' /\ Bounded'
    BY <1>1, <1>2, <2>7 DEF Phases, Bounded
  <2> QED
    BY <2>3, <2>6, <2>8 DEF Inv, MakerInv
<1> QED
  BY <1>5, <1>6

\* Submitting the new ask keeps the invariant.
LEMMA QuoteAskKeeps ==
  ASSUME Inv, QuoteAsk
  PROVE  Inv'
<1>1. /\ quoting = "ask" /\ ~InCall /\ quoting' = "idle" /\ UNCHANGED <<fair, inventory, bidId>>
      /\ IF MayAsk THEN Submit(Ask) ELSE UNCHANGED bookVars
      /\ askId' = IF MayAsk /\ ~Refused(Ask) THEN seq' ELSE 0
  BY DEF QuoteAsk
<1>2. /\ askId = 0 /\ bidId \in 0 .. seq /\ inventory \in -Most .. Most /\ Foreign /\ fair \in Fairs
      /\ taker = NoOrder
  BY <1>1 DEF Inv, MakerInv, Phases, Bounded, InCall
<1>3. /\ seq \in Nat /\ Most \in Nat /\ inventory \in Int /\ Most = maxInventory - 1 + quoteSize
      /\ maxInventory \in Nat \ {0} /\ quoteSize \in Nat \ {0} /\ fair \in Nat
      /\ baseHalfSpread \in Nat /\ invSkew \in Nat
  BY <1>2, LiveWants, MakerAssumption DEF Inv, Most
<1>4. \A i \in Ids : order[i].active => Own(order[i], i, inventory, bidId, askId')
  <2> SUFFICES ASSUME NEW i \in Ids, order[i].active PROVE Own(order[i], i, inventory, bidId, askId')
    OBVIOUS
  <2>1. i # 0 /\ Own(order[i], i, inventory, bidId, askId)
    BY IdsAre DEF Inv, MakerInv, Quotes
  <2> QED
    BY <1>2, <2>1 DEF Own
<1>5. CASE ~MayAsk
  <2>1. UNCHANGED <<levels, order, byId, top, seq, taker, amended>> /\ askId' = 0
    BY <1>1, <1>5 DEF bookVars
  <2>2. BookInv'
    BY <2>1 DEF Inv, BookInv, Indexed, Filed, Taking, Counted, FullLevels, CachedTop, Apart,
                Sweeping, Opp, Best, BestOf, Refreshed
  <2>3. Quotes' /\ Foreign'
    BY <1>1, <1>2, <2>1 DEF Inv, MakerInv, Quotes, Foreign
  <2>4. Phases' /\ Bounded'
    BY <1>1, <1>2, <1>3, <2>1 DEF Phases, Bounded
  <2> QED
    BY <2>2, <2>3, <2>4 DEF Inv, MakerInv
<1>6. CASE MayAsk
  <2> DEFINE price == reservation + baseHalfSpread
  <2>1. price \in Int /\ Ask = Quote("SELL", price) /\ "SELL" \in Sides
    BY <1>3 DEF reservation, Ask, Sides
  <2> HIDE DEF price
  <2>2. Submit(Quote("SELL", price))
    BY <1>1, <1>6, <2>1
  <2>3. /\ BookInv' /\ UNCHANGED order /\ seq' = seq + 1 /\ amended' = NoRequest /\ Foreign'
        /\ Refused(Quote("SELL", price)) => taker' = NoOrder
        /\ ~Refused(Quote("SELL", price)) =>
             taker'.id = seq' /\ taker'.side = "SELL" /\ taker'.qty = quoteSize
    BY <1>1, <2>1, <2>2, QuoteSubmitted
  <2>4. inventory - quoteSize >= -Most
    <3>1. inventory > -maxInventory
      BY <1>6 DEF MayAsk
    <3> QED
      BY <1>3, <3>1
  <2>5. Own(taker', taker'.id, inventory', bidId', askId')
    <3>1. CASE Refused(Ask)
      <4>1. taker' = NoOrder
        BY <2>1, <2>3, <3>1
      <4> QED
        BY <4>1, NoOrderIs DEF Own
    <3>2. CASE ~Refused(Ask)
      <4>1. taker'.id = askId' /\ taker'.side = "SELL" /\ taker'.qty = quoteSize
        BY <1>1, <1>6, <2>1, <2>3, <3>2
      <4> QED
        BY <1>1, <2>4, <4>1 DEF Own
    <3> QED
      BY <3>1, <3>2
  <2>6. Quotes'
    BY <1>1, <1>4, <2>3, <2>5 DEF Quotes
  <2>7. bidId' \in 0 .. seq' /\ askId' \in 0 .. seq'
    BY <1>1, <1>2, <1>3, <2>3
  <2>8. Phases' /\ Bounded'
    BY <1>1, <1>2, <2>7 DEF Phases, Bounded
  <2> QED
    BY <2>3, <2>6, <2>8 DEF Inv, MakerInv
<1> QED
  BY <1>5, <1>6

\* In the middle of a call the maker is idle, or about to quote its ask.
LEMMA PhaseInCall ==
  ASSUME Inv, InCall PROVE quoting \in {"idle", "ask"} /\ seq \in Nat
BY LiveWants DEF Inv, MakerInv, Phases

\* A step of the engine that tells the maker nothing keeps the invariant.
LEMMA EngineKeeps ==
  ASSUME Inv, EngineStep
  PROVE  Inv'
<1>1. UNCHANGED makerVars /\ UNCHANGED <<fair, inventory, bidId, askId, quoting>>
  BY DEF EngineStep, makerVars
<1>2. ASSUME DiscardCancelled \/ PreventSelfTrade PROVE Inv'
  <2>1. BookInv'
    BY <1>2, DiscardKeeps, PreventKeeps DEF Inv
  <2>2. InCall /\ UNCHANGED <<seq, taker, amended>> /\ order' = Kept({HeadId})
    BY <1>2 DEF DiscardCancelled, PreventSelfTrade, Sweeping, InCall
  <2> DEFINE other == order'
  <2>3. \A k \in Ids : other[k] = order[k] \/ ~other[k].active
    BY <2>2, NoOrderIs DEF Kept
  <2> HIDE DEF other
  <2>4. Shrinking(order, other)
    BY <2>3, SameShrinks DEF Inv
  <2>5. Quotes' /\ Bounded'
    BY <1>1, <2>2, <2>4, QuotesShrink DEF other
  <2>6. quoting \in {"idle", "ask"} /\ seq' \in Nat /\ seq' >= seq
    BY <2>2, PhaseInCall
  <2>7. Phases'
    BY <1>1, <2>6, PhasesStay
  <2> QED
    BY <2>1, <2>2, <2>5, <2>7 DEF Inv, MakerInv, Foreign
<1>3. ASSUME Finish PROVE Inv'
  <2>1. BookInv'
    BY <1>3, FinishKeeps DEF Inv
  <2>2. InCall /\ UNCHANGED <<seq, amended>> /\ order' = order /\ taker' = NoOrder
    BY <1>3 DEF Finish, InCall
  <2>3. Shrinking(order, order)
    BY SameShrinks DEF Inv
  <2>4. Shrinking(order, order')
    BY <2>2, <2>3
  <2>5. Quotes' /\ Bounded'
    BY <1>1, <2>2, <2>4, QuotesShrink
  <2>6. quoting \in {"idle", "ask"} /\ seq' \in Nat /\ seq' >= seq
    BY <2>2, PhaseInCall
  <2>7. Phases'
    BY <1>1, <2>6, PhasesStay
  <2> QED
    BY <2>1, <2>2, <2>5, <2>7 DEF Inv, MakerInv, Foreign
<1>4. ASSUME Rest PROVE Inv'
  <2>1. BookInv'
    BY <1>4, RestKeeps DEF Inv
  <2>2. InCall /\ UNCHANGED <<seq, amended>> /\ order' = [order EXCEPT ![taker.id] = taker] /\ taker' = NoOrder
    BY <1>4 DEF Rest, InCall
  <2>3. Own(taker, taker.id, inventory, bidId, askId) /\ Own(NoOrder, NoOrder.id, inventory, bidId, askId)
    BY NoOrderIs DEF Inv, MakerInv, Quotes, Own
  <2>4. ASSUME NEW i \in Ids, order'[i].active PROVE Own(order'[i], i, inventory, bidId, askId)
    <3>1. order \in Orders
      BY DEF Inv, BookInv, Standing
    <3>2. CASE i = taker.id
      <4>1. order'[i] = taker
        BY <2>2, <3>1, <3>2 DEF Orders
      <4> QED
        BY <2>3, <3>2, <4>1
    <3>3. CASE i # taker.id
      <4>1. order'[i] = order[i]
        BY <2>2, <3>1, <3>3 DEF Orders
      <4> QED
        BY <2>4, <4>1 DEF Inv, MakerInv, Quotes
    <3> QED
      BY <3>2, <3>3
  <2>5. Quotes' /\ Bounded'
    BY <1>1, <2>2, <2>3, <2>4 DEF Inv, MakerInv, Quotes, Bounded
  <2>6. quoting \in {"idle", "ask"} /\ seq' \in Nat /\ seq' >= seq
    BY <2>2, PhaseInCall
  <2>7. Phases'
    BY <1>1, <2>6, PhasesStay
  <2> QED
    BY <2>1, <2>2, <2>5, <2>7 DEF Inv, MakerInv, Foreign
<1>5. ASSUME SubmitAmended PROVE Inv'
  <2>1. InCall /\ Submit(amended) /\ amended \in Request /\ amended.participant # ID
    BY <1>5 DEF SubmitAmended, InCall, Inv, BookInv, Counted, MakerInv, Foreign
  <2>2. quoting \in {"idle", "ask"}
    BY <2>1, PhaseInCall
  <2> QED
    BY <1>1, <2>1, <2>2, OthersSubmit
<1> QED
  BY <1>2, <1>3, <1>4, <1>5 DEF EngineStep

\* Somebody's order meets the maker's quote, or other people's orders meet.
LEMMA TradeAndTellKeeps ==
  ASSUME Inv, TradeAndTell
  PROVE  Inv'
<1> DEFINE n == Traded
           h == order[HeadId]
<1>1. Trade /\ OnTrade /\ UNCHANGED <<fair, bidId, askId, quoting>>
  BY DEF TradeAndTell
<1>2. BookInv'
  BY <1>1, TradeKeeps DEF Inv
<1>3. /\ Sweeping /\ h.active /\ h.participant # taker.participant
      /\ taker' = [taker EXCEPT !.qty = taker.qty - n] /\ UNCHANGED <<seq, amended>>
      /\ (\E ids : order' = Kept(ids) /\ HeadId \in ids)
         \/ order' = [order EXCEPT ![HeadId] = [h EXCEPT !.qty = h.qty - n]]
  BY <1>1 DEF Trade
<1>4. /\ HeadId \in Ids /\ Resting(h, HeadId, Opp, Best) /\ taker.qty \in Nat \ {0} /\ taker # NoOrder
      /\ Opp \in Sides /\ h.qty \in Nat \ {0} /\ h.side = Opp
  BY <1>3, HeadIs DEF Resting, Inv
<1>5. n \in Nat \ {0} /\ n <= taker.qty /\ n <= h.qty
  BY <1>4, TradedIs
<1>6. /\ taker \in OrderRec /\ Most \in Nat /\ inventory \in Int /\ inventory \in -Most .. Most
      /\ order \in Orders /\ taker.side \in Sides
      /\ h.side = "BUY" <=> taker.side = "SELL"
  <2>1. taker \in OrderRec /\ Most \in Nat /\ order \in Orders
    BY LiveWants DEF Inv, BookInv, Standing
  <2>2. taker.side \in Sides
    BY <2>1 DEF OrderRec
  <2>3. inventory \in -Most .. Most
    BY DEF Inv, MakerInv, Bounded
  <2> QED
    BY <1>4, <2>1, <2>2, <2>3 DEF Opp, Opposite, Sides
<1>7. /\ taker'.participant = taker.participant /\ taker'.side = taker.side /\ taker'.id = taker.id
      /\ taker'.qty = taker.qty - n
  BY <1>3, <1>6 DEF OrderRec
<1> HIDE DEF n, h
\* The head wants less by what was traded; the others want what they wanted.
<1>8. ASSUME NEW i \in Ids, order'[i].active
      PROVE  /\ order[i].active /\ Less(order'[i], order[i])
             /\ i = HeadId => order'[i].qty = h.qty - n
  <2>1. order[i].active => order[i].qty \in Int
    BY LiveWants DEF Inv
  <2>2. CASE \E ids : order' = Kept(ids) /\ HeadId \in ids
    <3>1. order'[i] = order[i] /\ i # HeadId
      BY <1>8, <2>2, NoOrderIs DEF Kept
    <3> QED
      BY <1>8, <2>1, <3>1 DEF Less
  <2>3. CASE order' = [order EXCEPT ![HeadId] = [h EXCEPT !.qty = h.qty - n]]
    <3>1. Wants(order, order', HeadId, h.qty - n)
      <4>1. h.qty - n \in Int
        BY <1>4, <1>5
      <4>2. Wants(order, [order EXCEPT ![HeadId] = [order[HeadId] EXCEPT !.qty = h.qty - n]], HeadId, h.qty - n)
        BY <1>4, <1>6, <4>1, WantsIs
      <4> QED
        BY <2>3, <4>2 DEF h
    <3>2. CASE i = HeadId
      <4>1. /\ order'[i].qty = h.qty - n /\ order'[i].participant = h.participant /\ order'[i].side = h.side
            /\ order[i] = h /\ h.active
        BY <1>3, <3>1, <3>2 DEF Wants, SameOtherwise, h
      <4>2. h.qty - n <= h.qty /\ h.qty - n \in Int /\ h.qty \in Int
        BY <1>4, <1>5
      <4> QED
        BY <4>1, <4>2 DEF Less
    <3>3. CASE i # HeadId
      <4>1. order'[i] = order[i]
        BY <3>1, <3>3 DEF Wants, SameOtherwise
      <4> QED
        BY <1>8, <2>1, <3>3, <4>1 DEF Less
    <3> QED
      BY <3>2, <3>3
  <2> QED
    BY <1>3, <2>2, <2>3 DEF h
<1>9. Own(h, HeadId, inventory, bidId, askId) /\ Own(taker, taker.id, inventory, bidId, askId)
  BY <1>3, <1>4 DEF Inv, MakerInv, Quotes, h
<1>10. Phases' /\ Foreign'
  <2>1. InCall
    BY <1>4 DEF InCall
  <2>2. quoting \in {"idle", "ask"} /\ seq \in Nat
    BY <2>1, PhaseInCall
  <2> QED
    BY <1>1, <1>3, <2>2 DEF Inv, MakerInv, Phases, Foreign
<1>11. CASE h.participant # ID
  <2>1. inventory' = inventory
    BY <1>1, <1>11 DEF OnTrade, h
  <2>2. ASSUME NEW i \in Ids, order'[i].active PROVE Own(order'[i], i, inventory', bidId', askId')
    <3>1. Less(order'[i], order[i]) /\ Own(order[i], i, inventory, bidId, askId)
      BY <1>8, <2>2 DEF Inv, MakerInv, Quotes
    <3>2. Own(order'[i], i, inventory, bidId, askId)
      BY <1>6, <3>1, OwnLess
    <3> QED
      BY <1>1, <2>1, <3>2
  <2>3. Own(taker', taker'.id, inventory', bidId', askId')
    <3>1. Less(taker', taker)
      BY <1>4, <1>5, <1>7 DEF Less
    <3>2. Own(taker', taker.id, inventory, bidId, askId)
      BY <1>6, <1>9, <3>1, OwnLess
    <3> QED
      BY <1>1, <1>7, <2>1, <3>2
  <2>4. Quotes' /\ Bounded'
    BY <1>6, <2>1, <2>2, <2>3 DEF Quotes, Bounded
  <2> QED
    BY <1>2, <1>10, <2>4 DEF Inv, MakerInv
<1>12. CASE h.participant = ID
  <2>1. taker'.participant # ID
    BY <1>3, <1>7, <1>12
  <2>2. /\ taker.side = "BUY" => h.side = "SELL" /\ HeadId = askId /\ inventory - h.qty >= -Most
                                 /\ inventory' = inventory - n
        /\ taker.side = "SELL" => h.side = "BUY" /\ HeadId = bidId /\ inventory + h.qty <= Most
                                  /\ inventory' = inventory + n
    <3>1. inventory' = IF taker.side = "BUY" THEN inventory - n ELSE inventory + n
      BY <1>1, <1>12 DEF OnTrade, n, h
    <3>2. h.side = "BUY" <=> taker.side = "SELL"
      BY <1>6
    <3> QED
      BY <1>4, <1>6, <1>9, <1>12, <3>1, <3>2 DEF Own, Sides
  <2>3. inventory' \in -Most .. Most
    <3>1. CASE taker.side = "BUY"
      <4>1. inventory' = inventory - n /\ inventory - h.qty >= -Most
        BY <2>2, <3>1
      <4> QED
        BY <1>4, <1>5, <1>6, <4>1
    <3>2. CASE taker.side = "SELL"
      <4>1. inventory' = inventory + n /\ inventory + h.qty <= Most
        BY <2>2, <3>2
      <4> QED
        BY <1>4, <1>5, <1>6, <4>1
    <3> QED
      BY <1>6, <3>1, <3>2 DEF Sides
  <2>4. ASSUME NEW i \in Ids, order'[i].active PROVE Own(order'[i], i, inventory', bidId', askId')
    <3>1. /\ order[i].active /\ Less(order'[i], order[i]) /\ Own(order[i], i, inventory, bidId, askId)
          /\ i = HeadId => order'[i].qty = h.qty - n
          /\ order[i] \in OrderRec
      BY <1>8, <2>4, LiveWants DEF Inv, MakerInv, Quotes
    <3>2. /\ order'[i].participant = order[i].participant /\ order'[i].side = order[i].side
          /\ order'[i].qty <= order[i].qty /\ order'[i].qty \in Int /\ order[i].qty \in Int
          /\ order[i].side \in Sides
      BY <3>1 DEF Less, OrderRec
    <3>3. CASE order[i].participant # ID
      BY <3>2, <3>3 DEF Own
    <3>4. CASE order[i].participant = ID /\ order[i].side = "BUY"
      <4>1. i = bidId /\ inventory + order[i].qty <= Most
        BY <3>1, <3>4 DEF Own
      <4>2. inventory' + order'[i].qty <= Most
        <5>1. CASE taker.side = "BUY"
          <6>1. inventory' = inventory - n
            BY <2>2, <5>1
          <6> QED
            BY <1>5, <1>6, <3>2, <4>1, <6>1
        <5>2. CASE taker.side = "SELL"
          <6>1. inventory' = inventory + n /\ order'[i].qty = h.qty - n /\ inventory + h.qty <= Most
            BY <2>2, <3>1, <4>1, <5>2
          <6> QED
            BY <1>4, <1>5, <1>6, <6>1
        <5> QED
          BY <1>6, <5>1, <5>2 DEF Sides
      <4> QED
        BY <1>1, <3>2, <3>4, <4>1, <4>2 DEF Own
    <3>5. CASE order[i].participant = ID /\ order[i].side = "SELL"
      <4>1. i = askId /\ inventory - order[i].qty >= -Most
        BY <3>1, <3>5 DEF Own
      <4>2. inventory' - order'[i].qty >= -Most
        <5>1. CASE taker.side = "SELL"
          <6>1. inventory' = inventory + n
            BY <2>2, <5>1
          <6> QED
            BY <1>5, <1>6, <3>2, <4>1, <6>1
        <5>2. CASE taker.side = "BUY"
          <6>1. inventory' = inventory - n /\ order'[i].qty = h.qty - n /\ inventory - h.qty >= -Most
            BY <2>2, <3>1, <4>1, <5>2
          <6> QED
            BY <1>4, <1>5, <1>6, <6>1
        <5> QED
          BY <1>6, <5>1, <5>2 DEF Sides
      <4> QED
        BY <1>1, <3>2, <3>5, <4>1, <4>2 DEF Own
    <3> QED
      BY <3>2, <3>3, <3>4, <3>5 DEF Sides
  <2>5. Quotes' /\ Bounded'
    BY <2>1, <2>3, <2>4 DEF Quotes, Own, Bounded
  <2> QED
    BY <1>2, <1>10, <2>5 DEF Inv, MakerInv
<1> QED
  BY <1>11, <1>12

\* The empty book, and the maker without quotes.
LEMMA InitInv == Init => Inv
<1> SUFFICES ASSUME Init PROVE Inv
  OBVIOUS
<1>1. BookInv
  BY InitBook DEF Init
<1>2. /\ fair \in Fairs /\ inventory = 0 /\ bidId = 0 /\ askId = 0 /\ quoting = "idle"
      /\ order = [i \in Ids |-> NoOrder] /\ taker = NoOrder /\ amended = NoRequest /\ seq = 0
  BY DEF Init, BookInit
<1>3. Quotes
  BY <1>2, NoOrderIs DEF Quotes, Own
<1>4. Phases
  BY <1>2 DEF Phases
<1>5. Bounded
  <2>1. Most \in Nat
    BY <1>1, LiveWants
  <2> QED
    BY <1>2, <2>1 DEF Bounded
<1>6. Foreign
  BY <1>2 DEF Foreign, NoRequest, ID
<1> QED
  BY <1>1, <1>3, <1>4, <1>5, <1>6 DEF Inv, MakerInv

\* Every step keeps the invariant.
LEMMA NextKeeps == Inv /\ [Next]_vars => Inv'
<1> SUFFICES ASSUME Inv, [Next]_vars PROVE Inv'
  OBVIOUS
<1>1. CASE UNCHANGED vars
  <2>1. /\ UNCHANGED <<levels, order, byId, top, seq, taker, amended>>
        /\ UNCHANGED <<fair, inventory, bidId, askId, quoting>>
    BY <1>1 DEF vars, bookVars, makerVars
  <2>2. BookInv'
    BY <2>1 DEF Inv, BookInv, Indexed, Filed, Taking, Counted, FullLevels, CachedTop, Apart,
                Sweeping, Opp, Best, BestOf, Refreshed
  <2>3. MakerInv'
    BY <2>1 DEF Inv, MakerInv, Quotes, Phases, Bounded, Foreign, InCall
  <2> QED
    BY <2>2, <2>3 DEF Inv
<1>2. CASE Next
  BY <1>2, CallKeeps, StartKeeps, CancelBidKeeps, CancelAskKeeps, QuoteBidKeeps, QuoteAskKeeps,
     TradeAndTellKeeps, EngineKeeps DEF Next
<1> QED
  BY <1>1, <1>2

\* The invariant holds throughout.
LEMMA InvAlways == Spec => []Inv
<1> QED
  BY InitInv, NextKeeps, PTL DEF Spec

(***************************************************************************)
(* Whatever is submitted, cancelled, amended or quoted, and whoever runs   *)
(* into their own orders: queues, totals, index and cached top agree, and  *)
(* between two calls the book is not crossed.  For any participants,       *)
(* requests, number of orders, quote size and inventory bound.             *)
(***************************************************************************)
THEOREM BookAlwaysSound == Spec => []BookSound
<1>1. Inv => BookSound
  <2> SUFFICES ASSUME Inv PROVE BookSound
    OBVIOUS
  <2>1. BookTypeOK /\ BookConsistent /\ NeverCrossed
    BY BookInvSays DEF Inv
  <2>2. TypeOK
    <3>1. inventory \in Int
      BY LiveWants DEF Inv, MakerInv, Bounded
    <3> QED
      BY <2>1, <3>1 DEF TypeOK, Inv, MakerInv, Phases
  <2> QED
    BY <2>1, <2>2 DEF BookSound
<1> QED
  BY <1>1, InvAlways, PTL

(***************************************************************************)
(* However the fills of its quotes interleave with its requotes, the       *)
(* market maker's inventory stays within maxInventory - 1 + quoteSize, and *)
(* no order of its own is left in the book that it does not know of.       *)
(***************************************************************************)
THEOREM MakerAlwaysBounded == Spec => []MakerBounded
<1>1. Inv => MakerBounded
  <2> SUFFICES ASSUME Inv PROVE MakerBounded
    OBVIOUS
  <2>1. InventoryBounded
    BY DEF Inv, MakerInv, Bounded, InventoryBounded, Most
  <2>2. NoOrphanQuotes
    BY DEF Inv, BookInv, Indexed, MakerInv, Quotes, Own, NoOrphanQuotes
  <2> QED
    BY <2>1, <2>2 DEF MakerBounded
<1> QED
  BY <1>1, InvAlways, PTL

-----------------------------------------------------------------------------
(***************************************************************************)
(* Price-time priority.  A post-only order that got past its gate has      *)
(* nothing to sweep, so it never takes; the rest follows from BookInv.     *)
(***************************************************************************)
Passive == taker.postOnly => ~Sweeping

OffersOf(ord, ids) == {Offer(ord[i]) : i \in ids}
Ident(ord, ids) == \A i \in ids : ord[i].id = i
AlikeBut(ord, other, ids, h) == \A i \in ids : i # h => other[i] = ord[i]

\* One order leaves.
LEMMA OffersLess ==
  ASSUME NEW ord, NEW other, NEW ids, NEW h \in ids, Ident(ord, ids), AlikeBut(ord, other, ids, h)
  PROVE  OffersOf(other, ids \ {h}) = OffersOf(ord, ids) \ {Offer(ord[h])}
<1>1. \A i \in ids : Offer(ord[i]).id = i
  BY DEF Ident, Offer
<1>2. \A i \in ids \ {h} : Offer(other[i]) = Offer(ord[i]) /\ Offer(ord[i]) # Offer(ord[h])
  BY <1>1 DEF AlikeBut
<1> QED
  BY <1>2 DEF OffersOf

\* One order shows something else.
LEMMA OffersChange ==
  ASSUME NEW ord, NEW other, NEW ids, NEW h \in ids, Ident(ord, ids), AlikeBut(ord, other, ids, h)
  PROVE  OffersOf(other, ids) = (OffersOf(ord, ids) \ {Offer(ord[h])}) \cup {Offer(other[h])}
<1>1. OffersOf(other, ids \ {h}) = OffersOf(ord, ids) \ {Offer(ord[h])}
  BY OffersLess
<1>2. OffersOf(other, ids) = OffersOf(other, ids \ {h}) \cup {Offer(other[h])}
  BY DEF OffersOf
<1> QED
  BY <1>1, <1>2

\* One order is added.
LEMMA OffersMore ==
  ASSUME NEW ord, NEW other, NEW ids, NEW h, h \notin ids, AlikeBut(ord, other, ids, h)
  PROVE  OffersOf(other, ids \cup {h}) = OffersOf(ord, ids) \cup {Offer(other[h])}
<1>1. \A i \in ids : Offer(other[i]) = Offer(ord[i])
  BY DEF AlikeBut
<1> QED
  BY <1>1 DEF OffersOf

\* Nothing changes in what rests.
LEMMA OffersSame ==
  ASSUME NEW ord, NEW other, NEW ids, \A i \in ids : other[i] = ord[i]
  PROVE  OffersOf(other, ids) = OffersOf(ord, ids)
BY DEF OffersOf

\* Live orders are not among the forgotten ones.
LEMMA KeptLive ==
  ASSUME BookInv', NEW ids, order' = Kept(ids)
  PROVE  \A i \in byId' : order'[i] = order[i]
<1>1. \A i \in byId' : i \in Ids /\ order'[i].active
  BY DEF BookInv, Indexed
<1>2. \A i \in Ids : order'[i] = IF i \in ids THEN NoOrder ELSE order[i]
  BY DEF Kept
<1> QED
  BY <1>1, <1>2, NoOrderIs

\* Orders in the index show their ids.
LEMMA LiveIdent == ASSUME BookInv PROVE Ident(order, byId) /\ byId \subseteq Ids
<1>1. byId = {i \in Ids : order[i].active}
  BY DEF BookInv, Indexed
<1>2. \A i \in Ids : order[i].active => order[i].id = i
  BY NoOrderIs DEF BookInv, Standing, Named
<1> QED
  BY <1>1, <1>2 DEF Ident

\* The two ways of saying that an order can trade at a price agree.
LEMMA CrossesIs ==
  ASSUME NEW o \in OrderRec, NEW r \in OrderRec
  PROVE  PriceTime!Crosses(Aggressor(o), Offer(r)) <=> r.side = Opposite(o.side) /\ Crosses(o, r.price)
<1>1. Offer(r).side = r.side /\ Offer(r).price = r.price
  BY DEF Offer
<1>2. Aggressor(o).side = o.side /\ Aggressor(o).price = o.price
  BY DEF Aggressor
<1>3. Aggressor(o).limit = (o.type = "LIMIT")
  BY DEF Aggressor
<1>4. o.side \in Sides /\ r.side \in Sides /\ o.type \in {"LIMIT", "MARKET"}
  BY DEF OrderRec
<1>5. r.side # o.side <=> r.side = Opposite(o.side)
  BY <1>4 DEF Opposite, Sides
<1>6. ~Aggressor(o).limit <=> o.type = "MARKET"
  BY <1>3, <1>4
<1>7. PriceTime!Crosses(Aggressor(o), Offer(r)) <=>
        /\ r.side # o.side
        /\ o.type = "MARKET" \/ (o.side = "BUY" /\ o.price >= r.price)
                             \/ (o.side = "SELL" /\ o.price <= r.price)
  BY <1>1, <1>2, <1>6 DEF PriceTime!Crosses
<1> QED
  BY <1>5, <1>7 DEF Crosses

\* The head of the best level is the first of what the taker can trade with.
LEMMA HeadComesFirst ==
  ASSUME BookInv, Sweeping, order[HeadId].active
  PROVE  /\ HeadId \in byId /\ taker \in OrderRec /\ order[HeadId] \in OrderRec
         /\ PriceTime!Best(Aggressor(taker), Offer(order[HeadId]))
<1> DEFINE h == HeadId
           l == levels[Opp][Best]
<1>1. /\ Opp \in Sides /\ h \in Ids /\ LevelOK(l, Opp, Best, order) /\ h \in ToSet(l.orders)
      /\ Resting(order[h], h, Opp, Best) /\ Best \in Nat \ {0}
  BY HeadIs
<1>2. h \in byId /\ taker \in OrderRec
  BY <1>1 DEF BookInv, Indexed, Taking
<1>3. order[h] \in OrderRec /\ order[h].id = h /\ order[h].side = Opp /\ order[h].price = Best
  BY <1>1, <1>2, LiveIs DEF Resting
<1>4. h = Head(l.orders)
  BY DEF HeadId
<1>5. Shaped(levels)
  BY DEF BookInv, Standing
<1> HIDE DEF h, l
<1>6. Offer(order[h]) \in Offers
  BY <1>2 DEF Offers
<1>7. Opp = Opposite(taker.side) /\ Crosses(taker, Best)
  BY DEF Opp, Sweeping
<1>8. PriceTime!Crosses(Aggressor(taker), Offer(order[h]))
  BY <1>2, <1>3, <1>7, CrossesIs
<1>9. ASSUME NEW i \in byId, Offer(order[i]) # Offer(order[h]),
             PriceTime!Crosses(Aggressor(taker), Offer(order[i]))
      PROVE  PriceTime!Before(Offer(order[h]), Offer(order[i]))
  <2> DEFINE p == order[i].price
  <2>1. order[i] \in OrderRec /\ order[i].side \in Sides /\ p \in DOMAIN levels[order[i].side]
        /\ i \in LiveIn(levels[order[i].side][p], order) /\ p \in Nat /\ i \in Ids
    BY LiveIs
  <2>2. order[i].side = Opp
    BY <1>2, <1>7, <1>9, <2>1, CrossesIs
  <2>3. order[i].id = i
    BY LiveIdent DEF Ident
  <2>4. /\ Offer(order[h]).side = Opp /\ Offer(order[h]).price = Best /\ Offer(order[h]).id = h
        /\ Offer(order[i]).price = p /\ Offer(order[i]).id = i
    BY <1>3, <2>3 DEF Offer
  <2>5. CASE p = Best
    <3>1. i \in ToSet(l.orders)
      BY <2>1, <2>2, <2>5 DEF LiveIn, l
    <3>2. l.orders \in Seq(Ids) /\ l.orders # <<>> /\ Ascending(l.orders)
      BY <1>1 DEF LevelOK, QueueOK, Level
    <3>3. i = h \/ h < i
      BY <1>4, <3>1, <3>2, HeadAndTail
    <3>4. h < i
      BY <1>9, <3>3
    <3> QED
      BY <2>4, <2>5, <3>4 DEF PriceTime!Before
  <2>6. CASE p # Best
    <3>1. Best = BestOf(levels, Opp)
      BY DEF Best
    <3>2. p \in DOMAIN levels[Opp]
      BY <2>1, <2>2
    <3>3. (Opp = "BUY" => Best >= p) /\ (Opp = "SELL" => Best <= p)
      BY <1>1, <1>5, <3>1, <3>2, BestIs
    <3>4. (Opp = "BUY" => Best > p) /\ (Opp = "SELL" => Best < p) /\ Opp \in {"BUY", "SELL"}
      BY <1>1, <2>1, <2>6, <3>3 DEF Sides
    <3> QED
      BY <2>4, <3>4 DEF PriceTime!Before
  <2> QED
    BY <2>5, <2>6
<1>10. \A s \in Offers : s # Offer(order[h]) /\ PriceTime!Crosses(Aggressor(taker), s)
          => PriceTime!Before(Offer(order[h]), s)
  BY <1>9 DEF Offers
<1> QED
  BY <1>2, <1>3, <1>6, <1>8, <1>10 DEF PriceTime!Best, h

\* When the sweep is over, nothing that rests can be traded with.
LEMMA NothingCrosses ==
  ASSUME BookInv, taker # NoOrder, ~Sweeping
  PROVE  taker.qty = 0 \/ \A i \in byId : ~PriceTime!Crosses(Aggressor(taker), Offer(order[i]))
<1>1. taker \in OrderRec /\ taker.qty \in Nat /\ taker.side \in Sides /\ Shaped(levels)
  BY DEF BookInv, Taking, Standing, OrderRec
<1>2. Opp \in Sides /\ Opp = Opposite(taker.side)
  BY <1>1 DEF Opp, Opposite, Sides
<1>3. taker.qty = 0 \/ Best = 0 \/ ~Crosses(taker, Best)
  BY <1>1 DEF Sweeping
<1>4. ASSUME NEW i \in byId, PriceTime!Crosses(Aggressor(taker), Offer(order[i]))
      PROVE  taker.qty = 0
  <2> DEFINE p == order[i].price
  <2>1. order[i] \in OrderRec /\ order[i].side \in Sides /\ p \in DOMAIN levels[order[i].side] /\ p \in Nat
    BY LiveIs
  <2>2. order[i].side = Opp /\ Crosses(taker, p)
    BY <1>1, <1>2, <1>4, <2>1, CrossesIs
  <2>3. p \in DOMAIN levels[Opp]
    BY <2>1, <2>2
  <2> HIDE DEF p
  <2>4. Best = BestOf(levels, Opp)
    BY DEF Best
  <2>5. Best # 0 /\ Best \in Nat
    BY <1>1, <1>2, <2>3, <2>4, BestIs
  <2>6. (Opp = "BUY" => Best >= p) /\ (Opp = "SELL" => Best <= p)
    BY <1>1, <1>2, <2>3, <2>4, BestIs
  <2>7. p \in Nat /\ taker.price \in Int
    BY <1>1, <2>1 DEF p, OrderRec
  <2>8. taker.side = "BUY" => Opp = "SELL"
    BY <1>2 DEF Opposite
  <2>9. taker.side = "SELL" => Opp = "BUY"
    BY <1>2 DEF Opposite
  <2>10. Crosses(taker, Best)
    BY <2>2, <2>5, <2>6, <2>7, <2>8, <2>9 DEF Crosses
  <2> QED
    BY <1>3, <2>5, <2>10
<1> QED
  BY <1>4

\* A cancelled order at the head was not on show.
LEMMA DiscardShows ==
  ASSUME BookInv, BookInv', DiscardCancelled
  PROVE  UNCHANGED <<Offers, Incoming>>
<1>1. order' = Kept({HeadId}) /\ UNCHANGED <<byId, taker>>
  BY DEF DiscardCancelled
<1>2. OffersOf(order', byId) = OffersOf(order, byId)
  BY <1>1, KeptLive, OffersSame
<1> QED
  BY <1>1, <1>2 DEF Offers, OffersOf, Incoming

\* Self-trade prevention.
LEMMA PreventShows ==
  ASSUME BookInv, BookInv', PreventSelfTrade
  PROVE  PriceTime!PreventSelfTrade
<1> DEFINE o == Aggressor(taker)
           r == Offer(order[HeadId])
<1>1. /\ Sweeping /\ order[HeadId].active /\ order[HeadId].participant = taker.participant
      /\ order' = Kept({HeadId}) /\ byId' = byId \ {HeadId} /\ UNCHANGED taker
  BY DEF PreventSelfTrade
<1>2. HeadId \in byId /\ PriceTime!Best(o, r) /\ taker # NoOrder /\ taker.qty > 0
  BY <1>1, HeadComesFirst DEF Sweeping
<1>3. Ident(order, byId) /\ AlikeBut(order, order', byId, HeadId)
  BY <1>1, LiveIdent, KeptLive DEF AlikeBut
<1>4. OffersOf(order', byId \ {HeadId}) = OffersOf(order, byId) \ {r}
  BY <1>2, <1>3, OffersLess
<1>5. Offers' = Offers \ {r} /\ r \in Offers
  BY <1>1, <1>2, <1>4 DEF Offers, OffersOf
<1>6. Incoming = {o} /\ UNCHANGED Incoming
  BY <1>1, <1>2 DEF Incoming
<1>7. o.qty > 0 /\ r.participant = o.participant
  BY <1>1, <1>2 DEF Aggressor, Offer
<1> HIDE DEF o, r
<1> QED
  BY <1>2, <1>5, <1>6, <1>7 DEF PriceTime!PreventSelfTrade

\* A record that differs in one quantity shows a quantity that differs.
LEMMA OfferWants ==
  ASSUME NEW o, NEW x, NEW n, x.id = o.id, x.participant = o.participant, x.side = o.side,
         x.price = o.price, x.qty = n
  PROVE  Offer(x) = [Offer(o) EXCEPT !.qty = n]
BY DEF Offer

\* And so does the order being matched.
LEMMA AggressorWants ==
  ASSUME NEW o \in OrderRec, NEW n \in Int
  PROVE  Aggressor([o EXCEPT !.qty = n]) = [Aggressor(o) EXCEPT !.qty = n]
<1> DEFINE x == [o EXCEPT !.qty = n]
<1>1. /\ x.id = o.id /\ x.participant = o.participant /\ x.side = o.side /\ x.price = o.price
      /\ x.qty = n /\ x.type = o.type /\ x.postOnly = o.postOnly
  BY DEF OrderRec
<1> HIDE DEF x
<1>2. Aggressor(x) = [Aggressor(o) EXCEPT !.qty = n]
  BY <1>1 DEF Aggressor
<1> QED
  BY <1>2 DEF x

\* A trade is a trade with the first of those that can be traded with.
LEMMA TradeShows ==
  ASSUME BookInv, BookInv', Trade, Passive
  PROVE  PriceTime!Trade
<1> DEFINE o == Aggressor(taker)
           h == HeadId
           r == Offer(order[h])
           n == Traded
           q == taker.qty
           w == order[h].qty
<1>1. /\ Sweeping /\ order[h].active /\ order[h].participant # taker.participant
      /\ taker' = [taker EXCEPT !.qty = q - n]
      /\ byId' = IF w = n THEN byId \ {h} ELSE byId
      /\ w = n => \E ids : order' = Kept(ids)
      /\ w # n => order' = [order EXCEPT ![h] = [order[h] EXCEPT !.qty = w - n]]
  BY DEF Trade
<1>2. /\ h \in byId /\ taker \in OrderRec /\ order[h] \in OrderRec /\ PriceTime!Best(o, r)
      /\ taker # NoOrder /\ taker.active = TRUE
  BY <1>1, HeadComesFirst DEF Sweeping, BookInv, Taking
<1>3. q \in Nat \ {0} /\ w \in Nat \ {0} /\ h \in Ids /\ order \in Orders
  BY <1>1, HeadIs DEF Resting, BookInv, Standing
<1>4. n \in Nat \ {0} /\ n <= q /\ n <= w /\ (n = q \/ n = w)
  BY <1>3, TradedIs
<1>5. o.qty = q /\ r.qty = w /\ o.maker = taker.postOnly /\ r.participant # o.participant
  BY <1>1 DEF Aggressor, Offer
<1>6. ~o.maker /\ o.qty > 0
  BY <1>1, <1>3, <1>5 DEF Passive
<1>7. Incoming = {o}
  BY <1>2 DEF Incoming
<1>8. Incoming' = {[o EXCEPT !.qty = o.qty - n]}
  <2>1. q - n \in Int
    BY <1>3, <1>4
  <2>2. Aggressor(taker') = [o EXCEPT !.qty = q - n]
    BY <1>1, <1>2, <2>1, AggressorWants
  <2>3. taker' # NoOrder
    <3>1. taker'.active = TRUE
      BY <1>1, <1>2 DEF OrderRec
    <3> QED
      BY <3>1, NoOrderIs
  <2> HIDE DEF o, q, n
  <2>4. Incoming' = {Aggressor(taker')}
    BY <2>3 DEF Incoming
  <2> QED
    BY <1>5, <2>2, <2>4
<1>9. Ident(order, byId)
  BY LiveIdent
<1>10. CASE w = n
  <2>1. AlikeBut(order, order', byId, h)
    BY <1>1, <1>10, KeptLive DEF AlikeBut
  <2>2. OffersOf(order', byId \ {h}) = OffersOf(order, byId) \ {r}
    BY <1>2, <1>9, <2>1, OffersLess
  <2>3. Offers' = Offers \ {r} /\ r \in Offers
    BY <1>1, <1>2, <1>10, <2>2 DEF Offers, OffersOf
  <2>4. (IF o.qty < r.qty THEN o.qty ELSE r.qty) = n /\ n = r.qty
    BY <1>3, <1>4, <1>5, <1>10
  <2> HIDE DEF o, r, n, h, q, w
  <2> QED
    BY <1>2, <1>5, <1>6, <1>7, <1>8, <2>3, <2>4 DEF PriceTime!Trade
<1>11. CASE w # n
  <2>1. Wants(order, order', h, w - n)
    <3>1. w - n \in Int
      BY <1>3, <1>4
    <3>2. Wants(order, [order EXCEPT ![h] = [order[h] EXCEPT !.qty = w - n]], h, w - n)
      BY <1>3, <3>1, WantsIs
    <3> QED
      BY <1>1, <1>11, <3>2
  <2>2. AlikeBut(order, order', byId, h)
    BY <2>1, LiveIdent DEF Wants, SameOtherwise, AlikeBut
  <2>3. Offer(order'[h]) = [r EXCEPT !.qty = w - n]
    BY <2>1, OfferWants DEF Wants, SameOtherwise
  <2>4. OffersOf(order', byId) = (OffersOf(order, byId) \ {r}) \cup {Offer(order'[h])}
    BY <1>2, <1>9, <2>2, OffersChange
  <2>5. Offers' = (Offers \ {r}) \cup {[r EXCEPT !.qty = r.qty - n]} /\ r \in Offers
    BY <1>1, <1>2, <1>5, <1>11, <2>3, <2>4 DEF Offers, OffersOf
  <2>6. (IF o.qty < r.qty THEN o.qty ELSE r.qty) = n /\ n # r.qty
    BY <1>3, <1>4, <1>5, <1>11
  <2> HIDE DEF o, r, n, h, q, w
  <2> QED
    BY <1>2, <1>5, <1>6, <1>7, <1>8, <2>5, <2>6 DEF PriceTime!Trade
<1> QED
  BY <1>10, <1>11

\* The remainder of an order leaves, or rests.
LEMMA FinishShows ==
  ASSUME BookInv, BookInv', Finish
  PROVE  PriceTime!Leave
<1> DEFINE o == Aggressor(taker)
<1>1. taker # NoOrder /\ ~Sweeping /\ taker' = NoOrder /\ UNCHANGED <<order, byId>>
  BY DEF Finish
<1>2. taker.qty = 0 \/ \A r \in Offers : ~PriceTime!Crosses(o, r)
  BY <1>1, NothingCrosses DEF Offers
<1>3. Incoming = {o} /\ Incoming' = {} /\ UNCHANGED Offers
  BY <1>1 DEF Incoming, Offers
<1>4. o.qty = taker.qty
  BY DEF Aggressor
<1> HIDE DEF o
<1> QED
  BY <1>2, <1>3, <1>4 DEF PriceTime!Leave

\* What is left of an order rests.
LEMMA RestShows ==
  ASSUME BookInv, BookInv', Rest
  PROVE  PriceTime!Leave
<1> DEFINE o == Aggressor(taker)
           i == taker.id
<1>1. /\ taker # NoOrder /\ ~Sweeping /\ taker' = NoOrder /\ taker.qty > 0 /\ taker.type = "LIMIT"
      /\ order' = [order EXCEPT ![i] = taker] /\ byId' = byId \cup {i}
  BY DEF Rest, Rests
<1>2. taker.qty = 0 \/ \A r \in Offers : ~PriceTime!Crosses(o, r)
  BY <1>1, NothingCrosses DEF Offers
<1>3. Incoming = {o} /\ Incoming' = {}
  BY <1>1 DEF Incoming
<1>4. /\ o.qty = taker.qty /\ o.limit = TRUE /\ o.id = i /\ o.participant = taker.participant
      /\ o.side = taker.side /\ o.price = taker.price
  BY <1>1 DEF Aggressor
<1>5. i \in Ids /\ order \in Orders /\ i \notin byId
  <2>1. i = seq /\ i # 0 /\ seq \in 0 .. MaxOrders
    BY <1>1 DEF BookInv, Taking, Counted
  <2>2. i \in Ids
    BY <2>1, BookAssumption DEF Ids
  <2>3. order[i] = NoOrder
    BY <1>1, <2>1, <2>2, BookAssumption DEF BookInv, Filed
  <2> QED
    BY <2>2, <2>3, NoOrderIs DEF BookInv, Standing, Indexed
<1>6. order'[i] = taker /\ AlikeBut(order, order', byId, i)
  <2>1. \A k \in Ids : order'[k] = IF k = i THEN taker ELSE order[k]
    BY <1>1, <1>5 DEF Orders
  <2> QED
    BY <1>5, <2>1, LiveIdent DEF AlikeBut
<1>7. OffersOf(order', byId \cup {i}) = OffersOf(order, byId) \cup {Offer(taker)}
  BY <1>5, <1>6, OffersMore
<1>8. Offer(taker) = [id |-> o.id, participant |-> o.participant,
                      side |-> o.side, price |-> o.price, qty |-> o.qty]
  BY <1>4 DEF Offer
<1>9. Offers' = Offers \cup {[id |-> o.id, participant |-> o.participant,
                              side |-> o.side, price |-> o.price, qty |-> o.qty]}
  BY <1>1, <1>7, <1>8 DEF Offers, OffersOf
<1> HIDE DEF o, i
<1> QED
  BY <1>1, <1>2, <1>3, <1>4, <1>9 DEF PriceTime!Leave

\* A cancelled order is gone; the dead it leaves in a queue are not on show.
LEMMA CancelledShows ==
  ASSUME BookInv, BookInv', NEW i \in byId, Cancelled(i), taker = NoOrder, taker' = NoOrder
  PROVE  PriceTime!Cancel
<1>1. i \in Ids /\ order \in Orders
  BY LiveIs DEF BookInv, Standing
<1>2. byId' = byId \ {i} /\ \/ \E ids : order' = Kept(ids)
                            \/ order' = [order EXCEPT ![i] = [order[i] EXCEPT !.active = FALSE]]
  BY DEF Cancelled
<1>3. AlikeBut(order, order', byId, i)
  <2>1. CASE \E ids : order' = Kept(ids)
    BY <1>2, <2>1, KeptLive DEF AlikeBut
  <2>2. CASE order' = [order EXCEPT ![i] = [order[i] EXCEPT !.active = FALSE]]
    <3>1. Stopped(order, order', i)
      BY <1>1, <2>2, StoppedIs
    <3> QED
      BY <3>1, LiveIdent DEF Stopped, SameOtherwise, AlikeBut
  <2> QED
    BY <1>2, <2>1, <2>2
<1>4. OffersOf(order', byId \ {i}) = OffersOf(order, byId) \ {Offer(order[i])}
  BY <1>3, LiveIdent, OffersLess
<1>5. Offers' = Offers \ {Offer(order[i])} /\ Offer(order[i]) \in Offers
  BY <1>2, <1>4 DEF Offers, OffersOf
<1>6. Incoming = {} /\ UNCHANGED Incoming
  BY DEF Incoming
<1> QED
  BY <1>5, <1>6 DEF PriceTime!Cancel

\* A shrunk order keeps its place.
LEMMA InPlaceShows ==
  ASSUME BookInv, BookInv', NEW i, NEW x, NEW n \in Int, ReplaceInPlace(i, x, n)
  PROVE  PriceTime!Shrink
<1> DEFINE r == Offer(order[i])
<1>1. /\ i \in byId /\ n < order[i].qty /\ n > 0 /\ taker = NoOrder /\ UNCHANGED <<byId, taker>>
      /\ order' = [order EXCEPT ![i] = [order[i] EXCEPT !.qty = n]]
  BY DEF ReplaceInPlace, Shrinks, InCall
<1>2. i \in Ids /\ order \in Orders /\ order[i].qty \in Nat
  BY <1>1, LiveIs DEF BookInv, Standing
<1>3. Wants(order, order', i, n)
  <2>1. Wants(order, [order EXCEPT ![i] = [order[i] EXCEPT !.qty = n]], i, n)
    BY <1>2, WantsIs
  <2> QED
    BY <1>1, <2>1
<1>4. AlikeBut(order, order', byId, i)
  BY <1>3, LiveIdent DEF Wants, SameOtherwise, AlikeBut
<1>5. Offer(order'[i]) = [r EXCEPT !.qty = n]
  BY <1>3, OfferWants DEF Wants, SameOtherwise
<1>6. OffersOf(order', byId) = (OffersOf(order, byId) \ {r}) \cup {Offer(order'[i])}
  <2>1. Ident(order, byId) /\ i \in byId
    BY <1>1, LiveIdent
  <2> HIDE DEF r
  <2>2. OffersOf(order', byId) = (OffersOf(order, byId) \ {Offer(order[i])}) \cup {Offer(order'[i])}
    BY <1>4, <2>1, OffersChange
  <2> QED
    BY <2>2 DEF r
<1>7. Offers' = (Offers \ {r}) \cup {[r EXCEPT !.qty = n]} /\ r \in Offers
  BY <1>1, <1>5, <1>6 DEF Offers, OffersOf
<1>8. r.qty = order[i].qty
  BY DEF Offer
<1>9. n \in 1 .. r.qty - 1
  BY <1>1, <1>2, <1>8
<1>10. Incoming = {} /\ UNCHANGED Incoming
  BY <1>1 DEF Incoming
<1> HIDE DEF r
<1> QED
  BY <1>7, <1>9, <1>10 DEF PriceTime!Shrink

\* An order that is refused does not arrive; one that is taken arrives last.
LEMMA SubmitShows ==
  ASSUME BookInv, NEW r \in Request, Submit(r)
  PROVE  PriceTime!Arrive \/ UNCHANGED <<Offers, Incoming>>
<1> DEFINE o == Order(r, seq + 1)
<1>1. /\ taker = NoOrder /\ taker' = IF Refused(r) THEN NoOrder ELSE o
      /\ UNCHANGED <<order, byId>>
  BY DEF Submit
<1>2. UNCHANGED Offers /\ Incoming = {}
  BY <1>1 DEF Offers, Incoming
<1>3. CASE Refused(r)
  BY <1>1, <1>2, <1>3 DEF Incoming
<1>4. CASE ~Refused(r)
  <2>1. seq \in Nat /\ seq + 1 \in Nat \ {0}
    BY DEF BookInv, Counted
  <2>2. o # NoOrder /\ o.id = seq + 1 /\ o.qty = r.qty
    BY <2>1, OrderIs
  <2>3. r.qty > 0
    BY <1>4 DEF Refused, Valid
  <2>4. Incoming' = {Aggressor(o)} /\ Aggressor(o).qty > 0 /\ Aggressor(o).id = seq + 1
    BY <1>1, <1>4, <2>2, <2>3 DEF Incoming, Aggressor
  <2>5. \A i \in byId : Offer(order[i]).id = i /\ i < seq + 1
    <3> SUFFICES ASSUME NEW i \in byId PROVE Offer(order[i]).id = i /\ i < seq + 1
      OBVIOUS
    <3>1. i \in Ids /\ order[i] # NoOrder /\ order[i].id = i
      BY LiveIs, LiveIdent DEF Ident
    <3>2. i \in Nat /\ i <= seq
      BY <3>1, IdsAre DEF BookInv, Filed
    <3> QED
      BY <2>1, <3>1, <3>2 DEF Offer
  <2>6. \A x \in Offers : x.id < seq + 1
    BY <2>5 DEF Offers
  <2> HIDE DEF o
  <2> QED
    BY <1>2, <2>4, <2>6 DEF PriceTime!Arrive
<1> QED
  BY <1>3, <1>4

-----------------------------------------------------------------------------
(***************************************************************************)
(* Whoever acts, it is one of the engine's operations on the book.         *)
(***************************************************************************)
EngineActs ==
  \/ \E r \in Request : Submit(r)
  \/ taker = NoOrder /\ taker' = NoOrder /\ \E i \in byId : Cancelled(i)
  \/ \E i \in byId, x \in Int, n \in Int : ReplaceInPlace(i, x, n)
  \/ DiscardCancelled \/ PreventSelfTrade \/ Trade \/ Finish \/ Rest
  \/ UNCHANGED <<levels, order, byId, taker>>

\* Every step of the simulation is one of these.
LEMMA StepsAre == Inv /\ [Next]_vars => EngineActs
<1> SUFFICES ASSUME Inv, [Next]_vars PROVE EngineActs
  OBVIOUS
<1>1. CASE UNCHANGED vars \/ StartRequote
  BY <1>1 DEF vars, bookVars, StartRequote, EngineActs
<1>2. CASE ParticipantCall
  <2>1. ASSUME NEW r \in Requests, Submit(r) PROVE EngineActs
    BY <2>1, BookAssumption DEF EngineActs
  <2>2. ASSUME NEW i \in byId, Cancel(i) PROVE EngineActs
    BY <2>2 DEF Cancel, InCall, EngineActs
  <2>3. ASSUME NEW i \in byId, NEW a \in Amendments, ReplaceInPlace(i, a.price, a.qty) PROVE EngineActs
    <3>1. a.price \in Int /\ a.qty \in Int
      BY MakerAssumption
    <3> QED
      BY <2>3, <3>1 DEF EngineActs
  <2>4. ASSUME NEW i \in byId, NEW a \in Amendments, ReplaceAnew(i, a.price, a.qty) PROVE EngineActs
    BY <2>4 DEF ReplaceAnew, InCall, EngineActs
  <2> QED
    BY <1>2, <2>1, <2>2, <2>3, <2>4 DEF ParticipantCall
<1>3. CASE CancelBid \/ CancelAsk
  <2>1. ~InCall /\ (CancelQuote(bidId) \/ CancelQuote(askId))
    BY <1>3 DEF CancelBid, CancelAsk, Inv, MakerInv, Phases
  <2>2. ASSUME NEW i, CancelQuote(i) PROVE EngineActs
    BY <2>1, <2>2 DEF CancelQuote, InCall, EngineActs
  <2> QED
    BY <2>1, <2>2
<1>4. CASE QuoteBid \/ QuoteAsk
  <2>1. reservation - baseHalfSpread \in Int /\ reservation + baseHalfSpread \in Int
    <3>1. inventory \in Int /\ fair \in Int /\ invSkew \in Int /\ baseHalfSpread \in Int
      <4>1. Most \in Nat /\ inventory \in -Most .. Most
        BY LiveWants DEF Inv, MakerInv, Bounded
      <4>2. fair \in Nat /\ invSkew \in Nat /\ baseHalfSpread \in Nat
        BY MakerAssumption DEF Inv, MakerInv, Phases
      <4> QED
        BY <4>1, <4>2
    <3> QED
      BY <3>1 DEF reservation
  <2>2. \A side \in Sides, price \in Int : Quote(side, price) \in Request
    BY MakerAssumption DEF Quote, Request
  <2>3. Bid \in Request /\ Ask \in Request
    BY <2>1, <2>2 DEF Bid, Ask, Sides
  <2>4. Submit(Bid) \/ Submit(Ask) \/ UNCHANGED bookVars
    BY <1>4 DEF QuoteBid, QuoteAsk
  <2> QED
    BY <2>3, <2>4 DEF EngineActs, bookVars
<1>5. CASE TradeAndTell \/ EngineStep
  <2>1. amended \in Request
    BY DEF Inv, BookInv, Counted
  <2> QED
    BY <1>5, <2>1 DEF TradeAndTell, EngineStep, SubmitAmended, EngineActs
<1> QED
  BY <1>1, <1>2, <1>3, <1>4, <1>5 DEF Next

\* An order that is post-only passes the gate only if it crosses nothing.
LEMMA PassiveKept ==
  ASSUME BookInv, BookInv', Passive, EngineActs
  PROVE  Passive'
<1>1. ASSUME NEW r \in Request, Submit(r) PROVE Passive'
  <2>1. taker' = (IF Refused(r) THEN NoOrder ELSE Order(r, seq + 1)) /\ UNCHANGED <<levels, order>>
    BY <1>1 DEF Submit
  <2>2. seq + 1 \in Nat \ {0}
    BY DEF BookInv, Counted
  <2>3. CASE Refused(r)
    BY <2>1, <2>3 DEF Passive, Sweeping
  <2>4. CASE ~Refused(r) /\ r.postOnly
    <3>1. ~WouldTake(r)
      BY <2>4 DEF Refused
    <3>2. taker'.side = r.side /\ taker'.type = r.type /\ taker'.price = r.price
      BY <2>1, <2>2, <2>4, OrderIs
    <3>3. Best' = BestOf(levels, Opposite(r.side))
      BY <2>1, <3>2 DEF Best, Opp, BestOf
    <3>4. Best' = 0 \/ ~Crosses(r, Best')
      BY <3>1, <3>3 DEF WouldTake
    <3>5. Crosses(taker', Best') <=> Crosses(r, Best')
      BY <3>2 DEF Crosses
    <3> QED
      BY <3>4, <3>5 DEF Passive, Sweeping
  <2>5. CASE ~Refused(r) /\ ~r.postOnly
    <3>1. ~taker'.postOnly
      BY <2>1, <2>2, <2>5, OrderIs
    <3> QED
      BY <3>1 DEF Passive
  <2> QED
    BY <2>3, <2>4, <2>5
<1>2. CASE taker' = NoOrder
  BY <1>2 DEF Passive, Sweeping
<1>3. CASE Sweeping /\ taker'.postOnly = taker.postOnly
  BY <1>3 DEF Passive
<1>4. CASE UNCHANGED <<levels, order, byId, taker>>
  BY <1>4 DEF Passive, Sweeping, Best, Opp, BestOf
<1>5. ASSUME NEW i, NEW x, NEW n, ReplaceInPlace(i, x, n) PROVE taker' = NoOrder
  BY <1>5 DEF ReplaceInPlace, InCall
<1>6. ASSUME DiscardCancelled \/ PreventSelfTrade PROVE Sweeping /\ taker'.postOnly = taker.postOnly
  BY <1>6 DEF DiscardCancelled, PreventSelfTrade
<1>7. ASSUME Trade PROVE Sweeping /\ taker'.postOnly = taker.postOnly
  <2>1. Sweeping /\ taker' = [taker EXCEPT !.qty = taker.qty - Traded] /\ taker \in OrderRec
    BY <1>7 DEF Trade, BookInv, Taking
  <2> QED
    BY <2>1 DEF OrderRec
<1>8. ASSUME Finish \/ Rest PROVE taker' = NoOrder
  BY <1>8 DEF Finish, Rest
<1> QED
  BY <1>1, <1>2, <1>3, <1>4, <1>5, <1>6, <1>7, <1>8 DEF EngineActs

\* A post-only order never has anything to sweep.
LEMMA PassiveAlways == Spec => []Passive
<1>1. Init => Passive
  <2> SUFFICES ASSUME Init PROVE Passive
    OBVIOUS
  <2> QED
    BY DEF Init, BookInit, Passive, Sweeping
<1>2. Inv /\ Inv' /\ Passive /\ [Next]_vars => Passive'
  BY StepsAre, PassiveKept DEF Inv
<1> QED
  BY <1>1, <1>2, InvAlways, PTL DEF Spec

\* What the engine does is a step of the abstract book, or is not seen there.
LEMMA EngineShows ==
  ASSUME BookInv, BookInv', Passive, EngineActs
  PROVE  PriceTime!BookNext \/ UNCHANGED <<Offers, Incoming>>
<1>1. ASSUME NEW r \in Request, Submit(r) PROVE PriceTime!Arrive \/ UNCHANGED <<Offers, Incoming>>
  BY <1>1, SubmitShows
<1>2. ASSUME taker = NoOrder, taker' = NoOrder, NEW i \in byId, Cancelled(i) PROVE PriceTime!Cancel
  BY <1>2, CancelledShows
<1>3. ASSUME NEW i \in byId, NEW x \in Int, NEW n \in Int, ReplaceInPlace(i, x, n) PROVE PriceTime!Shrink
  BY <1>3, InPlaceShows
<1>4. ASSUME UNCHANGED <<levels, order, byId, taker>> PROVE UNCHANGED <<Offers, Incoming>>
  BY <1>4 DEF Offers, Incoming
<1> QED
  BY <1>1, <1>2, <1>3, <1>4, DiscardShows, PreventShows, TradeShows, FinishShows, RestShows
  DEF EngineActs, PriceTime!BookNext

(***************************************************************************)
(* The engine is an order book with price-time priority: every trade is    *)
(* with the first of the orders the taker can trade with, none is passed   *)
(* over by lazy cancels, level removals or amendments, an order leaves     *)
(* with something left only if nothing crosses it, and a post-only order   *)
(* never takes.                                                            *)
(***************************************************************************)
THEOREM EngineIsPriceTime == Spec => ImplementsPriceTime
<1>1. Init => PriceTime!BookInit
  <2> SUFFICES ASSUME Init PROVE PriceTime!BookInit
    OBVIOUS
  <2>1. byId = {} /\ taker = NoOrder
    BY DEF Init, BookInit
  <2> QED
    BY <2>1 DEF PriceTime!BookInit, Offers, Incoming
<1>2. Inv /\ Inv' /\ Passive /\ [Next]_vars => [PriceTime!BookNext]_<<Offers, Incoming>>
  BY StepsAre, EngineShows DEF Inv
<1> QED
  BY <1>1, <1>2, InvAlways, PassiveAlways, PTL DEF Spec, ImplementsPriceTime, PriceTime!BookSpec

-----------------------------------------------------------------------------
(***************************************************************************)
(* Fill-or-kill.  The gate adds up levels; what it finds is the sum of     *)
(* what the orders the taker can trade with want, and from then on each    *)
(* iteration takes as much off that sum as off the taker.                  *)
(***************************************************************************)
Reach(ord, ids, o) ==
  {i \in ids : /\ ord[i].side = Opposite(o.side) /\ Crosses(o, ord[i].price)
               /\ ord[i].participant # o.participant}
Covered == taker.tif = "FOK" => taker.qty <= Total(order, Reach(order, byId, taker))

\* The gate's sum, level by level, is the sum over the orders within reach.
LEMMA GateIs ==
  ASSUME BookInv, NEW r \in Request
  PROVE  Marketable(r) = Total(order, Reach(order, byId, r))
<1> DEFINE S == Opposite(r.side)
           D == DOMAIN levels[S]
           L(p) == LiveIn(levels[S][p], order)
           own(p) == {i \in ToSet(levels[S][p].orders) :
                        order[i].active /\ order[i].participant = r.participant}
           part == [p \in D |-> {i \in L(p) : order[i].participant # r.participant}]
           Q == [i \in Ids |-> order[i].qty]
           g == [p \in D |-> levels[S][p].total - Wanted(own(p))]
           C == Crossed(r, S)
<1>1. S \in Sides /\ order \in Orders /\ Standing(levels, order)
  BY DEF Opposite, Sides, BookInv, Standing
<1>2. Marketable(r) = SumFunctionOnSet(g, C)
  BY DEF Marketable
<1>3. \A i \in Ids : Q[i] \in Int
  BY <1>1 DEF Orders, OrderRec
<1>4. ASSUME NEW T \in SUBSET Ids PROVE Total(order, T) = SumFunctionOnSet(Q, T) /\ Total(order, T) \in Int
  <2> DEFINE f == [i \in T |-> order[i].qty]
  <2>1. IsFiniteSet(T)
    BY FiniteIds
  <2>2. \A i \in T : f[i] \in Int /\ Q[i] = f[i]
    BY <1>3
  <2> HIDE DEF Q, f
  <2>3. SumFunctionOnSet(Q, T) = SumFunctionOnSet(f, T)
    BY <2>1, <2>2, SumSame
  <2>4. SumFunctionOnSet(f, T) \in Int
    BY <2>1, <2>2, SumType
  <2> QED
    BY <2>3, <2>4 DEF Total, f
<1>5. ASSUME NEW p \in D
      PROVE  /\ L(p) \in SUBSET Ids /\ part[p] \in SUBSET Ids /\ own(p) \in SUBSET Ids
             /\ \A i \in L(p) : order[i].side = S /\ order[i].price = p /\ order[i].active
             /\ g[p] = SumFunctionOnSet(Q, part[p])
  <2> DEFINE l == levels[S][p]
             o == own(p)
             t == part[p]
  <2>1. LevelOK(l, S, p, order)
    BY <1>1 DEF Standing, Leveled
  <2> HIDE DEF l
  <2>2. /\ ToSet(l.orders) \in SUBSET Ids /\ l.total = Total(order, LiveIn(l, order))
        /\ \A i \in ToSet(l.orders) : Resting(order[i], i, S, p)
    BY <1>1, <2>1, QueueIs DEF LevelOK, QueueOK
  <2>3. /\ L(p) \in SUBSET Ids /\ part[p] \in SUBSET Ids /\ own(p) \in SUBSET Ids
        /\ \A i \in L(p) : order[i].side = S /\ order[i].price = p /\ order[i].active
    BY <2>2 DEF LiveIn, l, Resting
  <2>4. o \cup t = L(p) /\ o \cap t = {}
    BY DEF LiveIn
  <2>5. IsFiniteSet(o) /\ IsFiniteSet(t)
    BY <2>3, FiniteIds
  <2>6. \A i \in o \cup t : Q[i] \in Int
    BY <1>3, <2>3
  <2>7. Total(order, o) = SumFunctionOnSet(Q, o) /\ Total(order, o) \in Int
    BY <1>4, <2>3
  <2>8. Total(order, L(p)) = SumFunctionOnSet(Q, L(p)) /\ Total(order, t) = SumFunctionOnSet(Q, t)
        /\ Total(order, t) \in Int
    BY <1>4, <2>3
  <2>9. g[p] = Total(order, L(p)) - Total(order, o)
    BY <2>2 DEF Wanted, Total, l
  <2> HIDE DEF Q, o, t, L, g
  <2>10. SumFunctionOnSet(Q, o \cup t) = SumFunctionOnSet(Q, o) + SumFunctionOnSet(Q, t)
    BY <2>4, <2>5, <2>6, SumJoin
  <2>11. SumFunctionOnSet(Q, o \cup t) = Total(order, L(p))
    BY <2>4, <2>8
  <2>12. Total(order, L(p)) = Total(order, o) + Total(order, t)
    BY <2>7, <2>8, <2>10, <2>11
  <2> DEFINE a == Total(order, L(p))
             b == Total(order, o)
             c == Total(order, t)
  <2>13. a = b + c /\ b \in Int /\ c \in Int /\ g[p] = a - b
    BY <2>7, <2>8, <2>9, <2>12
  <2> HIDE DEF a, b, c
  <2>14. g[p] = c
    BY <2>13
  <2>15. g[p] = SumFunctionOnSet(Q, t)
    BY <2>8, <2>14 DEF c
  <2> QED
    BY <2>3, <2>15 DEF t
<1>6. C \subseteq D /\ IsFiniteSet(C)
  <2>1. IsFiniteSet(D)
    BY <1>1 DEF Standing, Shaped
  <2>2. C \subseteq D
    BY DEF Crossed
  <2> QED
    BY <2>1, <2>2, FS_Subset
<1>7. (\A p \in C : part[p] \subseteq Ids) /\ \A p \in C : g[p] = SumFunctionOnSet(Q, part[p])
  BY <1>5, <1>6
<1>8. \A p, x \in C : p # x => part[p] \cap part[x] = {}
  <2> SUFFICES ASSUME NEW p \in C, NEW x \in C, p # x, NEW i \in part[p] \cap part[x] PROVE FALSE
    OBVIOUS
  <2>1. i \in L(p) /\ i \in L(x) /\ p \in D /\ x \in D
    BY <1>6
  <2> HIDE DEF L, C, part, D, g, Q
  <2>2. order[i].price = p
    BY <1>5, <2>1
  <2>3. order[i].price = x
    BY <1>5, <2>1
  <2> QED
    BY <2>2, <2>3
<1>9. UNION {part[p] : p \in C} = Reach(order, byId, r)
  <2>1. ASSUME NEW p \in C, NEW i \in part[p] PROVE i \in Reach(order, byId, r)
    <3>1. i \in L(p) /\ order[i].participant # r.participant
      BY <1>6
    <3>2. i \in Ids /\ order[i].side = S /\ order[i].price = p /\ order[i].active
      BY <1>5, <1>6, <3>1
    <3>3. i \in byId /\ Crosses(r, p)
      BY <3>2 DEF BookInv, Indexed, Crossed
    <3> QED
      BY <3>1, <3>2, <3>3 DEF Reach
  <2>2. ASSUME NEW i \in Reach(order, byId, r) PROVE \E p \in C : i \in part[p]
    <3>1. i \in byId /\ order[i].side = S /\ Crosses(r, order[i].price) /\ order[i].participant # r.participant
      BY DEF Reach
    <3>2. order[i].price \in D /\ i \in L(order[i].price)
      BY <3>1, LiveIs
    <3>3. order[i].price \in C
      BY <3>1, <3>2 DEF Crossed
    <3> QED
      BY <3>1, <3>2, <3>3
  <2> QED
    BY <2>1, <2>2
<1>10. IsFiniteSet(Ids)
  BY FiniteIds
<1> HIDE DEF part, g, C, Q, D, L
<1>11. SumFunctionOnSet(g, C) = SumFunctionOnSet(Q, UNION {part[p] : p \in C})
  BY <1>3, <1>6, <1>7, <1>8, <1>10, SumOfSums
<1>12. Reach(order, byId, r) \in SUBSET Ids
  BY LiveIdent DEF Reach
<1> QED
  BY <1>2, <1>4, <1>9, <1>11, <1>12

\* What is within reach is told by side, price, type and participant.
Akin(ord, other, ids, o, x) ==
  /\ \A i \in ids : /\ other[i].side = ord[i].side /\ other[i].price = ord[i].price
                    /\ other[i].participant = ord[i].participant
  /\ x.side = o.side /\ x.type = o.type /\ x.price = o.price /\ x.participant = o.participant

\* Orders that are akin reach the same orders.
LEMMA ReachSame ==
  ASSUME NEW ord, NEW other, NEW ids, NEW o, NEW x, Akin(ord, other, ids, o, x)
  PROVE  Reach(other, ids, x) = Reach(ord, ids, o)
<1>1. \A p : Crosses(x, p) <=> Crosses(o, p)
  BY DEF Akin, Crosses
<1> QED
  BY <1>1 DEF Akin, Reach

\* Past the gate: what the taker wants is within reach.
LEMMA CoveredOnSubmit ==
  ASSUME BookInv, NEW r \in Request, Submit(r)
  PROVE  Covered'
<1>1. taker' = (IF Refused(r) THEN NoOrder ELSE Order(r, seq + 1)) /\ UNCHANGED <<order, byId>>
  BY DEF Submit
<1>2. CASE Refused(r)
  BY <1>1, <1>2 DEF Covered, NoOrder
<1>3. CASE ~Refused(r) /\ r.tif = "FOK"
  <2>1. seq + 1 \in Nat \ {0}
    BY DEF BookInv, Counted
  <2>2. /\ taker'.side = r.side /\ taker'.type = r.type /\ taker'.price = r.price
        /\ taker'.participant = r.participant /\ taker'.qty = r.qty
    BY <1>1, <1>3, <2>1, OrderIs
  <2>3. Reach(order, byId, taker') = Reach(order, byId, r)
    <3>1. Akin(order, order, byId, r, taker')
      BY <2>2 DEF Akin
    <3> QED
      BY <3>1, ReachSame
  <2>4. ~(Total(order, Reach(order, byId, r)) < r.qty)
    BY <1>3, GateIs DEF Refused
  <2>5. Total(order, Reach(order, byId, r)) \in Int /\ r.qty \in Int
    <3>1. Reach(order, byId, r) \in SUBSET Ids
      BY LiveIdent DEF Reach
    <3>2. \A i \in Reach(order, byId, r) : order[i].qty \in Nat \ {0}
      BY LiveIs DEF Reach
    <3>3. Total(order, Reach(order, byId, r)) \in Nat
      BY <3>1, <3>2, SumOfLive DEF BookInv, Standing
    <3> QED
      BY <3>3 DEF Request
  <2>6. r.qty <= Total(order, Reach(order, byId, r))
    BY <2>4, <2>5
  <2>7. taker'.qty <= Total(order', Reach(order', byId', taker'))
    BY <1>1, <2>2, <2>3, <2>6
  <2> QED
    BY <2>7 DEF Covered
<1>4. CASE ~Refused(r) /\ r.tif # "FOK"
  <2>1. seq + 1 \in Nat \ {0}
    BY DEF BookInv, Counted
  <2>2. taker'.tif = r.tif
    BY <1>1, <1>4, <2>1, OrderIs
  <2> QED
    BY <1>4, <2>2 DEF Covered
<1> QED
  BY <1>2, <1>3, <1>4

\* The taker's own orders and the dead ones are out of reach before they go.
LEMMA CoveredOnSkip ==
  ASSUME BookInv, BookInv', Covered, DiscardCancelled \/ PreventSelfTrade
  PROVE  Covered'
<1>1. /\ Sweeping /\ UNCHANGED taker /\ order' = Kept({HeadId}) /\ byId' \subseteq byId
      /\ byId \ byId' \subseteq {i \in byId : order[i].participant = taker.participant}
  BY DEF DiscardCancelled, PreventSelfTrade
<1>2. \A i \in byId' : order'[i] = order[i]
  BY <1>1, KeptLive
<1>3. Reach(order', byId', taker') = Reach(order, byId, taker)
  <2>1. Reach(order', byId', taker') = Reach(order, byId', taker)
    <3>1. Akin(order, order', byId', taker, taker')
      BY <1>1, <1>2 DEF Akin
    <3> QED
      BY <3>1, ReachSame
  <2>2. Reach(order, byId', taker) = Reach(order, byId, taker)
    BY <1>1 DEF Reach
  <2> QED
    BY <2>1, <2>2
<1> DEFINE R == Reach(order, byId, taker)
           other == order'
<1>4. R \in SUBSET Ids /\ order \in Orders /\ other \in Orders
  BY LiveIdent DEF Reach, BookInv, Standing
<1>5. \A i \in R : other[i].qty = order[i].qty
  BY <1>2, <1>3 DEF Reach
<1> HIDE DEF R, other
<1>6. Total(other, R) = Total(order, R)
  BY <1>4, <1>5, SumLooksAt
<1> QED
  BY <1>1, <1>3, <1>6 DEF Covered, R, other

\* A trade takes as much off the taker as off what is within its reach.
LEMMA CoveredOnTrade ==
  ASSUME BookInv, BookInv', Covered, Trade
  PROVE  Covered'
<1> DEFINE h == HeadId
           n == Traded
           q == taker.qty
           w == order[h].qty
           R == Reach(order, byId, taker)
           P == Reach(order', byId', taker')
           other == order'
           a == Total(order, R)
           b == Total(order, R \ {h})
           c == Total(other, P)
<1>1. /\ Sweeping /\ order[h].active /\ order[h].participant # taker.participant
      /\ taker' = [taker EXCEPT !.qty = q - n]
      /\ byId' = IF w = n THEN byId \ {h} ELSE byId
      /\ w = n => \E ids : order' = Kept(ids)
      /\ w # n => order' = [order EXCEPT ![h] = [order[h] EXCEPT !.qty = w - n]]
  BY DEF Trade
<1>2. /\ h \in byId /\ taker \in OrderRec /\ order[h] \in OrderRec
      /\ PriceTime!Best(Aggressor(taker), Offer(order[h]))
  BY <1>1, HeadComesFirst
<1>3. q \in Nat \ {0} /\ w \in Nat \ {0} /\ h \in Ids /\ order \in Orders /\ other \in Orders
  BY <1>1, HeadIs DEF Resting, BookInv, Standing
<1>4. n \in Nat \ {0} /\ n <= q /\ n <= w
  BY <1>3, TradedIs
<1>5. h \in R
  <2>1. PriceTime!Crosses(Aggressor(taker), Offer(order[h]))
    BY <1>2 DEF PriceTime!Best
  <2> QED
    BY <1>1, <1>2, <2>1, CrossesIs DEF Reach
<1>6. /\ taker'.side = taker.side /\ taker'.type = taker.type /\ taker'.price = taker.price
      /\ taker'.participant = taker.participant /\ taker'.tif = taker.tif /\ taker'.qty = q - n
  BY <1>1, <1>2 DEF OrderRec
<1>7. R \in SUBSET Ids /\ \A i \in R : order[i].qty \in Nat \ {0}
  BY LiveIdent, LiveIs DEF Reach
<1>8. b = a - w /\ a \in Nat /\ b \in Int
  <2>1. b = a - w
    BY <1>3, <1>5, <1>7, SumWithout
  <2>2. a \in Nat
    BY <1>3, <1>7, SumOfLive
  <2> QED
    BY <1>3, <2>1, <2>2
<1>9. ASSUME w = n PROVE c = a - n
  <2>1. byId' = byId \ {h} /\ \A i \in byId' : other[i] = order[i]
    BY <1>1, <1>9, KeptLive
  <2>2. P = Reach(order, byId \ {h}, taker)
    <3>1. Akin(order, order', byId', taker, taker')
      BY <1>6, <2>1 DEF Akin
    <3> QED
      BY <2>1, <3>1, ReachSame
  <2>3. P = R \ {h}
    BY <2>2 DEF Reach
  <2>4. \A i \in R \ {h} : other[i].qty = order[i].qty
    BY <2>1 DEF Reach
  <2> HIDE DEF R, P, other, h
  <2>5. Total(other, R \ {h}) = Total(order, R \ {h})
    BY <1>3, <1>7, <2>4, SumLooksAt
  <2>6. c = a - n
    BY <1>8, <1>9, <2>3, <2>5 DEF b, c
  <2> QED
    BY <2>6
<1>10. ASSUME w # n PROVE c = a - n
  <2>1. Wants(order, order', h, w - n)
    <3>1. w - n \in Int
      BY <1>3, <1>4
    <3>2. Wants(order, [order EXCEPT ![h] = [order[h] EXCEPT !.qty = w - n]], h, w - n)
      BY <1>3, <3>1, WantsIs
    <3> QED
      BY <1>1, <1>10, <3>2
  <2>2. byId' = byId /\ byId \subseteq Ids
    BY <1>1, <1>10, LiveIdent
  <2>3. P = R
    <3>1. Akin(order, order', byId, taker, taker')
      BY <1>6, <2>1, <2>2 DEF Akin, Wants, SameOtherwise
    <3> QED
      BY <2>2, <3>1, ReachSame
  <2>4. other[h].qty = w - n /\ \A i \in R \ {h} : other[i].qty = order[i].qty
    BY <1>7, <2>1 DEF Wants, SameOtherwise
  <2> DEFINE d == Total(other, R \ {h})
  <2>5. d = b
    <3> HIDE DEF R, other, h
    <3>1. R \ {h} \in SUBSET Ids
      BY <1>7
    <3> QED
      BY <1>3, <2>4, <3>1, SumLooksAt
  <2>6. d = c - (w - n)
    <3> HIDE DEF R, other, h, P
    <3>1. Total(other, R \ {h}) = Total(other, R) - other[h].qty
      BY <1>3, <1>5, <1>7, SumWithout
    <3> QED
      BY <2>3, <2>4, <3>1 DEF c
  <2>7. c \in Int
    <3> HIDE DEF R, other, h, P
    <3>1. \A i \in R : other[i].qty \in Nat \ {0}
      <4>1. \A i \in R \ {h} : other[i].qty \in Nat \ {0}
        BY <1>7, <2>4
      <4>2. w - n \in Nat \ {0}
        BY <1>3, <1>4, <1>10
      <4> QED
        BY <2>4, <4>1, <4>2
    <3> QED
      BY <1>3, <1>7, <2>3, <3>1, SumOfLive DEF c
  <2> HIDE DEF a, b, c, d, w, n
  <2>8. c = a - n
    BY <1>3, <1>4, <1>8, <2>5, <2>6, <2>7
  <2> QED
    BY <2>8
<1>11. c = a - n
  BY <1>9, <1>10
<1>12. ASSUME taker'.tif = "FOK" PROVE taker'.qty <= c
  <2>1. q <= a
    BY <1>6, <1>12 DEF Covered
  <2> HIDE DEF a, c, n, q
  <2>2. q - n <= c
    BY <1>3, <1>4, <1>8, <1>11, <2>1
  <2> QED
    BY <1>6, <2>2 DEF n
<1> QED
  BY <1>12 DEF Covered

\* Whatever the engine does, the taker stays covered.
LEMMA CoveredKept ==
  ASSUME BookInv, BookInv', Covered, EngineActs
  PROVE  Covered'
<1>1. ASSUME taker' = NoOrder PROVE Covered'
  BY <1>1 DEF Covered, NoOrder
<1>2. ASSUME NEW r \in Request, Submit(r) PROVE Covered'
  BY <1>2, CoveredOnSubmit
<1>3. ASSUME NEW i, NEW x, NEW n, ReplaceInPlace(i, x, n) PROVE taker' = NoOrder
  BY <1>3 DEF ReplaceInPlace, InCall
<1>4. ASSUME Finish \/ Rest PROVE taker' = NoOrder
  BY <1>4 DEF Finish, Rest
<1>5. ASSUME UNCHANGED <<levels, order, byId, taker>> PROVE Covered'
  BY <1>5 DEF Covered
<1> QED
  BY <1>1, <1>2, <1>3, <1>4, <1>5, CoveredOnSkip, CoveredOnTrade DEF EngineActs

\* A fill-or-kill order in the engine is covered.
LEMMA CoveredAlways == Spec => []Covered
<1>1. Init => Covered
  <2> SUFFICES ASSUME Init PROVE Covered
    OBVIOUS
  <2>1. taker.tif = "GTC"
    BY DEF Init, BookInit, NoOrder
  <2> QED
    BY <2>1 DEF Covered
<1>2. Inv /\ Inv' /\ Covered /\ [Next]_vars => Covered'
  BY StepsAre, CoveredKept DEF Inv
<1> QED
  BY <1>1, <1>2, InvAlways, PTL DEF Spec

\* A fill-or-kill order leaves the engine by the end of a sweep, with nothing left.
LEMMA FokFills ==
  ASSUME BookInv, BookInv', Covered, EngineActs,
         taker.id # 0, taker.tif = "FOK", taker' = NoOrder
  PROVE  taker.qty = 0
<1>1. taker # NoOrder
  BY NoOrderIs
<1>2. ~\E r \in Request : Submit(r)
  BY <1>1 DEF Submit
<1>3. ~\E i \in byId, x \in Int, n \in Int : ReplaceInPlace(i, x, n)
  BY <1>1 DEF ReplaceInPlace, InCall
<1>4. ~(DiscardCancelled \/ PreventSelfTrade \/ UNCHANGED <<levels, order, byId, taker>>)
  BY <1>1 DEF DiscardCancelled, PreventSelfTrade
<1>5. ~Trade
  <2> SUFFICES ASSUME Trade PROVE FALSE
    OBVIOUS
  <2>1. taker' = [taker EXCEPT !.qty = taker.qty - Traded] /\ taker \in OrderRec /\ taker.active = TRUE
    BY <1>1 DEF Trade, BookInv, Taking
  <2>2. taker'.active = TRUE
    BY <2>1 DEF OrderRec
  <2> QED
    BY <2>2, NoOrderIs
<1>6. ~Rest
  BY DEF Rest, Rests
<1>7. Finish
  BY <1>1, <1>2, <1>3, <1>4, <1>5, <1>6 DEF EngineActs
<1>8. taker.qty = 0 \/ \A i \in byId : ~PriceTime!Crosses(Aggressor(taker), Offer(order[i]))
  BY <1>1, <1>7, NothingCrosses DEF Finish
<1>9. CASE \A i \in byId : ~PriceTime!Crosses(Aggressor(taker), Offer(order[i]))
  <2>1. Reach(order, byId, taker) = {}
    <3>1. taker \in OrderRec
      BY DEF BookInv, Taking
    <3> QED
      BY <1>9, <3>1, LiveIs, CrossesIs DEF Reach
  <2>2. Total(order, {}) = 0
    BY SumEmpty DEF Total
  <2>3. taker.qty <= 0 /\ taker.qty \in Nat
    BY <2>1, <2>2 DEF Covered, BookInv, Taking
  <2> QED
    BY <2>3
<1> QED
  BY <1>8, <1>9

(***************************************************************************)
(* A fill-or-kill order that passes its gate is filled completely, also    *)
(* when self-trade prevention takes liquidity away under its sweep.        *)
(***************************************************************************)
THEOREM FokAlwaysAllOrNothing == Spec => FokAllOrNothing
<1>1. Inv /\ Inv' /\ Covered /\ [Next]_vars
        => [taker.id # 0 /\ taker.tif = "FOK" /\ taker' = NoOrder => taker.qty = 0]_taker
  BY StepsAre, FokFills DEF Inv
<1> QED
  BY <1>1, InvAlways, CoveredAlways, PTL DEF Spec, FokAllOrNothing
=============================================================================
