---------------------------- MODULE ExchangeBook ----------------------------
(***************************************************************************)
(* The reference matching engine: exchange.OrderBook, one instrument, one  *)
(* writer thread.  Each side is a TreeMap of price levels; a level is a    *)
(* FIFO queue of orders and a running total of what is active in it.       *)
(* Cancels are lazy: a cancelled order stays in its queue, inactive, until *)
(* matching reaches it or its level goes.  byId finds live orders, and the *)
(* best price of each side is cached.                                      *)
(*                                                                         *)
(* submit() is a step for validation and the entry gates, one step per     *)
(* iteration of matchAtLevel's loop, and one to finish: between them the   *)
(* listeners run.  The writer thread is the only reader, so the properties *)
(* about what a reader finds are stated for the states between two calls.  *)
(***************************************************************************)
EXTENDS Integers, SequencesExt

CONSTANTS
  Participants, \* who trades
  Requests,    \* order requests the participants may submit
  MaxOrders    \* bound: order ids handed out

Sides == {"BUY", "SELL"}
Opposite(s) == IF s = "BUY" THEN "SELL" ELSE "BUY"

Request == [participant : Participants \cup {"nobody"}, side : Sides, type : {"LIMIT", "MARKET"},
            tif : {"GTC", "IOC", "FOK"}, postOnly : BOOLEAN, price : Int, qty : Int]

Ids == 1 .. MaxOrders

ASSUME BookAssumption ==
  Requests \subseteq Request /\ MaxOrders \in Nat

VARIABLES
  levels,      \* levels[side]: the TreeMap, price -> level
  order,       \* order[id]: the order object, while a queue holds it
  byId,        \* ids of the live resting orders
  top,         \* top[side]: cached best price, 0 for null
  seq,         \* orderSeq
  taker,       \* the order submit() is matching, or NoOrder
  amended      \* the request replace() submits after its cancel, or NoRequest

bookVars == <<levels, order, byId, top, seq, taker, amended>>

NoRequest == [participant |-> "nobody", side |-> "BUY", type |-> "LIMIT", tif |-> "GTC",
              postOnly |-> FALSE, price |-> 0, qty |-> 0]
\* A request the code accepts turns into an order; its qty counts down as "remaining".
Order(r, i) ==
  [id |-> i, participant |-> r.participant, side |-> r.side, type |-> r.type, tif |-> r.tif,
   postOnly |-> r.postOnly, price |-> r.price, qty |-> r.qty, active |-> TRUE]
NoOrder ==
  [id |-> 0, participant |-> "nobody", side |-> "BUY", type |-> "LIMIT", tif |-> "GTC",
   postOnly |-> FALSE, price |-> 0, qty |-> 0, active |-> FALSE]

Level == [orders : Seq(Ids), total : Int]

BookTypeOK ==
  /\ DOMAIN levels = Sides
  /\ \A s \in Sides : /\ DOMAIN levels[s] \subseteq Nat \ {0}
                      /\ \A p \in DOMAIN levels[s] : levels[s][p] \in Level
  /\ DOMAIN order = Ids /\ byId \subseteq Ids
  /\ \A i \in DOMAIN order : order[i] # NoOrder => order[i].id = i /\ order[i].qty > 0
  /\ top \in [Sides -> Nat]
  /\ seq \in 0 .. MaxOrders
  /\ taker.qty >= 0 /\ taker.id \in 0 .. seq

BookInit ==
  /\ levels = [s \in Sides |-> <<>>]
  /\ order = [i \in Ids |-> NoOrder]
  /\ byId = {}
  /\ top = [s \in Sides |-> 0]
  /\ seq = 0
  /\ taker = NoOrder
  /\ amended = NoRequest

-----------------------------------------------------------------------------
(***************************************************************************)
(* Reading the book.                                                       *)
(***************************************************************************)
\* firstKey() of a side, 0 when it is empty.
BestOf(lv, s) ==
  IF DOMAIN lv[s] = {} THEN 0
  ELSE IF s = "BUY" THEN Max(DOMAIN lv[s]) ELSE Min(DOMAIN lv[s])

Crosses(o, p) ==
  \/ o.type = "MARKET"
  \/ o.side = "BUY" /\ o.price >= p
  \/ o.side = "SELL" /\ o.price <= p

Valid(r) ==
  /\ r.qty > 0
  /\ r.type = "LIMIT" => r.price > 0
  /\ r.type = "MARKET" => ~r.postOnly /\ r.tif # "GTC"

WouldTake(r) ==
  LET best == BestOf(levels, Opposite(r.side)) IN best # 0 /\ Crosses(r, best)

\* What the orders still want, taken together.
Wanted(ids) == SumFunctionOnSet([i \in ids |-> order[i].qty], ids)

Crossed(r, s) == {p \in DOMAIN levels[s] : Crosses(r, p)}

\* Mutant: the taker's own orders count as liquidity.
BugMarketable(r) ==
  LET side == levels[Opposite(r.side)]
  IN  SumFunctionOnSet([p \in DOMAIN side |-> side[p].total], Crossed(r, Opposite(r.side)))

\* marketableQty: what r can trade with, without the orders STP would cancel.
Marketable(r) ==
  LET side == levels[Opposite(r.side)]
      own(p) == {i \in ToSet(side[p].orders) :
                   order[i].active /\ order[i].participant = r.participant}
  IN  SumFunctionOnSet([p \in DOMAIN side |-> side[p].total - Wanted(own(p))],
                       Crossed(r, Opposite(r.side)))

Refused(r) ==
  \/ ~Valid(r)
  \/ r.postOnly /\ WouldTake(r)
  \/ r.tif = "FOK" /\ Marketable(r) < r.qty

InCall == taker # NoOrder \/ amended # NoRequest

-----------------------------------------------------------------------------
(***************************************************************************)
(* submit(): the gates.                                                    *)
(***************************************************************************)
Submit(r) ==
  /\ taker = NoOrder /\ seq < MaxOrders
  /\ seq' = seq + 1
  /\ taker' = IF Refused(r) THEN NoOrder ELSE Order(r, seq + 1)
  /\ amended' = NoRequest
  /\ UNCHANGED <<levels, order, byId, top>>

(***************************************************************************)
(* match() and matchAtLevel(): one iteration on the head of the best       *)
(* level.  The level goes when its queue is empty, or when the loop ends   *)
(* with nothing active in it.                                              *)
(***************************************************************************)
Opp  == Opposite(taker.side)
Best == BestOf(levels, Opp)
Sweeping == taker # NoOrder /\ taker.qty > 0 /\ Best # 0 /\ Crosses(taker, Best)
HeadId == Head(levels[Opp][Best].orders)

\* The book with a level put at a price, and with the level of a price gone.
With(s, p, l) ==
  [levels EXCEPT ![s] = [x \in DOMAIN levels[s] \cup {p} |-> IF x = p THEN l ELSE levels[s][x]]]
Without(s, p) ==
  [levels EXCEPT ![s] = [x \in DOMAIN levels[s] \ {p} |-> levels[s][x]]]

\* What is left of the best level after an iteration; "left" remains of the taker.
Iterated(l, left) ==
  IF l.orders = <<>> \/ (left = 0 /\ l.total = 0)
    THEN Without(Opp, Best)
    ELSE With(Opp, Best, l)

\* Order objects nothing refers to any more are forgotten.
Kept(ids) == [i \in Ids |-> IF i \in ids THEN NoOrder ELSE order[i]]

DiscardCancelled ==
  /\ Sweeping /\ ~order[HeadId].active
  /\ LET l == levels[Opp][Best] IN
     levels' = Iterated([orders |-> Tail(l.orders), total |-> l.total], taker.qty)
  /\ order' = Kept({HeadId})
  /\ UNCHANGED <<byId, top, seq, taker, amended>>

PreventSelfTrade ==
  /\ Sweeping /\ order[HeadId].active /\ order[HeadId].participant = taker.participant
  /\ LET l == levels[Opp][Best] IN
     levels' = Iterated([orders |-> Tail(l.orders), total |-> l.total - order[HeadId].qty],
                        taker.qty)
  /\ order' = Kept({HeadId})
  /\ byId' = byId \ {HeadId}
  /\ UNCHANGED <<top, seq, taker, amended>>

Traded == Min({taker.qty, order[HeadId].qty})

Trade ==
  /\ Sweeping /\ order[HeadId].active /\ order[HeadId].participant # taker.participant
  /\ LET l == levels[Opp][Best]
         n == Traded
         filled == order[HeadId].qty = n
         left == [orders |-> IF filled THEN Tail(l.orders) ELSE l.orders, total |-> l.total - n]
     IN
     /\ levels' = Iterated(left, taker.qty - n)
     /\ order' = IF filled
          THEN Kept({HeadId} \cup (IF taker.qty = n /\ left.total = 0 THEN ToSet(l.orders) ELSE {}))
          ELSE [order EXCEPT ![HeadId] = [order[HeadId] EXCEPT !.qty = order[HeadId].qty - n]]
     /\ byId' = IF filled THEN byId \ {HeadId} ELSE byId
     /\ taker' = [taker EXCEPT !.qty = taker.qty - n]
  /\ UNCHANGED <<top, seq, amended>>

-----------------------------------------------------------------------------
(***************************************************************************)
(* submit(): the end.                                                      *)
(***************************************************************************)
Refreshed(lv) == [s \in Sides |-> BestOf(lv, s)]

Rests(o) == o.qty > 0 /\ o.type = "LIMIT" /\ o.tif = "GTC"

\* Filled, or an IOC, FOK or MARKET remainder that dies.
Finish ==
  /\ taker # NoOrder /\ ~Sweeping /\ ~Rests(taker)
  /\ taker' = NoOrder
  /\ top' = Refreshed(levels)
  /\ UNCHANGED <<levels, order, byId, seq, amended>>

\* Mutant: a resting order goes to the front of its level.
BugRest ==
  /\ taker # NoOrder /\ ~Sweeping /\ Rests(taker)
  /\ LET s == taker.side
         p == taker.price
         l == IF p \in DOMAIN levels[s] THEN levels[s][p] ELSE [orders |-> <<>>, total |-> 0]
     IN levels' = With(s, p, [orders |-> <<taker.id>> \o l.orders, total |-> l.total + taker.qty])
  /\ order' = [order EXCEPT ![taker.id] = taker]
  /\ byId' = byId \cup {taker.id}
  /\ top' = Refreshed(levels')
  /\ taker' = NoOrder
  /\ UNCHANGED <<seq, amended>>

Rest ==
  /\ taker # NoOrder /\ ~Sweeping /\ Rests(taker)
  /\ LET s == taker.side
         p == taker.price
         l == IF p \in DOMAIN levels[s] THEN levels[s][p] ELSE [orders |-> <<>>, total |-> 0]
     IN levels' = With(s, p, [orders |-> Append(l.orders, taker.id), total |-> l.total + taker.qty])
  /\ order' = [order EXCEPT ![taker.id] = taker]
  /\ byId' = byId \cup {taker.id}
  /\ top' = Refreshed(levels')
  /\ taker' = NoOrder
  /\ UNCHANGED <<seq, amended>>

-----------------------------------------------------------------------------
(***************************************************************************)
(* cancel() and replace().                                                 *)
(***************************************************************************)
\* Mutant: the level's total keeps the cancelled quantity.
BugCancelled(i) ==
  /\ levels' = levels
  /\ order' = [order EXCEPT ![i] = [order[i] EXCEPT !.active = FALSE]]
  /\ byId' = byId \ {i}
  /\ top' = Refreshed(levels')

Cancelled(i) ==
  LET s == order[i].side
      p == order[i].price
      l == levels[s][p]
      left == l.total - order[i].qty
  IN
  /\ levels' = IF left <= 0 THEN Without(s, p) ELSE With(s, p, [orders |-> l.orders, total |-> left])
  /\ order' = IF left <= 0 THEN Kept(ToSet(l.orders))
              ELSE [order EXCEPT ![i] = [order[i] EXCEPT !.active = FALSE]]
  /\ byId' = byId \ {i}
  /\ top' = Refreshed(levels')

Cancel(i) ==
  /\ ~InCall /\ i \in byId
  /\ Cancelled(i)
  /\ UNCHANGED <<seq, taker, amended>>

Shrinks(i, p, n) == p = order[i].price /\ n < order[i].qty /\ n > 0

\* replace() in place: the order keeps its place in the queue.
ReplaceInPlace(i, p, n) ==
  /\ ~InCall /\ i \in byId /\ Shrinks(i, p, n)
  /\ LET s == order[i].side
         l == levels[s][p]
     IN levels' = With(s, p, [orders |-> l.orders, total |-> l.total - (order[i].qty - n)])
  /\ order' = [order EXCEPT ![i] = [order[i] EXCEPT !.qty = n]]
  /\ UNCHANGED <<byId, top, seq, taker, amended>>

\* replace() otherwise: cancel, and submit anew.
ReplaceAnew(i, p, n) ==
  /\ ~InCall /\ i \in byId /\ ~Shrinks(i, p, n) /\ seq < MaxOrders
  /\ Cancelled(i)
  /\ amended' = [participant |-> order[i].participant, side |-> order[i].side,
                 type |-> order[i].type, tif |-> order[i].tif,
                 postOnly |-> order[i].postOnly, price |-> p, qty |-> n]
  /\ UNCHANGED <<seq, taker>>

SubmitAmended == amended # NoRequest /\ Submit(amended)

-----------------------------------------------------------------------------
Live(s, p) == {i \in ToSet(levels[s][p].orders) : order[i].active}

(***************************************************************************)
(* Queues, totals, index and cache agree: a level's total is what its live *)
(* orders still want, byId holds exactly the live orders, and between two  *)
(* calls no level is empty and the cached top of book is the best price.   *)
(* (restingQuantity(), l2() and bestBid() read the totals and the cache.)  *)
(***************************************************************************)
BookConsistent ==
  /\ \A s \in Sides : \A p \in DOMAIN levels[s] :
       /\ levels[s][p].total = Wanted(Live(s, p))
       /\ ~InCall => levels[s][p].total > 0
  /\ byId = UNION {UNION {Live(s, p) : p \in DOMAIN levels[s]} : s \in Sides}
  /\ ~InCall => top = Refreshed(levels)

(***************************************************************************)
(* Between two calls the book is not crossed: whatever could have traded   *)
(* has traded, also after amendments and self-trade prevention.            *)
(***************************************************************************)
NeverCrossed ==
  ~InCall /\ top["BUY"] # 0 /\ top["SELL"] # 0 => top["BUY"] < top["SELL"]

(***************************************************************************)
(* A fill-or-kill order that passes its gate is filled completely, even    *)
(* when self-trade prevention takes liquidity away while it sweeps.        *)
(* (OrderBook.marketableQty: "the exact partial print FOK exists to        *)
(* prevent".)                                                              *)
(***************************************************************************)
FokAllOrNothing ==
  [][taker.id # 0 /\ taker.tif = "FOK" /\ taker' = NoOrder => taker.qty = 0]_taker

\* What a resting order and an order being matched show.
Offer(o) == [id |-> o.id, participant |-> o.participant, side |-> o.side,
             price |-> o.price, qty |-> o.qty]
Aggressor(o) == [id |-> o.id, participant |-> o.participant, side |-> o.side,
                 price |-> o.price, qty |-> o.qty,
                 limit |-> o.type = "LIMIT", maker |-> o.postOnly]

Offers == {Offer(order[i]) : i \in byId}
Incoming == IF taker = NoOrder THEN {} ELSE {Aggressor(taker)}

PriceTime == INSTANCE PriceTimeBook WITH resting <- Offers, incoming <- Incoming

(***************************************************************************)
(* Lazy queues, levels, totals and caches implement price-time priority:   *)
(* every trade is with the first order in price-time order, no order that  *)
(* could trade is left out, a shrunk order keeps its place and any other   *)
(* amendment loses it, a post-only order never takes.                      *)
(***************************************************************************)
ImplementsPriceTime == PriceTime!BookSpec
=============================================================================
