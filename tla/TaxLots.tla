------------------------------ MODULE TaxLots ------------------------------
(* Lot-level accounting of a long book (mds/taxaware.py), one security: the *)
(* trades of the book are the same whatever lots are delivered on a sale.   *)
EXTENDS Integers, Sequences, FiniteSets, SequencesExt

CONSTANTS LongTermDays, WashDays

Lesser(x, y) == IF x < y THEN x ELSE y
Greater(x, y) == IF x > y THEN x ELSE y
Total(xs) == FoldLeft(LAMBDA acc, x : acc + x, 0, xs)

(* A trade is [day, shares, price], shares negative on a sale; a lot is     *)
(* [opened, shares, cost]; an event is one lot's part of a sale.            *)
DearerFirst(lots, i, j) == lots[i].cost > lots[j].cost \/ (lots[i].cost = lots[j].cost /\ i < j)

(* _lot_order: the indices of the lots in the order a sale consumes them.   *)
LotOrder(lots, method) ==
    CASE method = "fifo" -> [i \in DOMAIN lots |-> i]
      [] method = "lifo" -> [i \in DOMAIN lots |-> Len(lots) + 1 - i]
      [] method = "hifo" -> SetToSortSeq(DOMAIN lots, LAMBDA i, j : DearerFirst(lots, i, j))

Gain(e) == e.proceeds - e.basis

(* _sell: consume the shares lot by lot; an emptied lot goes, a partly sold *)
(* one keeps its date and cost.                                             *)
SellLots(lots, shares, price, day, method) ==
    LET Take(r, i) ==
          LET take == Lesser(r.lots[i].shares, r.left)
              held == day - r.lots[i].opened
          IN IF r.left = 0 \/ take = 0 THEN r
             ELSE [lots |-> [r.lots EXCEPT ![i].shares = @ - take],
                   left |-> r.left - take,
                   events |-> Append(r.events,
                       [day |-> day, shares |-> take, proceeds |-> take * price,
                        basis |-> take * r.lots[i].cost, long |-> held >= LongTermDays])]
        end == FoldLeft(Take, [lots |-> lots, left |-> shares, events |-> <<>>],
                        LotOrder(lots, method))
    IN [lots |-> SelectSeq(end.lots, LAMBDA l : l.shares > 0), events |-> end.events]

Position(lots) == Total([i \in DOMAIN lots |-> lots[i].shares])

(* simulate: a sale is capped at the position, a purchase opens a lot.      *)
ApplyTrade(b, trade, method) ==
    IF trade.shares < 0
    THEN LET sold == SellLots(b.lots, Lesser(-trade.shares, Position(b.lots)), trade.price,
                              trade.day, method)
         IN [b EXCEPT !.lots = sold.lots, !.events = @ \o sold.events]
    ELSE [b EXCEPT !.lots = Append(@, [opened |-> trade.day, shares |-> trade.shares,
                                       cost |-> trade.price]),
                   !.buys = Append(@, trade.day)]

Simulate(trades, method) ==
    FoldLeft(LAMBDA b, t : ApplyTrade(b, t, method),
             [lots |-> <<>>, events |-> <<>>, buys |-> <<>>], trades)

(* liquidate_end: everything is realized at the last price.                 *)
Liquidated(trades, method, price, day) ==
    LET b == Simulate(trades, method)
    IN ApplyTrade(b, [day |-> day, shares |-> -Position(b.lots), price |-> price], method)

Realized(b) == Total([i \in DOMAIN b.events |-> Gain(b.events[i])])
Methods == {"hifo", "fifo", "lifo"}

----------------------------------------------------------------------------
(* flag_wash_sales: a loss is disallowed when the security is bought again  *)
(* within the window after the sale.                                        *)
\* Takes the purchase of the very lot that was sold for a repurchase.
BugWashSale(b, e) ==
    Gain(e) < 0 /\ \E i \in DOMAIN b.buys : e.day - b.buys[i] \in 0 .. WashDays

WashSale(b, e) ==
    Gain(e) < 0 /\ \E i \in DOMAIN b.buys : b.buys[i] - e.day \in 1 .. WashDays

(* tax_summary: the gains of one term, disallowed losses left out.          *)
TermGain(b, long) ==
    Total([i \in DOMAIN b.events |->
              IF b.events[i].long = long /\ ~WashSale(b, b.events[i]) THEN Gain(b.events[i]) ELSE 0])

(* _tax_bill: a net loss of one term offsets the net gain of the other;     *)
(* what is left of a loss is carried forward.                               *)
TaxBill(st, lt) ==
    LET applied == CASE st < 0 /\ lt > 0 -> Lesser(-st, lt)
                     [] lt < 0 /\ st > 0 -> Lesser(-lt, st)
                     [] OTHER -> 0
        short == IF st < 0 THEN st + applied ELSE st - applied
        long == IF lt < 0 THEN lt + applied ELSE lt - applied
    IN [short |-> Greater(short, 0), long |-> Greater(long, 0),
        carryforward |-> Lesser(short, 0) + Lesser(long, 0)]

Bill(b) == TaxBill(TermGain(b, FALSE), TermGain(b, TRUE))

----------------------------------------------------------------------------
(* Delivering the dearest lots first never realizes more, up to any date,   *)
(* than the other methods on the same trades, and once everything is sold   *)
(* every method has realized the same: HIFO defers, it does not hide.       *)
HifoDefers(trades, price, day) ==
    \A m \in Methods :
        /\ Realized(Simulate(trades, "hifo")) <= Realized(Simulate(trades, m))
        /\ Realized(Liquidated(trades, "hifo", price, day)) = Realized(Liquidated(trades, m, price, day))

(* Every gain and every allowed loss ends in one place: what is taxed plus  *)
(* what is carried forward is what was realized, a disallowed loss aside,   *)
(* and a loss is disallowed only if the security was bought back after it.  *)
GainsAreAccounted(trades) ==
    \A m \in Methods :
        LET b == Simulate(trades, m)
            bill == Bill(b)
            denied == Total([i \in DOMAIN b.events |->
                               IF WashSale(b, b.events[i]) THEN Gain(b.events[i]) ELSE 0])
        IN /\ bill.short + bill.long + bill.carryforward + denied = Realized(b)
           /\ (bill.short > 0 \/ bill.long > 0) => bill.carryforward = 0
           /\ (\A i \in DOMAIN b.events : \A j \in DOMAIN b.buys :
                 b.buys[j] <= b.events[i].day \/ b.buys[j] > b.events[i].day + WashDays)
              => denied = 0
=============================================================================
