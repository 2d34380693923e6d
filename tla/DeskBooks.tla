----------------------------- MODULE DeskBooks -----------------------------
(* Accounting of the live desk (service/strategies.py): average-cost books  *)
(* rebuilt from tagged fills, and the split of the real position among the  *)
(* strategies that trade a symbol.  Money is counted in 1/FeeDen of a price *)
(* tick, so that a fee of FeeNum/FeeDen per side is exact.                  *)
EXTENDS Integers, Sequences, FiniteSets, SequencesExt

CONSTANTS FeeNum, FeeDen    \* CRYPTO_FEE_RATE = FeeNum / FeeDen

ASSUME FeeAssumption == FeeNum \in Nat /\ FeeDen \in Nat \ {0} /\ FeeNum < FeeDen

Abs(x) == IF x < 0 THEN -x ELSE x
Lesser(x, y) == IF x < y THEN x ELSE y

Buy == "buy"
Sell == "sell"
Signed(fill) == IF fill.side = Buy THEN fill.qty ELSE -fill.qty

(* A side never trades at the printed price: the fee raises what a buyer    *)
(* pays and cuts what a seller gets.                                        *)
FeePrice(side, price) == price * (FeeDen + (IF side = Buy THEN FeeNum ELSE -FeeNum))

EmptyBook == [qty |-> 0, avg |-> 0, realized |-> 0]

\* apply_fill that leaves the fee out of a flipped remainder's cost.
BugApplyFill(b, fill) ==
    LET eff == FeePrice(fill.side, fill.price)
        to == b.qty + Signed(fill)
        closing == Lesser(Abs(b.qty), fill.qty)
    IN IF b.qty = 0 \/ (b.qty > 0) = (fill.side = Buy)
       THEN [b EXCEPT !.qty = to,
                      !.avg = (b.avg * Abs(b.qty) + eff * fill.qty) \div Abs(to)]
       ELSE [qty |-> to,
             realized |-> b.realized + closing * (eff - b.avg) * (IF b.qty > 0 THEN 1 ELSE -1),
             avg |-> CASE Abs(b.qty) > closing -> b.avg
                       [] fill.qty > closing -> fill.price * FeeDen
                       [] OTHER -> 0]

(* One fill on an average-cost book: in the direction of the position it    *)
(* blends into the average, against it it realizes the closed part, and     *)
(* what is left of a flip opens at the fee-inclusive price.                 *)
ApplyFill(b, fill) ==
    LET eff == FeePrice(fill.side, fill.price)
        to == b.qty + Signed(fill)
        closing == Lesser(Abs(b.qty), fill.qty)
    IN IF b.qty = 0 \/ (b.qty > 0) = (fill.side = Buy)
       THEN [b EXCEPT !.qty = to,
                      !.avg = (b.avg * Abs(b.qty) + eff * fill.qty) \div Abs(to)]
       ELSE [qty |-> to,
             realized |-> b.realized + closing * (eff - b.avg) * (IF b.qty > 0 THEN 1 ELSE -1),
             avg |-> CASE Abs(b.qty) > closing -> b.avg
                       [] fill.qty > closing -> eff
                       [] OTHER -> 0]

(* The book a strategy's fills of one symbol, oldest first, add up to.      *)
PositionBook(fills) ==
    FoldLeft(LAMBDA b, f : IF f.qty = 0 THEN b ELSE ApplyFill(b, f), EmptyBook, fills)

----------------------------------------------------------------------------
(* attribute: books[s] is strategy s's tagged book of the one symbol it     *)
(* trades, real[x] what the account holds of x, marks[x] the price, of the  *)
(* symbols that have one.                                                   *)
TaggedSum(books, symOf, x) ==
    SumFunctionOnSet([s \in DOMAIN books |-> books[s].qty], {s \in DOMAIN books : symOf[s] = x})

(* A strategy's share of the real position, pro rata to its tagged          *)
(* quantity; none when the tags cancel out and nothing can be attributed.   *)
Share(books, symOf, real, s) ==
    LET total == TaggedSum(books, symOf, symOf[s])
    IN CASE total > 0 -> (books[s].qty * real[symOf[s]]) \div total
         [] total < 0 -> (-books[s].qty * real[symOf[s]]) \div Abs(total)
         [] total = 0 -> 0

(* Marked at what closing it would bring: the mark net of the exit fee.     *)
RowOf(books, symOf, real, marks, s) ==
    LET x == symOf[s]
        qty == Share(books, symOf, real, s)
        net == FeePrice(IF qty > 0 THEN Sell ELSE Buy, marks[x])
    IN IF x \notin DOMAIN marks
       THEN [qty |-> qty, pnl |-> books[s].realized, gross |-> 0]
       ELSE [qty |-> qty,
             pnl |-> books[s].realized + (IF qty = 0 THEN 0 ELSE qty * (net - books[s].avg)),
             gross |-> Abs(qty * marks[x])]

Attribute(books, symOf, real, marks) ==
    [s \in DOMAIN books |-> RowOf(books, symOf, real, marks, s)]

----------------------------------------------------------------------------
(* target_sign: long while the fast average is above the slow one, or while *)
(* the trailing return is positive; flat when there is too little history.  *)
LastSum(xs, n) == FoldLeft(LAMBDA acc, x : acc + x, 0, SubSeq(xs, Len(xs) - n + 1, Len(xs)))

TargetSign(kind, params, closes) ==
    LET n == Len(closes)
        long == IF kind = "ma_crossover"
                THEN /\ n >= params.fast /\ n >= params.slow
                     /\ LastSum(closes, params.fast) * params.slow
                          > LastSum(closes, params.slow) * params.fast
                ELSE /\ n > params.lookback
                     /\ closes[n - params.lookback] # 0
                     /\ closes[n] > closes[n - params.lookback]
    IN IF long THEN 1 ELSE 0
=============================================================================
