-------------------------- MODULE ExecutionStudies --------------------------
(***************************************************************************)
(* What trading a signal costs: the passive market maker of mds/maker.py   *)
(* over a path of mid prices, the order-flow tape of mds/microstructure.py *)
(* with its event-driven backtest, and the paper round trips of            *)
(* run_paper.py.                                                           *)
(***************************************************************************)
EXTENDS Integers, Sequences, FiniteSets, SequencesExt

CONSTANTS
    InvCap,                 \* inventory the maker may not exceed
    Horizon,                \* ticks ahead a fill is marked out
    Unscored                \* a tick the model made no prediction for

-----------------------------------------------------------------------------
(* The maker quotes both sides at half a spread from the mid and is filled *)
(* when the next mid crosses a quote.  A tick is [mid, half], the half     *)
(* spread in units of the price.                                           *)
Hit(path, i) == path[i + 1].mid =< path[i].mid - path[i].half
Lifted(path, i) == path[i + 1].mid >= path[i].mid + path[i].half

MayBuy(q) == q < InvCap
MaySell(q) == q > -InvCap

(* One tick of maker_backtest: `q` is the inventory, `fills` what was      *)
(* filled so far.  A locked or crossed book is not quoted into.            *)
QuoteTick(path, st, i) ==
    LET filled(side) == [q |-> st.q + side, fills |-> Append(st.fills, [at |-> i, side |-> side])]
    IN  CASE path[i].half =< 0             -> st
          [] path[i].half > 0 /\ Hit(path, i) /\ MayBuy(st.q) -> filled(1)
          [] path[i].half > 0 /\ ~(Hit(path, i) /\ MayBuy(st.q))
                              /\ Lifted(path, i) /\ MaySell(st.q) -> filled(-1)
          [] OTHER                         -> st

Flat == [q |-> 0, fills |-> <<>>]

Filled(path) ==
    FoldLeft(LAMBDA st, i : QuoteTick(path, st, i), Flat, [i \in 1 .. Len(path) - 1 |-> i]).fills

(* markout_bps: there is none for the last Horizon ticks; a fill without   *)
(* one is not reported.                                                    *)
HasMarkout(path, i) == i + Horizon =< Len(path)

Reported(path) == SelectSeq(Filled(path), LAMBDA f : HasMarkout(path, f.at))

-----------------------------------------------------------------------------
(* signal_split: the reported fills a signal agreed with and those it did  *)
(* not; a fill without a prediction, or with a neutral one, is neither.    *)

Scored(score) == score # Unscored /\ score # 0

Judged(path, signal) == SelectSeq(Reported(path), LAMBDA f : Scored(signal[f.at]))

Aligned(path, signal) == SelectSeq(Judged(path, signal), LAMBDA f : signal[f.at] = f.side)

Contra(path, signal) == SelectSeq(Judged(path, signal), LAMBDA f : signal[f.at] # f.side)

-----------------------------------------------------------------------------
Inventory(fills) == FoldLeft(LAMBDA q, f : q + f.side, 0, fills)

(* The fills that are reported are the first of a book that could be held: *)
(* dropping those that cannot be marked out takes none from the middle,    *)
(* and the inventory along them never exceeds the cap.                     *)
ReportedFillsAreReal(path) ==
    LET fills == Reported(path)
    IN  /\ IsPrefix(fills, Filled(path))
        /\ \A k \in 0 .. Len(fills) :
              Inventory(SubSeq(fills, 1, k)) \in -InvCap .. InvCap

(* The two sides of the comparison hold each fill the signal predicted     *)
(* once, and no other.                                                     *)
OnlyScoredFillsAreJudged(path, signal) ==
    ToSet(Aligned(path, signal)) \cup ToSet(Contra(path, signal))
      = {f \in ToSet(Reported(path)) : signal[f.at] \in {-1, 1}}

-----------------------------------------------------------------------------
(* The microstructure study: an order-flow tape, the decay of its signal   *)
(* over horizons, and the event-driven backtest whose cost sweep finds the *)
(* break-even.  A tick is [flow, move]: the observable imbalance and the   *)
(* log move to the next tick, in whole units.                              *)
NoMove == 99                \* NaN, beyond every move and cost: no observable future
SignOf(x) == IF x > 0 THEN 1 ELSE IF x < 0 THEN -1 ELSE 0
Size(x) == IF x < 0 THEN -x ELSE x
Total(seq) == FoldLeft(+, 0, seq)

(* simulate: the label of every tick but the last, and the log mid it makes. *)
FwdRet(tape, t) == IF t = Len(tape) THEN NoMove ELSE tape[t].move

LogMid(tape, t) == Total([i \in 1 .. t - 1 |-> tape[i].move])

(* ic_by_horizon: the move over a horizon of h ticks.                       *)
FwdOver(tape, t, h) == IF t + h > Len(tape) THEN NoMove ELSE LogMid(tape, t + h) - LogMid(tape, t)

----------------------------------------------------------------------------
(* event_driven_backtest.                                                   *)
Pos(tape, t) == SignOf(tape[t].flow)

Turnover(tape, t) == IF t = 1 THEN Size(Pos(tape, t)) ELSE Size(Pos(tape, t) - Pos(tape, t - 1))

Net(tape, cost) ==
    [t \in 1 .. Len(tape) - 1 |-> Pos(tape, t) * FwdRet(tape, t) - cost * Turnover(tape, t)]

(* The sign of the information ratio, which is 0 for returns that do not    *)
(* vary.                                                                    *)
Varies(x) == \E i, j \in DOMAIN x : x[i] # x[j]
IrSign(x) == IF Varies(x) THEN SignOf(Total(x)) ELSE 0

(* study: the first cost of the grid at which the net does not earn.        *)
Breakeven(tape, grid) ==
    LET dies == SelectSeq(grid, LAMBDA c : IrSign(Net(tape, c)) =< 0)
    IN IF dies = <<>> THEN NoMove ELSE dies[1]

----------------------------------------------------------------------------
(* One tick ahead, the horizon's move is the label the backtest trades, and *)
(* a longer one is made of the labels of the ticks it spans.                *)
HorizonsAreLabels(tape) ==
    \A t \in 1 .. Len(tape), h \in 1 .. Len(tape) :
        FwdOver(tape, t, h) = IF t + h > Len(tape) THEN NoMove
                              ELSE Total([i \in 1 .. h |-> FwdRet(tape, t + i - 1)])

(* Nothing earns beyond the break-even the study reports, where the returns *)
(* at the break-even vary.                                                  *)
BreakevenIsFinal(tape, grid) ==
    LET be == Breakeven(tape, grid)
    IN (be # NoMove /\ Varies(Net(tape, be))) =>
          \A i \in DOMAIN grid : grid[i] >= be => IrSign(Net(tape, grid[i])) =< 0

-----------------------------------------------------------------------------
(* run_paper.py --trade: buy one share of each test symbol, sell it, and   *)
(* in the end flatten what was bought.                                     *)
(*                                                                         *)
(* What the broker does to a symbol is a record: whether the two orders    *)
(* are accepted, whether a quote comes in between, and how each accepted   *)
(* order ends: "seen" filled while it is polled, filled "late", "never".   *)
Fates == {"seen", "late", "never"}

Broker == [buyAccepted : BOOLEAN, buy : Fates, quoted : BOOLEAN,
           sellAccepted : BOOLEAN, sell : Fates]

(* _poll_fill: the fill, if it comes while the order is polled.            *)
Polled(fate) == fate = "seen"

(* The symbols the round trip of which got past the purchase: they are     *)
(* flattened, whatever went wrong after.                                   *)
Traded(b) == b.buyAccepted /\ Polled(b.buy)

(* The sale is sent after the purchase was seen and a second quote came.   *)
Sold(b) == b.buyAccepted /\ Polled(b.buy) /\ b.quoted /\ b.sellAccepted

(* A row of the report: both fills were seen.                              *)
Measured(b) == Sold(b) /\ Polled(b.sell)

(* What is held of a symbol when the loop over the symbols is done; an     *)
(* order that fills late has filled by then if `settled`.                  *)
HeldAfter(b, settled) ==
    LET in == IF b.buyAccepted /\ (Polled(b.buy) \/ (b.buy = "late" /\ settled)) THEN 1 ELSE 0
        out == IF Sold(b) /\ (Polled(b.sell) \/ (b.sell = "late" /\ settled)) THEN 1 ELSE 0
    IN  in - out

(* _flatten: the position of a symbol that was traded is closed, unless    *)
(* the request fails, which nobody hears of.                               *)
Flattened(b, settled, answered) ==
    IF Traded(b) /\ answered THEN 0 ELSE HeldAfter(b, settled)

(* The positions the report calls residual.                                *)
Leftover(brokers, settled, answered) ==
    {s \in DOMAIN brokers : Flattened(brokers[s], settled, answered[s]) # 0}

(* Whatever order, quote or poll fails on the way, a share that was seen   *)
(* bought is closed or reported: when its request to flatten is answered,  *)
(* it is gone.  And a round trip is measured on fills that were seen.      *)
SeenBuysAreClosed(brokers) ==
    \A settled \in BOOLEAN, answered \in [DOMAIN brokers -> BOOLEAN] :
        \A s \in DOMAIN brokers :
            LET b == brokers[s]
            IN  /\ (b.buyAccepted /\ b.buy = "seen" /\ answered[s])
                      => s \notin Leftover(brokers, settled, answered)
                /\ Measured(b) => b.buy = "seen" /\ b.sell = "seen"
=============================================================================
