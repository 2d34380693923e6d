-------------------------- MODULE WalkForwardEngine --------------------------
(* The backtest engine (mds/engine.py run, mds/execution.py,                *)
(* mds/universe.py): rebalances every Rebalance bars from the data through  *)
(* the prior close, under point-in-time membership and a model of what a    *)
(* rebalance can trade.  Weights are whole numbers of 1/Unit; bars are      *)
(* numbered from 0; a missing price is Missing.                             *)
EXTENDS Integers, Sequences, FiniteSets, SequencesExt, FiniteSetsExt

CONSTANTS Symbols, Unit, Rebalance, Warmup, MaxLeverage, DelistingReturn

Missing == 0
Magnitude(x) == IF x < 0 THEN -x ELSE x
Gross(w) == FoldSet(LAMBDA s, acc : acc + Magnitude(w[s]), 0, Symbols)
Flat == [s \in Symbols |-> 0]
Greatest(S) == CHOOSE x \in S : \A y \in S : x >= y
Least(S) == CHOOSE x \in S : \A y \in S : x <= y

(* A panel gives each symbol's sequence of prices.                          *)
Price(panel, s, t) == panel[s][t + 1]
Bars(panel) == 0 .. Len(panel[CHOOSE s \in Symbols : TRUE]) - 1
Quoted(panel, s) == {t \in Bars(panel) : Price(panel, s, t) # Missing}

(* membership_mask: from the first to the last price, gaps included.        *)
Member(panel, s, t) ==
    Quoted(panel, s) # {} /\ t >= Least(Quoted(panel, s)) /\ t <= Greatest(Quoted(panel, s))

(* pct_change of a bar, a bar without a return counting for nothing.        *)
BarReturn(panel, s, t) ==
    IF t = 0 \/ Price(panel, s, t) = Missing \/ Price(panel, s, t - 1) = Missing THEN 0
    ELSE ((Price(panel, s, t) - Price(panel, s, t - 1)) * Unit) \div Price(panel, s, t - 1)

----------------------------------------------------------------------------
(* An execution model answers a rebalance with the weights achieved.        *)
FlatBps(prev, target) == target

(* At most `cap` of a symbol is traded, and the rest carries over; a symbol *)
(* without a known volume is traded without limit.                          *)
RealisticExecution(prev, target, cap, liquid) ==
    [s \in Symbols |-> CASE s \in liquid /\ target[s] - prev[s] > cap -> prev[s] + cap
                         [] s \in liquid /\ target[s] - prev[s] < -cap -> prev[s] - cap
                         [] OTHER -> target[s]]

(* A missing price makes the average volume of its bar missing; the         *)
(* averaging window is shortened to that bar.                               *)
Liquid(panel, t) == {s \in Symbols : Price(panel, s, t - 1) # Missing}

Achieved(model, panel, t, prev, target, cap) ==
    IF model = "flat" THEN FlatBps(prev, target)
    ELSE RealisticExecution(prev, target, cap, Liquid(panel, t))

----------------------------------------------------------------------------
(* One rebalance at bar t, from the strategy's target for it.               *)
Levered(w) == IF Gross(w) > MaxLeverage
              THEN [s \in Symbols |-> (w[s] * MaxLeverage) \div Gross(w)] ELSE w

MaskBar(t) == t - 1

Masked(panel, t, w) == [s \in Symbols |-> IF Member(panel, s, MaskBar(t)) THEN w[s] ELSE 0]

Delisted(panel, t, prev) ==
    {s \in Symbols : prev[s] # 0 /\ ~Member(panel, s, MaskBar(t))}

(* Names that left since the last rebalance are charged with it, and their  *)
(* target is zero.                                                          *)
RebalanceAt(panel, run, t, target, model, cap) ==
    LET lost == Delisted(panel, t, run.w)
    IN [w |-> Achieved(model, panel, t, run.w, Masked(panel, t, Levered(target)), cap),
        charged |-> run.charged \o SetToSeq(lost),
        loss |-> FoldSet(LAMBDA s, acc : acc + run.w[s] * DelistingReturn, 0, lost)]

NoRun == [w |-> Flat, charged |-> <<>>, loss |-> 0]
Times(panel) == {t \in Bars(panel) : t >= Warmup /\ (t - Warmup) % Rebalance = 0}

(* run up to bar t: targets[u] are the weights the strategy asks for at u.  *)
RunTo(panel, targets, model, cap, t) ==
    FoldLeft(LAMBDA r, u : RebalanceAt(panel, r, u, targets[u], model, cap),
             NoRun, SetToSortSeq({u \in Times(panel) : u <= t}, <))

Run(panel, targets, model, cap) == RunTo(panel, targets, model, cap, Greatest(Bars(panel)))

HeldOver(panel, targets, model, cap, t) == RunTo(panel, targets, model, cap, t).w

(* The gross return of bar t: of the weights of the last rebalance, and of  *)
(* what was lost with the names found delisted at a rebalance.              *)
PortfolioReturn(panel, targets, model, cap, t) ==
    LET r == RunTo(panel, targets, model, cap, t)
    IN FoldSet(LAMBDA s, acc : acc + r.w[s] * BarReturn(panel, s, t), 0, Symbols)
       + (IF t \in Times(panel) THEN r.loss ELSE 0)

----------------------------------------------------------------------------
(* DslStrategy.target_weights: the signal of the prior close, demeaned, to  *)
(* unit gross; a missing signal counts as zero.                             *)
SignalStrategy(signal, t) ==
    LET row == [s \in Symbols |-> signal[s][t - 1]]
        sum == FoldSet(LAMBDA s, acc : acc + row[s], 0, Symbols)
        n == Cardinality(Symbols)
        centred == [s \in Symbols |-> n * row[s] - sum]
    IN IF Gross(centred) = 0 THEN Flat
       ELSE [s \in Symbols |-> (centred[s] * Unit) \div Gross(centred)]

(* Prices from bar t on change neither what is held over bar t nor what was *)
(* earned before it, provided they change no name's membership before it: a *)
(* gap is filled in, as membership, by the quote that comes after it.       *)
HoldsWhatItKnew(p, q, strategy(_, _), model, cap) ==
    LET tp == [t \in Bars(p) |-> strategy(p, t)]
        tq == [t \in Bars(q) |-> strategy(q, t)]
    IN \A t \in Bars(p) :
        (/\ \A s \in Symbols : \A u \in 0 .. t - 1 :
               Price(p, s, u) = Price(q, s, u) /\ Member(p, s, u) = Member(q, s, u))
            => /\ HeldOver(p, tp, model, cap, t) = HeldOver(q, tq, model, cap, t)
               /\ t > 0 => PortfolioReturn(p, tp, model, cap, t - 1)
                             = PortfolioReturn(q, tq, model, cap, t - 1)

(* A name that leaves while it is held is charged its delisting loss once,  *)
(* at the first rebalance after its last price, and is not held after it.   *)
DelistingChargedOnce(panel, strategy(_, _), model, cap) ==
    LET targets == [t \in Bars(panel) |-> strategy(panel, t)]
    IN \A s \in Symbols :
        LET end == Greatest(Quoted(panel, s) \union {-1})
            after == {t \in Times(panel) : MaskBar(t) > end}
            run == Run(panel, targets, model, cap)
            held == end >= 0 /\ after # {}
                      /\ HeldOver(panel, targets, model, cap, Least(after) - 1)[s] # 0
        IN /\ Cardinality({i \in DOMAIN run.charged : run.charged[i] = s}) = (IF held THEN 1 ELSE 0)
           /\ (after # {}) => run.w[s] = 0
=============================================================================
