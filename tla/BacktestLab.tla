---------------------------- MODULE BacktestLab ----------------------------
(* The backtest lab and the gate to the live desk (service/lab.py, the      *)
(* promote endpoint of service/desk.py, register of service/strategies.py). *)
(* Bars are numbered from 0 as in the code: bar t closes at Close(xs, t).   *)
(* Returns are whole multiples of 1/Unit; fees are counted in 1/Unit too.   *)
EXTENDS Integers, Sequences, FiniteSets, SequencesExt

CONSTANTS FeeNum, FeeDen, Unit, MinCloses, MinBars, MinFold, MinNet

Desk == INSTANCE DeskBooks

Close(xs, t) == xs[t + 1]
Sum2(xs) == FoldLeft(LAMBDA acc, x : acc + x, 0, xs)
Window(a, b) == [i \in 1 .. b - a |-> a + i - 1]    \* a, a + 1, ..., b - 1
Smaller(x, y) == IF x < y THEN x ELSE y

(* The position held over bar t, decided from the data through t.           *)
SignAt(cfg, xs, t) == Desk!TargetSign(cfg.kind, cfg.params, SubSeq(xs, 1, t + 1))

(* _run_series over [start, end): the return of each bar, less the cost of  *)
(* the change of position; a series starts out flat.                        *)
RunSeries(cfg, xs, cost, start, end) ==
    LET w == Window(start, Smaller(end, Len(xs) - 1))
        Move(t) == ((Close(xs, t + 1) - Close(xs, t)) * Unit) \div Close(xs, t)
        Bar(run, now) == [held |-> now,
                          net |-> Append(run.net, now * Move(start + Len(run.net))
                                                    - Desk!Abs(now - run.held) * cost)]
    IN FoldLeft(Bar, [held |-> 0, net |-> <<>>], [i \in DOMAIN w |-> SignAt(cfg, xs, w[i])]).net

(* The page's form and _simulate: one configuration over all of a history,  *)
(* in sample; a history too short has no series.                            *)
Asked(kind, fast, slow, lookback) ==
    [kind |-> kind, params |-> IF kind = "ma_crossover" THEN [fast |-> fast, slow |-> slow]
                               ELSE [lookback |-> lookback]]

Simulate(cfg, xs, cost) ==
    IF Len(xs) < MinCloses THEN <<>> ELSE RunSeries(cfg, xs, cost, 0, Len(xs) - 1)

(* The Sharpe ratio squared, with its sign, as a fraction; 0 without        *)
(* variance.                                                                *)
Sharpe(net) ==
    LET s == Sum2(net)
        d == Len(net) * Sum2([i \in DOMAIN net |-> net[i] * net[i]]) - s * s
    IN IF net = <<>> \/ d <= 0 THEN [num |-> 0, den |-> 1]
       ELSE [num |-> s * Desk!Abs(s), den |-> d]
Above(a, b) == a.num * b.den > b.num * a.den

(* The first of the grid whose in-sample Sharpe no other exceeds.           *)
Select(grid, kind, xs, cost, end) ==
    LET scored == [i \in DOMAIN grid |->
                     [params |-> grid[i],
                      score |-> Sharpe(RunSeries([kind |-> kind, params |-> grid[i]], xs, cost, 0, end))]]
        Better(best, c) == IF Above(c.score, best.score) THEN c ELSE best
    IN FoldLeft(Better, Head(scored), Tail(scored)).params

----------------------------------------------------------------------------
(* walk_forward: fold i trains on [0, TrainEnd) and trades [TrainEnd,       *)
(* TestEnd); the last fold takes what the division left over.               *)
OosStart(xs) == Len(xs) \div 2
FoldLength(xs, folds) == (Len(xs) - 1 - OosStart(xs)) \div folds

Runs(xs, folds) == Len(xs) >= MinBars /\ FoldLength(xs, folds) >= MinFold

\* Selects on the window it is about to trade as well.
BugTrainEnd(xs, folds, i) == OosStart(xs) + (i + 1) * FoldLength(xs, folds)

TrainEnd(xs, folds, i) == OosStart(xs) + i * FoldLength(xs, folds)

TestStart(xs, folds, i) == OosStart(xs) + i * FoldLength(xs, folds)

TestEnd(xs, folds, i) ==
    IF i < folds - 1 THEN OosStart(xs) + (i + 1) * FoldLength(xs, folds) ELSE Len(xs) - 1

FoldParams(grid, kind, xs, cost, folds, i) == Select(grid, kind, xs, cost, TrainEnd(xs, folds, i))

FoldNet(grid, kind, xs, cost, folds, i) ==
    RunSeries([kind |-> kind, params |-> FoldParams(grid, kind, xs, cost, folds, i)],
              xs, cost, TestStart(xs, folds, i), TestEnd(xs, folds, i))

WalkForward(grid, kind, xs, cost, folds) ==
    [net |-> FlattenSeq([i \in 1 .. folds |-> FoldNet(grid, kind, xs, cost, folds, i - 1)]),
     params |-> FoldParams(grid, kind, xs, cost, folds, folds - 1)]

(* _finish: the verdict on a net series.  Whether it is significant is the  *)
(* validation library's answer.                                             *)
Passes(net, cost, significant) ==
    /\ Len(net) >= MinNet
    /\ significant /\ Sum2(net) > 0
    /\ cost * FeeDen >= FeeNum * Unit

(* What the page says of it.                                                *)
Verdict(net, cost, significant, underpowered, oos) ==
    CASE Len(net) < MinNet -> "too short"
      [] Passes(net, cost, significant) -> IF oos THEN "survives" ELSE "walk forward first"
      [] Len(net) >= MinNet /\ ~Passes(net, cost, significant) ->
           CASE Sum2(net) <= 0 -> "costed loser"
             [] Sum2(net) > 0 /\ significant -> "cheap cost"
             [] Sum2(net) > 0 /\ ~significant -> IF underpowered THEN "underpowered" ELSE "luck"

----------------------------------------------------------------------------
(* register: the id is made of the kind, the base of the pair and the       *)
(* parameters; an id already registered is returned as it is.               *)
IdOf(kind, base, params) == <<kind, base, params>>

Register(registry, kind, base, timeframe, params) ==
    LET sid == IdOf(kind, base, params)
    IN IF sid \in DOMAIN registry THEN registry
       ELSE [x \in DOMAIN registry \union {sid} |->
               IF x \in DOMAIN registry THEN registry[x]
               ELSE [kind |-> kind, base |-> base, timeframe |-> timeframe, params |-> params]]

Promotable(net, cost, significant) == Passes(net, cost, significant)

(* lab_promote: the walk-forward is run again at the live fee; the last     *)
(* fold's parameters are registered if it passes.                           *)
LiveCost == (FeeNum * Unit) \div FeeDen

Promote(registry, grid, kind, base, timeframe, xs, folds, significant) ==
    LET wf == WalkForward(grid, kind, xs, LiveCost, folds)
    IN IF Runs(xs, folds) /\ Promotable(wf.net, LiveCost, significant)
       THEN Register(registry, kind, base, timeframe, wf.params)
       ELSE registry

----------------------------------------------------------------------------
(* Out-of-sample means out of sample: prices after a fold's training window *)
(* change neither the parameters the fold selects nor, bar by bar, what it  *)
(* earned before them.                                                      *)
OutOfSample(grid, kind, xs, ys, cost, folds) ==
    LET same == {t \in 0 .. Len(xs) - 1 : \A u \in 0 .. t : Close(xs, u) = Close(ys, u)}
    IN (Runs(xs, folds) /\ Len(xs) = Len(ys)) =>
       \A i \in 0 .. folds - 1 :
          LET at == TestStart(xs, folds, i)
              fx == FoldNet(grid, kind, xs, cost, folds, i)
              fy == FoldNet(grid, kind, ys, cost, folds, i)
          IN at \in same =>
               /\ FoldParams(grid, kind, xs, cost, folds, i) = FoldParams(grid, kind, ys, cost, folds, i)
               /\ \A k \in DOMAIN fx : at + k \in same => fx[k] = fy[k]

(* Every bar from OosStart on is traded out of sample exactly once.         *)
FoldsTile(grid, kind, xs, cost, folds) ==
    Runs(xs, folds) =>
        FlattenSeq([i \in 1 .. folds |-> Window(TestStart(xs, folds, i - 1), TestEnd(xs, folds, i - 1))])
          = Window(OosStart(xs), Len(xs) - 1)

(* The page and the gate agree: the walk-forward shown at the live fee says *)
(* "survives" exactly where promotion would register its parameters, and no *)
(* backtest of the page, whatever its cost, promises that by itself.  A     *)
(* backtest that passes at some fee earned as much at every lower one.      *)
PageAgreesWithGate(grid, kind, xs, folds, costs) ==
    LET wf == WalkForward(grid, kind, xs, LiveCost, folds)
        nothing == [x \in {} |-> 0]
        gate(s) == Promote(nothing, grid, kind, "base", "hour", xs, folds, s)
    IN /\ Runs(xs, folds) => \A s \in BOOLEAN :
            (Verdict(wf.net, LiveCost, s, ~s, TRUE) = "survives")
              <=> (DOMAIN gate(s) = {IdOf(kind, "base", wf.params)})
       /\ \A c \in costs, fast, slow \in {1, 2} :
            LET net(cost) == Simulate(Asked(kind, fast, slow, fast), xs, cost)
                said == Verdict(net(c), c, TRUE, FALSE, FALSE)
            IN /\ said # "survives"
               /\ said = "walk forward first" =>
                    \A b \in costs : b <= c => Sum2(net(b)) >= Sum2(net(c)) /\ Sum2(net(b)) > 0

(* What went live earned more than it paid, net of the live fee, on bars its *)
(* parameters were not selected on.                                         *)
PromotedEarned(registry, grid, markets, folds) ==
    \A sid \in DOMAIN registry : \E m \in markets :
        LET wf == WalkForward(grid, registry[sid].kind, m, LiveCost, folds)
        IN wf.params = registry[sid].params /\ Sum2(wf.net) > 0
=============================================================================
