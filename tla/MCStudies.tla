----------------------------- MODULE MCStudies -----------------------------
(***************************************************************************)
(* The pure algorithms of the desk service and of the research platform,   *)
(* each studied over bounded inputs.  A behaviour is one study; `sample`   *)
(* is its input, which grows step by step: a fill, a page, a bar, a token, *)
(* a trade, a filing, an answer, a recorded row.                           *)
(***************************************************************************)
EXTENDS ResearchBooks, ResearchApi, L2Replay, DownloadCaches, Sequences, SequencesExt

VARIABLES study, sample

vars == <<study, sample, bookVars, labVars, tapeVars, downloadVars>>

Starts(name, samples) == study = name /\ sample \in samples
Grows(name, samples) ==
    /\ study = name
    /\ sample' \in samples
    /\ UNCHANGED <<study, bookVars, labVars, tapeVars, downloadVars>>

-----------------------------------------------------------------------------
(* Two strategies of the live desk trade one symbol; a fee of a quarter    *)
(* keeps rounding apart from accounting.                                   *)
Desk == INSTANCE DeskBooks WITH FeeNum <- 1, FeeDen <- 4

MaxFills == 4
MaxPosition == 3
FillPrices == {216, 432}        \* multiples of 2^3 * 3^3: up to MaxPosition, averages divide
Traders == {"trend", "momentum"}

Fills(s) == [side : {Desk!Buy, Desk!Sell}, qty : IF s = "trend" THEN {1, 2} ELSE {1},
             price : FillPrices]

FillBooked ==
    /\ study = "fills"
    /\ Len(sample["trend"]) + Len(sample["momentum"]) < MaxFills
    /\ \E s \in Traders, f \in Fills("trend") \cup Fills("momentum") :
          /\ f \in Fills(s)
          /\ Desk!Abs(Desk!PositionBook(Append(sample[s], f)).qty) =< MaxPosition
          /\ Grows("fills", {[sample EXCEPT ![s] = Append(@, f)]})

DeskBook == [s \in Traders |-> Desk!PositionBook(sample[s])]
TheSymbol == [s \in Traders |-> "btc"]

Cash(fills) == FoldLeft(LAMBDA acc, f : acc - Desk!Signed(f) * Desk!FeePrice(f.side, f.price),
                        0, fills)

(* What its closing trade would bring a strategy.                          *)
Proceeds(qty, mark) == qty * Desk!FeePrice(IF qty > 0 THEN Desk!Sell ELSE Desk!Buy, mark)

(* As long as the tags do not cancel out, the desk reports for every       *)
(* strategy what it paid, what it took and what closing would bring, fees  *)
(* included, however its fills blend, close and flip the position; and a   *)
(* real position that differs from the tags is handed out exactly once     *)
(* (strategies.py: apply_fill, position_pnl, attribute).                   *)
AttributedIsEarned ==
    study = "fills" =>
        LET books == DeskBook
            total == Desk!TaggedSum(books, TheSymbol, "btc")
            rows == Desk!Attribute(books, TheSymbol, [x \in {"btc"} |-> total],
                                   [x \in {"btc"} |-> 432])
            shares == [s \in Traders |->
                         Desk!Share(books, TheSymbol, [x \in {"btc"} |-> 60], s)]
        IN total # 0 =>
             /\ \A s \in Traders :
                  rows[s].pnl = Cash(sample[s]) + Proceeds(books[s].qty, 432)
             /\ shares["trend"] + shares["momentum"] = 60

-----------------------------------------------------------------------------
(* The broker's lists.                                                     *)
Feed == INSTANCE DeskFeed WITH Seeds <- {<<"btc", "trend">>, <<"eth", "mom">>}

MaxOrders == 7
MaxPages == 4
BarLimit == 2

OrderPlaced ==
    /\ study = "orders"
    /\ Len(sample.history) < MaxOrders
    /\ \E gap \in {0, 1} :
         LET n == Len(sample.history)
             at == IF n = 0 THEN 1 ELSE sample.history[1].at + gap
         IN Grows("orders", {[sample EXCEPT !.history = <<[id |-> n + 1, at |-> at]>> \o @]})

BarPrinted ==
    /\ study = "bars"
    /\ \E s \in {"btc", "eth"} :
         /\ sample.available[s] < MaxPages
         /\ Grows("bars", {[sample EXCEPT !.available[s] = @ + 1]})

(* Every order of the account reaches the books, whatever times orders     *)
(* share at a page boundary (alpaca.py all_orders).                        *)
HistoryIsWhole ==
    study = "orders" => Feed!HistoryIsWhole(sample.history, sample.page, MaxPages)

(* A thinly traded symbol gets the bars it has (alpaca.py _paginate_bars). *)
NobodyStarves ==
    study = "bars" =>
        Feed!NobodyStarves(<<"btc", "eth">>, sample.available, sample.cap, MaxPages, BarLimit)

-----------------------------------------------------------------------------
(* The lab: two markets that agree up to a bar, a grid of two.             *)
Lab == INSTANCE BacktestLab WITH FeeNum <- 1, FeeDen <- 4, Unit <- 4,
                                 MinCloses <- 4, MinBars <- 6, MinFold <- 1, MinNet <- 2

MaxBars == 7
Folds == 2
LabPrices == {1, 2, 4}
Mirror(p) == IF p = 1 THEN 4 ELSE p \div 2
Grid(kind) == IF kind = "ma_crossover"
              THEN <<[fast |-> 1, slow |-> 2], [fast |-> 1, slow |-> 3]>>
              ELSE <<[lookback |-> 1], [lookback |-> 2]>>

NothingLive == [x \in {} |-> 0]

MarketCloses ==
    /\ study = "lab" /\ Len(sample.xs) < MaxBars /\ sample.live = NothingLive
    /\ \E p \in IF sample.xs = <<>> THEN {2} ELSE LabPrices, split \in BOOLEAN :
         /\ sample.xs # sample.ys => split
         /\ split => Len(sample.xs) > Lab!OosStart([i \in 1 .. MaxBars |-> 1])
         /\ Grows("lab", {[sample EXCEPT !.xs = Append(@, p),
                                         !.ys = Append(@, IF split THEN Mirror(p) ELSE p)]})

Promotion ==
    /\ study = "lab" /\ Len(sample.xs) = MaxBars
    /\ \E market \in {sample.xs, sample.ys}, significant \in BOOLEAN :
         LET live == Lab!Promote(sample.live, Grid(sample.kind), sample.kind, market, "hour",
                                 market, Folds, significant)
         IN Grows("lab", {[sample EXCEPT !.live = live]})

(* Later prices change neither what a fold selects nor what it earned      *)
(* before them (lab.py walk_forward).                                      *)
OutOfSample ==
    (study = "lab" /\ sample.live = NothingLive) =>
        Lab!OutOfSample(Grid(sample.kind), sample.kind, sample.xs, sample.ys, 1, Folds)

(* Every bar after the first training window is traded out of sample       *)
(* exactly once, whatever the division leaves over (lab.py walk_forward).  *)
FoldsTile ==
    (study = "lab" /\ sample.live = NothingLive) =>
        Lab!FoldsTile(Grid(sample.kind), sample.kind, sample.xs, 1, Folds)

(* What was promoted earned more than it paid out of sample, net of the    *)
(* live fee (desk.py lab_promote).                                         *)
PromotedEarned ==
    study = "lab" =>
        Lab!PromotedEarned(sample.live, Grid(sample.kind), {sample.xs, sample.ys}, Folds)

(* The page promises at the live fee what the gate grants, and nothing     *)
(* from an in-sample backtest (lab.py _finish, desk.py lab_promote).       *)
PageAgreesWithGate ==
    (study = "lab" /\ sample.live = NothingLive /\ sample.xs = sample.ys) =>
        Lab!PageAgreesWithGate(Grid(sample.kind), sample.kind, sample.xs, Folds, 0 .. 2)

-----------------------------------------------------------------------------
(* The alpha language.                                                     *)
Dsl == INSTANCE AlphaDsl WITH Numbers <- {"1"}, Identifiers <- {"x"}

MaxTokens == 6
Tokens == {"x", "-", "+", "*", "**", "(", ")", ","}
LastTokens == {"x", ")"}        \* a text of full length that ends otherwise has no reading
MaxDepth == 2
Leaves == {Dsl!Col("x"), Dsl!Col("y"), Dsl!Num(1), Dsl!Num(2)}
Windows == {Dsl!Num(2), Dsl!Unary(Dsl!Num(1))}
             \cup {Dsl!BinOp(op, Dsl!Num(1), Dsl!Num(2)) : op \in {"-", "/", "**"}}
TwoPlace == {"delay", "ts_mean", "ts_delta"}

TokenTyped ==
    /\ study = "text" /\ Len(sample) < MaxTokens
    /\ Grows("text", {Append(sample, tok) :
                       tok \in IF Len(sample) = MaxTokens - 1 THEN LastTokens ELSE Tokens})

Composed(a) ==
    UNION { {Dsl!Unary(a)},
            {Dsl!BinOp(op, a, b) : op \in {"-", "*", "/"}, b \in Leaves},
            {Dsl!CallTo(f, <<a>>) : f \in {"rank", "zscore"}},
            {Dsl!CallTo(f, <<a, w>>) : f \in TwoPlace, w \in Windows},
            {Dsl!CallTo(f, <<Dsl!Col("x"), a>>) : f \in TwoPlace} }

SignalComposed ==
    /\ study = "signal" /\ sample.depth < MaxDepth
    /\ Grows("signal", {[depth |-> sample.depth + 1, a |-> b] : b \in Composed(sample.a)})

Others == Leaves \cup Composed(Dsl!Col("x"))

(* The parser gives every text the conventional reading, and rejects the   *)
(* texts that have none (alphadsl/parser.py).                              *)
ParsesAsRead == study = "text" => Dsl!ParsesAsRead(sample)

(* Two signals of one canonical form are one signal: the cache that is     *)
(* addressed by it never serves another's panel (alphadsl/nodes.py).       *)
CanonicalTellsApart ==
    study = "signal" => \A b \in Others : Dsl!CanonicalTellsApart(sample.a, b, {"x"})

(* What passes the semantic check never reads ahead of its date            *)
(* (alphadsl/compiler.py, evaluator.py).                                   *)
CompiledIsCausal == study = "signal" => Dsl!CompiledIsCausal(sample.a, {"x"})

-----------------------------------------------------------------------------
(* The tax lots of one security.                                           *)
Lots == INSTANCE TaxLots WITH LongTermDays <- 3, WashDays <- 1

MaxTrades == 4

TradeMade ==
    /\ study = "tax" /\ Len(sample) < MaxTrades
    /\ \E gap \in {1, 2}, shares \in {2, -1}, price \in {1, 2, 3} :
         /\ sample = <<>> => shares > 0
         /\ LET day == IF sample = <<>> THEN gap ELSE sample[Len(sample)].day + gap
            IN Grows("tax", {Append(sample, [day |-> day, shares |-> shares, price |-> price])})

(* HIFO defers gains and hides none (taxaware.py simulate).                *)
HifoDefers == study = "tax" => Lots!HifoDefers(sample, 2, 2 * MaxTrades + 1)

(* Every gain and loss is taxed, carried forward or disallowed, once       *)
(* (taxaware.py flag_wash_sales, tax_summary).                             *)
GainsAreAccounted == study = "tax" => Lots!GainsAreAccounted(sample)

-----------------------------------------------------------------------------
(* The engine: two panels that agree on their first bars, up to the second *)
(* rebalance; the second name may stop trading, or miss a bar.             *)
Names == {"a", "b"}
Engine == INSTANCE WalkForwardEngine WITH Symbols <- Names, Unit <- 12, Rebalance <- 2,
                                          Warmup <- 2, MaxLeverage <- 12, DelistingReturn <- -6

EngineBars == 5
Agree == 4
Shifted(p) == (p + 1) % 3

BarTraded ==
    /\ study = "engine" /\ Len(sample.p["a"]) < EngineBars
    /\ \E pa \in IF sample.p["a"] = <<>> THEN {1} ELSE {1, 2}, pb \in {0, 1, 2} :
         LET n == Len(sample.p["a"])
             row(x, y) == [s \in Names |-> IF s = "a" THEN x ELSE y]
             p == row(pa, pb)
             q == IF n < Agree THEN p ELSE row(3 - pa, Shifted(pb))
         IN Grows("engine", {[sample EXCEPT !.p = [s \in Names |-> Append(@[s], p[s])],
                                            !.q = [s \in Names |-> Append(@[s], q[s])]]})

(* The signal of the strategy: the move into the bar, the larger the later *)
(* price, nothing on a gap.                                                *)
MoveInto(panel, s, t) ==
    IF t < 1 \/ Engine!Price(panel, s, t) = 0 \/ Engine!Price(panel, s, t - 1) = 0 THEN 0
    ELSE Engine!Price(panel, s, t) - 2 * Engine!Price(panel, s, t - 1)

Strategy(panel, t) ==
    Engine!SignalStrategy([s \in Names |-> [u \in -1 .. EngineBars |-> MoveInto(panel, s, u)]], t)

(* Later prices change neither what is held nor what was earned before     *)
(* them (engine.py run).                                                   *)
HoldsWhatItKnew ==
    study = "engine" => Engine!HoldsWhatItKnew(sample.p, sample.q, Strategy, sample.model, 6)

(* A name that stops trading while held is charged once and dropped        *)
(* (engine.py run).                                                        *)
DelistingChargedOnce ==
    (study = "engine" /\ sample.p["a"] # <<>>) =>
        Engine!DelistingChargedOnce(sample.p, Strategy, sample.model, 6)

-----------------------------------------------------------------------------
(* The books of the research platform, one day after the other.            *)
MCSector == [s \in Stocks |-> IF s = "a" THEN 1 ELSE 2]
MCFredDays == {0, 1, 3, 4, 5, 7, 8, 10, 11, 12, 13, 15}
MCFilingDays == {2, 6, 9, 12, 15}

Implementations == { {}, {"smooth", "neutralize", "risk"},
                     {"smooth", "neutralize", "risk", "hedge", "bands"},
                     {"smooth", "neutralize", "optimize"} }
MCBooks ==
    UNION {
        {Plain(k) : k \in {"composite", "timed", "optimized", "forced", "riskparity", "tsmomentum",
                           "statarb", "dsl", "pairs"}},
        TrendStudies, AllocationStudy,
        {[Plain(k) EXCEPT !.name = m] : k \in {"cross", "neutral"},
                                        m \in SignalNames \cup {"earnings_yield", "roe"}},
        {[Plain("voltarget") EXCEPT !.name = m] : m \in {"adv", "corwin_schultz"}},
        {[Plain(k) EXCEPT !.enh = e] : k \in {"momentum", "multifactor"}, e \in Implementations},
        {[Plain(k) EXCEPT !.name = "momentum", !.overlay = o] :
            k \in {"cross", "composite"}, o \in {"vol_managed", "vol_target", "regime", "allocated"}} }

BookStep ==
    /\ study = "book" /\ DayPasses
    /\ UNCHANGED <<study, sample, labVars, tapeVars, downloadVars>>

-----------------------------------------------------------------------------
(* A company's filings, quarter by quarter.  Its history starts with       *)
(* quarter `since`; a report may restate the quarter of a year ago, and    *)
(* two of them the quarter before.                                         *)
BuybackTags == <<"PaymentsForRepurchaseOfCommonStock", "PaymentsForRepurchaseOfEquity">>

Facts == INSTANCE CompanyFacts

LastQuarter == 8

Fact(end, span, filed, val) == [end |-> end, span |-> span, filed |-> filed, val |-> val]

(* The balance sheet and the income of a quarter, in the fourth of a year  *)
(* the income of the year.                                                 *)
Statement(q, filed, val) ==
    <<Fact(q, 0, filed, val),
      IF q % 4 = 0 THEN Fact(q, 4, filed, 10 + val) ELSE Fact(q, 1, filed, val)>>

ReportFiled ==
    /\ study = "filings" /\ sample.now < LastQuarter
    /\ \E back \in {0, 1, 4} :
         LET q == sample.now + 1
             own == IF q > sample.since THEN Statement(q, q, 2) ELSE <<>>
             restated == IF back > 0 /\ q - back > 0 THEN Statement(q - back, q, 7) ELSE <<>>
         IN /\ back = 1 => q \in {5, 6}
            /\ Grows("filings", {[sample EXCEPT !.now = q, !.obs = @ \o own \o restated]})

(* Filings of a day rewrite nothing that was in force before it (edgar.py  *)
(* fundamental_panels, buyback.py _pit_ffill).                             *)
FilingsDoNotRewriteThePast ==
    study = "filings" => Facts!FilingsDoNotRewriteThePast(sample.obs, sample.now)

-----------------------------------------------------------------------------
(* The downloads that are kept: company facts, panels and bars, each in a  *)
(* study of its own.                                                       *)
MCTickers == <<"x", "a">>

DownloadStep ==
    /\ \/ study = "loads" /\ FactsStep
       \/ study = "panels" /\ PanelsStep
       \/ study = "bars read" /\ BarsStep
    /\ UNCHANGED <<study, sample, bookVars, labVars, tapeVars>>

-----------------------------------------------------------------------------
(* A recorded session of an order book: a bid or an offer at each of two   *)
(* prices, by turns shown and gone.                                        *)
SideOf(p) == IF p =< 2 THEN "B" ELSE "A"

MCPrices == 1 .. 4
MCVenues == {book \in [Sides -> [Prices -> {0, 1}]] :
                \A s \in Sides, p \in Prices : book[s][p] = 0 \/ SideOf(p) = s}

FirstVenue == [s \in Sides |-> [p \in Prices |-> IF p \in {2, 3} /\ SideOf(p) = s THEN 1 ELSE 0]]

TapeStep ==
    /\ study = "replay" /\ TapeNext
    /\ UNCHANGED <<study, sample, bookVars, labVars, downloadVars>>

-----------------------------------------------------------------------------
(* The rows of a panel.                                                    *)
MaxRows == 24

RowAdded ==
    /\ study = "splits" /\ sample.n < MaxRows
    /\ Grows("splits", {[sample EXCEPT !.n = @ + 1]})

(* No label a model is trained on reaches what it is tested on, and no two *)
(* counted returns share a move (lob.py walk_forward_splits, models.py).   *)
PanelLabelsDoNotOverlap ==
    study = "splits" =>
        LabelsDoNotOverlap(sample.n, sample.folds, sample.minTrain, sample.horizon)

-----------------------------------------------------------------------------
(* The cross-validation over a matrix of returns that grows by a row.      *)
Stats == INSTANCE Overfitting

MatrixRows == 4
Returns == {-1, 2}

ReturnsRecorded ==
    /\ study = "matrix" /\ Len(sample) < MatrixRows
    /\ \E row \in [1 .. 3 -> Returns] : Grows("matrix", {Append(sample, row)})

(* All rows are tested on as often as selected on (validation.py pbo).     *)
SplitsAreFair == study = "splits" => Stats!SplitsAreFair(sample.n, sample.folds * 2)

(* The probability of overfitting does not depend on the direction of time *)
(* (validation.py pbo).                                                    *)
PboHasNoArrow == (study = "matrix" /\ sample # <<>>) => Stats!PboHasNoArrow(sample, 4)

(* The long-run variance of the t-statistic is one (validation.py          *)
(* newey_west_sharpe_tstat).                                               *)
BartlettIsVariance ==
    (study = "returns" /\ sample # <<>>) => Stats!BartlettIsVariance(sample)

(* A bootstrap sample is as long as the sample (validation.py              *)
(* block_bootstrap_sharpe_ci, evaluation.py paired_sharpe_diff_ci).        *)
ResamplesAreWhole ==
    (study = "splits" /\ sample.n =< 7) => Stats!ResamplesAreWhole(sample.n, Stats!Min({sample.folds, sample.n}))

-----------------------------------------------------------------------------
(* A series of daily returns, and the limits of a book.                    *)
Quartet == {"a", "b", "c", "d"}
Limits == INSTANCE BookLimits WITH Assets <- Quartet, CapNum <- 1, CapDen <- 3,
                                   BudgetNum <- 1, BudgetDen <- 2, Passes <- 1,
                                   TailNum <- 1, TailDen <- 4, MinReturns <- 3, PriceStep <- 4,
                                   Sleeve <- [a \in {"spy", "tlt"} |-> IF a = "spy" THEN "Equity" ELSE "Rates"],
                                   Every <- 2, Cost <- 3, Gap <- 99

MaxReturns == 5
MaxRebalances == 2

ReturnRecorded ==
    /\ study = "returns" /\ Len(sample) < MaxReturns
    /\ Grows("returns", {Append(sample, x) : x \in -2 .. 2})

Solutions == {v \in [Quartet -> {-1, 0, 2}] : v["a"] >= 0}

BookRebalanced ==
    /\ study = "rebalance" /\ Len(sample) < MaxRebalances
    /\ Grows("rebalance", {Append(sample, v) : v \in Solutions})

(* The cap holds after the turnover budget (riskmodel.py optimize).        *)
CapSurvivesTheBudget == study = "rebalance" => Limits!CapSurvivesTheBudget(sample)

(* The tail lies beyond its threshold (riskmgmt.py expected_shortfall).    *)
ShortfallBeyondVar == study = "returns" => Limits!ShortfallBeyondVar(sample)

(* Broken limits head the report (riskmgmt.py check_limits).               *)
BreachesComeFirst ==
    (study = "rebalance" /\ sample # <<>>) =>
        \A caps \in [gross : {3, 6}, name : {1, 2}, sleeve : {1, 4}] :
            Limits!BreachesComeFirst(sample, [s \in Quartet |-> IF s = "a" THEN 1 ELSE 2], caps)

MaxBudget == 5
SignalsOffered == UNION {[1 .. k -> [mu : {4, 8, 12}, lam : {1, 2}]] : k \in 1 .. 2}

(* Capital goes where it earns most after impact (capacity.py              *)
(* allocate_with_capacity).                                                *)
WaterFillingIsBest ==
    study = "capital" => Limits!WaterFillingIsBest(sample.signals, sample.budget)

-----------------------------------------------------------------------------
(* A path of quotes for the passive market maker.                          *)
Trades == INSTANCE ExecutionStudies WITH InvCap <- 1, Horizon <- 1, Unscored <- 9

MaxTicks == 6

TickPrinted ==
    /\ study = "ticks" /\ Len(sample) < MaxTicks
    /\ \E move \in -1 .. 1, half \in {0, 1} :
         LET mid == IF sample = <<>> THEN 5 ELSE sample[Len(sample)].mid + move
         IN Grows("ticks", {Append(sample, [mid |-> mid, half |-> half])})

(* Predictions: of the last move, of its reverse, none at first, neutral.  *)
MoveOf(path, i) == IF i = 1 THEN 9 ELSE path[i].mid - path[i - 1].mid
Predictions(path) ==
    { [i \in DOMAIN path |-> MoveOf(path, i)],
      [i \in DOMAIN path |-> IF i =< 2 THEN 9 ELSE -MoveOf(path, i)],
      [i \in DOMAIN path |-> IF i % 2 = 0 THEN 0 ELSE 1] }

(* What is reported of the maker's fills could have been traded (maker.py  *)
(* maker_backtest).                                                        *)
ReportedFillsAreReal == study = "ticks" => Trades!ReportedFillsAreReal(sample)

(* No fill without a prediction is held against the signal (maker.py       *)
(* signal_split).                                                          *)
OnlyScoredFillsAreJudged ==
    study = "ticks" =>
        \A signal \in Predictions(sample) : Trades!OnlyScoredFillsAreJudged(sample, signal)

-----------------------------------------------------------------------------
(* An option chain, contract by contract, and the structures it prices.    *)
MaxPageAnswers == 6
Options == INSTANCE OptionSurface WITH MaxPages <- 4, MinDte <- 5, MinContracts <- 4,
                                       MinSide <- 2, Missing <- 999

Contract(expiry, right, delta) == [expiry |-> expiry, right |-> right, delta |-> delta]
Listed == << Contract(6, "C", 20), Contract(6, "C", 60), Contract(6, "P", -60), Contract(6, "P", -30),
             Contract(9, "C", 30), Contract(9, "C", 40), Contract(9, "P", -70), Contract(9, "P", -20),
             Contract(1, "C", 50) >>

ContractQuoted ==
    /\ study = "chain" /\ sample.n < Len(Listed)
    /\ \E iv \in {1, 4, 999} :
         LET c == Listed[sample.n + 1]
             quoted == [expiry |-> c.expiry, right |-> c.right, delta |-> c.delta, iv |-> iv]
         IN Grows("chain", {[n |-> sample.n + 1, rows |-> sample.rows \cup {quoted}]})

PageAnswered ==
    /\ study = "pages" /\ Len(sample) < MaxPageAnswers
    /\ Grows("pages", {Append(sample, a) : a \in {"busy", "error", "more", "last"}})

(* A chain that was read has no hole (options.py option_snapshots).        *)
ChainIsAPrefix == study = "pages" => Options!ChainIsAPrefix(sample)

(* Every volatility that is read was quoted around (options.py             *)
(* compute_signals).                                                       *)
SmileIsQuoted == study = "chain" => Options!SmileIsQuoted([name \in {"n"} |-> sample.rows])

(* Protected and collared holdings keep their floor (structuring.py).      *)
FloorHolds ==
    study = "structure" =>
        Options!FloorHolds(10, sample.kp, sample.kc, sample.put, sample.call, 0 .. 20)

-----------------------------------------------------------------------------
(* The paper round trips of run_paper.py.                                  *)
BrokerAnswered ==
    /\ study = "paper" /\ Len(sample) < 1
    /\ Grows("paper", {Append(sample, b) : b \in Trades!Broker})

(* What was seen bought does not stay (run_paper.py main).                 *)
SeenBuysAreClosed == study = "paper" => Trades!SeenBuysAreClosed(sample)

-----------------------------------------------------------------------------
(* Daily bars, and a calendar of sessions.                                 *)
Views == INSTANCE MarketViews WITH N <- 3, Week <- 3, Missing <- 0, StaleRun <- 3,
           JumpNum <- 2, JumpDen <- 5, MinNum <- 9, MinDen <- 10

MaxDailyBars == 5
Fridays == {4, 11}
LastSession == 13

BarClosed ==
    /\ study = "daily" /\ Len(sample) < MaxDailyBars
    /\ \E close \in 1 .. 3, range \in {0, 1} :
         Grows("daily", {Append(sample, [h |-> close + range, l |-> close - range, c |-> close])})

SessionHeld ==
    /\ study = "sessions" /\ sample.day < LastSession
    /\ \E open \in BOOLEAN :
         Grows("sessions", {[day |-> sample.day + 1,
                             index |-> IF open THEN Append(sample.index, sample.day + 1)
                                       ELSE sample.index]})

(* Gains and losses are read alike (market.py _rsi).                       *)
RsiMirrors == study = "daily" => Views!RsiMirrors(sample)

(* The range covers the gaps (market.py _atr).                             *)
AtrCoversTheMoves == study = "daily" => Views!AtrCoversTheMoves(sample)

(* The timing of the expiration book is known the day before (opex.py      *)
(* OpexTiming).                                                            *)
FlatIsKnownInTime == study = "sessions" => Views!FlatIsKnownInTime(sample.index, Fridays)

-----------------------------------------------------------------------------
(* The Research Lab's requests, two at a time, beside the builder of its   *)
(* snapshot; EDGAR may be out of reach of any load.                        *)
MCLoads == {{"momentum"}, {"momentum", "roe"}}
MCNoFamily == {}

LabStep ==
    /\ study = "api" /\ LabNext
    /\ UNCHANGED <<study, sample, bookVars, tapeVars, downloadVars>>

-----------------------------------------------------------------------------
(* An order-flow tape and a grid of costs.                                 *)
MaxFlowTicks == 4
Costs == <<0, 1, 2, 3>>

FlowTick ==
    /\ study = "tape" /\ Len(sample) < MaxFlowTicks
    /\ \E flow \in -1 .. 1, move \in {-2, 0, 3} :
          Grows("tape", {Append(sample, [flow |-> flow, move |-> move])})

(* A horizon's move is made of the labels it spans (microstructure.py      *)
(* simulate, ic_by_horizon).                                               *)
HorizonsAreLabels == study = "tape" => Trades!HorizonsAreLabels(sample)

(* No cost beyond the break-even earns (microstructure.py study).          *)
BreakevenIsFinal == study = "tape" => Trades!BreakevenIsFinal(sample, Costs)

-----------------------------------------------------------------------------
(* A column of closes, some missing.                                       *)
MaxCloses == 7

CloseRecorded ==
    /\ study = "closes" /\ Len(sample) < MaxCloses
    /\ \E c \in {0, 10, 12} : Grows("closes", {Append(sample, c)})

(* Repeated closes are counted over the bars there are (dataquality.py     *)
(* audit_prices).                                                          *)
StaleRunIsMeasured == study = "closes" => Views!StaleRunIsMeasured(sample)

-----------------------------------------------------------------------------
(* A company that buys its stock back, one report a quarter on the even    *)
(* days, an amendment of the yearly report the day after; it may change    *)
(* the tag it reports its purchases under.                                 *)
ReportedQuarters == 8

XbrlFact(tag, days, filed, form, val) ==
    [tag |-> tag, days |-> days, filed |-> filed, form |-> form, val |-> val]

LastYear(q) == 4 * (q \div 4)
Total(bought, from, to) == FoldLeft(+, 0, SubSeq(bought, from, to))

QuarterReported ==
    /\ study = "filer" /\ Len(sample.bought) < ReportedQuarters
    /\ \E amount \in {1, 2}, renamed, amended \in BOOLEAN :
         LET q == Len(sample.bought) + 1
             bought == Append(sample.bought, amount)
             form == IF q % 4 = 0 THEN "10-K" ELSE "10-Q"
             days == IF q % 4 = 0 THEN 371 ELSE 91 * (q % 4)
             tag == IF renamed THEN BuybackTags[1] ELSE sample.tag
         IN /\ renamed => sample.tag = BuybackTags[2]
            /\ amended => q % 4 = 0
            /\ Grows("filer",
                 {[tag |-> tag, kept |-> sample.kept /\ (renamed => q = 1), bought |-> bought,
                   file |-> sample.file
                     \o << XbrlFact("Assets", 0, 2 * q, form, 1),
                           XbrlFact(sample.shares, 0, 2 * q, form, q),
                           XbrlFact(tag, days, 2 * q, form, Total(bought, LastYear(q - 1) + 1, q)) >>
                     \o (IF amended THEN <<XbrlFact("Assets", 0, 2 * q + 1, "10-K/A", 1)>> ELSE <<>>),
                   shares |-> sample.shares]})

(* A program is measured by whole years (buyback.py fetch_buyback_facts).  *)
BuybacksAreYearly ==
    (study = "filer" /\ sample.kept) =>
        LET n == Len(sample.bought)
            reported(t) == IF t \div 2 < n THEN t \div 2 ELSE n
        IN  Facts!BuybacksAreYearly(sample.file, 2 * n + 1,
              LAMBDA t : LET y == LastYear(reported(t)) IN IF y = 0 THEN 0 ELSE Total(sample.bought, y - 3, y),
              reported, {2 * q : q \in 1 .. n})

-----------------------------------------------------------------------------
(* The desk promotes configurations, trades them and is restarted.         *)
MaxOrdersTagged == 3
Configs == [kind : {"ma_crossover"}, currency : {"btc"}, fast : {12}, slow : {48}]
             \cup [kind : {"momentum"}, currency : {"btc", "eth"}, lookback : {12, 24}]

DeskSteps ==
    /\ study = "tags"
    /\ \/ \E config \in Configs :
             Cardinality(sample.registry) < 5 /\ Grows("tags", {Feed!Register(sample, config)})
       \/ \E id \in sample.registry :
             Len(sample.history) < MaxOrdersTagged /\ Grows("tags", {Feed!Traded(sample, id)})
       \/ Grows("tags", {Feed!Restarted(sample)})

(* An order belongs to the strategy that placed it (strategies.py          *)
(* strategy_of, engine.py _fills_by_strategy).                             *)
TagsNameTheirOwner == study = "tags" => Feed!TagsNameTheirOwner(sample)

-----------------------------------------------------------------------------
(* The ledger of a book of three assets, one of which has gaps and belongs *)
(* to no sleeve.                                                           *)
MaxLedgerDays == 3
Columns == <<"spy", "tlt", "x">>
Covariance == [p \in {{a, b} : a, b \in {"spy", "tlt", "x"}} |->
                 IF Cardinality(p) = 1 THEN 4 ELSE IF "x" \in p THEN 1 ELSE -2]

BookHeld ==
    /\ study = "ledger" /\ Len(sample) < MaxLedgerDays
    /\ \E spy, tlt \in {-1, 2}, x \in {1, 99}, w \in [{"spy", "tlt", "x"} -> {-1, 1}] :
         /\ w["tlt"] = 1
         /\ Len(sample) % 2 = 1 => w = sample[Len(sample)].w
         /\ Grows("ledger",
              {Append(sample, [r |-> [a \in {"spy", "tlt", "x"} |->
                                        CASE a = "spy" -> spy [] a = "tlt" -> tlt [] OTHER -> x],
                               w |-> w])})

(* Sleeves add up to the book (trend.py attribution, riskmgmt.py           *)
(* risk_report).                                                           *)
AttributionAddsUp == study = "ledger" => Limits!AttributionAddsUp(sample, Covariance)

(* A replayed window is what the book went through (riskmgmt.py            *)
(* stress_test).                                                           *)
ReplayIsWhatHappened == study = "ledger" => Limits!ReplayIsWhatHappened(sample, Columns)

-----------------------------------------------------------------------------
(* What the studies show, by subject.                                      *)

(* The desk's accounts: every order of the account is read, belongs to the *)
(* strategy that placed it, and earns its strategy what it really earned;  *)
(* no symbol starves another of its bars; a paper buy that was seen is     *)
(* closed (service/alpaca.py, strategies.py, engine.py; run_paper.py).     *)
DeskAccountsAgree ==
    /\ HistoryIsWhole
    /\ NobodyStarves
    /\ TagsNameTheirOwner
    /\ AttributedIsEarned
    /\ SeenBuysAreClosed

(* What is judged was not chosen on the data it is judged by, nor on later *)
(* prices, filings or sessions; the labels and the fills it is judged by   *)
(* are real, and the statistics that judge it count every observation      *)
(* (service/lab.py, desk.py; mds/engine.py, edgar.py, opex.py, lob.py,     *)
(* models.py, microstructure.py, maker.py, validation.py, evaluation.py).  *)
JudgedOutOfSample ==
    /\ HoldsWhatItKnew
    /\ FilingsDoNotRewriteThePast
    /\ FlatIsKnownInTime
    /\ OutOfSample
    /\ FoldsTile
    /\ PromotedEarned
    /\ PageAgreesWithGate
    /\ PanelLabelsDoNotOverlap
    /\ HorizonsAreLabels
    /\ ReportedFillsAreReal
    /\ OnlyScoredFillsAreJudged
    /\ SplitsAreFair
    /\ PboHasNoArrow
    /\ ResamplesAreWhole
    /\ BartlettIsVariance

(* The alpha language means what is written, names apart what computes     *)
(* differently, and cannot say what looks ahead (mds/alphadsl).            *)
LanguageIsSound ==
    /\ ParsesAsRead
    /\ CanonicalTellsApart
    /\ CompiledIsCausal

(* Gains, losses, taxes, costs, purchases and floors add up: nothing is    *)
(* counted twice and nothing is left out (mds/taxaware.py, engine.py,      *)
(* trend.py, riskmgmt.py, structuring.py, microstructure.py, buyback.py).  *)
MoneyAddsUp ==
    /\ BuybacksAreYearly
    /\ HifoDefers
    /\ GainsAreAccounted
    /\ DelistingChargedOnce
    /\ AttributionAddsUp
    /\ ReplayIsWhatHappened
    /\ FloorHolds
    /\ BreakevenIsFinal

(* The limits of a book hold after every later adjustment, and limits,     *)
(* losses, gains, ranges, smiles and gaps in the data are measured and     *)
(* reported as they are (mds/riskmodel.py, riskmgmt.py, capacity.py,       *)
(* options.py, dataquality.py; service/market.py).                         *)
LimitsHold ==
    /\ CapSurvivesTheBudget
    /\ ShortfallBeyondVar
    /\ BreachesComeFirst
    /\ WaterFillingIsBest
    /\ RsiMirrors
    /\ AtrCoversTheMoves
    /\ ChainIsAPrefix
    /\ SmileIsQuoted
    /\ StaleRunIsMeasured

-----------------------------------------------------------------------------
StudyInit ==
    \/ Starts("fills", {[s \in Traders |-> <<>>]})
    \/ Starts("orders", {[page |-> n, history |-> <<>>] : n \in {2, 3}})
    \/ Starts("bars", {[cap |-> n, available |-> [s \in {"btc", "eth"} |-> 0]] : n \in {2, 3}})
    \/ Starts("lab", {[kind |-> k, xs |-> <<>>, ys |-> <<>>, live |-> NothingLive] :
                         k \in {"ma_crossover", "ts_momentum"}})
    \/ Starts("text", {<<>>})
    \/ Starts("signal", {[depth |-> 0, a |-> leaf] : leaf \in Leaves})
    \/ Starts("tax", {<<>>})
    \/ Starts("engine", {[model |-> m, p |-> [s \in Names |-> <<>>],
                          q |-> [s \in Names |-> <<>>]] : m \in {"flat", "realistic"}})
    \/ Starts("filings", {[obs |-> <<>>, now |-> 0, since |-> s] : s \in 0 .. 3})
    \/ \E empty \in {"panels", "matrix", "returns", "rebalance", "ticks", "pages", "paper", "daily",
                    "tape", "closes", "ledger", "api", "replay", "loads", "bars read", "book"} :
          Starts(empty, {<<>>})
    \/ Starts("capital", [budget : 0 .. MaxBudget, signals : SignalsOffered])
    \/ Starts("structure", [kp : 7 .. 10, kc : 10 .. 12, put : 0 .. 3, call : 0 .. 3])
    \/ Starts("chain", {[n |-> 0, rows |-> {}]})
    \/ Starts("sessions", {[day |-> 0, index |-> <<>>]})
    \/ Starts("tags", {Feed!Started})
    \/ Starts("filer", {[tag |-> t, shares |-> dei, kept |-> TRUE, bought |-> <<>>, file |-> <<>>] :
                          t \in ToSet(BuybackTags),
                          dei \in {"dei:EntityCommonStockSharesOutstanding",
                                   "CommonStockSharesOutstanding"}})
    \/ Starts("splits", {[n |-> 1, folds |-> f, minTrain |-> m, horizon |-> h] :
                            f \in {2, 3}, m \in {30, 50}, h \in 1 .. 3})

Init ==
    /\ StudyInit /\ LabInit /\ DownloadInit
    /\ TapeInit /\ (study # "replay" => venue = FirstVenue /\ ~blind)
    /\ BooksInit /\ (study # "book" => backtest = Plain("dsl"))

Next ==
    \/ FillBooked \/ OrderPlaced \/ BarPrinted
    \/ MarketCloses \/ Promotion
    \/ TokenTyped \/ SignalComposed
    \/ TradeMade \/ BarTraded \/ BookStep \/ ReportFiled
    \/ TapeStep \/ RowAdded
    \/ ReturnsRecorded \/ ReturnRecorded \/ BookRebalanced \/ TickPrinted
    \/ ContractQuoted \/ PageAnswered \/ BrokerAnswered \/ BarClosed \/ SessionHeld
    \/ LabStep
    \/ DownloadStep
    \/ FlowTick \/ CloseRecorded \/ QuarterReported \/ DeskSteps \/ BookHeld

Spec == Init /\ [][Next]_vars
=============================================================================
