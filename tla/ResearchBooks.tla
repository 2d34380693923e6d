---------------------------- MODULE ResearchBooks ----------------------------
(***************************************************************************)
(* The backtests of the research platform: what each book knew when it     *)
(* took the position it holds over a day.                                  *)
(*                                                                         *)
(* The return of day t is that from the close of t-1 to the close of t, so *)
(* a position held over it may use nothing later than t-1.                 *)
(***************************************************************************)
EXTENDS ResearchSignals

CONSTANTS
    Hold,                   \* days a position is held between rebalances
    Slack,                  \* bars a warm-up allows beyond its windows
    BlackoutPre, BlackoutGap,
    Backtests,              \* the books that are run: [kind, name, enh, overlay]
    LastDay                 \* the last day of the sample

Kinds == {"trend", "allocation", "benchmark", "cross", "neutral", "composite", "timed",
          "optimized", "forced", "voltarget", "momentum", "multifactor", "riskparity",
          "tsmomentum", "statarb", "dsl", "pairs"}
Overlays == {"none", "vol_managed", "vol_target", "regime", "allocated"}

ASSUME BooksAssumption ==
    /\ Hold \in Nat \ {0} /\ Slack \in Nat \ {0} /\ LastDay \in Nat
    /\ BlackoutPre \in Nat /\ BlackoutGap \in Nat
    /\ \A book \in Backtests : book.kind \in Kinds /\ book.overlay \in Overlays

All(P(_, _), t) == Across(P, t)

-----------------------------------------------------------------------------
(* trend._run: every Hold days, from the close of the day before.          *)

TrendStart == Year + 1

TrendDecision(t) == BlockStart(TrendStart, t, Hold)

(* Scaled to a constant volatility: as asked, or else as the enhancements   *)
(* say.                                                                     *)
VolScaled(enh, mode) == IF mode = "none" THEN "portvol" \in enh ELSE mode # "constant"

TrendHeld(enh, mode, d) ==
    LET t == TrendDecision(d)
    IN  UNION { All(LAMBDA n, s : SignalPanel(enh, n, s), t - 1),
                IF "voltarget" \in enh THEN All(InvVol, t - 1) ELSE {},
                IF VolScaled(enh, mode)
                THEN UNION {All(Ret, s) : s \in (t - Year) .. (t - 1)} ELSE {},
                IF "crash" \in enh THEN CrashScaler(t - 1) ELSE {} }

-----------------------------------------------------------------------------
(* assetalloc.backtest: position p of the return panel is day p+1, because *)
(* the first row of the returns is dropped.                                *)

DayAtPosition(p) == p + 1

AllocationStart == Year

TsMomentum(last) == All(LAMBDA n, s : Diff(Close, n, s, Half), last)

(* The allocators: what they know of the market is the covariance of the   *)
(* window (and its mean); equal weights and the 60/40 target know nothing. *)
ShrinkCov(p) == UNION {All(Ret, DayAtPosition(q)) : q \in (p - Year) .. (p - 1)}

Allocator(method, cov) == IF method \in {"equal", "sixty_forty"} THEN {} ELSE cov

MomentumTilt(base, momentum) == base \cup momentum

AllocationWeights(method, p) ==
    IF method = "risk_parity_taa"
    THEN MomentumTilt(Allocator("risk_parity", ShrinkCov(p)), TsMomentum(p))
    ELSE Allocator(method, ShrinkCov(p))

(* The turnover of a rebalance is against the weights of the block before, *)
(* drifted with its returns.                                               *)
Drifted(method, p) ==
    IF p = AllocationStart THEN {}
    ELSE AllocationWeights(method, p - Hold)
         \cup UNION {All(Ret, DayAtPosition(q)) : q \in (p - Hold) .. (p - 1)}

AllocationHeld(method, d) ==
    LET p == BlockStart(AllocationStart, d - 1, Hold)
    IN  AllocationWeights(method, p) \cup Drifted(method, p)

(* sixty_forty: the target is fixed, the cost is that of coming back to it. *)
SixtyFortyHeld(d) == Drifted("sixty_forty", BlockStart(AllocationStart, d - 1, Hold))

-----------------------------------------------------------------------------
(* crosssec.backtest: the weights of a row earn the return of the next,    *)
(* and pay for the trade they are with the liquidity of the row before.    *)

\* The position of a day is decided on the day itself.
BugLagged(d) == d

Lagged(d) == d - 1

TradeCost(d) == All(DollarAdv, Lagged(d))

CrossBook(name, d) == RawWeight(name, Lagged(d)) \cup TradeCost(d)

NeutralBook(name, d) == Neutralize(name, Lagged(d))

CompositeBook(d) == Composite(Lagged(d))

TimedBook(d) == TimedComposite(Lagged(d))

-----------------------------------------------------------------------------
(* riskmodel.py over the composite: exposures (a missing beta is one, a    *)
(* missing score none), the factor returns that explain a day by the       *)
(* exposures of the day before, and the optimized book, which trades from  *)
(* the one of the last rebalance.  Its weights are backtested with a lag.  *)

ExplainedBy(t) == t - 1

Exposures(t) == All(LAMBDA n, s : Present(RollingBeta(n, s)), t) \cup Composite(t)

FactorReturn(t) == All(Ret, t) \cup Exposures(ExplainedBy(t))

FactorWindow(t) == UNION {FactorReturn(s) : s \in {u \in (t - Year) .. (t - 1) : u >= 1}}

OptimizedWeights(t) == UNION {FactorWindow(t), Exposures(t - 1), Composite(t)}

OptimizedHeld(d) ==
    UNION {OptimizedWeights(t) : t \in {s \in Year .. Lagged(d) : (s - Year) % Hold = 0}}

-----------------------------------------------------------------------------
(* Overlays on the return of a book: portfolio.py, factortiming.py.  The   *)
(* return of day t is that of the position, held[t], and of the day.       *)

BookReturn(held, t) == held[t] \cup All(Ret, t)

(* Scaled by the volatility of its own returns up to the day before.       *)
VolManaged(held, d) ==
    held[d] \cup RollingPresent(LAMBDA n, t : BookReturn(held, t), Hedge, d - 1, Month)

VolTarget(held, d) == held[d] \cup SoFar(LAMBDA n, t : BookReturn(held, t), Hedge, d - 1)

RegimeExposure(held, d) == held[d] \cup RiskScore(d)

(* Weights over several books, from the window that ends before the block. *)
Allocated(held, d) ==
    LET t == BlockStart(Half, d, Hold)
    IN  held[d] \cup UNION {BookReturn(held, s) : s \in (t - Half) .. (t - 1)}

-----------------------------------------------------------------------------
(* engine.run: the strategy is asked at t for the block that starts at t;  *)
(* the liquidity it pays is that of t-1.                                   *)

Decision(warmup, d) == BlockStart(warmup, d, Hold)

PastDecisions(warmup, d) == {s \in warmup .. d : (s - warmup) % Hold = 0}

EngineLiquidity(method, t) ==
    All(LAMBDA n, s : EstimateLiquidity(method, n, s), t - 1)

FlowWarmup == 2 * Month

(* forcedseller.ForcedSeller and VolTargetHold.                            *)
ForcedSellerHeld(d) == FlowSignal(Hedge, Decision(FlowWarmup, d) - 1)

VolTargetHeld(d) == TargetExposure(Hedge, Decision(FlowWarmup, d) - 1)

ImplementWarmup == Year + Slack

(* implement.ImplementedMomentum.target_weights at a decision t.  With     *)
(* "smooth" the signal, momentum or a composite of factors, is an          *)
(* exponential mean of all before it.                                      *)
ImplementedSignal(factors, n, t) ==
    IF factors = {} THEN MomentumSignal(n, t) ELSE MultiFactorScore(factors, n, t)

Alpha(factors, enh, n, t) ==
    IF "smooth" \in enh THEN SoFar(LAMBDA m, s : ImplementedSignal(factors, m, s), n, t)
    ELSE ImplementedSignal(factors, n, t)

OptimizeWindow(t) == UNION {All(Ret, s) : s \in (t - Year) .. (t - 1)}

RiskWindow(t) == UNION {All(Ret, s) : s \in (t - Quarter) .. (t - 1)}

TargetWeights(factors, enh, t) ==
    UNION { All(LAMBDA n, s : Alpha(factors, enh, n, s), t - 1),
            IF "neutralize" \in enh
            THEN All(HedgeBeta, t - 1) \cup All(InvVol, t - 1) ELSE {},
            IF "optimize" \in enh THEN OptimizeWindow(t)
            ELSE UNION { IF "risk" \in enh THEN All(InvVol, t - 1) \cup RiskWindow(t) ELSE {},
                         IF "hedge" \in enh THEN All(HedgeBeta, t - 1) ELSE {} } }

(* The no-trade band and the turnover budget keep what was held before.    *)
KeepsPrevious(enh) == {"bands", "optimize"} \cap enh # {}

ImplementedHeld(factors, enh, d) ==
    IF KeepsPrevious(enh)
    THEN UNION {TargetWeights(factors, enh, t) : t \in PastDecisions(ImplementWarmup, d)}
    ELSE TargetWeights(factors, enh, Decision(ImplementWarmup, d))

(* strategies_lib: the shrunk covariance of the lookback closes before t,  *)
(* and trend_score against it.                                             *)
LookbackReturns(t) == UNION {All(Close, s) : s \in (t - Year) .. (t - 1)}

RiskParityHeld(d) == LookbackReturns(Decision(Year + Slack, d))

TsMomentumHeld(d) ==
    LET t == Decision(Year + Slack, d)
    IN  UNION { All(LAMBDA n, s : TrendScore(TRUE, n, s), t - 1),
                All(InvVol, t - 1), LookbackReturns(t) }

(* xstatarb: the residuals of the window before t on its own eigenvectors. *)
StatArbWarmup == Quarter + Slack

StatArbHeld(d) ==
    LET t == Decision(StatArbWarmup, d)
    IN  UNION {All(Ret, s) : s \in (t - Quarter) .. (t - 1)}

(* dslstrategy: the panel of an expression over the closes, at t-1.        *)
DslHeld(d) == All(InvVol, Decision(Year, d) - 1)

-----------------------------------------------------------------------------
(* statarb.walk_forward_backtest: the hedge ratio is fitted on the bars    *)
(* before a block and frozen in it; the spread of the block is formed with *)
(* it, its z-score over the last Month bars, and the position, which the   *)
(* thresholds carry from bar to bar, earns the spread of the next bar.     *)

PairBar(t) == All(Close, t)

HedgeRatio(t) ==
    LET start == BlockStart(Half, t, Hold)
    IN  UNION {PairBar(s) : s \in (start - Half) .. (start - 1)}

Spread(t) == PairBar(t) \cup HedgeRatio(t)

PairPosition(t) == UNION {Spread(s) : s \in Half .. t}

PairHeld(d) == PairPosition(Lagged(d))

(* The spread the position earns is that of the hedge ratio of its day.    *)
PairTraded(d) == PairHeld(d) \cup HedgeRatio(d)

-----------------------------------------------------------------------------
(* mechflow.backtest_overnight: decided at the close of t, held until the  *)
(* open of t+1.  `last` is the last day of the sample.                     *)
OvernightHeld(t, last) ==
    Across(LAMBDA n, s : Ret(n, s) \cup Rolling(Ret, n, s, Month) \cup RelativeFlow(n, last), t)

(* buyback.backtest: the rows kept are those of every Hold days.           *)
BlackoutHeld(d) ==
    LET t == BlockStart(0, Lagged(d), Hold)
    IN  Across(LAMBDA n, s : BlackoutMask(n, s, BlackoutPre, BlackoutGap)
                             \cup BuybackYield(n, s), t)

-----------------------------------------------------------------------------
(* What a book holds over a day.                                           *)
Positions(book, d) ==
    CASE book.kind = "trend"       -> TrendHeld(book.enh, book.name, d)
      [] book.kind = "allocation"  -> AllocationHeld(book.name, d)
      [] book.kind = "benchmark"   -> SixtyFortyHeld(d)
      [] book.kind = "cross"       -> CrossBook(book.name, d)
      [] book.kind = "neutral"     -> NeutralBook(book.name, d)
      [] book.kind = "composite"   -> CompositeBook(d)
      [] book.kind = "timed"       -> TimedBook(d)
      [] book.kind = "optimized"   -> OptimizedHeld(d)
      [] book.kind = "forced"      -> ForcedSellerHeld(d)
      [] book.kind = "voltarget"   -> VolTargetHeld(d) \cup EngineLiquidity(book.name, Decision(FlowWarmup, d))
      [] book.kind = "momentum"    -> ImplementedHeld({}, book.enh, d)
      [] book.kind = "multifactor" -> ImplementedHeld({"mom", "lowvol", "rev"}, book.enh, d)
      [] book.kind = "riskparity"  -> RiskParityHeld(d)
      [] book.kind = "tsmomentum"  -> TsMomentumHeld(d)
      [] book.kind = "statarb"     -> StatArbHeld(d)
      [] book.kind = "dsl"         -> DslHeld(d)
      [] book.kind = "pairs"       -> PairTraded(d)

(* The variants of a book that a study runs, each from the first day:      *)
(* trend's ablation, step by step and leaving one out, the split of its    *)
(* volatility target; the allocators against the benchmark.                *)
Plain(kind) == [kind |-> kind, name |-> "none", enh |-> {}, overlay |-> "none"]

AblationOrder == <<"voltarget", "multiscale", "portvol", "carry", "crash", "xs">>

AllEnh == {AblationOrder[i] : i \in DOMAIN AblationOrder}

Ablation == {{AblationOrder[i] : i \in 1 .. k} : k \in 0 .. 6}

LooAblation == {AllEnh} \cup {AllEnh \ {e} : e \in AllEnh}

VolTargetDecomposition ==
    {[Plain("trend") EXCEPT !.enh = {"voltarget", "multiscale"}, !.name = mode] :
        mode \in {"constant", "diag", "cov"}}

TrendStudies ==
    {[Plain("trend") EXCEPT !.enh = enh] : enh \in Ablation \cup LooAblation}
      \cup VolTargetDecomposition

AllocationStudy ==
    {Plain("benchmark")} \cup
    {[Plain("allocation") EXCEPT !.name = method] :
        method \in {"equal", "inverse_vol", "risk_parity", "min_variance", "max_sharpe",
                    "risk_parity_taa"}}

FirstDay(book) ==
    CASE book.kind = "trend"       -> TrendStart
      [] book.kind \in {"allocation", "benchmark"} -> DayAtPosition(AllocationStart)
      [] book.kind \in {"forced", "voltarget"} -> FlowWarmup
      [] book.kind \in {"momentum", "multifactor"} -> ImplementWarmup
      [] book.kind \in {"riskparity", "tsmomentum"} -> Year + Slack
      [] book.kind = "statarb"     -> StatArbWarmup
      [] book.kind = "pairs"       -> Half + 1
      [] OTHER                     -> Year + 1

Held(book, d) ==
    LET held == [t \in Int |-> Positions(book, t)]
    IN  CASE book.overlay = "none"        -> held[d]
          [] book.overlay = "vol_managed" -> VolManaged(held, d)
          [] book.overlay = "vol_target"  -> VolTarget(held, d)
          [] book.overlay = "regime"      -> RegimeExposure(held, d)
          [] book.overlay = "allocated"   -> Allocated(held, d)

-----------------------------------------------------------------------------
(* A backtest, day after day of its sample.                                *)
VARIABLES
    backtest,       \* the book that is run
    today

bookVars == <<backtest, today>>

BooksInit == backtest \in Backtests /\ today = 0

DayPasses ==
    /\ today < LastDay
    /\ today' = today + 1
    /\ UNCHANGED backtest

BooksSpec == BooksInit /\ [][DayPasses]_bookVars

(* The position a book holds over a day, with every signal, estimate,      *)
(* overlay and cost that went into it, was computed from observations of   *)
(* the days before: backtests, signals and overlays, each lagged on its    *)
(* own, compose without a look-ahead.                                      *)
KnownInTime(book, d) == d >= FirstDay(book) => KnownBy(Held(book, d), d - 1)

Warmed == {"trend", "allocation", "benchmark", "forced", "momentum", "multifactor", "riskparity",
           "tsmomentum", "statarb", "pairs"}

(* From its first day on, no window of a book with a warm-up reaches back  *)
(* before the sample: no position is taken on a missing value.             *)
WindowsComplete(book, d) ==
    (book.kind \in Warmed /\ d >= FirstDay(book)) => Complete(Positions(book, d))

(* Two books do see later days, and only these: a blackout is dated from   *)
(* the filings of the next BlackoutPre days, and the overnight book weighs *)
(* a name's flow by its liquidity at the end of the sample.  Price, value  *)
(* and buyback of a blackout position are those of the day before, and no  *)
(* return of a day not yet closed enters an overnight position.  The first  *)
(* day has no return, and no position.                                     *)
HindsightNamed(d, last) == d >= 1 =>
    /\ \A cell \in BlackoutHeld(d) :
         DayOf(cell) < d \/ (cell[1] = "filing" /\ DayOf(cell) < d + BlackoutPre)
    /\ \A cell \in OvernightHeld(d, last) :
         DayOf(cell) =< d \/ (cell[1] \in {"close", "volume"} /\ DayOf(cell) > last - Quarter)

(* No book of the platform holds what it could not have known, but the two *)
(* that say so, and none with a warm-up starts on a window it cannot fill  *)
(* (mds/crosssec.py, trend.py, assetalloc.py, engine.py, implement.py,     *)
(* portfolio.py, buyback.py, mechflow.py, ...).                            *)
NothingIsForeseen ==
    /\ KnownInTime(backtest, today)
    /\ WindowsComplete(backtest, today)
    /\ HindsightNamed(today, LastDay)
=============================================================================
