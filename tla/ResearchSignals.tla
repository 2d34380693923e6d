---------------------------- MODULE ResearchSignals ----------------------------
(***************************************************************************)
(* The signals of the research platform (src/research/mds), each as the    *)
(* observations its value for a name on a day is computed from.            *)
(*                                                                         *)
(* The modules compute with pandas frames, dates by names.  A number that  *)
(* leaks from the future looks like any other number, so the models keep,  *)
(* in place of each value, the set of raw observations it reads: triples   *)
(* <<series, name, day>>.  Arithmetic of two values is the union of what   *)
(* they read; shift, diff and rolling move along the days; a cross-section *)
(* gathers every name of one day.  Day 0 is the first of the sample.  An   *)
(* observation of a negative day is one that does not exist: a value that  *)
(* reads one is missing (NaN).                                             *)
(*                                                                         *)
(* The windows are those of the code in proportion: Week, Month, Quarter,  *)
(* Half and Year stand for 5, 21, 63, 126 and 252 trading days.            *)
(***************************************************************************)
EXTENDS Integers, FiniteSets

CONSTANTS
    Stocks,                 \* the names of a cross-section
    Hedge,                  \* the index that hedges a book of stocks
    Sector,                 \* [Stocks -> sectors]
    FredDays,               \* days on which the macro series has a value
    FilingDays,             \* days on which a quarterly report is filed
    Week, Month, Quarter, Half, Year

ASSUME WindowsGrow ==
    /\ {Week, Month, Quarter, Half, Year} \subseteq Nat \ {0}
    /\ Week < Month /\ Month < Quarter /\ Quarter < Half /\ Half < Year
    /\ FredDays \subseteq Int /\ FilingDays \subseteq Int

Obs(series, n, t) == {<<series, n, t>>}

DayOf(cell) == cell[3]

KnownBy(cells, t) == \A cell \in cells : DayOf(cell) =< t

Complete(cells) == \A cell \in cells : DayOf(cell) >= 0

(* x.diff(k), x.pct_change(k), x / x.shift(k).                             *)
Diff(P(_, _), n, t, k) == P(n, t) \cup P(n, t - k)

(* The rows first..last, whole.                                            *)
Rows(P(_, _), n, first, last) == UNION {P(n, s) : s \in first .. last}

(* x.rolling(w): the w rows that end at t.                                 *)
Rolling(P(_, _), n, t, w) == Rows(P, n, t - w + 1, t)

(* The same with min_periods, an expanding or an exponential window: the   *)
(* rows of the window that are not missing.                                *)
RollingPresent(P(_, _), n, t, w) ==
    UNION {P(n, s) : s \in {u \in (t - w + 1) .. t : Complete(P(n, u))}}

SoFar(P(_, _), n, t) == RollingPresent(P, n, t, t + 1)

(* A cross-sectional operation on row t: mean, z-score, rank, demeaning.   *)
Across(P(_, _), t) == UNION {P(n, t) : n \in Stocks}

(* First day of the block of `every` days, counted from `first`, that day  *)
(* t is in: for t in range(first, len, every).                             *)
BlockStart(first, t, every) == t - ((t - first) % every)

Close(n, t)  == Obs("close", n, t)
Volume(n, t) == Obs("volume", n, t)
Ret(n, t)    == Diff(Close, n, t, 1)

-----------------------------------------------------------------------------
(* trend.py *)

Lookbacks == {Month, Quarter, Half, Year}

TrendScore(multiscale, n, t) ==
    IF multiscale
    THEN UNION {Diff(Close, n, t, w) \cup Rolling(Ret, n, t, w) : w \in Lookbacks}
    ELSE Diff(Close, n, t, Year)

(* Total return minus price return over a year.                            *)
CarryScore(n, t) ==
    Diff(LAMBDA m, s : Obs("total", m, s), n, t, Year) \cup Diff(Close, n, t, Year)

SkipMonth(n, t) == Close(n, t - Month) \cup Close(n, t - Year)

(* _xs_z: standardized across the assets of a date.                        *)
XsCarry(t)    == Across(CarryScore, t)
XsMomentum(t) == Across(SkipMonth, t)

CrashScaler(t) ==
    UNION {Across(Ret, s) : s \in (t - Half + 1) .. t}

InvVol(n, t) == Rolling(Ret, n, t, Quarter)

SignalPanel(enh, n, t) ==
    LET trend(m, s) == TrendScore("multiscale" \in enh, m, s)
    IN  UNION { trend(n, t),
                IF "carry" \in enh THEN Across(trend, t) \cup XsCarry(t) ELSE {},
                IF "xs" \in enh THEN XsMomentum(t) ELSE {} }

-----------------------------------------------------------------------------
(* crosssec.py *)

(* The equal-weight return of every other name.                            *)
LooMarket(n, t) == UNION {Ret(m, t) : m \in Stocks \ {n}}

RollingBeta(n, t) == Rolling(Ret, n, t, Half) \cup Rolling(LooMarket, n, t, Half)

(* The variance of the residual of the same regression.                    *)
IdioVol(n, t) == RollingBeta(n, t)

SectorRelative(P(_, _), n, t) ==
    UNION {P(m, t) : m \in {k \in Stocks : Sector[k] = Sector[n]}}

Overnight(n, t) == Obs("open", n, t) \cup Close(n, t - 1)

VwapGap(n, t) == Close(n, t) \cup Obs("vwap", n, t)

TradeSize(n, t) == Volume(n, t) \cup Obs("trades", n, t)

SignalNames ==
    {"momentum", "reversal", "low_vol", "bab", "idio_vol", "risk_adj_mom",
     "sector_rel_mom", "overnight", "sector_rel_rev", "vwap_pressure",
     "max_lottery", "flow_pressure", "trade_size_trend"}

Signal(name, n, t) ==
    CASE name = "momentum"         -> SkipMonth(n, t)
      [] name = "reversal"         -> Rolling(Ret, n, t, Week)
      [] name = "low_vol"          -> Rolling(Ret, n, t, Month)
      [] name = "bab"              -> RollingBeta(n, t)
      [] name = "idio_vol"         -> IdioVol(n, t)
      [] name = "risk_adj_mom"     -> SkipMonth(n, t) \cup IdioVol(n, t)
      [] name = "sector_rel_mom"   -> SectorRelative(SkipMonth, n, t)
      [] name = "overnight"        -> Rolling(Overnight, n, t, Month)
      [] name = "sector_rel_rev"   ->
            Rolling(LAMBDA m, s : SectorRelative(Ret, m, s), n, t, Week)
      [] name = "vwap_pressure"    -> Rolling(VwapGap, n, t, Week)
      [] name = "max_lottery"      -> Rolling(Ret, n, t, Month)
      [] name = "flow_pressure"    ->
            Rolling(VwapGap, n, t, Week) \cup Rolling(Volume, n, t, Week)
      [] name = "trade_size_trend" ->
            Rolling(LAMBDA m, s : Rolling(TradeSize, m, s, Month), n, t, Quarter)

(* The dollar volume a trade of day t is sized by ends the day before.     *)
DollarAdv(n, t) ==
    RollingPresent(LAMBDA m, s : Close(m, s) \cup Volume(m, s), n, t - 1, Month)

-----------------------------------------------------------------------------
(* factors.py and factortiming.py: the signals grouped in families, each   *)
(* cell blended from the members that are present.                         *)

Families ==
    [value    |-> {"earnings_yield"},
     quality  |-> {"gross_profitability", "roe", "accruals", "asset_growth"},
     momentum |-> {"momentum", "risk_adj_mom", "sector_rel_mom", "overnight"},
     reversal |-> {"reversal", "sector_rel_rev", "vwap_pressure"},
     low_risk |-> {"low_vol", "bab", "idio_vol", "max_lottery"},
     flow     |-> {"flow_pressure", "trade_size_trend"}]

(* The facts filed so far, the price for those that are a yield.           *)
FiledSoFar(n, t) == UNION {Obs("fact", n, f) : f \in {g \in FilingDays : g =< t}}

Fundamental(name, n, t) ==
    FiledSoFar(n, t) \cup (IF name = "earnings_yield" THEN Close(n, t) ELSE {})

Score(name, n, t) ==
    IF name \in SignalNames THEN Signal(name, n, t) ELSE Fundamental(name, n, t)

(* crosssec.py raw_weights; its residual on beta and the sectors of the    *)
(* names held that day.                                                    *)
RawWeight(name, t) == Across(LAMBDA n, s : Score(name, n, s), t)

Neutralize(name, t) == RawWeight(name, t) \cup Across(RollingBeta, t)

Present(cells) == IF Complete(cells) THEN cells ELSE {}

Standardize(name, t) == Across(LAMBDA n, s : Present(Score(name, n, s)), t)

Blend(names, t) == UNION {Standardize(name, t) : name \in names}

FamilyScore(family, t) == Blend(Families[family], t)

Composite(t) == UNION {FamilyScore(family, t) : family \in DOMAIN Families}

(* macro.py: the score of a day the macro series has a value on, and of a  *)
(* trading day: the last value known, and that of the day before.          *)
Macro(n, t) == UNION {Obs(series, n, t) : series \in {"hy", "ig", "vix"}}

FredFrame(n, t) == UNION {Macro(n, s) : s \in {u \in FredDays : u =< t}}

RiskAppetite(t) ==
    RollingPresent(FredFrame, Hedge, t, Year) \cup FredFrame(Hedge, t - Month)

LastFred(t) == {u \in FredDays : u =< t /\ \A v \in FredDays : v =< t => v =< u}

RiskScore(t) == UNION {RiskAppetite(u) : u \in LastFred(t - 1)}

(* The family weights of a day move with its score.                        *)
TimedComposite(t) == Composite(t) \cup RiskScore(t)

-----------------------------------------------------------------------------
(* forcedseller.py, opex.py, multifactor.py, implement.py, execution.py *)

RealizedVol(n, t) == Rolling(Ret, n, t, Month)

TargetExposure(n, t) == RealizedVol(n, t)

ForcedFlow(n, t) == Diff(TargetExposure, n, t, Week)

FlowSignal(n, t) == ForcedFlow(n, t)

FactorScore(factor, n, t) ==
    CASE factor = "mom"    -> SkipMonth(n, t)
      [] factor = "lowvol" -> Rolling(Ret, n, t, Year)
      [] factor = "rev"    -> Diff(Close, n, t, Month)

MultiFactorScore(factors, n, t) ==
    UNION {Across(LAMBDA m, s : FactorScore(f, m, s), t) : f \in factors}

MomentumSignal(n, t) == SkipMonth(n, t)

(* Rolling beta of a stock to the hedge.                                   *)
HedgeBeta(n, t) == Rolling(Ret, n, t, Half) \cup Rolling(Ret, Hedge, t, Half)

HighLow(n, t) == Obs("high", n, t) \cup Obs("low", n, t)

CorwinSchultz(n, t) ==
    Rolling(LAMBDA m, s : Diff(HighLow, m, s, 1), n, t, Month)

Adv(n, t) == Rolling(LAMBDA m, s : Close(m, s) \cup Volume(m, s), n, t, Month)

EstimateLiquidity(method, n, t) ==
    UNION { Adv(n, t), Rolling(Ret, n, t, Quarter),
            IF method = "corwin_schultz" THEN CorwinSchultz(n, t) ELSE Adv(n, t) }

-----------------------------------------------------------------------------
(* mechflow.py and buyback.py *)

(* The liquidity a name's forced flow is measured by is that of the last   *)
(* row of the sample.                                                      *)
RelativeFlow(n, last) ==
    Rolling(LAMBDA m, s : Close(m, s) \cup Volume(m, s), n, last, Quarter)

(* A day is in a blackout when a report is filed Gap to Pre days after it. *)
BlackoutMask(n, t, pre, gap) ==
    UNION {Obs("filing", n, f) : f \in FilingDays \cap (t + gap .. t + pre)}

BuybackYield(n, t) == FiledSoFar(n, t) \cup Close(n, t)
=============================================================================
