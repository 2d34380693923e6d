----------------------------- MODULE BookLimits -----------------------------
(***************************************************************************)
(* How large a book may be: the position cap and the turnover budget of    *)
(* mds/riskmodel.py, the loss measures and the mandate of riskmgmt.py, the *)
(* capacity of a signal in capacity.py.  And the ledger of a walk-forward  *)
(* book (trend.py _run, attribution) with the risk reports drawn from it.  *)
(*                                                                         *)
(* Weights are fractions [v, den]: name n has the weight v[n] / den.  The  *)
(* gross target is 1.                                                      *)
(***************************************************************************)
EXTENDS Integers, Sequences, FiniteSets, SequencesExt, FiniteSetsExt, Functions

CONSTANTS
    Assets,
    CapNum, CapDen,         \* the position cap
    BudgetNum, BudgetDen,   \* the turnover budget
    Passes,                 \* clip and renormalise passes
    TailNum, TailDen,       \* one minus the confidence of a loss measure
    MinReturns,             \* the shortest history a loss is measured on
    PriceStep,              \* the shadow prices the bisection tells apart
    Sleeve,                 \* SLEEVES: of the assets it names, the sleeve
    Every,                  \* days between rebalances
    Cost,                   \* what turning over a unit of weight costs
    Gap                     \* a return that is missing

Abs(x) == IF x < 0 THEN -x ELSE x
Clamp(x, bound) == Max({-bound, Min({bound, x})})
Across(f) == FoldFunction(LAMBDA x, acc : x + acc, 0, f)
GrossOf(v) == Across([n \in Assets |-> Abs(v[n])])

Gcd[a \in Nat, b \in Nat] == IF b = 0 THEN a ELSE Gcd[b, a % b]

(* The same weights in lowest terms.                                       *)
Reduced(w) ==
    LET g == FoldFunction(LAMBDA x, acc : Gcd[Abs(x), acc], w.den, w.v)
    IN  [v |-> [n \in Assets |-> IF w.v[n] < 0 THEN -(Abs(w.v[n]) \div g) ELSE w.v[n] \div g],
         den |-> w.den \div g]

-----------------------------------------------------------------------------
(* riskmodel.optimize, after the solution: an integer vector stands for    *)
(* its multiple of gross 1.                                                *)

ScaleGross(v) == [v |-> v, den |-> Max({1, GrossOf(v)})]

WithinCap(w) == \A n \in Assets : Abs(w.v[n]) * CapDen =< CapNum * w.den

Clipped(w) == [v |-> [n \in Assets |-> Clamp(w.v[n] * CapDen, CapNum * w.den)],
               den |-> CapDen * w.den]

(* One pass: clip, take out the mean, back to the gross target.            *)
ClipPass(w) ==
    LET v == Clipped(w).v
    IN  ScaleGross([n \in Assets |-> Cardinality(Assets) * v[n] - Across(v)])

AfterPasses(w) ==
    LET Step(st, k) == IF st.done THEN st
                       ELSE LET u == ClipPass(st.w) IN [w |-> u, done |-> WithinCap(u)]
    IN  FoldLeft(Step, [w |-> w, done |-> FALSE], [k \in 1 .. Passes |-> k])

\* Takes the last pass for good.
BugCapped(w) == AfterPasses(w).w

(* A projection that does not settle is clipped once more: it may then be  *)
(* neither neutral nor of the gross target, but it is within the cap.      *)
Capped(w) ==
    LET st == AfterPasses(w)
    IN  IF st.done THEN st.w ELSE Clipped(st.w)

Trade(target, prev) == [n \in Assets |-> target.v[n] * prev.den - prev.v[n] * target.den]

(* What the trade from prev to target amounts to, against the budget.      *)
WithinBudget(target, prev) ==
    GrossOf(Trade(target, prev)) * BudgetDen =< BudgetNum * target.den * prev.den

(* _apply_turnover_budget: as far as the budget goes, straight towards the *)
(* target.                                                                 *)
Budgeted(target, prev) ==
    IF WithinBudget(target, prev) THEN target
    ELSE LET d == Trade(target, prev)
             g == GrossOf(d)
         IN  Reduced([v |-> [n \in Assets |-> prev.v[n] * BudgetDen * g + BudgetNum * d[n] * prev.den],
                      den |-> prev.den * BudgetDen * g])

(* optimize up to the turnover budget.                                     *)
Target(solution) == Reduced(Capped(ScaleGross(solution)))

(* optimized_weights: the first rebalance has no book to trade from.       *)
Rebalanced(held, target) ==
    Append(held, IF held = <<>> THEN target ELSE Budgeted(target, Last(held)))

Book(solutions) ==
    FoldLeft(Rebalanced, <<>>, [k \in DOMAIN solutions |-> Target(solutions[k])])

-----------------------------------------------------------------------------
(* riskmgmt.py: the historical value at risk and expected shortfall of the *)
(* returns r, in units of 1 / TailDen.                                     *)

Sorted(r) == SortSeq(r, LAMBDA a, b : a < b)

(* numpy.percentile: between the two returns the tail ends between.        *)
Cutoff(r) ==
    LET s == Sorted(r)
        at == (Len(s) - 1) * TailNum
        k == at \div TailDen + 1
        next == Min({k + 1, Len(s)})
    IN  s[k] * TailDen + (at % TailDen) * (s[next] - s[k])

ValueAtRisk(r) == IF Len(r) < MinReturns THEN 0 ELSE -Cutoff(r)

Tailed(r) == SelectSeq(r, LAMBDA x : x * TailDen =< Cutoff(r))

ExpectedShortfall(r) ==
    LET tail == Tailed(r)
    IN  CASE Len(r) < MinReturns -> [num |-> 0, den |-> 1]
          [] Len(r) >= MinReturns /\ tail = <<>> -> [num |-> -Cutoff(r), den |-> 1]
          [] OTHER -> [num |-> -TailDen * FoldLeft(LAMBDA acc, x : acc + x, 0, tail), den |-> Len(tail)]

-----------------------------------------------------------------------------
(* check_limits on a book [day -> [name -> weight]] and its sleeves.       *)

GrossValue(days) == Max({GrossOf(days[t]) : t \in DOMAIN days})

NameValue(days) == Max({Abs(days[t][n]) : t \in DOMAIN days, n \in Assets})

SleeveValue(days, sleeve) ==
    Max({Abs(Across([n \in {m \in Assets : sleeve[m] = x} |-> days[t][n]])) :
            t \in DOMAIN days, x \in {sleeve[m] : m \in Assets}})

Breached(c) == c.value > c.cap

Worse(a, b) == a.value * b.cap > b.value * a.cap

CheckLimits(days, sleeve, caps) ==
    SortSeq(<<[limit |-> "max_gross", value |-> GrossValue(days), cap |-> caps.gross],
              [limit |-> "max_name_weight", value |-> NameValue(days), cap |-> caps.name],
              [limit |-> "max_sleeve_weight", value |-> SleeveValue(days, sleeve), cap |-> caps.sleeve]>>,
            Worse)

-----------------------------------------------------------------------------
(* capacity.py: a signal of rate mu and impact lam deploys mu - nu over    *)
(* 2 lam at the shadow price nu.                                           *)

Profit(mu, lam, c) == mu * c - lam * c * c

Deployed(mu, lam, nu) == Max({0, (mu - nu) \div (2 * lam)})

(* allocate_with_capacity bisects for the least shadow price the budget    *)
(* can pay.                                                                *)
ShadowPrice(signals, budget) ==
    LET top == Max({s.mu : s \in ToSet(signals)})
        Spent(nu) == FoldLeft(LAMBDA acc, s : acc + Deployed(s.mu, s.lam, nu), 0, signals)
        prices == {top - PriceStep * k : k \in 0 .. 2 * budget * Max({s.lam : s \in ToSet(signals)})}
    IN  Min({nu \in prices : Spent(nu) =< budget})

Allocation(signals, budget) ==
    LET nu == ShadowPrice(signals, budget)
    IN  [i \in DOMAIN signals |-> Deployed(signals[i].mu, signals[i].lam, nu)]

-----------------------------------------------------------------------------
(* Trading part of the way to the target never breaks the position cap,    *)
(* whether the projection settled or not, and from the second rebalance on *)
(* no trade exceeds the budget.                                            *)
CapSurvivesTheBudget(solutions) ==
    LET held == Book(solutions)
    IN  /\ \A k \in DOMAIN held : WithinCap(held[k])
        /\ \A k \in 2 .. Len(held) : WithinBudget(held[k], held[k - 1])

(* The expected shortfall is no less than the value at risk it is the      *)
(* tail of.                                                                *)
ShortfallBeyondVar(r) ==
    LET es == ExpectedShortfall(r) IN es.num >= ValueAtRisk(r) * es.den

(* No limit that holds is reported ahead of one that is broken.            *)
BreachesComeFirst(days, sleeve, caps) ==
    LET report == CheckLimits(days, sleeve, caps)
    IN  \A i, j \in DOMAIN report : (i < j /\ Breached(report[j])) => Breached(report[i])

(* Of all ways to deploy the capital it deploys, the allocation earns the  *)
(* most after impact.                                                      *)
WaterFillingIsBest(signals, budget) ==
    LET best == Allocation(signals, budget)
        Earned(c) == FoldLeft(LAMBDA acc, i : acc + Profit(signals[i].mu, signals[i].lam, c[i]),
                              0, [i \in DOMAIN signals |-> i])
        spent == FoldLeft(LAMBDA acc, x : acc + x, 0, best)
    IN  \A c \in [DOMAIN signals -> 0 .. budget] :
            FoldLeft(LAMBDA acc, x : acc + x, 0, [i \in DOMAIN c |-> c[i]]) = spent => Earned(c) =< Earned(best)

-----------------------------------------------------------------------------
(* The ledger.  A day is [r, w]: the return of every asset, or Gap, and    *)
(* the target weights a rebalance of that day would set.  Returns are in   *)
(* percent, P&L in percent of a unit of weight.                            *)
AbsOf(x) == IF x < 0 THEN -x ELSE x

Flat(days) == [a \in DOMAIN days[1].w |-> 0]

RebalanceDay(d) == d - ((d - 1) % Every)

Weights(days, d) == IF d < 1 THEN Flat(days) ELSE days[RebalanceDay(d)].w

(* The turnover charged on a rebalance day, against the previous target.   *)
Turnover(days, d) ==
    IF RebalanceDay(d) # d THEN 0
    ELSE SumFunction([a \in DOMAIN days[d].w |-> AbsOf(Weights(days, d)[a] - Weights(days, d - 1)[a])])

(* A return that is missing leaves the book without one.                   *)
Whole(day) == \A a \in DOMAIN day.r : day.r[a] # Gap

NetReturn(days, d) ==
    IF ~Whole(days[d]) THEN Gap
    ELSE SumFunction([a \in DOMAIN days[d].w |-> Weights(days, d)[a] * days[d].r[a]])
           - Cost * Turnover(days, d)

(* attribution: what each asset contributed over a window, gaps left out.  *)
Contribution(days, window) ==
    [a \in DOMAIN days[1].w |->
       SumFunction([d \in window |->
                      IF days[d].r[a] = Gap THEN 0 ELSE Weights(days, d)[a] * days[d].r[a]])]

SleeveOf(a) == IF a \in DOMAIN Sleeve THEN Sleeve[a] ELSE "Other"

SleeveNames == {Sleeve[a] : a \in DOMAIN Sleeve} \union {"Other"}

BySleeve(perAsset) ==
    [s \in SleeveNames |-> SumFunctionOnSet(perAsset, {a \in DOMAIN perAsset : SleeveOf(a) = s})]

(* marginal_risk_contributions, times the volatility of the book; and its  *)
(* variance.                                                               *)
RiskContribution(w, cov) ==
    [a \in DOMAIN w |-> w[a] * SumFunction([b \in DOMAIN w |-> cov[{a, b}] * w[b]])]

Variance(w, cov) ==
    SumFunction([p \in (DOMAIN w) \X (DOMAIN w) |-> w[p[1]] * w[p[2]] * cov[{p[1], p[2]}]])

(* stress_test: today's weights through the whole days of a window.        *)
Replayed(w, day, columns) ==
    SumFunction([i \in DOMAIN columns |-> w[columns[i]] * day.r[columns[i]]])

StressDays(days, window) == {d \in window : Whole(days[d])}

StressTest(days, window, w, columns) ==
    LET seg == StressDays(days, window)
        book == [d \in seg |-> Replayed(w, days[d], columns)]
    IN  [nDays |-> Cardinality(seg),
         worst |-> IF seg = {} THEN 0 ELSE Min({book[d] : d \in seg}),
         growth |-> FoldFunction(LAMBDA x, acc : acc * (100 + x), 1, book)]

Between(i, j) == i .. j

-----------------------------------------------------------------------------
(* What the book earned, its costs given back.                             *)
GrossReturn(days, d) == NetReturn(days, d) + Cost * Turnover(days, d)

(* "They sum to the gross-of-cost net return": over every regime without a *)
(* gap, the sleeves' P&L is the net return of the book and the costs it    *)
(* paid, and the sleeves' risk is the variance of the book.                *)
AttributionAddsUp(days, cov) ==
    \A i, j \in DOMAIN days :
        LET window == Between(i, j)
        IN  (\A d \in window : Whole(days[d])) =>
              /\ SumFunction(BySleeve(Contribution(days, window)))
                   = SumFunction([d \in window |-> GrossReturn(days, d)])
              /\ SumFunction(BySleeve(RiskContribution(Weights(days, j), cov)))
                   = Variance(Weights(days, j), cov)

(* A replayed window costs today's book what it cost the book that held    *)
(* the same weights through it, trading costs apart, gaps or not.          *)
ReplayIsWhatHappened(days, columns) ==
    \A i, j \in DOMAIN days :
        LET window == Between(i, j)
            w == Weights(days, j)
            seg == StressDays(days, window)
            earned == [d \in seg |-> GrossReturn(days, d)]
        IN  (seg # {} /\ \A d \in window : Weights(days, d) = w) =>
              /\ StressTest(days, window, w, columns).worst = Min({earned[d] : d \in seg})
              /\ StressTest(days, window, w, columns).growth
                   = FoldFunction(LAMBDA x, acc : acc * (100 + x), 1, earned)
=============================================================================
