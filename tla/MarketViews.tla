---------------------------- MODULE MarketViews ----------------------------
(***************************************************************************)
(* What the desk shows of the market: the technicals of service/market.py, *)
(* the expiration calendar of mds/opex.py, and the audit of a panel of     *)
(* closes of mds/dataquality.py.                                           *)
(*                                                                         *)
(* Wilder's averages divide by n at every bar; they are kept multiplied    *)
(* by n for every bar they have seen.                                      *)
(***************************************************************************)
EXTENDS Integers, Sequences, FiniteSets, SequencesExt, FiniteSetsExt

CONSTANTS
    N,                      \* bars of a Wilder average
    Week,                   \* sessions before and after an expiry
    Missing,                \* a close that is not there
    StaleRun,               \* repeated closes that flag a symbol
    JumpNum, JumpDen,       \* a move that flags it
    MinNum, MinDen          \* the coverage it must have

Total(xs) == FoldLeft(LAMBDA acc, x : acc + x, 0, xs)
Up(d) == IF d > 0 THEN d ELSE 0
Down(d) == IF d < 0 THEN -d ELSE 0
Size(d) == IF d < 0 THEN -d ELSE d

Smoothed(avg, x) == [avg |-> avg.avg * (N - 1) + x * avg.scale, scale |-> avg.scale * N]

(* Seeded with the plain average of the first N.                           *)
Wilder(xs) ==
    FoldLeft(Smoothed, [avg |-> Total(SubSeq(xs, 1, N)), scale |-> N], SubSeq(xs, N + 1, Len(xs)))

-----------------------------------------------------------------------------
(* A bar is [h, l, c].                                                     *)

Closes(bars) == [i \in DOMAIN bars |-> bars[i].c]

Deltas(closes) == [i \in 1 .. Len(closes) - 1 |-> closes[i + 1] - closes[i]]

AvgGain(closes) == Wilder([i \in DOMAIN Deltas(closes) |-> Up(Deltas(closes)[i])]).avg
AvgLoss(closes) == Wilder([i \in DOMAIN Deltas(closes) |-> Down(Deltas(closes)[i])]).avg

(* _rsi: 100 when nothing was lost.                                        *)
Rsi(closes) ==
    LET gain == AvgGain(closes)
        loss == AvgLoss(closes)
    IN  IF loss = 0 THEN [num |-> 100, den |-> 1] ELSE [num |-> 100 * gain, den |-> gain + loss]

TrueRange(bar, before) == Max({bar.h - bar.l, Size(bar.h - before.c), Size(bar.l - before.c)})

(* _atr                                                                    *)
Atr(bars) == Wilder([i \in 1 .. Len(bars) - 1 |-> TrueRange(bars[i + 1], bars[i])])

Enough(bars) == Len(bars) > N

-----------------------------------------------------------------------------
(* opex.opex_phase over a calendar of sessions: the expiry is the first    *)
(* session from the third Friday on, if the index reaches that far.        *)

Position(index, friday) == Cardinality({i \in DOMAIN index : index[i] < friday}) + 1

Expirations(index, fridays) == {p \in {Position(index, f) : f \in fridays} : p =< Len(index)}

PostOpex(p) == (p + 1) .. (p + Week)

OpexWeek(p) == Max({1, p - (Week - 1)}) .. p

Phase(index, fridays, i) ==
    LET at == Expirations(index, fridays)
    IN  IF \E p \in at : i \in PostOpex(p) THEN "post_opex"
        ELSE IF \E p \in at : i \in OpexWeek(p) THEN "opex_week" ELSE "rest"

(* OpexTiming.target_weights: over bar t, by the phase of the bar before.  *)
Weight(index, fridays, t) == IF Phase(index, fridays, t - 1) = "post_opex" THEN 0 ELSE 1

-----------------------------------------------------------------------------
(* The relative strength reads gains and losses alike: of a series and its *)
(* mirror image the two indices make up the scale, whenever prices moved.  *)
RsiMirrors(bars) ==
    Enough(bars) =>
        LET xs == Closes(bars)
            a == Rsi(xs)
            b == Rsi([i \in DOMAIN xs |-> -xs[i]])
        IN  (\E i \in DOMAIN xs : xs[i] # xs[1]) =>
                a.num * b.den + b.num * a.den = 100 * a.den * b.den

(* The average true range covers what the closes moved, overnight gaps     *)
(* included: it is at least the average gain and the average loss of the   *)
(* relative strength together.                                             *)
AtrCoversTheMoves(bars) ==
    Enough(bars) =>
        Atr(bars).avg >= AvgGain(Closes(bars)) + AvgLoss(Closes(bars))

(* Out of the market only when it is known to be time: the weight the      *)
(* backtest holds over a bar, from phases of the whole sample, is the one  *)
(* the sessions before the bar give.                                       *)
FlatIsKnownInTime(index, fridays) ==
    \A t \in 2 .. Len(index) :
        Weight(index, fridays, t) = Weight(SubSeq(index, 1, t - 1), fridays, t)

-----------------------------------------------------------------------------
(* The data-quality gate over one symbol's closes.                         *)
IsClose(c) == c # Missing

PresentCloses(s) == SelectSeq(s, IsClose)

(* Repeated closes are counted in groups that each change starts anew.      *)
Repeats(vals) ==
    LET group == [i \in DOMAIN vals |->
                    Cardinality({j \in 2 .. i : vals[j] # vals[j - 1]})]
        zeros(g) == {i \in DOMAIN vals : group[i] = g /\ i > 1 /\ vals[i] = vals[i - 1]}
    IN {Cardinality(zeros(group[i])) : i \in DOMAIN vals}

MaxStaleRun(s) == LET n == Repeats(PresentCloses(s)) IN IF n = {} THEN 0 ELSE Max(n)

(* pct_change knows a return between two adjacent closes only.              *)
Jumps(s) ==
    {i \in 2 .. Len(s) :
        /\ IsClose(s[i]) /\ IsClose(s[i - 1])
        /\ LET d == s[i] - s[i - 1]
           IN (IF d < 0 THEN -d ELSE d) * JumpDen > JumpNum * s[i - 1]}

Flag(s) ==
    \/ Len(PresentCloses(s)) * MinDen < MinNum * Len(s)
    \/ MaxStaleRun(s) >= StaleRun
    \/ Jumps(s) # {}
    \/ \E i \in DOMAIN s : IsClose(s[i]) /\ s[i] =< 0

(* assert_clean: no symbol flagged and no date twice.                       *)
Clean(panel, dates) ==
    /\ \A k \in DOMAIN panel : ~Flag(panel[k])
    /\ \A i, j \in DOMAIN dates : dates[i] = dates[j] => i = j

----------------------------------------------------------------------------
(* A run of identical closes, missing bars skipped.                         *)
IsRun(vals, i, j) == \A k \in i .. j : vals[k] = vals[i]

(* The longest run of identical closes holds one close more than the audit  *)
(* reports; a column that is let through has none longer than StaleRun.     *)
StaleRunIsMeasured(s) ==
    LET vals == SelectSeq(s, IsClose)
        n == Len(vals)
        longest == Max({j - i + 1 : <<i, j>> \in {p \in (1 .. n) \X (1 .. n) :
                                                    p[1] =< p[2] /\ IsRun(vals, p[1], p[2])}})
    IN n > 0 => /\ MaxStaleRun(s) + 1 = longest
                /\ Clean(<<s>>, [i \in DOMAIN s |-> i]) => longest =< StaleRun
=============================================================================
