---------------------------- MODULE Overfitting ----------------------------
(***************************************************************************)
(* The statistics that take significance away: validation.py, and the      *)
(* paired comparison of evaluation.py.                                     *)
(*                                                                         *)
(* A matrix of returns is a sequence of rows, a row a sequence with one    *)
(* return per strategy.                                                    *)
(***************************************************************************)
EXTENDS Integers, Sequences, FiniteSets, SequencesExt, FiniteSetsExt

Added(xs) == FoldLeft(LAMBDA acc, x : acc + x, 0, xs)
Magnitude(x) == IF x < 0 THEN -x ELSE x

-----------------------------------------------------------------------------
(* pbo: the rows are cut into an even number of blocks; each half of the   *)
(* blocks is once the sample a strategy is selected on.                    *)

Even(splits) == splits - (splits % 2)

(* numpy.linspace(0, rows, blocks + 1), truncated.                         *)
Bound(rows, blocks, i) == (i * rows) \div blocks

Block(rows, blocks, i) == (Bound(rows, blocks, i - 1) + 1) .. Bound(rows, blocks, i)

Halves(blocks) == kSubset(blocks \div 2, 1 .. blocks)

Outside(half, blocks) == (1 .. blocks) \ half

RowsOf(rows, blocks, some) == UNION {Block(rows, blocks, i) : i \in some}

(* The Sharpe ratio squared with its sign, as a fraction; 0 without        *)
(* variance.                                                               *)
Sharpe(R, some, s) ==
    LET total == MapThenSumSet(LAMBDA t : R[t][s], some)
        spread == Cardinality(some) * MapThenSumSet(LAMBDA t : R[t][s] * R[t][s], some)
                    - total * total
    IN  IF spread = 0 THEN [num |-> 0, den |-> 1]
        ELSE [num |-> total * Magnitude(total), den |-> spread]

NotAbove(a, b) == a.num * b.den =< b.num * a.den

(* argmax: the first of the strategies no other exceeds.                   *)
Selected(R, some) ==
    CHOOSE s \in DOMAIN R[1] :
        \A u \in DOMAIN R[1] :
            /\ NotAbove(Sharpe(R, some, u), Sharpe(R, some, s))
            /\ u < s => ~NotAbove(Sharpe(R, some, s), Sharpe(R, some, u))

(* How many of the field the selected strategy is not below, out of        *)
(* sample.                                                                 *)
Rank(R, inside, outside) ==
    LET best == Selected(R, inside)
    IN  Cardinality({s \in DOMAIN R[1] : NotAbove(Sharpe(R, outside, s), Sharpe(R, outside, best))})

(* The share of the splits with a negative logit: those whose rank is      *)
(* below half of the field.                                                *)
Pbo(R, splits) ==
    LET n == Even(splits)
        lucky == {half \in Halves(n) :
                     2 * Rank(R, RowsOf(Len(R), n, half), RowsOf(Len(R), n, Outside(half, n)))
                       < Len(R[1])}
    IN  [num |-> Cardinality(lucky), den |-> Cardinality(Halves(n))]

-----------------------------------------------------------------------------
(* newey_west_sharpe_tstat: the long-run variance, times the number of     *)
(* returns cubed and the number of lags plus one.                          *)

(* The Bartlett weight of a lag, times lags + 1.                           *)
Bartlett(lags, lag) == lags + 1 - lag

Deviation(r, i) == Len(r) * r[i] - Added(r)

Autocovariance(r, lag) == Added([i \in 1 .. Len(r) - lag |-> Deviation(r, i) * Deviation(r, i + lag)])

LongRunVariance(r, lags) ==
    (lags + 1) * Autocovariance(r, 0)
      + Added([lag \in 1 .. Min({lags, Len(r) - 1}) |->
                 2 * Bartlett(lags, lag) * Autocovariance(r, lag)])

-----------------------------------------------------------------------------
(* block_bootstrap_sharpe_ci, paired_sharpe_diff_ci: whole blocks of rows, *)
(* one after the other, cut to the length of the sample.                   *)

BlocksDrawn(n, block) == (n + block - 1) \div block

BlockStarts(n, block) == 0 .. n - block

Resample(n, block, starts) ==
    LET drawn == FlattenSeq([k \in 1 .. BlocksDrawn(n, block) |->
                               [j \in 1 .. block |-> starts[k] + j]])
    IN  SubSeq(drawn, 1, Min({n, Len(drawn)}))

-----------------------------------------------------------------------------
(* Every split tests on all it was not selected on, and every row of the   *)
(* sample is selected on as often as it is tested on, also when the rows   *)
(* do not divide into the blocks.                                          *)
SplitsAreFair(rows, splits) ==
    LET n == Even(splits)
    IN  /\ \A half \in Halves(n) :
             LET inside == RowsOf(rows, n, half)
                 outside == RowsOf(rows, n, Outside(half, n))
             IN  inside \cap outside = {} /\ inside \cup outside = 1 .. rows
        /\ \A t \in 1 .. rows :
             2 * Cardinality({half \in Halves(n) : t \in RowsOf(rows, n, half)})
               = Cardinality(Halves(n))

(* The cross-validation is symmetric: run on the sample backwards, it      *)
(* finds the same probability.                                             *)
PboHasNoArrow(R, splits) ==
    Len(R) % Even(splits) = 0 => Pbo(R, splits) = Pbo(Reverse(R), splits)

(* What is taken for a variance is never negative, whatever the returns    *)
(* and the lags: the t-statistic never falls back to zero on returns that  *)
(* vary.                                                                   *)
BartlettIsVariance(r) == \A lags \in 1 .. Len(r) : LongRunVariance(r, lags) >= 0

(* A resample has as many rows as the sample, all of them rows of the      *)
(* sample, so that both sides of a paired comparison are drawn alike.      *)
ResamplesAreWhole(n, block) ==
    \A starts \in [1 .. BlocksDrawn(n, block) -> BlockStarts(n, block)] :
        LET rows == Resample(n, block, starts)
        IN  Len(rows) = n /\ ToSet(rows) \subseteq 1 .. n
=============================================================================
