---------------------------- MODULE CompanyFacts ----------------------------
(***************************************************************************)
(* What is read out of a company's facts (mds/edgar.py, mds/buyback.py):   *)
(* the fields of its XBRL file, and the value of a field in force on a     *)
(* day, from what had been filed by then.                                  *)
(***************************************************************************)
EXTENDS Integers, Sequences, FiniteSets, FiniteSetsExt, SequencesExt

Earliest(S) == CHOOSE i \in S : \A j \in S : i =< j

-----------------------------------------------------------------------------
(* Point in time: from the facts a company has filed to the value in force *)
(* on a day.                                                               *)
(*                                                                         *)
(* An observation is [end, span, filed, val].  `end` is the fiscal quarter *)
(* its period ends with and `span` the quarters the period covers: a       *)
(* duration of 80-100 days is one, of 350-380 four, any other is ignored;  *)
(* 0 is a balance-sheet instant.  Ends 60-130 days apart are one quarter   *)
(* apart, ends up to 300 days before a year end at most three.             *)

\* The value in force before anything was filed (NaN).
Nothing == [filed |-> 0, end |-> 0, val |-> 0]

(* The order the observations are read in: by filing date, and as they     *)
(* came within one.                                                        *)
ByFiled(obs) == SortSeq([i \in DOMAIN obs |-> <<obs[i], i>>],
                        LAMBDA x, y : \/ x[1].filed < y[1].filed
                                      \/ x[1].filed = y[1].filed /\ x[2] < y[2])

Quarterly(o) == o.span = 1
Annual(o)    == o.span = 4

(* setdefault: the value filed first for a period stands.                  *)
SetDefault(kept, o) == IF kept[o.end].filed # 0 THEN kept ELSE [kept EXCEPT ![o.end] = o]

Ends(obs) == 1 .. Max({0} \cup {obs[i].end : i \in DOMAIN obs})

FirstFiled(wanted, ends) ==
    FoldLeft(LAMBDA kept, x : SetDefault(kept, x[1]), [e \in ends |-> Nothing], ByFiled(wanted))

HasQuarter(quarters, e) == e \in DOMAIN quarters /\ quarters[e].filed # 0

(* The fourth quarter a 10-K does not report: the year less the three      *)
(* quarters before its end.                                                *)
DeriveQ4(quarters, a) ==
    LET prior == (a.end - 3) .. (a.end - 1)
    IN  IF HasQuarter(quarters, a.end) \/ \E e \in prior : ~HasQuarter(quarters, e)
        THEN quarters
        ELSE [quarters EXCEPT ![a.end] =
                [a EXCEPT !.val = @ - MapThenSumSet(LAMBDA e : quarters[e].val, prior)]]

Annuals(obs) == SelectSeq(ByFiled(obs), LAMBDA x : Annual(x[1]))

QuarterSeries(obs) ==
    FoldLeft(LAMBDA quarters, x : DeriveQ4(quarters, x[1]),
             FirstFiled(SelectSeq(obs, Quarterly), Ends(obs)), Annuals(obs))

(* A sum of four quarters is known when the last of them is filed.         *)
KnownFrom(quarters, window) == Max({quarters[e].filed : e \in window})

Point(o) == [filed |-> o.filed, end |-> o.end, val |-> o.val]

(* The sums of four consecutive quarters, then each annual value as it is. *)
FlowPoints(obs) ==
    LET quarters == QuarterSeries(obs)
        window(e) == (e - 3) .. e
        last == SelectSeq([e \in DOMAIN quarters |-> e],
                          LAMBDA e : \A k \in window(e) : HasQuarter(quarters, k))
        sum(e) == [filed |-> KnownFrom(quarters, window(e)), end |-> e,
                   val |-> MapThenSumSet(LAMBDA k : quarters[k].val, window(e))]
        years == Annuals(obs)
    IN  [i \in DOMAIN last |-> sum(last[i])]
        \o [i \in DOMAIN years |-> Point(years[i][1])]

LevelPoints(obs) ==
    LET levels == FirstFiled(SelectSeq(obs, LAMBDA o : o.span = 0), Ends(obs))
        filed == SelectSeq(levels, LAMBDA o : o.filed # 0)
    IN  [i \in DOMAIN filed |-> Point(filed[i])]

(* _pit_align: on day t the point filed latest by t; of those filed on one *)
(* date the one of the latest period, and of those the last in the list.   *)
InForce(points, t) ==
    LET known == {i \in DOMAIN points : points[i].filed =< t}
        key(i) == <<points[i].filed, points[i].end, i>>
        before(x, y) == \/ x[1] < y[1]
                        \/ x[1] = y[1] /\ x[2] < y[2]
                        \/ x[1] = y[1] /\ x[2] = y[2] /\ x[3] =< y[3]
    IN  IF known = {} THEN Nothing
        ELSE points[CHOOSE i \in known : \A j \in known : before(key(j), key(i))]

(* One field of the panel, and what was filed by a day.                    *)
FieldPoints(flow, obs) == IF flow THEN FlowPoints(obs) ELSE LevelPoints(obs)

FieldValue(flow, obs, t) == InForce(FieldPoints(flow, obs), t)

FiledBy(obs, t) == SelectSeq(obs, LAMBDA o : o.filed =< t)

(* buyback._pit_ffill: the last of the values filed latest by t.           *)
Repurchases(obs, t) ==
    LET known == {i \in DOMAIN obs : obs[i].filed =< t}
        best(i) == \A j \in known : \/ obs[j].filed < obs[i].filed
                                    \/ obs[j].filed = obs[i].filed /\ j =< i
    IN  IF known = {} THEN Nothing ELSE Point(obs[CHOOSE i \in known : best(i)])

(* A ratio of two fields is defined only over a positive denominator;      *)
(* earnings to price, profit and return to assets and equity.              *)
SafeDiv(num, den) == IF den.val > 0 /\ num # Nothing THEN <<num.val, den.val>> ELSE <<>>

Ratio(flows, levels, t) ==
    SafeDiv(FieldValue(TRUE, flows, t), FieldValue(FALSE, levels, t))

-----------------------------------------------------------------------------
(* The filings of a day - a report, a restatement, a late comparative, a   *)
(* year that lets a fourth quarter be derived - leave every value, and     *)
(* every ratio, that was in force before them as it was: what a backtest   *)
(* reads for a day is what a reader of that day would have computed.       *)
FilingsDoNotRewriteThePast(obs, now) ==
    LET before == FiledBy(obs, now - 1)
        points  == [flow \in BOOLEAN |-> FieldPoints(flow, obs)]
        earlier == [flow \in BOOLEAN |-> FieldPoints(flow, before)]
    IN  \A t \in 0 .. now - 1 :
            /\ \A flow \in BOOLEAN : InForce(points[flow], t) = InForce(earlier[flow], t)
            /\ Repurchases(obs, t) = Repurchases(before, t)
            /\ SafeDiv(InForce(points[TRUE], t), InForce(points[FALSE], t))
                 = Ratio(before, before, t)

-----------------------------------------------------------------------------
(* What is read out of a company's file.  A fact is                        *)
(* [tag, days, filed, form, val]: `days` is the length of the period it    *)
(* covers.  A file is the sequence of its facts.                           *)

Present(file, tag) == \E i \in DOMAIN file : file[i].tag = tag

Under(file, tag) == SelectSeq(file, LAMBDA fact : fact.tag = tag)

(* The first tag that the file has at all; the first that gives something. *)
FirstPresent(file, tags) ==
    LET at == {i \in DOMAIN tags : Present(file, tags[i])}
    IN  IF at = {} THEN <<>> ELSE Under(file, tags[Earliest(at)])

FirstYielding(series) ==
    LET at == {i \in DOMAIN series : series[i] # <<>>}
    IN  IF at = {} THEN <<>> ELSE series[Earliest(at)]

(* The days of the quarterly and annual reports, known by the balance      *)
(* sheet in them; the yearly repurchases; the shares outstanding.          *)
Report(fact) == fact.form \in {"10-Q", "10-K"}

Filings(file) ==
    {f.filed : f \in ToSet(FirstYielding(<<SelectSeq(Under(file, "Assets"), Report),
                                           SelectSeq(Under(file, "Liabilities"), Report)>>))}

Yearly(fact) == 330 =< fact.days /\ fact.days =< 400

BuybackPoints(file) ==
    SelectSeq(FirstPresent(file, <<"PaymentsForRepurchaseOfCommonStock",
                                   "PaymentsForRepurchaseOfEquity">>), Yearly)

SharePoints(file) ==
    FirstYielding(<<Under(file, "dei:EntityCommonStockSharesOutstanding"),
                    Under(file, "CommonStockSharesOutstanding")>>)

-----------------------------------------------------------------------------
(* The yearly repurchases in force on a day are those of the last fiscal   *)
(* year reported by then, whatever the quarterly reports add up to since   *)
(* the year began; the shares are those of the last report; and every      *)
(* report anchors a blackout, while amendments do not.                     *)
Series(facts) == [i \in DOMAIN facts |-> [filed |-> facts[i].filed, end |-> 0, val |-> facts[i].val]]

BuybacksAreYearly(file, now, YearTotal(_), Shares(_), reports) ==
    LET years  == Series(BuybackPoints(file))
        shares == Series(SharePoints(file))
    IN  /\ Filings(file) = reports
        /\ \A t \in 0 .. now : /\ Repurchases(years, t).val = YearTotal(t)
                               /\ Repurchases(shares, t).val = Shares(t)
=============================================================================
