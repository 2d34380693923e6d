--------------------------- MODULE HarnessProofs ---------------------------
(***************************************************************************)
(* Proofs about HarnessSession, for any suite, systems under test,         *)
(* configurations, policies, keys and sessions its assumptions allow: the  *)
(* verdicts are earned (VerdictsAreEarned) and the evidence on disk is     *)
(* genuine (EvidenceIsGenuine).                                            *)
(*                                                                         *)
(* Both speak of a command that has answered.  SessionInv follows it       *)
(* there: each pass is over the scenarios the plan names, in that order,   *)
(* each result is what the runner makes of what was seen, under the        *)
(* configuration of the pass, and the environment is restored in between.  *)
(* DiskInv follows the files: which command wrote each, that a seal is of  *)
(* a report some run produced, and that a report of the same run as its    *)
(* seal is the sealed one, whoever was killed in between.  The gates       *)
(* themselves are operators on results, with a lemma for each.             *)
(***************************************************************************)
EXTENDS HarnessSession, FoldTheorems

----------------------------------------------------------------------------
(* Lists of scenarios. *)

\* The scenarios of the suite.
Scenarios == ToSet(Suite)

\* No two scenarios of a list have the same id.
Distinct(list) == \A i, j \in 1 .. Len(list) : list[i].id = list[j].id => i = j

\* What stands at a place of a sequence is in its set.
LEMMA InToSet ==
  ASSUME NEW S, NEW s \in Seq(S), NEW i \in 1 .. Len(s) PROVE s[i] \in ToSet(s)
  BY DEF ToSet

\* What is picked out of a list is a list, of scenarios as distinct.
LEMMA AtSound ==
  ASSUME NEW S, NEW list \in Seq(S), NEW places
  PROVE  At(list, places) \in Seq(S) /\ (Distinct(list) => Distinct(At(list, places)))
<1> DEFINE n == Len(list)
           b == [i \in DOMAIN list |-> IF i \in places THEN <<list[i]>> ELSE <<>>]
<1>1. n \in Nat /\ DOMAIN list = 1 .. n /\ \A i \in 1 .. n : list[i] \in S
  BY LenProperties, ElementOfSeq
<1>2. b \in [1 .. n -> Seq(S)]
  <2>1. ASSUME NEW i \in 1 .. n PROVE b[i] \in Seq(S)
    <3>1. <<list[i]>> \in Seq(S) /\ <<>> \in Seq(S)  BY <1>1
    <3> QED  BY <1>1, <3>1
  <2> QED  BY <1>1, <2>1
<1>3. At(list, places) = FlattenSeq(b)
  BY DEF At
<1>4. \A i \in 1 .. n : b[i] = <<>> \/ b[i] = <<list[i]>>
  BY <1>1
<1> HIDE DEF b, n
<1>5. CASE n = 0
  <2>1. b \in Seq(Seq(S)) /\ Len(b) = 0  BY <1>1, <1>2, <1>5, LenProperties, IsASeq
  <2>2. b = <<>>  BY <2>1, EmptySeq
  <2>3. FlattenSeq(b) = <<>>  BY <2>2 DEF FlattenSeq
  <2> QED  BY <1>3, <2>3, EmptySeq DEF Distinct
<1>6. CASE n # 0
  <2>1. PICK h : FlattenSeq(b) = h[n] /\ Joins(h, b, n)
    BY <1>1, <1>2, <1>6, FlattenSteps
  <2> DEFINE Good(m) == /\ h[m] \in Seq(S)
                        /\ \A j \in 1 .. Len(h[m]) : \E a \in 1 .. m : h[m][j] = list[a]
                        /\ Distinct(list) => Distinct(h[m])
             Bad == {m \in 1 .. n : ~ Good(m)}
  <2>2. Good(1)
    <3>1. h[1] = b[1]  BY <1>1, <1>6, <2>1 DEF Joins
    <3>2. h[1] = <<>> \/ h[1] = <<list[1]>>  BY <1>1, <1>4, <1>6, <3>1
    <3>3. list[1] \in S /\ h[1] \in Seq(S)  BY <1>1, <1>2, <1>6, <3>1
    <3>4. CASE h[1] = <<>>  BY <3>3, <3>4 DEF Distinct
    <3>5. CASE h[1] = <<list[1]>>
      <4>1. Len(h[1]) = 1 /\ h[1][1] = list[1]  BY <3>5
      <4> QED  BY <3>3, <4>1 DEF Distinct
    <3> QED  BY <3>2, <3>4, <3>5
  <2>3. ASSUME NEW m \in 1 .. n, m # 1, Good(m - 1) PROVE Good(m)
    <3>1. m - 1 \in 1 .. n /\ h[m] = h[m - 1] \o b[m]
      <4> HIDE DEF Good, Bad
      <4>1. m \in 1 .. n /\ m # 1 /\ n \in Nat  BY <1>1, <2>3
      <4>2. m - 1 \in 1 .. n  BY <4>1
      <4>3. h[m] = h[m - 1] \o b[m]  BY <2>1, <2>3 DEF Joins
      <4> QED  BY <4>2, <4>3
    <3>2. list[m] \in S /\ h[m - 1] \in Seq(S)  BY <1>1, <2>3
    <3>3. CASE b[m] = <<>>
      <4>1. h[m] = h[m - 1]  BY <3>1, <3>2, <3>3, ConcatEmptySeq
      <4>2. \A j \in 1 .. Len(h[m]) : \E a \in 1 .. m : h[m][j] = list[a]
        <5>1. \A a \in 1 .. m - 1 : a \in 1 .. m  OBVIOUS
        <5> QED  BY <2>3, <4>1, <5>1
      <4> QED  BY <2>3, <4>1, <4>2
    <3>4. CASE b[m] = <<list[m]>>
      <4> DEFINE p == h[m - 1]
                 k == Len(p)
      <4>1. k \in Nat /\ h[m] \in Seq(S) /\ Len(h[m]) = k + 1
        BY <3>1, <3>2, <3>4, LenProperties, ConcatProperties
      <4>2. h[m][k + 1] = list[m] /\ \A j \in 1 .. k : h[m][j] = p[j]
        BY <3>1, <3>2, <3>4, <4>1, ConcatProperties
      <4>3. \A j \in 1 .. k : \E a \in 1 .. m - 1 : p[j] = list[a]  BY <2>3
      <4>4. Distinct(list) => Distinct(p)  BY <2>3
      <4> HIDE DEF p, k
      <4>5. \A j \in 1 .. Len(h[m]) : \E a \in 1 .. m : h[m][j] = list[a]
        BY <4>1, <4>2, <4>3
      <4>6. ASSUME Distinct(list) PROVE Distinct(h[m])
        <5> SUFFICES ASSUME NEW i \in 1 .. k + 1, NEW j \in 1 .. k + 1, i < j,
                            h[m][i].id = h[m][j].id
                     PROVE  FALSE
          BY <4>1 DEF Distinct
        <5>1. i \in 1 .. k /\ h[m][i] = p[i]  BY <4>1, <4>2
        <5>2. CASE j = k + 1
          <6>1. PICK a \in 1 .. m - 1 : p[i] = list[a]  BY <4>3, <5>1
          <6>2. list[a].id = list[m].id /\ a # m /\ a \in 1 .. n  BY <4>2, <5>1, <5>2, <6>1, <1>1
          <6> QED  BY <4>6, <6>2 DEF Distinct, n
        <5>3. CASE j # k + 1
          <6>1. j \in 1 .. k /\ h[m][j] = p[j]  BY <4>1, <4>2, <5>3
          <6> QED  BY <4>4, <4>6, <5>1, <6>1 DEF Distinct, k
        <5> QED  BY <5>2, <5>3
      <4> QED  BY <4>1, <4>5, <4>6
    <3> QED  BY <1>4, <2>3, <3>3, <3>4
  <2>4. Bad = {}
    <3>1. Bad \in SUBSET Nat  BY <1>1
    <3>2. ASSUME NEW m \in Bad, \A k \in Bad : m <= k PROVE FALSE
      <4>1. m \in 1 .. n /\ ~ Good(m)  OBVIOUS
      <4>2. m # 1  BY <2>2, <4>1
      <4>3. m - 1 \in 1 .. n /\ (m - 1 \in Bad => m <= m - 1)  BY <1>1, <3>2, <4>1, <4>2
      <4>4. Good(m - 1)
        <5> HIDE DEF Good
        <5> QED  BY <4>1, <4>3
      <4> HIDE DEF Good, Bad
      <4> QED  BY <2>3, <4>1, <4>2, <4>4
    <3> HIDE DEF Bad
    <3> QED  BY <3>1, <3>2, MinimalNat
  <2>5. n \in 1 .. n  BY <1>1, <1>6
  <2>6. Good(n)
    <3> HIDE DEF Good
    <3> QED  BY <2>4, <2>5
  <2> QED  BY <1>3, <2>1, <2>6
<1> QED  BY <1>5, <1>6

\* The suite is a sequence of scenarios with ids of their own.
LEMMA SuiteSound == Suite \in Seq(Scenarios) /\ Distinct(Suite)
<1>1. Suite \in Seq(Scenarios)
  BY SessionAssumption DEF Scenarios
<1>2. DOMAIN Suite = 1 .. Len(Suite)
  BY <1>1, LenProperties
<1> QED  BY <1>1, <1>2, IdsAssumption DEF Distinct

\* A selection is a part of the suite.
LEMMA SelectSound ==
  ASSUME NEW tag PROVE Select(tag) \in Seq(Scenarios) /\ Distinct(Select(tag))
<1>1. CASE tag = None
  BY <1>1, SuiteSound DEF Select
<1>2. CASE tag # None
  <2> DEFINE S == Scenarios
             places == {i \in DOMAIN Suite : tag \in Suite[i].tags}
  <2>1. Suite \in Seq(S) /\ Distinct(Suite)
    BY SuiteSound
  <2>2. Select(tag) = At(Suite, places)
    BY <1>2 DEF Select
  <2> HIDE DEF S, places
  <2>3. At(Suite, places) \in Seq(S) /\ Distinct(At(Suite, places))
    BY <2>1, AtSound
  <2> QED  BY <2>2, <2>3 DEF S
<1> QED  BY <1>1, <1>2

\* A pass: an override of LAB_MODE, or none, and scenarios.
Jobs == [mode : {None} \cup ToSet(Matrix), work : Seq(Scenarios)]

\* Every pass of a plan is over scenarios, under a configuration of the matrix or none.
LEMMA PlanSound == Plan \in Seq(Jobs)
<1> DEFINE suite == Select(cmd.tag)
           probed == At(suite, {i \in DOMAIN suite : ~Quarantined(suite[i])})
<1>1. suite \in Seq(Scenarios) /\ probed \in Seq(Scenarios)
  <2>1. suite \in Seq(Scenarios)  BY SelectSound
  <2> HIDE DEF suite
  <2> QED  BY <2>1, AtSound
<1>2. CASE cmd.mode = "matrix"
  <2>1. Plan = [c \in DOMAIN Matrix |-> [mode |-> Matrix[c], work |-> suite]]
    BY <1>2 DEF Plan
  <2>2. Matrix \in Seq(ToSet(Matrix)) /\ DOMAIN Matrix = 1 .. Len(Matrix) /\ Len(Matrix) \in Nat
    BY SessionAssumption, LenProperties
  <2> HIDE DEF suite
  <2>3. \A c \in 1 .. Len(Matrix) : [mode |-> Matrix[c], work |-> suite] \in Jobs
    BY <1>1, <2>2, InToSet DEF Jobs
  <2> QED  BY <2>1, <2>2, <2>3, IsASeq
<1>3. CASE cmd.mode = "determinism"
  <2>1. Plan = [i \in DOMAIN probed |-> [mode |-> None, work |-> Repeated(probed[i])]]
    BY <1>3 DEF Plan
  <2>2. DOMAIN probed = 1 .. Len(probed) /\ Len(probed) \in Nat
    BY <1>1, LenProperties
  <2>3. ASSUME NEW i \in 1 .. Len(probed) PROVE [mode |-> None, work |-> Repeated(probed[i])] \in Jobs
    <3>1. probed[i] \in Scenarios  BY <1>1, <2>2, ElementOfSeq
    <3>2. Repeated(probed[i]) \in Seq(Scenarios)
      <4> HIDE DEF probed
      <4> QED  BY <3>1, SessionAssumption, IsASeq DEF Repeated
    <3> QED  BY <3>2 DEF Jobs
  <2> HIDE DEF probed
  <2> QED  BY <2>1, <2>2, <2>3, IsASeq
<1>4. CASE cmd.mode # "matrix" /\ cmd.mode # "determinism"
  <2>1. Plan = <<[mode |-> None, work |-> suite]>>
    BY <1>4 DEF Plan
  <2>2. [mode |-> None, work |-> suite] \in Jobs
    BY <1>1 DEF Jobs
  <2> QED  BY <2>1, <2>2
<1> QED  BY <1>2, <1>3, <1>4

----------------------------------------------------------------------------
(* Verdicts. *)

Answers == {Infra} \cup UNION {Replies[s.id] : s \in Scenarios}
Statuses == {"PASS", "FAIL", "ERROR", "SKIP"}
Measured == {NoMetrics} \cup {o.metrics : o \in Answers}
Verdict ==
    [id : {s.id : s \in Scenarios}, status : Statuses,
     exit : {None} \cup {o.exit : o \in Answers}, metrics : Measured,
     checks : {<<>>} \cup {CheckResults(o, s.checks) : o \in Answers, s \in Scenarios}]

\* What a run scenario gives is a result.
LEMMA RanType == ASSUME NEW s \in Scenarios, NEW o \in Answers PROVE Ran(s, o) \in Verdict
<1>1. Status(o, s.checks) \in Statuses
  BY DEF Status, Statuses
<1>2. /\ s.id \in {x.id : x \in Scenarios} /\ o.exit \in {x.exit : x \in Answers}
      /\ o.metrics \in Measured
      /\ CheckResults(o, s.checks) \in {CheckResults(x, y.checks) : x \in Answers, y \in Scenarios}
  BY DEF Measured
<1> QED  BY <1>1, <1>2 DEF Ran, Verdict

\* What a skipped scenario gives is a result.
LEMMA SkippedType == ASSUME NEW s \in Scenarios PROVE Skipped(s) \in Verdict
<1>1. s.id \in {x.id : x \in Scenarios} /\ NoMetrics \in Measured
  BY DEF Measured
<1> QED  BY <1>1 DEF Skipped, Verdict, Statuses

\* What a verdict that is not a failure says of the outcome it was made from.
LEMMA RanHolds ==
  ASSUME NEW s, NEW o, ~Failing(Ran(s, o))
  PROVE  o.ok /\ \A k \in DOMAIN s.checks : CheckHolds(s.checks[k], o)
<1>1. Ran(s, o).status = Status(o, s.checks)
  BY DEF Ran
<1>2. Status(o, s.checks) # "ERROR" /\ Status(o, s.checks) # "FAIL"
  BY <1>1 DEF Failing
<1>3. ~(~o.ok \/ CheckErrors(o, s.checks)) /\ \A k \in DOMAIN s.checks : CheckResults(o, s.checks)[k]
  BY <1>2 DEF Status
<1> QED  BY <1>3 DEF CheckResults

\* The metrics of a verdict are those MetricsAssumption is about.
LEMMA MeasuredOK ==
  ASSUME NEW m \in Measured, NEW x \in DOMAIN m
  PROVE  \/ m[x] = Text \/ m[x] = NaN
         \/ m[x] \in Int /\ ((x \in DOMAIN Policy /\ HardwareSensitive(Policy[x])) => m[x] >= 0)
<1>1. NoMetrics = [y \in {} |-> 0] /\ Infra.metrics = NoMetrics
  BY DEF NoMetrics, Infra
<1>2. DOMAIN NoMetrics = {}
  BY <1>1
<1>3. PICK o \in Answers : m = o.metrics
  BY <1>2 DEF Measured
<1>4. o # Infra
  BY <1>1, <1>2, <1>3
<1>5. PICK s \in Scenarios : o \in Replies[s.id]
  BY <1>4 DEF Answers
<1>6. PICK i \in DOMAIN Suite : s = Suite[i]
  BY DEF Scenarios, ToSet
<1>7. o \in Replies[Suite[i].id] /\ x \in DOMAIN o.metrics
  BY <1>3, <1>5, <1>6
<1> QED  BY <1>3, <1>7, MetricsAssumption

----------------------------------------------------------------------------
(* The gates. *)

\* The last result of an id that has one.
LEMMA LatestIs ==
  ASSUME NEW S, NEW results \in Seq(S), NEW id \in Ids(results)
  PROVE  \E i \in 1 .. Len(results) : results[i].id = id /\ Latest(results, id) = results[i]
<1> DEFINE Of == {i \in DOMAIN results : results[i].id = id}
<1>1. DOMAIN results = 1 .. Len(results) /\ Len(results) \in Nat
  BY LenProperties
<1>2. Of # {}
  BY DEF Ids
<1>3. IsFiniteSet(Of) /\ \A k \in Of : k \in Nat
  <2>1. IsFiniteSet(DOMAIN results)  BY <1>1, FS_Interval
  <2> QED  BY <1>1, <2>1, FS_Subset
<1>4. PICK m \in Of : \A k \in Of : m >= k
  <2> HIDE DEF Of
  <2> QED  BY <1>2, <1>3, MaximalNat
<1>5. /\ m \in DOMAIN results /\ results[m].id = id
      /\ \A j \in DOMAIN results : results[j].id = id => j <= m
  BY <1>1, <1>4
<1>6. PICK i \in DOMAIN results :
        /\ results[i].id = id /\ \A j \in DOMAIN results : results[j].id = id => j <= i
        /\ Latest(results, id) = results[i]
  BY <1>5 DEF Latest
<1> QED  BY <1>1, <1>6

\* A metric that is the same as it was has not regressed.
LEMMA SameIsNoRegression ==
  ASSUME NEW m \in Measured, NEW x \in DOMAIN m, x \in DOMAIN Policy, Number(m[x])
  PROVE  ~Regressed(Policy[x], m[x], m[x])
<1> DEFINE v == m[x]
           tol == Policy[x].tol
<1> SUFFICES ASSUME Regressed(Policy[x], v, v) PROVE FALSE
  OBVIOUS
<1>1. v # Text /\ v # NaN
  BY DEF Number, Regressed, IsNaN
<1>2. v \in Int /\ (HardwareSensitive(Policy[x]) => v >= 0)
  BY <1>1, MeasuredOK
<1>3. tol \in Nat /\ Policy[x].direction \in {"higher", "lower", "exact"}
  BY SessionAssumption
<1>4. v >= 0 => v * tol >= 0
  <2> HIDE DEF v, tol
  <2> QED  BY <1>2, <1>3
<1>5. v * (100 - tol) = 100 * v - v * tol /\ v * (100 + tol) = 100 * v + v * tol /\ v * tol \in Int
  <2> HIDE DEF v, tol
  <2> QED  BY <1>2, <1>3
<1>6. CASE Policy[x].direction = "higher"
  <2>1. 100 * v < v * (100 - tol)  BY <1>6 DEF Regressed
  <2>2. v >= 0  BY <1>2, <1>6 DEF HardwareSensitive
  <2> HIDE DEF v, tol
  <2> QED  BY <1>2, <1>4, <1>5, <2>1, <2>2
<1>7. CASE Policy[x].direction = "lower"
  <2>1. 100 * v > v * (100 + tol)  BY <1>7 DEF Regressed
  <2>2. v >= 0  BY <1>2, <1>7 DEF HardwareSensitive
  <2> HIDE DEF v, tol
  <2> QED  BY <1>2, <1>4, <1>5, <2>1, <2>2
<1>8. CASE Policy[x].direction = "exact"
  <2>1. v - v > tol  BY <1>8 DEF Regressed
  <2> HIDE DEF v, tol
  <2> QED  BY <1>2, <1>3, <2>1
<1> QED  BY <1>3, <1>6, <1>7, <1>8

\* A run compared with the baseline captured from it, on any machine.
LEMMA OwnBaseline ==
  ASSUME NEW h, NEW results \in Seq(Verdict)
  PROVE  Regressions(h, results, CaptureBaseline(h, results), Policy) = {}
<1> DEFINE golden == CaptureBaseline(h, results)
<1>1. DOMAIN golden.scenarios = Ids(results)
  BY DEF CaptureBaseline
<1>2. ASSUME NEW id \in Ids(results)
      PROVE  /\ golden.scenarios[id].status = Latest(results, id).status
             /\ golden.scenarios[id].metrics = Latest(results, id).metrics
             /\ Latest(results, id).metrics \in Measured
  <2>1. Latest(results, id) \in Verdict
    BY LatestIs, ElementOfSeq
  <2> QED  BY <2>1 DEF CaptureBaseline, Verdict
<1> HIDE DEF golden
<1>3. ASSUME NEW r \in Regressions(h, results, golden, Policy) PROVE FALSE
  <2> DEFINE both == DOMAIN golden.scenarios \cap Ids(results)
  <2>1. CASE r \in {<<id, "status", None>> : id \in
                {i \in both : golden.scenarios[i].status = "PASS" /\ Failing(Latest(results, i))}}
    BY <1>2, <2>1 DEF Failing
  <2>2. CASE /\ r \in both \X {"metric"} \X DOMAIN Policy
             /\ r[3] \in DOMAIN golden.scenarios[r[1]].metrics
             /\ r[3] \in DOMAIN Latest(results, r[1]).metrics =>
                  /\ Number(Latest(results, r[1]).metrics[r[3]])
                  /\ Regressed(Policy[r[3]], golden.scenarios[r[1]].metrics[r[3]],
                               Latest(results, r[1]).metrics[r[3]])
    <3> DEFINE m == Latest(results, r[1]).metrics
               x == r[3]
    <3>1. r[1] \in Ids(results) /\ x \in DOMAIN Policy
      BY <2>2
    <3>2. m \in Measured /\ golden.scenarios[r[1]].metrics = m
      BY <1>2, <3>1
    <3>3. x \in DOMAIN m /\ Number(m[x]) /\ Regressed(Policy[x], m[x], m[x])
      BY <2>2, <3>2
    <3> HIDE DEF m, x
    <3> QED  BY <3>1, <3>2, <3>3, SameIsNoRegression
  <2> QED  BY <1>3, <2>1, <2>2 DEF Regressions
<1> QED  BY <1>3 DEF golden

\* A baseline judged on another machine.
LEMMA OtherMachine ==
  ASSUME NEW h, NEW results, NEW golden
  PROVE  LET On(k) == Regressions(k, results, golden, Policy)
             Perf == {r \in On(golden.hw) : r[2] = "metric" /\ HardwareSensitive(Policy[r[3]])}
         IN  On(h) = IF h = golden.hw THEN On(golden.hw) ELSE On(golden.hw) \ Perf
<1> DEFINE On(k) == Regressions(k, results, golden, Policy)
           Perf == {r \in On(golden.hw) : r[2] = "metric" /\ HardwareSensitive(Policy[r[3]])}
<1>1. CASE h = golden.hw
  BY <1>1
<1>2. CASE h # golden.hw
  <2>1. ASSUME NEW r \in On(h) PROVE r \in On(golden.hw) \ Perf
    BY <1>2, <2>1 DEF Regressions
  <2>2. ASSUME NEW r \in On(golden.hw) \ Perf PROVE r \in On(h)
    BY <1>2, <2>2 DEF Regressions
  <2> HIDE DEF On, Perf
  <2>3. On(h) = On(golden.hw) \ Perf
    BY <2>1, <2>2
  <2> QED  BY <1>2, <2>3 DEF On, Perf
<1> QED  BY <1>1, <1>2

\* There are finitely many statuses.
LEMMA StatusesFinite == IsFiniteSet(Statuses)
<1>1. IsFiniteSet({"PASS"}) /\ IsFiniteSet({"FAIL"}) /\ IsFiniteSet({"ERROR"}) /\ IsFiniteSet({"SKIP"})
  BY FS_Singleton
<1>2. IsFiniteSet({"PASS"} \cup {"FAIL"}) /\ IsFiniteSet({"ERROR"} \cup {"SKIP"})
  BY <1>1, FS_Union
<1>3. IsFiniteSet(({"PASS"} \cup {"FAIL"}) \cup ({"ERROR"} \cup {"SKIP"}))
  BY <1>2, FS_Union
<1>4. Statuses = ({"PASS"} \cup {"FAIL"}) \cup ({"ERROR"} \cup {"SKIP"})
  BY DEF Statuses
<1> QED  BY <1>3, <1>4

\* Runs that are not flaky agree, but for those that were skipped.
LEMMA NotFlaky ==
  ASSUME NEW runs \in Seq(Verdict), Classify(runs) # "flaky",
         NEW i \in DOMAIN runs, NEW j \in DOMAIN runs
  PROVE  "SKIP" \in {runs[i].status, runs[j].status} \/ runs[i].status = runs[j].status
<1> DEFINE statuses == {r.status : r \in ToSet(runs)}
<1>1. runs[i].status \in statuses /\ runs[j].status \in statuses
  BY DEF ToSet
<1>2. statuses = {"SKIP"} \/ statuses = {"PASS"} \/ Cardinality(statuses \ {"SKIP"}) = 1
  BY DEF Classify
<1>3. CASE Cardinality(statuses \ {"SKIP"}) = 1
  <2>1. ASSUME NEW r \in ToSet(runs) PROVE r.status \in Statuses
    <3>1. r \in Verdict  BY ElementOfSeq DEF ToSet
    <3> QED  BY <3>1 DEF Verdict
  <2>2. statuses \ {"SKIP"} \subseteq Statuses  BY <2>1
  <2> HIDE DEF statuses
  <2>3. IsFiniteSet(statuses \ {"SKIP"})  BY <2>2, StatusesFinite, FS_Subset
  <2>4. PICK x : statuses \ {"SKIP"} = {x}  BY <1>3, <2>3, FS_Singleton
  <2> QED  BY <1>1, <2>4
<1> HIDE DEF statuses
<1> QED  BY <1>1, <1>2, <1>3

\* More than one element: two that differ.
LEMMA Several ==
  ASSUME NEW X, IsFiniteSet(X)
  PROVE  Cardinality(X) > 1 <=> \E a, b \in X : a # b
<1>1. Cardinality(X) \in Nat  BY FS_CardinalityType
<1>2. Cardinality(X) = 0 <=> X = {}  BY FS_EmptySet
<1>3. Cardinality(X) = 1 <=> \E x : X = {x}  BY FS_Singleton
<1>4. (\E a, b \in X : a # b) <=> X # {} /\ ~ \E x : X = {x}  OBVIOUS
<1> QED  BY <1>1, <1>2, <1>3, <1>4

\* The result of a scenario in a complete pass over distinct scenarios.
LEMMA LatestOfPass ==
  ASSUME NEW suite \in Seq(Scenarios), Distinct(suite), NEW results \in Seq(Verdict),
         Len(results) = Len(suite), \A k \in 1 .. Len(suite) : results[k].id = suite[k].id,
         NEW i \in 1 .. Len(suite)
  PROVE  suite[i].id \in Ids(results) /\ Latest(results, suite[i].id) = results[i]
<1>1. DOMAIN results = 1 .. Len(suite)
  BY LenProperties
<1>2. suite[i].id \in Ids(results)
  BY <1>1 DEF Ids
<1>3. PICK k \in 1 .. Len(suite) :
        results[k].id = suite[i].id /\ Latest(results, suite[i].id) = results[k]
  BY <1>2, LatestIs
<1>4. k = i
  BY <1>3 DEF Distinct
<1> QED  BY <1>2, <1>3, <1>4

\* Divergent compares the verdicts of a scenario, wherever they are.
LEMMA DivergentIs ==
  ASSUME NEW suite \in Seq(Scenarios), Distinct(suite), NEW runs \in Seq(Seq(Verdict)),
         \A c \in DOMAIN runs : Len(runs[c]) = Len(suite),
         \A c \in DOMAIN runs : \A k \in 1 .. Len(suite) : runs[c][k].id = suite[k].id,
         NEW i \in 1 .. Len(suite)
  PROVE  (suite[i].id \in Divergent(runs)) <=>
           \E c, d \in DOMAIN runs : runs[c][i].status # runs[d][i].status
<1> DEFINE id == suite[i].id
           X == Grid(runs, id)
<1>1. ASSUME NEW c \in DOMAIN runs
      PROVE  /\ id \in Ids(runs[c]) /\ Latest(runs[c], id) = runs[c][i]
             /\ runs[c][i].status \in Statuses
  <2>1. runs[c] \in Seq(Verdict)
    BY ElementOfSeq, LenProperties
  <2>2. id \in Ids(runs[c]) /\ Latest(runs[c], id) = runs[c][i]
    BY <2>1, LatestOfPass
  <2>3. runs[c][i] \in Verdict
    BY <2>1, ElementOfSeq
  <2> QED  BY <2>2, <2>3 DEF Verdict
<1>2. X = {runs[c][i].status : c \in DOMAIN runs}
  BY <1>1 DEF Grid
<1>3. X \subseteq Statuses
  BY <1>1, <1>2
<1>4. IsFiniteSet(X)
  <2> HIDE DEF X
  <2> QED  BY <1>3, StatusesFinite, FS_Subset
<1>5. (\E c \in DOMAIN runs : TRUE) => id \in ScenarioIds(runs)
  BY <1>1 DEF ScenarioIds
<1>6. id \in Divergent(runs) <=> id \in ScenarioIds(runs) /\ Cardinality(X) > 1
  BY DEF Divergent
<1> HIDE DEF X, id
<1>7. Cardinality(X) > 1 <=> \E a, b \in X : a # b
  BY <1>4, Several
<1> QED  BY <1>2, <1>5, <1>6, <1>7 DEF id

----------------------------------------------------------------------------
(* Seals. *)

\* No position differs exactly when the first that does is 0.
LEMMA NoChange ==
  ASSUME NEW S, NEW now \in Seq(S), NEW leaves \in Seq(S)
  PROVE  FirstChange(now, leaves) = 0 <=> now = leaves
<1> DEFINE n == IF Len(now) > Len(leaves) THEN Len(now) ELSE Len(leaves)
           Differs(i) == i > Len(now) \/ i > Len(leaves) \/ now[i] # leaves[i]
           changed == {i \in 1 .. n : Differs(i)}
<1>1. Len(now) \in Nat /\ Len(leaves) \in Nat /\ n \in Nat
  BY LenProperties
<1>2. changed = {} <=> now = leaves
  <2>1. ASSUME changed = {} PROVE now = leaves
    <3>1. \A i \in 1 .. n : ~Differs(i)
      BY <2>1
    <3>2. Len(now) = Len(leaves)
      <4>1. n # 0 => ~Differs(n)  BY <1>1, <3>1
      <4> QED  BY <1>1, <4>1
    <3>3. \A i \in 1 .. Len(now) : now[i] = leaves[i]
      BY <1>1, <3>1, <3>2
    <3> QED  BY <3>2, <3>3, SeqEqual
  <2>2. ASSUME now = leaves PROVE changed = {}
    BY <1>1, <2>2
  <2> QED  BY <2>1, <2>2
<1>3. FirstChange(now, leaves) =
        IF changed = {} THEN 0 ELSE CHOOSE i \in changed : \A j \in changed : i <= j
  BY DEF FirstChange
<1>4. changed \in SUBSET Nat /\ 0 \notin changed
  BY <1>1
<1> HIDE DEF changed
<1>5. ASSUME changed # {} PROVE FirstChange(now, leaves) \in changed
  <2>1. \E i \in changed : \A j \in changed : i <= j
    BY <1>4, <1>5, MinimalNat
  <2> QED  BY <1>3, <1>5, <2>1
<1> QED  BY <1>2, <1>3, <1>4, <1>5

\* A report verifies against the seal of the report it is, and of no other.
LEMMA SealSound ==
  ASSUME NEW results \in Seq(Verdict), NEW sealed \in Seq(Verdict), NEW signer, NEW key
  PROVE  LET seal == SealReport(sealed, signer) IN
         /\ VerifyReport(results, seal, key) => results = sealed
         /\ /\ results = sealed
            /\ seal.signature = None \/ key = None \/ seal.signature[1] = key
            => VerifyReport(results, seal, key)
<1> DEFINE seal == SealReport(sealed, signer)
           S == [id : {r.id : r \in Verdict}, hash : Verdict]
<1>1. ASSUME NEW list \in Seq(Verdict)
      PROVE  /\ Leaves(list) \in Seq(S) /\ Len(Leaves(list)) = Len(list)
             /\ \A i \in 1 .. Len(list) : Leaves(list)[i].hash = list[i]
  <2>1. DOMAIN list = 1 .. Len(list) /\ Len(list) \in Nat
    BY LenProperties
  <2>2. \A i \in 1 .. Len(list) : [id |-> list[i].id, hash |-> list[i]] \in S
    BY ElementOfSeq
  <2>3. Leaves(list) = [i \in 1 .. Len(list) |-> [id |-> list[i].id, hash |-> list[i]]]
    BY <2>1 DEF Leaves, Hash
  <2> HIDE DEF S
  <2>4. Leaves(list) \in Seq(S)
    BY <2>1, <2>2, <2>3, IsASeq
  <2>5. DOMAIN Leaves(list) = 1 .. Len(list)
    BY <2>3
  <2> QED  BY <2>1, <2>3, <2>4, <2>5, LenProperties
<1>2. seal.leaves = Leaves(sealed) /\ seal.head = ChainHead(Leaves(sealed))
      /\ seal.signature = Sign(signer, ChainHead(Leaves(sealed)))
  BY DEF SealReport
<1> HIDE DEF seal, S
<1>3. ASSUME VerifyReport(results, seal, key) PROVE results = sealed
  <2>1. FirstChange(Leaves(results), Leaves(sealed)) = 0
    BY <1>2, <1>3 DEF VerifyReport
  <2>2. Leaves(results) = Leaves(sealed)
    BY <1>1, <2>1, NoChange
  <2>3. Len(results) = Len(sealed)
    BY <1>1, <2>2
  <2>4. \A i \in 1 .. Len(results) : results[i] = sealed[i]
    BY <1>1, <2>2, <2>3
  <2> QED  BY <2>3, <2>4, SeqEqual
<1>4. ASSUME results = sealed, seal.signature = None \/ key = None \/ seal.signature[1] = key
      PROVE  VerifyReport(results, seal, key)
  <2>1. FirstChange(Leaves(results), seal.leaves) = 0
    BY <1>1, <1>2, <1>4, NoChange
  <2>2. (seal.signature # None /\ key # None) => Sign(key, seal.head) = seal.signature
    BY <1>2, <1>4 DEF Sign
  <2> QED  BY <1>2, <1>4, <2>1, <2>2 DEF VerifyReport
<1> QED  BY <1>3, <1>4 DEF seal

----------------------------------------------------------------------------
(* The session: what a command has done so far. *)

Running == {"run", "capture", "baseline", "matrix", "determinism"}
LabModes == {Mode0} \cup ToSet(Matrix)
Sights == (Answers \cup {NotRun}) \X LabModes
Override(job) == IF job.mode = None THEN Mode0 ELSE job.mode

\* A result is what the runner makes of what the system under test did.
Matches(s, r, o) == \/ o = NotRun /\ r = Skipped(s)
                    \/ o \in Answers /\ r = Ran(s, o)

\* The results of a pass and what was seen in it are those of its first scenarios.
Follows(job, results, sights) ==
  /\ Len(results) <= Len(job.work) /\ Len(sights) = Len(results)
  /\ \A i \in 1 .. Len(results) : Matches(job.work[i], results[i], sights[i][1])
  /\ \A i \in 1 .. Len(results) : sights[i][2] = Override(job)

Traced(plan, ps, sn) ==
  \A c \in 1 .. Len(ps) : c <= Len(plan) /\ Follows(plan[c], ps[c], sn[c])
Complete(plan, ps, n) == \A c \in 1 .. n : Len(ps[c]) = Len(plan[c].work)

\* A command that has ended by itself and not by an exception.
Answered == step = "ended" /\ cmd.mode \in Running /\ exit \in {"green", "red"}

ShapeInv ==
  /\ session \in Sessions /\ commands \in 0 .. Len(session)
  /\ step \in {"enter", "scenario", "sut", "write", "ended"}
  /\ sut \in {"none", "running", "killed"}
  /\ exit \in {"green", "red", "raised", "killed"}
  /\ (sut # "none") <=> (step = "sut")
  /\ passes \in Seq(Seq(Verdict)) /\ seen \in Seq(Seq(Sights)) /\ Len(passes) = Len(seen)
  /\ cmd.mode \in Running \cup {"none", "verify"}
  /\ cmd.mode \notin Running => passes = <<>> /\ step = "ended"
  /\ step = "write" => cmd.mode = "run" /\ cmd.out # "nowhere"

TraceInv ==
  /\ Traced(Plan, passes, seen)
  /\ Complete(Plan, passes, Len(passes) - 1)
  /\ step \in {"scenario", "sut"} => passes # <<>>
  /\ step = "sut" => More
  /\ (step \in {"enter", "write"} \/ Answered) => Complete(Plan, passes, Len(passes))
  /\ (step = "write" \/ Answered) => Len(passes) = Len(Plan)

EnvInv ==
  /\ step \in {"enter", "write", "ended"} => osenv = Mode0
  /\ step \in {"scenario", "sut"} => saved = Mode0 /\ osenv = Override(Pass)

JudgedInv ==
  /\ (Done("run") /\ exit = "green") => Passed(Report)
  /\ (Done("determinism") /\ exit = "green") =>
        \A i \in DOMAIN passes : Classify(passes[i]) # "flaky"

SessionInv == ShapeInv /\ TraceInv /\ EnvInv /\ JudgedInv

\* The plan is made from the command alone.
LEMMA PlanKept == ASSUME cmd' = cmd PROVE Plan' = Plan
  BY DEF Plan, Quarantined

\* A pass runs under the initial LAB_MODE or one of the matrix.
LEMMA OverrideType == ASSUME NEW job \in Jobs PROVE Override(job) \in LabModes
  BY DEF Override, Jobs, LabModes

\* The last pass of ps is not over.
Unfinished(plan, ps, sn) ==
  /\ ps \in Seq(Seq(Verdict)) /\ sn \in Seq(Seq(Sights))
  /\ Len(ps) = Len(sn) /\ ps # <<>>
  /\ Traced(plan, ps, sn) /\ Complete(plan, ps, Len(ps) - 1)
  /\ Len(ps[Len(ps)]) < Len(plan[Len(ps)].work)

\* The passes with one more result, and what was seen.
PlusResult(ps, r) == [ps EXCEPT ![Len(ps)] = Append(ps[Len(ps)], r)]
PlusSight(plan, sn, o) ==
  [sn EXCEPT ![Len(sn)] = Append(sn[Len(sn)], <<o, Override(plan[Len(sn)])>>)]

\* One more result at the end of the last pass.
LEMMA Grows ==
  ASSUME NEW plan \in Seq(Jobs), NEW ps, NEW sn, Unfinished(plan, ps, sn),
         NEW r \in Verdict, NEW o \in Answers \cup {NotRun},
         Matches(plan[Len(ps)].work[Len(ps[Len(ps)]) + 1], r, o)
  PROVE  LET ps2 == PlusResult(ps, r)
             sn2 == PlusSight(plan, sn, o)
         IN  /\ ps2 \in Seq(Seq(Verdict)) /\ sn2 \in Seq(Seq(Sights))
             /\ Len(ps2) = Len(ps) /\ Len(sn2) = Len(ps)
             /\ Traced(plan, ps2, sn2) /\ Complete(plan, ps2, Len(ps) - 1)
<1> DEFINE n == Len(ps)
           rs == ps[n]
           ss == sn[n]
           job == plan[n]
           rs2 == Append(rs, r)
           ss2 == Append(ss, <<o, Override(job)>>)
           ps2 == [ps EXCEPT ![n] = rs2]
           sn2 == [sn EXCEPT ![n] = ss2]
<1>0. /\ ps \in Seq(Seq(Verdict)) /\ sn \in Seq(Seq(Sights)) /\ Len(sn) = Len(ps) /\ ps # <<>>
      /\ Traced(plan, ps, sn) /\ Complete(plan, ps, Len(ps) - 1) /\ Len(rs) < Len(job.work)
  BY DEF Unfinished
<1>1. n \in Nat /\ n \in 1 .. n /\ DOMAIN ps = 1 .. n /\ DOMAIN sn = 1 .. n
  BY <1>0, EmptySeq, LenProperties
<1>2. rs \in Seq(Verdict) /\ ss \in Seq(Sights)
  BY <1>0, <1>1, ElementOfSeq
<1>3. n <= Len(plan) /\ Follows(job, rs, ss)
  BY <1>0, <1>1 DEF Traced
<1>4. job \in Jobs
  BY <1>1, <1>3, ElementOfSeq, LenProperties
<1>5. <<o, Override(job)>> \in Sights
  BY <1>4, OverrideType DEF Sights
<1>6. /\ rs2 \in Seq(Verdict) /\ Len(rs2) = Len(rs) + 1 /\ rs2[Len(rs) + 1] = r
      /\ \A i \in 1 .. Len(rs) : rs2[i] = rs[i]
  BY <1>2, AppendProperties
<1>7. /\ ss2 \in Seq(Sights) /\ Len(ss2) = Len(ss) + 1
      /\ ss2[Len(ss) + 1] = <<o, Override(job)>> /\ \A i \in 1 .. Len(ss) : ss2[i] = ss[i]
  <2> DEFINE e == <<o, Override(job)>>
  <2>1. e \in Sights /\ ss \in Seq(Sights) /\ ss2 = Append(ss, e)  BY <1>2, <1>5
  <2> HIDE DEF e, ss
  <2>2. /\ Append(ss, e) \in Seq(Sights) /\ Len(Append(ss, e)) = Len(ss) + 1
        /\ Append(ss, e)[Len(ss) + 1] = e /\ \A i \in 1 .. Len(ss) : Append(ss, e)[i] = ss[i]
    BY <2>1, AppendProperties
  <2> QED  BY <2>1, <2>2 DEF e
<1>8. Len(rs) \in Nat /\ Len(rs) = Len(ss) /\ Len(rs) < Len(job.work) /\ Len(job.work) \in Nat
  BY <1>0, <1>2, <1>3, <1>4, LenProperties DEF Follows, Jobs
<1>9. Follows(job, rs2, ss2)
  <2> HIDE DEF rs2, ss2, job, rs, ss, n
  <2>1. ASSUME NEW i \in 1 .. Len(rs2)
        PROVE  Matches(job.work[i], rs2[i], ss2[i][1]) /\ ss2[i][2] = Override(job)
    <3>1. CASE i = Len(rs) + 1
      <4>1. rs2[i] = r /\ ss2[i] = <<o, Override(job)>>  BY <1>6, <1>7, <1>8, <3>1
      <4>2. Matches(job.work[i], r, o)  BY <3>1 DEF job, rs, n
      <4> QED  BY <4>1, <4>2
    <3>2. CASE i # Len(rs) + 1
      <4>1. i \in 1 .. Len(rs)  BY <1>6, <1>8, <3>2
      <4>2. rs2[i] = rs[i] /\ ss2[i] = ss[i]  BY <1>6, <1>7, <1>8, <4>1
      <4> QED  BY <1>3, <4>1, <4>2 DEF Follows
    <3> QED  BY <3>1, <3>2
  <2>2. Len(rs2) <= Len(job.work) /\ Len(ss2) = Len(rs2)
    BY <1>6, <1>7, <1>8
  <2> QED  BY <2>1, <2>2 DEF Follows
<1> HIDE DEF rs2, ss2
<1>10. /\ ps2 \in Seq(Seq(Verdict)) /\ Len(ps2) = n /\ sn2 \in Seq(Seq(Sights)) /\ Len(sn2) = n
       /\ ps2[n] = rs2 /\ sn2[n] = ss2
       /\ \A c \in 1 .. n : c # n => ps2[c] = ps[c] /\ sn2[c] = sn[c]
  <2>1. ps2 \in Seq(Seq(Verdict)) /\ Len(ps2) = n
    BY <1>0, <1>1, <1>6, ExceptSeq
  <2>2. sn2 \in Seq(Seq(Sights)) /\ Len(sn2) = n
    BY <1>0, <1>1, <1>7, ExceptSeq
  <2>3. ps2[n] = rs2 /\ sn2[n] = ss2 /\ \A c \in 1 .. n : c # n => ps2[c] = ps[c] /\ sn2[c] = sn[c]
    BY <1>1
  <2> QED  BY <2>1, <2>2, <2>3
<1> HIDE DEF ps2, sn2
<1>11. Traced(plan, ps2, sn2)
  <2> SUFFICES ASSUME NEW c \in 1 .. n PROVE c <= Len(plan) /\ Follows(plan[c], ps2[c], sn2[c])
    BY <1>10 DEF Traced
  <2>1. CASE c = n
    BY <1>3, <1>9, <1>10, <2>1
  <2>2. CASE c # n
    BY <1>0, <1>10, <2>2 DEF Traced
  <2> QED  BY <2>1, <2>2
<1>12. Complete(plan, ps2, n - 1)
  <2> SUFFICES ASSUME NEW c \in 1 .. n - 1 PROVE Len(ps2[c]) = Len(plan[c].work)
    BY DEF Complete
  <2>1. c \in 1 .. n /\ c # n
    <3> HIDE DEF n
    <3> QED  BY <1>1
  <2> QED  BY <1>0, <1>10, <2>1 DEF Complete
<1>13. PlusResult(ps, r) = ps2 /\ PlusSight(plan, sn, o) = sn2
  BY <1>0 DEF PlusResult, PlusSight, ps2, sn2, rs2, ss2
<1> HIDE DEF n
<1> QED  BY <1>10, <1>11, <1>12, <1>13 DEF n

\* Report, the pass in progress and its work, in a session.
LEMMA PassTypes ==
  ASSUME SessionInv, passes # <<>>
  PROVE  /\ Len(passes) \in 1 .. Len(Plan) /\ DOMAIN passes = 1 .. Len(passes)
         /\ Pass \in Jobs /\ Results \in Seq(Verdict)
         /\ Len(Results) \in Nat /\ Len(Pass.work) \in Nat /\ Len(Results) <= Len(Pass.work)
         /\ More => Scenario \in Scenarios
<1>1. passes \in Seq(Seq(Verdict)) /\ Traced(Plan, passes, seen) /\ Plan \in Seq(Jobs)
  BY PlanSound DEF SessionInv, ShapeInv, TraceInv
<1>2. Len(passes) \in Nat /\ Len(passes) \in 1 .. Len(passes) /\ DOMAIN passes = 1 .. Len(passes)
  BY <1>1, EmptySeq, LenProperties
<1>3. Len(passes) <= Len(Plan) /\ Len(Results) <= Len(Pass.work)
  BY <1>2, <1>1 DEF Traced, Follows, Pass, Results
<1>4. Pass \in Jobs /\ Results \in Seq(Verdict)
  BY <1>1, <1>2, <1>3, ElementOfSeq, LenProperties DEF Pass, Results
<1>5. Pass.work \in Seq(Scenarios)
  BY <1>4 DEF Jobs
<1>6. Len(Results) \in Nat /\ Len(Pass.work) \in Nat
  BY <1>4, <1>5, LenProperties
<1>7. More => Scenario \in Scenarios
  <2>1. More => Len(Results) + 1 \in 1 .. Len(Pass.work)
    BY <1>6 DEF More
  <2> QED  BY <1>5, <2>1, ElementOfSeq DEF Scenario
<1>8. Len(Plan) \in Nat
  BY <1>1, LenProperties
<1> QED  BY <1>2, <1>3, <1>4, <1>6, <1>7, <1>8

\* A scenario that is over: its result goes to the end of the pass.
LEMMA NoteInv ==
  ASSUME SessionInv, step \in {"scenario", "sut"}, More,
         NEW r \in Verdict, NEW o \in Answers \cup {NotRun}, Matches(Scenario, r, o),
         Note(o, Append(Results, r)), step' = "scenario", sut' = "none",
         UNCHANGED <<cmd, osenv, saved, exit, commands, session>>
  PROVE  SessionInv'
<1>1. passes # <<>> /\ Plan' = Plan
  BY PlanKept DEF SessionInv, TraceInv
<1> DEFINE ps2 == PlusResult(passes, r)
           sn2 == PlusSight(Plan, seen, o)
<1>2. passes' = ps2 /\ seen' = sn2
  BY DEF Note, Results, Pass, SessionInv, EnvInv, ShapeInv, PlusResult, PlusSight
<1>3. Plan \in Seq(Jobs) /\ Unfinished(Plan, passes, seen)
  BY <1>1, PlanSound DEF SessionInv, ShapeInv, TraceInv, Unfinished, More, Results, Pass
<1>4. Matches(Plan[Len(passes)].work[Len(passes[Len(passes)]) + 1], r, o)
  BY DEF Scenario, Results, Pass
<1>5. /\ ps2 \in Seq(Seq(Verdict)) /\ sn2 \in Seq(Seq(Sights))
      /\ Len(ps2) = Len(passes) /\ Len(sn2) = Len(passes)
      /\ Traced(Plan, ps2, sn2) /\ Complete(Plan, ps2, Len(passes) - 1)
  <2> DEFINE plan == Plan
  <2>1. plan \in Seq(Jobs) /\ Unfinished(plan, passes, seen)
        /\ Matches(plan[Len(passes)].work[Len(passes[Len(passes)]) + 1], r, o)
    BY <1>3, <1>4
  <2> HIDE DEF plan
  <2>2. /\ PlusResult(passes, r) \in Seq(Seq(Verdict)) /\ PlusSight(plan, seen, o) \in Seq(Seq(Sights))
        /\ Len(PlusResult(passes, r)) = Len(passes) /\ Len(PlusSight(plan, seen, o)) = Len(passes)
        /\ Traced(plan, PlusResult(passes, r), PlusSight(plan, seen, o))
        /\ Complete(plan, PlusResult(passes, r), Len(passes) - 1)
    BY <2>1, Grows
  <2> QED  BY <2>2 DEF plan
<1> HIDE DEF ps2, sn2
<1>6. ShapeInv'
  BY <1>2, <1>5 DEF SessionInv, ShapeInv
<1>7. ps2 # <<>>
  BY <1>1, <1>3, <1>5, EmptySeq DEF Unfinished
<1>8. TraceInv'
  BY <1>1, <1>2, <1>5, <1>7 DEF TraceInv, Answered
<1>9. EnvInv'
  BY <1>1, <1>2, <1>5 DEF SessionInv, EnvInv, Pass
<1>10. JudgedInv'
  BY DEF JudgedInv, Done
<1> QED  BY <1>6, <1>8, <1>9, <1>10 DEF SessionInv

\* A step that leaves the passes alone, in the middle of one.
LEMMA MidPassInv ==
  ASSUME SessionInv, step \in {"scenario", "sut"}, More,
         step' \in {"scenario", "sut"}, sut' \in {"none", "running", "killed"},
         (sut' # "none") <=> (step' = "sut"),
         UNCHANGED <<cmd, passes, seen, osenv, saved, exit, commands, session>>
  PROVE  SessionInv'
<1>1. Plan' = Plan /\ More' /\ Pass' = Pass
  BY PlanKept DEF More, Results, Pass
<1>2. ShapeInv'
  BY DEF SessionInv, ShapeInv
<1>3. TraceInv'
  BY <1>1 DEF SessionInv, TraceInv, Answered
<1>4. EnvInv'
  BY <1>1 DEF SessionInv, EnvInv
<1>5. JudgedInv'
  BY DEF JudgedInv, Done
<1> QED  BY <1>2, <1>3, <1>4, <1>5 DEF SessionInv

\* A step that forgets what the last command did, or starts another.
LEMMA ForgetInv ==
  ASSUME SessionInv, passes' = <<>>, seen' = <<>>, session' = session,
         commands' \in 0 .. Len(session), osenv' = Mode0, sut' = "none",
         exit' \in {"green", "red", "raised", "killed"},
         \/ step' = "enter" /\ cmd'.mode \in Running
         \/ step' = "ended" /\ cmd'.mode \in {"none", "verify"}
  PROVE  SessionInv'
<1>1. passes' \in Seq(Seq(Verdict)) /\ seen' \in Seq(Seq(Sights)) /\ Len(passes') = 0 /\ Len(seen') = 0
  BY EmptySeq
<1>2. "none" \notin Running /\ "verify" \notin Running
  BY DEF Running
<1>3. ShapeInv'
  BY <1>1, <1>2 DEF SessionInv, ShapeInv
<1>4. TraceInv'
  BY <1>1, <1>2 DEF TraceInv, Traced, Complete, Answered
<1>5. EnvInv'
  BY DEF EnvInv
<1>6. JudgedInv'
  BY DEF JudgedInv, Done
<1> QED  BY <1>3, <1>4, <1>5, <1>6 DEF SessionInv

\* A step after the last pass: writing files, and the end.
LEMMA FinishInv ==
  ASSUME SessionInv, AllPasses \/ step = "write", step' \in {"write", "ended"},
         exit' \in {"green", "red", "raised", "killed"},
         step' = "write" => cmd.mode = "run" /\ cmd.out # "nowhere",
         (Done("run") /\ exit = "green")' => Passed(Report),
         (Done("determinism") /\ exit = "green")' =>
             \A i \in DOMAIN passes : Classify(passes[i]) # "flaky",
         UNCHANGED <<cmd, passes, seen, osenv, saved, sut, commands, session>>
  PROVE  SessionInv'
<1>1. Plan' = Plan /\ Report' = Report
  BY PlanKept DEF Report
<1>2. Len(passes) = Len(Plan) /\ Complete(Plan, passes, Len(passes)) /\ step \in {"enter", "write"}
  BY DEF SessionInv, TraceInv, AllPasses
<1>3. ShapeInv'
  BY <1>2 DEF SessionInv, ShapeInv
<1>4. TraceInv'
  BY <1>1, <1>2 DEF SessionInv, TraceInv
<1>5. EnvInv'
  BY <1>2 DEF SessionInv, EnvInv
<1>6. JudgedInv'
  BY <1>1 DEF JudgedInv
<1> QED  BY <1>3, <1>4, <1>5, <1>6 DEF SessionInv

\* SessionInv has the types.
LEMMA SessionType ==
  ASSUME session \in Sessions PROVE session \in Seq(Modes) /\ Len(session) \in Nat
  BY SessionAssumption, LenProperties

\* A session begins with nothing done.
LEMMA SessionInvInit == Init => SessionInv
<1> SUFFICES ASSUME Init PROVE SessionInv
  OBVIOUS
<1>1. passes = <<>> /\ seen = <<>> /\ cmd.mode = "none" /\ step = "ended" /\ session \in Sessions
  BY DEF Init, NoCommand
<1>2. 0 \in 0 .. Len(session)
  BY <1>1, SessionType
<1>3. passes \in Seq(Seq(Verdict)) /\ seen \in Seq(Seq(Sights)) /\ Len(passes) = 0 /\ Len(seen) = 0
  BY <1>1, EmptySeq
<1>4. "none" \notin Running
  BY DEF Running
<1>5. ShapeInv
  BY <1>1, <1>2, <1>3, <1>4 DEF Init, ShapeInv
<1>6. TraceInv
  BY <1>1, <1>3, <1>4 DEF TraceInv, Traced, Complete, Answered
<1>7. EnvInv /\ JudgedInv
  BY <1>1 DEF Init, EnvInv, JudgedInv, Done
<1> QED  BY <1>5, <1>6, <1>7 DEF SessionInv

\* A new command starts with no passes, in the restored environment.
LEMMA CommandInv == ASSUME SessionInv, Command PROVE SessionInv'
<1>1. PICK mode \in {session[commands + 1]} \ {"verify"} : cmd'.mode = mode
  BY DEF Command
<1>2. session \in Seq(Modes) /\ Len(session) \in Nat /\ commands \in 0 .. Len(session)
  BY SessionType DEF SessionInv, ShapeInv
<1>3. commands < Len(session) /\ commands' = commands + 1
  BY DEF Command
<1>4. commands + 1 \in 1 .. Len(session)
  BY <1>2, <1>3
<1>5. session[commands + 1] \in Modes
  BY <1>2, <1>4, ElementOfSeq
<1>6. cmd'.mode \in Running /\ commands' \in 0 .. Len(session)
  BY <1>1, <1>3, <1>4, <1>5 DEF Modes, Running
<1>7. /\ passes' = <<>> /\ seen' = <<>> /\ session' = session /\ osenv' = Mode0 /\ sut' = "none"
      /\ exit' = "green" /\ step' = "enter"
  BY DEF Command
<1> QED  BY <1>6, <1>7, ForgetInv

\* A pass begins empty, under its configuration.
LEMMA EnterInv == ASSUME SessionInv, Enter PROVE SessionInv'
<1> DEFINE n == Len(passes)
           job == Plan[n + 1]
<1>1. /\ step = "enter" /\ n < Len(Plan) /\ saved' = osenv
      /\ osenv' = IF job.mode = None THEN osenv ELSE job.mode
      /\ passes' = Append(passes, <<>>) /\ seen' = Append(seen, <<>>) /\ step' = "scenario"
      /\ UNCHANGED <<cmd, sut, exit, files, produced, commands, session>>
  BY DEF Enter
<1>2. /\ passes \in Seq(Seq(Verdict)) /\ seen \in Seq(Seq(Sights)) /\ n \in Nat /\ Len(seen) = n
      /\ Traced(Plan, passes, seen) /\ Complete(Plan, passes, n) /\ osenv = Mode0
      /\ Plan \in Seq(Jobs)
  BY <1>1, PlanSound, LenProperties DEF SessionInv, ShapeInv, TraceInv, EnvInv
<1>3. Plan' = Plan /\ Len(Plan) \in Nat
  BY <1>1, <1>2, PlanKept, LenProperties
<1>4. <<>> \in Seq(Verdict) /\ <<>> \in Seq(Sights) /\ Len(<<>>) = 0
  OBVIOUS
<1>5. /\ passes' \in Seq(Seq(Verdict)) /\ Len(passes') = n + 1
      /\ passes'[n + 1] = <<>> /\ \A c \in 1 .. n : passes'[c] = passes[c]
  BY <1>1, <1>2, <1>4, AppendProperties
<1>6. /\ seen' \in Seq(Seq(Sights)) /\ Len(seen') = n + 1
      /\ seen'[n + 1] = <<>> /\ \A c \in 1 .. n : seen'[c] = seen[c]
  BY <1>1, <1>2, <1>4, AppendProperties
<1>7. job \in Jobs /\ Len(job.work) \in Nat
  <2>1. n + 1 \in 1 .. Len(Plan)  BY <1>1, <1>2, <1>3
  <2>2. job \in Jobs  BY <1>2, <2>1, ElementOfSeq
  <2> QED  BY <2>2, LenProperties DEF Jobs
<1>8. Follows(job, <<>>, <<>>)
  BY <1>4, <1>7 DEF Follows
<1> HIDE DEF n
<1>9. Traced(Plan, passes', seen')
  <2> SUFFICES ASSUME NEW c \in 1 .. n + 1 PROVE c <= Len(Plan) /\ Follows(Plan[c], passes'[c], seen'[c])
    BY <1>5 DEF Traced
  <2>1. CASE c = n + 1
    BY <1>1, <1>2, <1>3, <1>5, <1>6, <1>8, <2>1
  <2>2. CASE c # n + 1
    <3>1. c \in 1 .. n  BY <1>2, <2>2
    <3> QED  BY <1>2, <1>5, <1>6, <3>1 DEF Traced, n
  <2> QED  BY <2>1, <2>2
<1>10. Complete(Plan, passes', Len(passes') - 1)
  <2>1. Len(passes') - 1 = n  BY <1>2, <1>5
  <2> QED  BY <1>2, <1>5, <2>1 DEF Complete
<1>11. passes' # <<>>
  BY <1>2, <1>4, <1>5
<1>12. ShapeInv'
  BY <1>1, <1>5, <1>6 DEF SessionInv, ShapeInv
<1>13. TraceInv'
  BY <1>1, <1>3, <1>9, <1>10, <1>11 DEF TraceInv, Answered
<1>14. EnvInv'
  <2>1. Pass' = job  BY <1>3, <1>5 DEF Pass
  <2> QED  BY <1>1, <1>2, <2>1 DEF EnvInv, Override
<1>15. JudgedInv'
  BY <1>1 DEF JudgedInv, Done
<1> QED  BY <1>12, <1>13, <1>14, <1>15 DEF SessionInv

\* A pass that is over.
LEMMA LeaveInv == ASSUME SessionInv, Leave PROVE SessionInv'
<1>1. /\ step = "scenario" /\ ~More /\ osenv' = saved /\ step' = "enter"
      /\ UNCHANGED <<cmd, passes, seen, saved, sut, exit, commands, session>>
  BY DEF Leave, Restored
<1>2. Plan' = Plan /\ passes # <<>>
  BY <1>1, PlanKept DEF SessionInv, TraceInv
<1>3. Len(Results) = Len(Pass.work) /\ Len(passes) \in 1 .. Len(Plan)
  BY <1>1, <1>2, PassTypes DEF More
<1>4. Complete(Plan, passes, Len(passes))
  <2> SUFFICES ASSUME NEW c \in 1 .. Len(passes) PROVE Len(passes[c]) = Len(Plan[c].work)
    BY DEF Complete
  <2>1. CASE c = Len(passes)
    BY <1>3, <2>1 DEF Results, Pass
  <2>2. CASE c # Len(passes)
    <3>1. c \in 1 .. Len(passes) - 1  BY <1>3, <2>2
    <3> QED  BY <3>1 DEF SessionInv, TraceInv, Complete
  <2> QED  BY <2>1, <2>2
<1>5. ShapeInv'
  BY <1>1 DEF SessionInv, ShapeInv
<1>6. TraceInv'
  BY <1>1, <1>2, <1>4 DEF SessionInv, TraceInv, Answered
<1>7. EnvInv'
  BY <1>1 DEF SessionInv, EnvInv
<1>8. JudgedInv'
  BY <1>1 DEF JudgedInv, Done
<1> QED  BY <1>5, <1>6, <1>7, <1>8 DEF SessionInv

\* An exception leaves the pass, and the environment is restored.
LEMMA SkipRaisesInv == ASSUME SessionInv, SkipRaises PROVE SessionInv'
<1>1. /\ step = "scenario" /\ osenv' = saved /\ step' = "ended" /\ exit' = "raised"
      /\ UNCHANGED <<cmd, passes, seen, saved, sut, commands, session>>
  BY DEF SkipRaises, Restored
<1>2. Plan' = Plan
  BY <1>1, PlanKept
<1>3. ShapeInv'
  BY <1>1 DEF SessionInv, ShapeInv
<1>4. TraceInv'
  BY <1>1, <1>2 DEF SessionInv, TraceInv, Answered
<1>5. EnvInv'
  BY <1>1 DEF SessionInv, EnvInv
<1>6. JudgedInv'
  BY <1>1 DEF JudgedInv, Done
<1> QED  BY <1>3, <1>4, <1>5, <1>6 DEF SessionInv

\* The scenario that is next is the next one of the plan.
LEMMA ScenarioIs ==
  ASSUME SessionInv, step \in {"scenario", "sut"}, More
  PROVE  /\ Scenario \in Scenarios
         /\ Infra \in Answers /\ \A o \in Replies[Scenario.id] : o \in Answers
<1>1. passes # <<>>
  BY DEF SessionInv, TraceInv
<1>2. Scenario \in Scenarios
  BY <1>1, PassTypes
<1> QED  BY <1>2 DEF Answers

\* A skipped scenario is one more result of the pass.
LEMMA SkipInv == ASSUME SessionInv, Skip PROVE SessionInv'
<1>1. /\ step = "scenario" /\ More /\ Note(NotRun, Append(Results, Skipped(Scenario)))
      /\ UNCHANGED <<cmd, step, osenv, saved, sut, exit, commands, session>>
  BY DEF Skip
<1>2. Skipped(Scenario) \in Verdict /\ Matches(Scenario, Skipped(Scenario), NotRun)
  BY <1>1, ScenarioIs, SkippedType DEF Matches
<1>3. sut' = "none" /\ step' = "scenario"
  BY <1>1 DEF SessionInv, ShapeInv
<1> QED  BY <1>1, <1>2, <1>3, NoteInv

\* A scenario that ran, in whatever way.
LEMMA RanInv ==
  ASSUME SessionInv, step \in {"scenario", "sut"}, More, NEW o \in Answers,
         Note(o, Append(Results, Ran(Scenario, o))), step' = "scenario", sut' = "none",
         UNCHANGED <<cmd, osenv, saved, exit, commands, session>>
  PROVE  SessionInv'
<1>1. Ran(Scenario, o) \in Verdict /\ Matches(Scenario, Ran(Scenario, o), o)
  BY ScenarioIs, RanType DEF Matches
<1> QED  BY <1>1, NoteInv

\* So is a scenario called in process,
LEMMA CallInv == ASSUME SessionInv, Call PROVE SessionInv'
<1>1. PICK o \in Replies[Scenario.id] \cup {Infra} : Note(o, Append(Results, Ran(Scenario, o)))
  BY DEF Call
<1>2. /\ step = "scenario" /\ More
      /\ UNCHANGED <<cmd, step, osenv, saved, sut, exit, commands, session>>
  BY DEF Call, Goes
<1>3. o \in Answers
  BY <1>2, ScenarioIs
<1>4. sut' = "none" /\ step' = "scenario"
  BY <1>2 DEF SessionInv, ShapeInv
<1> QED  BY <1>1, <1>2, <1>3, <1>4, RanInv

\* one whose command cannot be started,
LEMMA LaunchFailsInv == ASSUME SessionInv, LaunchFails PROVE SessionInv'
<1>1. /\ step = "scenario" /\ More /\ Note(Infra, Append(Results, Ran(Scenario, Infra)))
      /\ UNCHANGED <<cmd, step, osenv, saved, sut, exit, commands, session>>
  BY DEF LaunchFails, Goes
<1>2. Infra \in Answers
  BY <1>1, ScenarioIs
<1>3. sut' = "none" /\ step' = "scenario"
  BY <1>1 DEF SessionInv, ShapeInv
<1> QED  BY <1>1, <1>2, <1>3, RanInv

\* one whose command has exited,
LEMMA ExitsInv == ASSUME SessionInv, Exits PROVE SessionInv'
<1>1. PICK o \in Replies[Scenario.id] : Note(o, Append(Results, Ran(Scenario, o)))
  BY DEF Exits
<1>2. /\ step = "sut" /\ sut' = "none" /\ step' = "scenario" /\ More
      /\ UNCHANGED <<cmd, osenv, saved, exit, commands, session>>
  BY DEF Exits, SessionInv, TraceInv
<1>3. o \in Answers
  BY <1>2, ScenarioIs
<1> QED  BY <1>1, <1>2, <1>3, RanInv

\* and one whose command was killed at its timeout.
LEMMA DrainInv == ASSUME SessionInv, Drain PROVE SessionInv'
<1>1. /\ step = "sut" /\ sut' = "none" /\ step' = "scenario" /\ More
      /\ Note(Infra, Append(Results, Ran(Scenario, Infra)))
      /\ UNCHANGED <<cmd, osenv, saved, exit, commands, session>>
  BY DEF Drain, SessionInv, TraceInv
<1>2. Infra \in Answers
  BY <1>1, ScenarioIs
<1> QED  BY <1>1, <1>2, RanInv

\* Starting and killing the process gives no result.
LEMMA ProcessInv == ASSUME SessionInv, Launch \/ Timeout PROVE SessionInv'
<1>1. /\ step \in {"scenario", "sut"} /\ More /\ step' = "sut" /\ sut' \in {"running", "killed"}
      /\ UNCHANGED <<cmd, passes, seen, osenv, saved, exit, commands, session>>
  BY DEF Launch, Goes, Timeout, SessionInv, TraceInv
<1> QED  BY <1>1, MidPassInv

----------------------------------------------------------------------------
LEMMA GreenIs == \A ok : Green(ok) \in {"green", "red"} /\ (Green(ok) = "green" <=> ok)
  BY DEF Green

\* A green answer of run and determinism is what their gates say.
LEMMA FinishStepInv == ASSUME SessionInv, Finish PROVE SessionInv'
<1>1. UNCHANGED <<cmd, passes, seen, osenv, saved, sut, commands, session>>
  BY DEF Finish, FinishRun, Write, FinishWrite, FinishCapture, FinishBaseline, FinishMatrix,
         FinishDeterminism
<1>2. AllPasses \/ step = "write"
  BY DEF Finish, FinishRun, Write, FinishWrite, FinishCapture, FinishBaseline, FinishMatrix,
         FinishDeterminism
<1>3. cmd.mode \in Running
  BY <1>2 DEF AllPasses, SessionInv, ShapeInv
<1>4. CASE FinishRun
  <2>1. CASE cmd.out = "nowhere"
    <3>1. step' = "ended" /\ exit' = Green(Passed(Report)) /\ cmd.mode = "run"
      BY <1>4, <2>1 DEF FinishRun, End
    <3>2. exit' \in {"green", "red"} /\ (exit' = "green" => Passed(Report))
      BY <3>1, GreenIs
    <3> QED  BY <1>1, <1>2, <3>1, <3>2, FinishInv DEF Done
  <2>2. CASE cmd.out # "nowhere"
    <3>1. step' = "write" /\ exit' = exit /\ cmd.mode = "run"
      BY <1>4, <2>2 DEF FinishRun
    <3>2. exit \in {"green", "red", "raised", "killed"}
      BY DEF SessionInv, ShapeInv
    <3> QED  BY <1>1, <1>2, <2>2, <3>1, <3>2, FinishInv DEF Done
  <2> QED  BY <2>1, <2>2
<1>5. CASE Write
  <2>1. step = "write" /\ step' = "write" /\ exit' = exit /\ cmd.mode = "run" /\ cmd.out # "nowhere"
        /\ exit \in {"green", "red", "raised", "killed"}
    BY <1>5 DEF Write, SessionInv, ShapeInv
  <2> QED  BY <1>1, <2>1, FinishInv DEF Done
<1>6. CASE FinishWrite
  <2>1. step = "write" /\ step' = "ended" /\ exit' = Green(Passed(Report)) /\ cmd.mode = "run"
    BY <1>6 DEF FinishWrite, End, SessionInv, ShapeInv
  <2>2. exit' \in {"green", "red"} /\ (exit' = "green" => Passed(Report))
    BY <2>1, GreenIs
  <2> QED  BY <1>1, <2>1, <2>2, FinishInv DEF Done
<1>7. CASE FinishCapture
  <2>1. step' = "ended" /\ exit' = "green" /\ cmd.mode = "capture"
    BY <1>7 DEF FinishCapture, End
  <2> QED  BY <1>1, <1>2, <2>1, FinishInv DEF Done
<1>8. CASE FinishBaseline
  <2>1. step' = "ended" /\ exit' \in {"green", "red", "raised"} /\ cmd.mode = "baseline"
    BY <1>8, GreenIs DEF FinishBaseline, End
  <2> QED  BY <1>1, <1>2, <2>1, FinishInv DEF Done
<1>9. CASE FinishMatrix
  <2>1. step' = "ended" /\ exit' \in {"green", "red"} /\ cmd.mode = "matrix"
    BY <1>9, GreenIs DEF FinishMatrix, End
  <2> QED  BY <1>1, <1>2, <2>1, FinishInv DEF Done
<1>10. CASE FinishDeterminism
  <2>1. /\ step' = "ended" /\ cmd.mode = "determinism"
        /\ exit' = Green(\A i \in DOMAIN passes : Classify(passes[i]) # "flaky")
    BY <1>10 DEF FinishDeterminism, End
  <2>2. /\ exit' \in {"green", "red"}
        /\ exit' = "green" => \A i \in DOMAIN passes : Classify(passes[i]) # "flaky"
    BY <2>1, GreenIs
  <2> QED  BY <1>1, <1>2, <2>1, <2>2, FinishInv DEF Done
<1> QED  BY <1>4, <1>5, <1>6, <1>7, <1>8, <1>9, <1>10 DEF Finish

\* verify, a kill and an edit leave no command half done.
LEMMA OutsideInv == ASSUME SessionInv, Verify \/ Kill \/ Edit PROVE SessionInv'
<1>1. /\ passes' = <<>> /\ seen' = <<>> /\ session' = session /\ step' = "ended"
      /\ cmd'.mode \in {"none", "verify"} /\ osenv' = Mode0 /\ sut' = "none"
  BY DEF Verify, Kill, Edit, NoCommand, SessionInv, ShapeInv, EnvInv
<1>2. exit' \in {"green", "red", "raised", "killed"}
  BY GreenIs DEF Verify, Kill, Edit
<1>3. commands' \in 0 .. Len(session)
  <2>1. Len(session) \in Nat /\ commands \in 0 .. Len(session)
    BY SessionType DEF SessionInv, ShapeInv
  <2>2. commands' = commands \/ (commands < Len(session) /\ commands' = commands + 1)
    BY DEF Verify, Kill, Edit
  <2> QED  BY <2>1, <2>2
<1> QED  BY <1>1, <1>2, <1>3, ForgetInv

\* Every step keeps SessionInv.
LEMMA SessionInvNext == SessionInv /\ [Next]_vars => SessionInv'
<1> SUFFICES ASSUME SessionInv, [Next]_vars PROVE SessionInv'
  OBVIOUS
<1>1. CASE RunOne
  BY <1>1, SkipInv, SkipRaisesInv, CallInv, ProcessInv, LaunchFailsInv, DrainInv DEF RunOne
<1>2. CASE UNCHANGED vars
  <2>1. Plan' = Plan /\ Pass' = Pass /\ More' = More /\ Report' = Report
    BY <1>2, PlanKept DEF vars, Pass, More, Results, Report
  <2>2. ShapeInv'
    BY <1>2 DEF vars, SessionInv, ShapeInv
  <2>3. TraceInv'
    BY <1>2, <2>1 DEF vars, SessionInv, TraceInv, Answered
  <2>4. EnvInv'
    BY <1>2, <2>1 DEF vars, SessionInv, EnvInv
  <2>5. JudgedInv'
    BY <1>2, <2>1 DEF vars, SessionInv, JudgedInv, Done
  <2> QED  BY <2>2, <2>3, <2>4, <2>5 DEF SessionInv
<1> QED  BY <1>1, <1>2, CommandInv, EnterInv, LeaveInv, ExitsInv, FinishStepInv, OutsideInv
         DEF Next, Work

\* SessionInv holds throughout.
LEMMA SessionInvariant == Spec => []SessionInv
  BY SessionInvInit, SessionInvNext, PTL DEF Spec

----------------------------------------------------------------------------
(* The verdicts. *)

\* A result of a pass, and what was seen of it.
LEMMA ResultIs ==
  ASSUME SessionInv, NEW c \in DOMAIN passes
  PROVE  /\ c \in 1 .. Len(Plan) /\ Plan[c] \in Jobs /\ c \in 1 .. Len(passes)
         /\ passes[c] \in Seq(Verdict) /\ seen[c] \in Seq(Sights)
         /\ DOMAIN passes[c] = 1 .. Len(passes[c]) /\ DOMAIN seen[c] = 1 .. Len(passes[c])
         /\ Len(seen[c]) = Len(passes[c])
         /\ \A i \in 1 .. Len(passes[c]) :
               /\ passes[c][i] \in Verdict
               /\ Matches(Plan[c].work[i], passes[c][i], seen[c][i][1])
               /\ seen[c][i][2] = Override(Plan[c])
               /\ passes[c][i].id = Plan[c].work[i].id
<1>1. /\ passes \in Seq(Seq(Verdict)) /\ seen \in Seq(Seq(Sights)) /\ Len(passes) = Len(seen)
      /\ Traced(Plan, passes, seen) /\ Plan \in Seq(Jobs)
  BY PlanSound DEF SessionInv, ShapeInv, TraceInv
<1>2. c \in 1 .. Len(passes) /\ c \in 1 .. Len(Plan) /\ Follows(Plan[c], passes[c], seen[c])
  <2>1. c \in 1 .. Len(passes) /\ Len(Plan) \in Nat  BY <1>1, LenProperties
  <2> QED  BY <1>1, <2>1 DEF Traced
<1>3. passes[c] \in Seq(Verdict) /\ seen[c] \in Seq(Sights) /\ Plan[c] \in Jobs
  BY <1>1, <1>2, ElementOfSeq
<1>4. /\ DOMAIN passes[c] = 1 .. Len(passes[c]) /\ DOMAIN seen[c] = 1 .. Len(passes[c])
      /\ Len(seen[c]) = Len(passes[c])
  BY <1>2, <1>3, LenProperties DEF Follows
<1>5. ASSUME NEW i \in 1 .. Len(passes[c])
      PROVE  /\ passes[c][i] \in Verdict
             /\ Matches(Plan[c].work[i], passes[c][i], seen[c][i][1])
             /\ seen[c][i][2] = Override(Plan[c])
             /\ passes[c][i].id = Plan[c].work[i].id
  <2>1. passes[c][i] \in Verdict  BY <1>3, ElementOfSeq
  <2>2. Matches(Plan[c].work[i], passes[c][i], seen[c][i][1]) /\ seen[c][i][2] = Override(Plan[c])
    BY <1>2 DEF Follows
  <2>3. passes[c][i].id = Plan[c].work[i].id  BY <2>2 DEF Matches, Skipped, Ran
  <2> QED  BY <2>1, <2>2, <2>3
<1> QED  BY <1>2, <1>3, <1>4, <1>5

\* The parts of VerdictsAreEarned, beginning with the types.
LEMMA TypeHolds == SessionInv => TypeOK
<1> SUFFICES ASSUME SessionInv PROVE TypeOK
  OBVIOUS
<1>1. ASSUME NEW c \in DOMAIN passes
      PROVE  /\ Len(passes[c]) = Len(seen[c])
             /\ \A i \in DOMAIN passes[c] : passes[c][i].status \in {"PASS", "FAIL", "ERROR", "SKIP"}
  <2>1. /\ Len(seen[c]) = Len(passes[c]) /\ DOMAIN passes[c] = 1 .. Len(passes[c])
        /\ \A i \in 1 .. Len(passes[c]) : passes[c][i] \in Verdict
    BY ResultIs
  <2> QED  BY <2>1 DEF Verdict, Statuses
<1> QED  BY <1>1 DEF TypeOK, SessionInv, ShapeInv

\* A green run selected something, ran it all, and its checks hold.
LEMMA GreenHolds == SessionInv => GreenIsEarned
<1> SUFFICES ASSUME SessionInv, Done("run"), exit = "green"
             PROVE  LET suite == Select(cmd.tag) IN
                    /\ suite # <<>> /\ Len(Report) = Len(suite)
                    /\ \A i \in DOMAIN suite :
                          /\ Report[i].id = suite[i].id
                          /\ Outcome(1, i) # NotRun =>
                                /\ Outcome(1, i).ok
                                /\ \A k \in DOMAIN suite[i].checks :
                                      CheckHolds(suite[i].checks[k], Outcome(1, i))
  BY DEF GreenIsEarned
<1> DEFINE suite == Select(cmd.tag)
<1>1. cmd.mode = "run" /\ Answered
  BY DEF Done, Answered, Running
<1>2. Plan = <<[mode |-> None, work |-> suite]>>
  BY <1>1 DEF Plan
<1>3. Len(Plan) = 1 /\ Plan[1].work = suite
  BY <1>2
<1>4. Len(passes) = 1 /\ Complete(Plan, passes, 1) /\ Passed(Report)
  BY <1>1, <1>3 DEF SessionInv, TraceInv, JudgedInv
<1>5. passes \in Seq(Seq(Verdict)) /\ 1 \in DOMAIN passes /\ Report = passes[1]
  <2>1. passes \in Seq(Seq(Verdict))  BY DEF SessionInv, ShapeInv
  <2>2. DOMAIN passes = 1 .. 1  BY <1>4, <2>1, LenProperties
  <2>3. passes # <<>>
    <3>1. Len(passes) = 1 /\ Len(<<>>) = 0  BY <1>4
    <3> QED  BY <3>1
  <2> QED  BY <2>1, <2>2, <2>3 DEF Report
<1>6. suite \in Seq(Scenarios) /\ DOMAIN suite = 1 .. Len(suite)
  <2>1. suite \in Seq(Scenarios)  BY SelectSound
  <2> HIDE DEF suite
  <2> QED  BY <2>1, LenProperties
<1> HIDE DEF suite
<1>7. Len(Report) = Len(suite)
  BY <1>3, <1>4, <1>5 DEF Complete
<1>8. suite # <<>>
  <2>1. Report # <<>> /\ Report \in Seq(Verdict)  BY <1>4, <1>5, ResultIs DEF Passed
  <2> QED  BY <1>7, <2>1, EmptySeq, LenProperties
<1>9. ASSUME NEW i \in DOMAIN suite
      PROVE  /\ Report[i].id = suite[i].id
             /\ Outcome(1, i) # NotRun =>
                   /\ Outcome(1, i).ok
                   /\ \A k \in DOMAIN suite[i].checks : CheckHolds(suite[i].checks[k], Outcome(1, i))
  <2>1. /\ i \in 1 .. Len(passes[1]) /\ i \in DOMAIN Report
        /\ Matches(suite[i], Report[i], Outcome(1, i)) /\ Report[i].id = suite[i].id
    BY <1>3, <1>5, <1>6, <1>7, ResultIs DEF Outcome
  <2>2. ~Failing(Report[i])
    BY <1>4, <2>1 DEF Passed
  <2>3. Outcome(1, i) # NotRun => Report[i] = Ran(suite[i], Outcome(1, i))
    BY <2>1 DEF Matches
  <2> QED  BY <2>1, <2>2, <2>3, RanHolds
<1> QED  BY <1>7, <1>8, <1>9 DEF suite

\* What run reports is a list of results.
LEMMA ReportType == SessionInv => Report \in Seq(Verdict)
<1> SUFFICES ASSUME SessionInv PROVE Report \in Seq(Verdict)
  OBVIOUS
<1>1. CASE passes = <<>>
  BY <1>1 DEF Report
<1>2. CASE passes # <<>>
  BY <1>2, PassTypes, ResultIs DEF Report
<1> QED  BY <1>1, <1>2

\* The baseline gate differs between machines by the performance metrics only.
LEMMA PortableHolds == SessionInv => PortableVerdict
<1> SUFFICES ASSUME SessionInv, NEW h \in Machines
             PROVE  LET golden == files["baseline"].golden
                        On(k) == Regressions(k, Report, golden, Policy)
                        Perf == {r \in On(golden.hw) : r[2] = "metric" /\ HardwareSensitive(Policy[r[3]])}
                    IN  /\ On(h) = IF h = golden.hw THEN On(golden.hw) ELSE On(golden.hw) \ Perf
                        /\ Regressions(h, Report, CaptureBaseline(h, Report), Policy) = {}
  BY DEF PortableVerdict
<1>1. Regressions(h, Report, CaptureBaseline(h, Report), Policy) = {}
  BY ReportType, OwnBaseline
<1> QED  BY <1>1, OtherMachine

\* A green determinism gate saw every scenario end in one way, skips aside.
LEMMA FlakyHolds == SessionInv => FlakyIsCaught
<1> SUFFICES ASSUME SessionInv, Done("determinism"), exit = "green",
                    NEW p \in DOMAIN passes, NEW i \in DOMAIN passes[p], NEW j \in DOMAIN passes[p]
             PROVE  \/ "SKIP" \in {passes[p][i].status, passes[p][j].status}
                    \/ passes[p][i].status = passes[p][j].status
  BY DEF FlakyIsCaught
<1>1. Classify(passes[p]) # "flaky"
  BY DEF SessionInv, JudgedInv
<1>2. passes[p] \in Seq(Verdict)
  BY ResultIs
<1> QED  BY <1>1, <1>2, NotFlaky

\* The matrix names the scenarios whose status differs, and no others.
LEMMA MatrixHolds == SessionInv => MatrixTellsApart
<1> SUFFICES ASSUME SessionInv, Done("matrix"), exit \in {"green", "red"},
                    NEW i \in DOMAIN Select(cmd.tag)
             PROVE  (Select(cmd.tag)[i].id \in Divergent(passes)) <=>
                      \E c, d \in DOMAIN passes : passes[c][i].status # passes[d][i].status
  BY DEF MatrixTellsApart
<1> DEFINE suite == Select(cmd.tag)
<1>1. cmd.mode = "matrix" /\ Answered
  BY DEF Done, Answered, Running
<1>2. suite \in Seq(Scenarios) /\ Distinct(suite)
  BY SelectSound
<1>3. ASSUME NEW c \in DOMAIN passes PROVE Plan[c].work = suite
  <2>1. Plan = [k \in DOMAIN Matrix |-> [mode |-> Matrix[k], work |-> suite]]
    BY <1>1 DEF Plan
  <2>2. c \in DOMAIN Plan
    BY ResultIs, PlanSound, LenProperties
  <2> HIDE DEF suite
  <2> QED  BY <2>1, <2>2
<1> HIDE DEF suite
<1>4. ASSUME NEW c \in DOMAIN passes
      PROVE  Len(passes[c]) = Len(suite) /\ \A k \in 1 .. Len(suite) : passes[c][k].id = suite[k].id
  <2>1. Len(passes[c]) = Len(suite)
    BY <1>1, <1>3, ResultIs DEF SessionInv, TraceInv, Complete
  <2> QED  BY <1>3, <2>1, ResultIs
<1>5. i \in 1 .. Len(suite)
  BY <1>2, LenProperties DEF suite
<1>6. passes \in Seq(Seq(Verdict))
  BY DEF SessionInv, ShapeInv
<1>7. (suite[i].id \in Divergent(passes)) <=>
        \E c, d \in DOMAIN passes : passes[c][i].status # passes[d][i].status
  BY <1>2, <1>4, <1>5, <1>6, DivergentIs
<1> QED  BY <1>7 DEF suite

\* A scenario saw the LAB_MODE of its pass.
LEMMA ConfigsHold == SessionInv => ConfigsDoNotLeak
<1> SUFFICES ASSUME SessionInv PROVE ConfigsDoNotLeak
  OBVIOUS
<1>1. step = "ended" => osenv = Mode0
  BY DEF SessionInv, EnvInv
<1>2. ASSUME cmd.mode = "matrix", NEW c \in DOMAIN seen, NEW i \in DOMAIN seen[c]
      PROVE  seen[c][i][2] = IF Matrix[c] = None THEN Mode0 ELSE Matrix[c]
  <2>1. c \in DOMAIN passes
    BY LenProperties DEF SessionInv, ShapeInv
  <2>2. seen[c][i][2] = Override(Plan[c]) /\ c \in DOMAIN Plan
    BY <2>1, ResultIs, PlanSound, LenProperties
  <2>3. Plan = [k \in DOMAIN Matrix |-> [mode |-> Matrix[k], work |-> Select(cmd.tag)]]
    BY <1>2 DEF Plan
  <2>4. Plan[c].mode = Matrix[c]
    BY <2>2, <2>3
  <2> QED  BY <2>2, <2>4 DEF Override
<1> QED  BY <1>1, <1>2 DEF ConfigsDoNotLeak

(***************************************************************************)
(* For any suite of distinct ids, any systems under test, matrix, policy   *)
(* and sessions: no verdict that was not earned.  A green run has run all  *)
(* it selected and every check held; a baseline judged on another machine  *)
(* differs in nothing but performance, and no run regresses against        *)
(* itself; the determinism gate catches every flaky scenario; the matrix   *)
(* names exactly the scenarios that depend on the configuration, and no    *)
(* configuration outlives its pass.                                        *)
(***************************************************************************)
THEOREM VerdictsAlwaysEarned == Spec => []VerdictsAreEarned
<1>1. SessionInv => VerdictsAreEarned
  BY TypeHolds, GreenHolds, PortableHolds, FlakyHolds, MatrixHolds, ConfigsHold
  DEF VerdictsAreEarned
<1> QED  BY <1>1, SessionInvariant, PTL

----------------------------------------------------------------------------
(* The files. *)

RunFiles == {"ndjson", "junit", "report"}

\* A report that was not edited is one a run produced.
ReportInv ==
  \/ files["report"] = NoFile
  \/ /\ files["report"].results \in Seq(Verdict)
     /\ files["report"].run # 0 => files["report"].results \in produced

\* A seal is that of a report which a run produced: of the one beside it, if they are of one run.
SealInv ==
  \/ files["seal"] = NoFile
  \/ /\ files["seal"].run # 0
     /\ \E sealed \in produced : \E key \in Keys :
          /\ files["seal"].seal = SealReport(sealed, key)
          /\ files["report"].run = files["seal"].run => files["report"].results = sealed

\* Files are of commands so far; of this one they are its reports, written at its end.
FilesInv ==
  /\ files = [a \in Artifacts |-> files[a]]
  /\ \A a \in Artifacts : files[a].run \in 0 .. commands
  /\ step # "ended" =>
        \A a \in Artifacts : files[a].run = commands =>
            step = "write" /\ a \in RunFiles /\ files[a] = File
  /\ step # "ended" => commands > 0
  /\ step = "write" => Report \in produced

VerifiedInv ==
  (Done("verify") /\ exit # "raised") =>
    /\ files["report"] # NoFile /\ files["seal"] # NoFile
    /\ exit = Green(VerifyReport(files["report"].results, files["seal"].seal, cmd.key))

DiskInv ==
  /\ produced \subseteq Seq(Verdict)
  /\ cmd.mode \in Running => cmd.key \in Keys
  /\ FilesInv /\ ReportInv /\ SealInv /\ VerifiedInv /\ ArtifactsAgree

\* A session begins with an empty disk.
LEMMA DiskInvInit == Init => DiskInv
<1> SUFFICES ASSUME Init PROVE DiskInv
  OBVIOUS
<1>1. /\ files = [a \in Artifacts |-> NoFile] /\ commands = 0 /\ produced = {}
      /\ step = "ended" /\ cmd.mode = "none"
  BY DEF Init, NoCommand
<1>2. \A a \in Artifacts : files[a] = NoFile /\ files[a].run = 0
  BY <1>1 DEF NoFile
<1>3. FilesInv
  BY <1>1, <1>2 DEF FilesInv
<1>4. ReportInv /\ SealInv
  BY <1>2 DEF ReportInv, SealInv, Artifacts
<1>5. VerifiedInv /\ ArtifactsAgree
  BY <1>1 DEF VerifiedInv, ArtifactsAgree, Done
<1> QED  BY <1>1, <1>3, <1>4, <1>5 DEF DiskInv, Running

\* A step that writes no file and gives no answer.
LEMMA DiskKept ==
  ASSUME SessionInv, DiskInv, files' = files, produced' = produced,
         commands' = commands \/ (step = "ended" /\ commands' = commands + 1),
         \/ step' # "ended" /\ step' # "write" /\ step # "write"
            /\ (step = "ended" => commands' = commands + 1)
         \/ step' = "ended",
         ~(Done("run") /\ exit \in {"green", "red"} /\ cmd.out # "nowhere")',
         ~Done("verify")',
         (cmd.mode \in Running)' => cmd' = cmd \/ cmd'.key \in Keys
  PROVE  DiskInv'
<1>1. commands \in Nat
  BY SessionType DEF SessionInv, ShapeInv
<1>2. FilesInv'
  <2>1. \A a \in Artifacts : files'[a].run \in 0 .. commands'
    BY <1>1 DEF DiskInv, FilesInv
  <2>2. step' # "ended" => commands' > 0 /\ step' # "write"
    BY <1>1 DEF DiskInv, FilesInv
  <2>3. ASSUME step' # "ended", NEW a \in Artifacts PROVE files'[a].run # commands'
    <3>1. files[a].run \in 0 .. commands /\ files'[a] = files[a]
      BY DEF DiskInv, FilesInv
    <3>2. CASE step = "ended"
      BY <1>1, <2>3, <3>1, <3>2
    <3>3. CASE step # "ended"
      <4>1. step # "write" /\ commands' = commands  BY <2>3, <3>3
      <4> QED  BY <3>1, <3>3, <4>1 DEF DiskInv, FilesInv
    <3> QED  BY <3>2, <3>3
  <2> QED  BY <2>1, <2>2, <2>3 DEF DiskInv, FilesInv
<1>3. ReportInv' /\ SealInv'
  BY DEF DiskInv, ReportInv, SealInv
<1>4. VerifiedInv' /\ ArtifactsAgree'
  BY DEF VerifiedInv, ArtifactsAgree, Done
<1> QED  BY <1>2, <1>3, <1>4 DEF DiskInv

\* These steps write no file.
LEMMA QuietDisk ==
  ASSUME SessionInv, DiskInv,
         \/ Command \/ Enter \/ Leave \/ RunOne \/ Exits \/ Kill
         \/ FinishBaseline \/ FinishMatrix \/ FinishDeterminism
  PROVE  DiskInv'
<1>0. "none" \notin Running /\ cmd'.mode = cmd'.mode
  BY DEF Running
<1>1. CASE Command
  <2>1. PICK mode \in {session[commands + 1]} \ {"verify"}, args \in Arguments, hw \in Machines,
             key \in Keys, out \in {"nowhere", "directory", "sealed"} :
          cmd' = [mode |-> mode, tag |-> args[1], quarantine |-> args[2],
                  hw |-> hw, key |-> key, out |-> out]
    BY <1>1 DEF Command
  <2>2. /\ files' = files /\ produced' = produced /\ step = "ended" /\ commands' = commands + 1
        /\ step' = "enter" /\ cmd'.key \in Keys
    BY <1>1, <2>1 DEF Command
  <2> QED  BY <2>2, DiskKept DEF Done
<1>2. CASE Enter \/ Leave \/ RunOne \/ Exits
  <2>1. /\ files' = files /\ produced' = produced /\ commands' = commands /\ cmd' = cmd
        /\ step \in {"enter", "scenario", "sut"}
        /\ step' \in {"enter", "scenario", "sut"} \/ (step' = "ended" /\ exit' = "raised" /\ SkipRaises)
    BY <1>2 DEF Enter, Leave, RunOne, Skip, SkipRaises, Call, Launch, LaunchFails, Timeout, Drain,
                Exits, Goes
  <2>2. cmd.mode # "verify"
    BY <2>1 DEF SessionInv, ShapeInv, Running
  <2> QED  BY <2>1, <2>2, DiskKept DEF Done
<1>3. CASE Kill
  <2>1. /\ files' = files /\ produced' = produced /\ commands' = commands /\ cmd'.mode = "none"
        /\ step' = "ended"
    BY <1>3 DEF Kill, NoCommand
  <2> QED  BY <1>0, <2>1, DiskKept DEF Done
<1>4. CASE FinishBaseline \/ FinishMatrix \/ FinishDeterminism
  <2>1. /\ files' = files /\ produced' = produced /\ commands' = commands /\ cmd' = cmd
        /\ step' = "ended" /\ cmd.mode \in {"baseline", "matrix", "determinism"}
    BY <1>4 DEF FinishBaseline, FinishMatrix, FinishDeterminism, End
  <2> QED  BY <2>1, DiskKept DEF Done
<1> QED  BY <1>1, <1>2, <1>3, <1>4

\* Before the reports are written, no file is of this command.
LEMMA NoneWritten ==
  ASSUME SessionInv, DiskInv, step \notin {"ended", "write"}, NEW a \in Artifacts
  PROVE  files[a].run < commands /\ commands \in Nat
<1>1. commands \in Nat
  BY SessionType DEF SessionInv, ShapeInv
<1> QED  BY <1>1 DEF DiskInv, FilesInv

\* A run that ends has produced its report.
LEMMA FinishRunDisk == ASSUME SessionInv, DiskInv, FinishRun PROVE DiskInv'
<1>1. /\ step = "enter" /\ cmd.mode = "run" /\ produced' = produced \cup {Report}
      /\ step' \in {"write", "ended"} /\ (step' = "ended" => cmd.out = "nowhere")
      /\ UNCHANGED <<cmd, passes, files, commands>>
  BY DEF FinishRun, AllPasses, End
<1>2. Report' = Report /\ Report \in Seq(Verdict)
  BY <1>1, ReportType DEF Report
<1>3. \A a \in Artifacts : files[a].run < commands /\ files[a].run \in 0 .. commands /\ commands \in Nat
  BY <1>1, NoneWritten DEF DiskInv, FilesInv
<1>4. FilesInv'
  BY <1>1, <1>2, <1>3 DEF DiskInv, FilesInv
<1>5. ReportInv' /\ SealInv'
  BY <1>1 DEF DiskInv, ReportInv, SealInv
<1>6. VerifiedInv' /\ ArtifactsAgree'
  BY <1>1 DEF VerifiedInv, ArtifactsAgree, Done
<1> QED  BY <1>1, <1>2, <1>4, <1>5, <1>6 DEF DiskInv

\* What is written is the report of this command.
LEMMA FileIs == File.run = commands /\ File.results = Report
  BY DEF File

\* A file that is written replaces the one of an earlier command.
LEMMA WriteDisk == ASSUME SessionInv, DiskInv, Write PROVE DiskInv'
<1>1. PICK i \in DOMAIN Written :
        files[Written[i]].run # commands /\ files' = [files EXCEPT ![Written[i]] = File]
  BY DEF Write
<1> DEFINE b == Written[i]
<1>2. b \in RunFiles /\ RunFiles \subseteq Artifacts /\ "seal" \in Artifacts /\ "report" \in Artifacts
      /\ "seal" \notin RunFiles
  BY DEF Written, RunFiles, Artifacts
<1>3. /\ step = "write" /\ step' = "write" /\ cmd.mode = "run"
      /\ UNCHANGED <<cmd, passes, produced, commands>>
  BY DEF Write, SessionInv, ShapeInv
<1>4. Report' = Report /\ Report \in Seq(Verdict) /\ Report \in produced /\ File' = File
  BY <1>3, ReportType DEF Report, File, DiskInv, FilesInv
<1>5. commands \in Nat
  BY SessionType DEF SessionInv, ShapeInv
<1> HIDE DEF b
<1>6. /\ files' = [a \in Artifacts |-> files'[a]] /\ files'[b] = File
      /\ \A a \in Artifacts : a # b => files'[a] = files[a]
  <2>1. files = [a \in Artifacts |-> files[a]] /\ b \in Artifacts  BY <1>2 DEF DiskInv, FilesInv
  <2>2. files' = [files EXCEPT ![b] = File]  BY <1>1 DEF b
  <2> QED  BY <2>1, <2>2
<1>7. FilesInv'
  <2>1. ASSUME NEW a \in Artifacts
        PROVE  /\ files'[a].run \in 0 .. commands
               /\ files'[a].run = commands => a \in RunFiles /\ files'[a] = File
    <3>1. CASE a = b
      BY <1>2, <1>5, <1>6, <3>1, FileIs
    <3>2. CASE a # b
      BY <1>3, <1>6, <3>2 DEF DiskInv, FilesInv
    <3> QED  BY <3>1, <3>2
  <2>2. commands > 0
    BY <1>3 DEF DiskInv, FilesInv
  <2> QED  BY <1>3, <1>4, <1>6, <2>1, <2>2 DEF FilesInv
<1>8. ReportInv'
  <2>1. CASE b = "report"
    BY <1>3, <1>4, <1>6, <2>1, FileIs DEF ReportInv
  <2>2. CASE b # "report"
    BY <1>2, <1>3, <1>6, <2>2 DEF DiskInv, ReportInv
  <2> QED  BY <2>1, <2>2
<1>9. SealInv'
  <2>1. files'["seal"] = files["seal"]
    BY <1>2, <1>6
  <2>2. files["seal"].run # commands
    BY <1>2, <1>3 DEF DiskInv, FilesInv
  <2>3. files'["report"] = files["report"] \/ files'["report"].run = commands
    BY <1>2, <1>6, FileIs
  <2> QED  BY <1>3, <2>1, <2>2, <2>3 DEF DiskInv, SealInv
<1>10. VerifiedInv' /\ ArtifactsAgree'
  BY <1>3 DEF VerifiedInv, ArtifactsAgree, Done
<1> QED  BY <1>3, <1>7, <1>8, <1>9, <1>10 DEF DiskInv

\* All three reports are this run's.
LEMMA AllAreWritten ==
  ASSUME SessionInv, DiskInv, step = "write", AllWritten, NEW a \in RunFiles
  PROVE  files[a] = File
<1>1. Written[1] = "ndjson" /\ Written[2] = "junit" /\ Written[3] = "report" /\ DOMAIN Written = 1 .. 3
  BY DEF Written
<1>2. files[Written[1]].run = commands /\ files[Written[2]].run = commands
      /\ files[Written[3]].run = commands
  BY <1>1 DEF AllWritten
<1>3. files[a].run = commands
  BY <1>1, <1>2 DEF RunFiles
<1>4. a \in Artifacts
  BY DEF RunFiles, Artifacts
<1> QED  BY <1>3, <1>4 DEF DiskInv, FilesInv

\* When everything is written, it all is of this command.
LEMMA FinishWriteDisk == ASSUME SessionInv, DiskInv, FinishWrite PROVE DiskInv'
<1> DEFINE new == [run |-> commands, seal |-> SealReport(Report, cmd.key)]
<1>1. /\ step = "write" /\ AllWritten /\ step' = "ended" /\ cmd.mode = "run"
      /\ UNCHANGED <<cmd, passes, produced, commands>>
      /\ files' = IF cmd.out # "sealed" THEN files ELSE [files EXCEPT !["seal"] = new]
  BY DEF FinishWrite, End, SessionInv, ShapeInv
<1>2. Report' = Report /\ Report \in produced /\ cmd.key \in Keys
  BY <1>1 DEF Report, DiskInv, FilesInv, Running
<1>3. commands \in Nat /\ commands > 0
  BY <1>1, SessionType DEF SessionInv, ShapeInv, DiskInv, FilesInv
<1>4. /\ "seal" \in Artifacts /\ RunFiles \subseteq Artifacts /\ "seal" \notin RunFiles
      /\ "report" \in RunFiles
  BY DEF Artifacts, RunFiles
<1>5. \A a \in RunFiles : files[a] = File
  BY <1>1, AllAreWritten
<1>6. new.run = commands /\ new.seal = SealReport(Report, cmd.key)
  OBVIOUS
<1> HIDE DEF new
<1>7. /\ files' = [a \in Artifacts |-> files'[a]]
      /\ \A a \in Artifacts : a # "seal" => files'[a] = files[a]
      /\ files'["seal"] = IF cmd.out # "sealed" THEN files["seal"] ELSE new
  <2>1. files = [a \in Artifacts |-> files[a]]  BY DEF DiskInv, FilesInv
  <2> QED  BY <1>1, <1>4, <2>1
<1>8. FilesInv'
  <2>1. ASSUME NEW a \in Artifacts PROVE files'[a].run \in 0 .. commands
    BY <1>3, <1>6, <1>7 DEF DiskInv, FilesInv
  <2> QED  BY <1>1, <1>7, <2>1 DEF FilesInv
<1>9. ReportInv'
  BY <1>1, <1>4, <1>7 DEF DiskInv, ReportInv
<1>10. SealInv'
  <2>1. files'["report"] = File
    BY <1>4, <1>5, <1>7
  <2>2. CASE cmd.out # "sealed"
    BY <1>1, <1>4, <1>7, <2>2 DEF DiskInv, SealInv
  <2>3. CASE cmd.out = "sealed"
    <3>1. files'["seal"].run # 0 /\ files'["seal"].seal = SealReport(Report, cmd.key)
      BY <1>3, <1>6, <1>7, <2>3
    <3> QED  BY <1>1, <1>2, <2>1, <3>1, FileIs DEF SealInv
  <2> QED  BY <2>2, <2>3
<1>11. VerifiedInv'
  BY <1>1 DEF VerifiedInv, Done
<1>12. ArtifactsAgree'
  <2>1. \A a \in RunFiles : files'[a] = [run |-> commands, results |-> Report]
    BY <1>4, <1>5, <1>7 DEF File
  <2>2. cmd.out = "sealed" => files'["seal"].run = commands
    BY <1>6, <1>7
  <2> QED  BY <1>1, <1>2, <2>1, <2>2 DEF ArtifactsAgree, RunFiles
<1> QED  BY <1>1, <1>8, <1>9, <1>10, <1>11, <1>12 DEF DiskInv

\* capture writes the baseline alone.
LEMMA FinishCaptureDisk == ASSUME SessionInv, DiskInv, FinishCapture PROVE DiskInv'
<1> DEFINE new == [run |-> commands, golden |-> CaptureBaseline(cmd.hw, Report)]
<1>1. /\ step' = "ended" /\ cmd.mode = "capture"
      /\ UNCHANGED <<cmd, produced, commands>>
      /\ files' = [files EXCEPT !["baseline"] = new]
  BY DEF FinishCapture, End
<1>2. commands \in Nat /\ new.run = commands
  BY SessionType DEF SessionInv, ShapeInv
<1> HIDE DEF new
<1>3. /\ files' = [a \in Artifacts |-> files'[a]]
      /\ \A a \in Artifacts : a # "baseline" => files'[a] = files[a]
      /\ files'["baseline"] = new
  <2>1. files = [a \in Artifacts |-> files[a]]  BY DEF DiskInv, FilesInv
  <2>2. "baseline" \in Artifacts  BY DEF Artifacts
  <2> QED  BY <1>1, <2>1, <2>2
<1>4. FilesInv'
  <2>1. ASSUME NEW a \in Artifacts PROVE files'[a].run \in 0 .. commands
    BY <1>2, <1>3 DEF DiskInv, FilesInv
  <2> QED  BY <1>1, <1>3, <2>1 DEF FilesInv
<1>5. files'["report"] = files["report"] /\ files'["seal"] = files["seal"]
  BY <1>3 DEF Artifacts
<1>6. ReportInv' /\ SealInv'
  BY <1>1, <1>5 DEF DiskInv, ReportInv, SealInv
<1>7. VerifiedInv' /\ ArtifactsAgree'
  BY <1>1 DEF VerifiedInv, ArtifactsAgree, Done
<1> QED  BY <1>1, <1>4, <1>6, <1>7 DEF DiskInv

\* verify answers what VerifyReport says of the two files.
LEMMA VerifyDisk == ASSUME SessionInv, DiskInv, Verify PROVE DiskInv'
<1>1. PICK key \in Keys :
        /\ cmd' = [mode |-> "verify", key |-> key]
        /\ exit' = IF NoFile \in {files["report"], files["seal"]} THEN "raised"
                   ELSE Green(VerifyReport(files["report"].results, files["seal"].seal, key))
  BY DEF Verify
<1>2. /\ step = "ended" /\ step' = "ended" /\ commands' = commands + 1 /\ commands \in Nat
      /\ UNCHANGED <<files, produced>>
  BY SessionType DEF Verify, SessionInv, ShapeInv
<1>3. cmd'.mode = "verify" /\ cmd'.key = key
  BY <1>1
<1>4. FilesInv'
  BY <1>2 DEF DiskInv, FilesInv
<1>5. ReportInv' /\ SealInv'
  BY <1>2 DEF DiskInv, ReportInv, SealInv
<1>6. VerifiedInv'
  BY <1>1, <1>2, <1>3 DEF VerifiedInv
<1>7. ArtifactsAgree'
  BY <1>3 DEF ArtifactsAgree, Done
<1> QED  BY <1>2, <1>3, <1>4, <1>5, <1>6, <1>7 DEF DiskInv, Running

\* An edit changes the report, which then is of no run.
LEMMA EditDisk == ASSUME SessionInv, DiskInv, Edit PROVE DiskInv'
<1> DEFINE old == files["report"].results
           first == [old[1] EXCEPT !.status = "PASS"]
<1>1. PICK changed \in {Front(old), [old EXCEPT ![1] = first]} :
        files' = [files EXCEPT !["report"] = [run |-> 0, results |-> changed]]
  BY DEF Edit
<1>2. /\ step = "ended" /\ step' = "ended" /\ cmd'.mode = "none" /\ old # <<>>
      /\ files["report"] # NoFile /\ UNCHANGED <<produced, commands>>
  BY DEF Edit, NoCommand
<1>3. old \in Seq(Verdict)
  BY <1>2 DEF DiskInv, ReportInv
<1> HIDE DEF old
<1>4. Len(old) \in Nat /\ 1 \in 1 .. Len(old)
  BY <1>2, <1>3, EmptySeq, LenProperties
<1>5. first \in Verdict
  <2>1. old[1] \in Verdict  BY <1>3, <1>4, ElementOfSeq
  <2> QED  BY <2>1 DEF Verdict, Statuses
<1> HIDE DEF first
<1>6. changed \in Seq(Verdict)
  <2>1. [old EXCEPT ![1] = first] \in Seq(Verdict)
    BY <1>3, <1>4, <1>5, ExceptSeq
  <2>2. SubSeq(old, 1, Len(old) - 1) \in Seq(Verdict)
    <3>1. \A i \in 1 .. Len(old) - 1 : old[i] \in Verdict  BY <1>3, <1>4, ElementOfSeq
    <3> QED  BY <1>4, <3>1, SubSeqProperties
  <2> QED  BY <1>1, <2>1, <2>2 DEF Front
<1> DEFINE new == [run |-> 0, results |-> changed]
<1>7. new.run = 0 /\ new.results = changed /\ files' = [files EXCEPT !["report"] = new]
  BY <1>1
<1> HIDE DEF new
<1>8. /\ files' = [a \in Artifacts |-> files'[a]]
      /\ \A a \in Artifacts : a # "report" => files'[a] = files[a]
      /\ files'["report"] = new
  <2>1. files = [a \in Artifacts |-> files[a]]  BY DEF DiskInv, FilesInv
  <2>2. "report" \in Artifacts  BY DEF Artifacts
  <2> QED  BY <1>7, <2>1, <2>2
<1>9. commands \in Nat
  BY SessionType DEF SessionInv, ShapeInv
<1>10. FilesInv'
  <2>1. ASSUME NEW a \in Artifacts PROVE files'[a].run \in 0 .. commands
    BY <1>7, <1>8, <1>9 DEF DiskInv, FilesInv
  <2> QED  BY <1>2, <1>8, <2>1 DEF FilesInv
<1>11. ReportInv'
  BY <1>6, <1>7, <1>8 DEF ReportInv
<1>12. SealInv'
  <2>1. files'["seal"] = files["seal"] /\ files'["report"].run = 0
    BY <1>7, <1>8 DEF Artifacts
  <2> QED  BY <1>2, <2>1 DEF DiskInv, SealInv
<1>13. VerifiedInv' /\ ArtifactsAgree'
  BY <1>2 DEF VerifiedInv, ArtifactsAgree, Done
<1> QED  BY <1>2, <1>10, <1>11, <1>12, <1>13 DEF DiskInv, Running

\* Every step keeps DiskInv.
LEMMA DiskInvNext == SessionInv /\ DiskInv /\ [Next]_vars => DiskInv'
<1> SUFFICES ASSUME SessionInv, DiskInv, [Next]_vars PROVE DiskInv'
  OBVIOUS
<1>1. CASE Finish
  BY <1>1, QuietDisk, FinishRunDisk, WriteDisk, FinishWriteDisk, FinishCaptureDisk DEF Finish
<1>2. CASE UNCHANGED vars
  <2>1. Report' = Report /\ File' = File
    BY <1>2 DEF vars, Report, File
  <2>2. FilesInv' /\ ReportInv' /\ SealInv'
    BY <1>2, <2>1 DEF vars, DiskInv, FilesInv, ReportInv, SealInv
  <2>3. VerifiedInv' /\ ArtifactsAgree'
    BY <1>2, <2>1 DEF vars, DiskInv, VerifiedInv, ArtifactsAgree, Done
  <2> QED  BY <1>2, <2>2, <2>3 DEF vars, DiskInv
<1> QED  BY <1>1, <1>2, QuietDisk, VerifyDisk, EditDisk DEF Next, Work

(***************************************************************************)
(* For any suite, systems under test, keys and sessions, with commands     *)
(* killed and reports edited anywhere: a report that verifies is one that  *)
(* a run produced, unchanged; one still beside the seal of its own run     *)
(* verifies; and when a run has answered, what it was asked to write is    *)
(* all its own.                                                            *)
(***************************************************************************)
THEOREM EvidenceAlwaysGenuine == Spec => []EvidenceIsGenuine
<1>1. SessionInv /\ DiskInv => EvidenceIsGenuine
  <2> SUFFICES ASSUME SessionInv, DiskInv, Done("verify"), exit # "raised"
               PROVE  LET report == files["report"]
                          seal == files["seal"].seal
                      IN  /\ exit = "green" => report.results \in produced
                          /\ (report.run = files["seal"].run
                              /\ (seal.signature = None \/ cmd.key = None \/ seal.signature[1] = cmd.key))
                             => exit = "green"
    BY DEF EvidenceIsGenuine, VerifiedIsProduced, DiskInv
  <2> DEFINE report == files["report"]
             seal == files["seal"].seal
  <2>1. /\ report # NoFile /\ files["seal"] # NoFile
        /\ exit = Green(VerifyReport(report.results, seal, cmd.key))
    BY DEF DiskInv, VerifiedInv
  <2>2. report.results \in Seq(Verdict)
    BY <2>1 DEF DiskInv, ReportInv
  <2>3. PICK sealed \in produced : \E key \in Keys :
          /\ seal = SealReport(sealed, key)
          /\ report.run = files["seal"].run => report.results = sealed
    BY <2>1 DEF DiskInv, SealInv
  <2>4. PICK signer \in Keys : seal = SealReport(sealed, signer)
    BY <2>3
  <2>5. sealed \in Seq(Verdict)
    BY DEF DiskInv
  <2> HIDE DEF report, seal
  <2>6. /\ VerifyReport(report.results, SealReport(sealed, signer), cmd.key) => report.results = sealed
        /\ /\ report.results = sealed
           /\ \/ SealReport(sealed, signer).signature = None \/ cmd.key = None
              \/ SealReport(sealed, signer).signature[1] = cmd.key
           => VerifyReport(report.results, SealReport(sealed, signer), cmd.key)
    <3> DEFINE key == cmd.key
               now == report.results
    <3>1. now \in Seq(Verdict)  BY <2>2
    <3> HIDE DEF key, now
    <3>2. /\ VerifyReport(now, SealReport(sealed, signer), key) => now = sealed
          /\ /\ now = sealed
             /\ \/ SealReport(sealed, signer).signature = None \/ key = None
                \/ SealReport(sealed, signer).signature[1] = key
             => VerifyReport(now, SealReport(sealed, signer), key)
      BY <2>5, <3>1, SealSound
    <3> QED  BY <3>2 DEF key, now
  <2>7. exit = "green" <=> VerifyReport(report.results, seal, cmd.key)
    BY <2>1, GreenIs
  <2> QED  BY <2>3, <2>4, <2>6, <2>7 DEF report, seal
<1> QED  BY <1>1, SessionInvariant, SessionInvInit, SessionInvNext, DiskInvInit, DiskInvNext, PTL DEF Spec
=============================================================================
