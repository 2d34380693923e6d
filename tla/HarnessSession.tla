--------------------------- MODULE HarnessSession ---------------------------
(***************************************************************************)
(* A lab station's session with `python -m harness`: commands one after    *)
(* the other over the same output directory (src/harness/__main__.py,      *)
(* runner.py, adapters.py, matrix.py, reliability.py).                     *)
(*                                                                         *)
(* A command is a list of passes over scenarios: one pass for a run, one   *)
(* per configuration for a matrix, one per scenario for the determinism    *)
(* gate.  A scenario runs in process, or as a command in a process group   *)
(* of its own with a timeout.  What the system under test does is chosen   *)
(* anew every time it runs.                                                *)
(*                                                                         *)
(* The judgements come first: what a check says of an outcome, what a      *)
(* scenario's verdict is, and what the gates decide.  An outcome           *)
(* (AdapterOutcome) says whether the system under test ran at all, its     *)
(* exit code, whether the expected marker is in its output, and its        *)
(* metrics: a function from the names it reported to values, which are     *)
(* integers, NaN, or something that is not a number.                       *)
(***************************************************************************)
EXTENDS Integers, Sequences, FiniteSets, SequencesExt

CONSTANTS Text, NaN,   \* metric values that are not a number, and not-a-number
          None         \* Python's None

NoMetrics == [x \in {} |-> 0]
Number(v) == v # Text
IsNaN(v) == v = NaN

(* Python's comparisons: every one with NaN is false, but for "!=". *)
Less(a, b) == ~IsNaN(a) /\ ~IsNaN(b) /\ a < b
Compares(op, a, b) ==
    CASE op = ">" -> Less(b, a)
      [] op = "<" -> Less(a, b)
      [] op = "==" -> ~IsNaN(a) /\ a = b

----------------------------------------------------------------------------
(* checks.py *)

ExitZero == [check |-> "exit_zero"]
NoError == [check |-> "no_error"]
OutputContains == [check |-> "output_contains"]
MetricPresent(x) == [check |-> "metric_present", metric |-> x]
MetricThreshold(x, op, v) ==
    [check |-> "threshold", metric |-> x, op |-> op, value |-> v]

Reports(o, x) == x \in DOMAIN o.metrics

(* An ordering between text and a number is a TypeError in the check. *)
CheckRaises(c, o) ==
    /\ c.check = "threshold" /\ c.op \in {"<", ">"}
    /\ Reports(o, c.metric) /\ ~Number(o.metrics[c.metric])

CheckHolds(c, o) ==
    CASE c.check = "exit_zero" -> o.exit = 0
      [] c.check = "no_error" -> o.ok
      [] c.check = "output_contains" -> o.marker
      [] c.check = "metric_present" -> Reports(o, c.metric)
      [] c.check = "threshold" ->
            /\ Reports(o, c.metric)
            /\ Number(o.metrics[c.metric])
            /\ Compares(c.op, o.metrics[c.metric], c.value)

----------------------------------------------------------------------------
(* runner.py, schema.py *)

CheckErrors(o, checks) == \E i \in DOMAIN checks : CheckRaises(checks[i], o)
CheckResults(o, checks) ==
    [i \in DOMAIN checks |-> ~CheckRaises(checks[i], o) /\ CheckHolds(checks[i], o)]

(* FAIL is the system under test's, ERROR is the harness's own. *)
Status(o, checks) ==
    IF ~o.ok \/ CheckErrors(o, checks) THEN "ERROR"
    ELSE IF \A i \in DOMAIN checks : CheckResults(o, checks)[i]
         THEN "PASS" ELSE "FAIL"

Ran(s, o) ==
    [id |-> s.id, status |-> Status(o, s.checks), exit |-> o.exit,
     metrics |-> o.metrics, checks |-> CheckResults(o, s.checks)]
Skipped(s) ==
    [id |-> s.id, status |-> "SKIP", exit |-> None,
     metrics |-> NoMetrics, checks |-> <<>>]

Failing(r) == r.status \in {"FAIL", "ERROR"}
Passed(results) == results # <<>> /\ \A i \in DOMAIN results : ~Failing(results[i])

----------------------------------------------------------------------------
(* baseline.py.  Tolerances are in percent for higher and lower. *)

HardwareSensitive(rule) == rule.direction \in {"higher", "lower"}
Regressed(rule, base, cur) ==
    /\ ~IsNaN(base) /\ ~IsNaN(cur)
    /\ CASE rule.direction = "higher" -> 100 * cur < base * (100 - rule.tol)
         [] rule.direction = "lower" -> 100 * cur > base * (100 + rule.tol)
         [] rule.direction = "exact" -> cur - base > rule.tol \/ base - cur > rule.tol

(* Results by id: in a dict of them the last one of an id stays. *)
Ids(results) == {results[i].id : i \in DOMAIN results}
Latest(results, id) ==
    results[CHOOSE i \in DOMAIN results :
                /\ results[i].id = id
                /\ \A j \in DOMAIN results : results[j].id = id => j <= i]

CaptureBaseline(hw, results) ==
    [hw |-> hw,
     scenarios |-> [id \in Ids(results) |->
        [status |-> Latest(results, id).status,
         metrics |-> Latest(results, id).metrics]]]

(* The regressions that gate.  What is only noted does not gate. *)
Regressions(hw, results, baseline, policy) ==
    LET both == DOMAIN baseline.scenarios \cap Ids(results)
        Base(id) == baseline.scenarios[id]
        Now(id) == Latest(results, id)
        Gates(id, x) ==
            /\ x \in DOMAIN Base(id).metrics /\ Number(Base(id).metrics[x])
            /\ HardwareSensitive(policy[x]) => hw = baseline.hw
            /\ x \in DOMAIN Now(id).metrics =>
                  /\ Number(Now(id).metrics[x])
                  /\ Regressed(policy[x], Base(id).metrics[x], Now(id).metrics[x])
    IN  {<<id, "status", None>> :
            id \in {i \in both : Base(i).status = "PASS" /\ Failing(Now(i))}}
        \cup
        {r \in both \X {"metric"} \X DOMAIN policy : Gates(r[1], r[3])}

----------------------------------------------------------------------------
(* reliability.py: the class of a scenario from the verdicts of its runs. *)

BugClassify(runs) ==
    LET statuses == {r.status : r \in ToSet(runs)} IN
    IF statuses = {"SKIP"} THEN "skipped"
    ELSE IF statuses = {"PASS"} THEN "stable_pass"
    ELSE IF "PASS" \notin statuses THEN "stable_fail" ELSE "flaky"
Classify(runs) ==
    LET statuses == {r.status : r \in ToSet(runs)} IN
    IF statuses = {"SKIP"} THEN "skipped"
    ELSE IF statuses = {"PASS"} THEN "stable_pass"
    ELSE IF Cardinality(statuses \ {"SKIP"}) = 1 THEN "stable_fail" ELSE "flaky"

----------------------------------------------------------------------------
(* matrix.py: runs is a sequence of one result list per configuration. *)

Grid(runs, id) ==
    {Latest(runs[c], id).status : c \in {k \in DOMAIN runs : id \in Ids(runs[k])}}
ScenarioIds(runs) == UNION {Ids(runs[c]) : c \in DOMAIN runs}
Divergent(runs) == {id \in ScenarioIds(runs) : Cardinality(Grid(runs, id)) > 1}
AnyFailure(runs) == \E c \in DOMAIN runs : \E i \in DOMAIN runs[c] : Failing(runs[c][i])

----------------------------------------------------------------------------
(* integrity.py.  A digest is the value it digests: two different values   *)
(* have different digests.  Key None: the seal is not signed.              *)

Hash(r) == r
ChainHead(leaves) == [i \in DOMAIN leaves |-> leaves[i].hash]
Leaves(results) == [i \in DOMAIN results |-> [id |-> results[i].id, hash |-> Hash(results[i])]]
Sign(key, head) == IF key = None THEN None ELSE <<key, head>>
SealReport(results, key) ==
    LET leaves == Leaves(results) IN
    [leaves |-> leaves, head |-> ChainHead(leaves), signature |-> Sign(key, ChainHead(leaves))]

(* The positions both lists have must agree, and there must be no other. *)
FirstChange(now, leaves) ==
    LET n == IF Len(now) > Len(leaves) THEN Len(now) ELSE Len(leaves)
        Differs(i) == i > Len(now) \/ i > Len(leaves) \/ now[i] # leaves[i]
        changed == {i \in 1..n : Differs(i)}
    IN IF changed = {} THEN 0
       ELSE CHOOSE i \in changed : \A j \in changed : i <= j
BugVerify(results, seal, key) ==
    LET now == Leaves(results) IN
    /\ \A i \in DOMAIN now \cap DOMAIN seal.leaves : now[i].id = seal.leaves[i].id
    /\ seal.head = ChainHead(seal.leaves)
    /\ (seal.signature # None /\ key # None) => Sign(key, seal.head) = seal.signature
VerifyReport(results, seal, key) ==
    LET now == Leaves(results) IN
    /\ FirstChange(now, seal.leaves) = 0
    /\ ChainHead(now) = seal.head
    /\ (seal.signature # None /\ key # None) => Sign(key, seal.head) = seal.signature

-----------------------------------------------------------------------------

CONSTANTS
    Suite,        \* sequence of scenarios: [id, tags, adapter, checks, skip_if]
    Arguments,    \* pairs <<tag to select, tag to quarantine>>, None for neither
    Replies,      \* Replies[id]: the outcomes its system under test may have
    Matrix,       \* sequence of configurations: the override of LAB_MODE, or None
    Mode0,        \* LAB_MODE when the harness starts
    Policy,       \* the baseline policy: metric -> rule
    Machines,     \* hardware a command may run on
    Repeats,      \* --repeats
    Keys,         \* values of LAB_SEAL_KEY (None: not set)
    Sessions      \* bound: the sequences of command modes that are explored

\* What a command may be asked to do.
Modes == {"run", "capture", "baseline", "matrix", "determinism", "verify"}

ASSUME SessionAssumption ==
    /\ Repeats \in Nat /\ Repeats >= 2
    /\ Suite \in Seq(ToSet(Suite)) /\ Matrix \in Seq(ToSet(Matrix))
    /\ \A s \in Sessions : s \in Seq(Modes)
    /\ \A i \in DOMAIN Suite : Suite[i].adapter \in {"callable", "command"}
    /\ \A x \in DOMAIN Policy :
          Policy[x].direction \in {"higher", "lower", "exact"} /\ Policy[x].tol \in Nat

(* An id names one scenario: Suite does not check it, and status_grid and   *)
(* capture_baseline keep the last result of an id.                          *)
ASSUME IdsAssumption ==
    \A i, j \in DOMAIN Suite : Suite[i].id = Suite[j].id => i = j

(* Metrics judged in percent are not negative: baseline.py:47 lets -10 fall *)
(* short of -10 * (1 - 0.3), the same number a little less negative.        *)
ASSUME MetricsAssumption ==
    \A i \in DOMAIN Suite : \A o \in Replies[Suite[i].id] : \A x \in DOMAIN o.metrics :
        LET v == o.metrics[x] IN
        \/ v \in {Text, NaN}
        \/ v \in Int /\ ((x \in DOMAIN Policy /\ HardwareSensitive(Policy[x])) => v >= 0)

VARIABLES
    cmd,       \* the command being executed, and its arguments
    step,      \* where it is: enter, scenario, sut, leave, finish, write, ended
    passes,    \* the results of its passes, the one in progress last
    seen,      \* history: <<outcome, LAB_MODE>> of each scenario of each pass
    osenv,     \* LAB_MODE in os.environ
    saved,     \* what _env saved
    sut,       \* the external process: none, running, killed
    exit,      \* how the last command ended: green (0), red (1), raised, killed
    files,     \* the files of the output directory and the baseline
    produced,  \* history: every list of results a run reported
    commands,  \* the number of commands so far
    session    \* the modes of the commands of this session

vars == <<cmd, step, passes, seen, osenv, saved, sut, exit, files, produced,
          commands, session>>

NoFile == [run |-> 0]
Artifacts == {"ndjson", "junit", "report", "seal", "baseline"}
NoCommand == [mode |-> "none"]

(* The scenarios at some places of a list, in order. *)
At(list, places) ==
    FlattenSeq([i \in DOMAIN list |-> IF i \in places THEN <<list[i]>> ELSE <<>>])
Select(tag) == IF tag = None THEN Suite
               ELSE At(Suite, {i \in DOMAIN Suite : tag \in Suite[i].tags})
Quarantined(s) == cmd.quarantine \in s.tags

(* The passes of a command: each the override of LAB_MODE and its work. *)
Repeated(s) == [i \in 1..Repeats |-> s]
Plan ==
    LET suite == Select(cmd.tag)
        probed == At(suite, {i \in DOMAIN suite : ~Quarantined(suite[i])})
    IN  IF cmd.mode = "matrix"
        THEN [c \in DOMAIN Matrix |-> [mode |-> Matrix[c], work |-> suite]]
        ELSE IF cmd.mode = "determinism"
        THEN [i \in DOMAIN probed |-> [mode |-> None, work |-> Repeated(probed[i])]]
        ELSE <<[mode |-> None, work |-> suite]>>

Pass == Plan[Len(passes)]
Results == passes[Len(passes)]
Scenario == Pass.work[Len(Results) + 1]
More == Len(Results) < Len(Pass.work)
Note(outcome, results) ==
    /\ passes' = [passes EXCEPT ![Len(passes)] = results]
    /\ seen' = [seen EXCEPT ![Len(passes)] = Append(seen[Len(passes)], <<outcome, osenv>>)]

Init ==
    /\ cmd = NoCommand /\ step = "ended" /\ exit = "green"
    /\ passes = <<>> /\ seen = <<>>
    /\ osenv = Mode0 /\ saved = Mode0 /\ sut = "none"
    /\ files = [a \in Artifacts |-> NoFile]
    /\ produced = {} /\ commands = 0 /\ session \in Sessions

(* A new process: arguments, tag, quarantine, machine and key. *)
Command ==
    /\ step = "ended" /\ commands < Len(session) /\ commands' = commands + 1
    /\ \E mode \in {session[commands + 1]} \ {"verify"},
          args \in Arguments, hw \in Machines, key \in Keys, out \in {"nowhere", "directory", "sealed"} :
          /\ mode # "run" => out = "nowhere"
          /\ out # "sealed" => key = None
          /\ mode \notin {"capture", "baseline"} => hw = CHOOSE h \in Machines : TRUE
          /\ cmd' = [mode |-> mode, tag |-> args[1], quarantine |-> args[2],
                     hw |-> hw, key |-> key, out |-> out]
    /\ step' = "enter" /\ passes' = <<>> /\ seen' = <<>> /\ exit' = "green"
    /\ osenv' = Mode0 /\ saved' = Mode0 /\ sut' = "none"
    /\ UNCHANGED <<files, produced, session>>

(* _env: LAB_MODE is saved and overridden for the pass. *)
Enter ==
    /\ step = "enter" /\ Len(passes) < Len(Plan)
    /\ LET override == Plan[Len(passes) + 1].mode IN
          /\ saved' = osenv
          /\ osenv' = IF override = None THEN osenv ELSE override
    /\ passes' = Append(passes, <<>>) /\ seen' = Append(seen, <<>>)
    /\ step' = "scenario"
    /\ UNCHANGED <<cmd, sut, exit, files, produced, commands, session>>

(* The finally of _env, after the pass and when an exception leaves it. *)
Restored == saved

Leave ==
    /\ step = "scenario" /\ ~More
    /\ osenv' = Restored
    /\ step' = "enter"
    /\ UNCHANGED <<cmd, passes, seen, saved, sut, exit, files, produced, commands, session>>

----------------------------------------------------------------------------
(* _run_one: quarantine, precondition, adapter, checks. *)

NotRun == [skipped |-> TRUE]

Skip ==
    /\ step = "scenario" /\ More
    /\ \/ cmd.mode # "determinism" /\ Quarantined(Scenario)
       \/ Scenario.skip_if
    /\ Note(NotRun, Append(Results, Skipped(Scenario)))
    /\ UNCHANGED <<cmd, step, osenv, saved, sut, exit, files, produced, commands, session>>

(* skip_if is called outside any try: what it raises leaves the suite, the *)
(* matrix and main(), and nothing is written.                              *)
SkipRaises ==
    /\ step = "scenario" /\ More
    /\ cmd.mode = "determinism" \/ ~Quarantined(Scenario)
    /\ Scenario.skip_if
    /\ osenv' = Restored
    /\ step' = "ended" /\ exit' = "raised"
    /\ UNCHANGED <<cmd, passes, seen, saved, sut, files, produced, commands, session>>

Goes == /\ step = "scenario" /\ More
        /\ cmd.mode = "determinism" \/ ~Quarantined(Scenario)

Infra == [ok |-> FALSE, exit |-> None, marker |-> FALSE, metrics |-> NoMetrics]

(* CallableAdapter: it returns metrics, or any exception is an infra fault. *)
Call ==
    /\ Goes /\ Scenario.adapter = "callable"
    /\ \E o \in Replies[Scenario.id] \cup {Infra} :
          Note(o, Append(Results, Ran(Scenario, o)))
    /\ UNCHANGED <<cmd, step, osenv, saved, sut, exit, files, produced, commands, session>>

(* CommandAdapter: Popen in a session of its own, which may fail. *)
Launch ==
    /\ Goes /\ Scenario.adapter = "command" /\ sut = "none"
    /\ sut' = "running" /\ step' = "sut"
    /\ UNCHANGED <<cmd, passes, seen, osenv, saved, exit, files, produced, commands, session>>
LaunchFails ==
    /\ Goes /\ Scenario.adapter = "command" /\ sut = "none"
    /\ Note(Infra, Append(Results, Ran(Scenario, Infra)))
    /\ UNCHANGED <<cmd, step, osenv, saved, sut, exit, files, produced, commands, session>>

Exits ==
    /\ step = "sut" /\ sut = "running"
    /\ \E o \in Replies[Scenario.id] : Note(o, Append(Results, Ran(Scenario, o)))
    /\ sut' = "none" /\ step' = "scenario"
    /\ UNCHANGED <<cmd, osenv, saved, exit, files, produced, commands, session>>

(* The timeout: the group is killed, then what it left is drained. *)
BugTimeout ==
    /\ step = "sut" /\ sut = "running"
    /\ step' = "waiting"
    /\ UNCHANGED <<cmd, passes, seen, osenv, saved, sut, exit, files, produced, commands, session>>
Timeout ==
    /\ step = "sut" /\ sut = "running"
    /\ sut' = "killed"
    /\ UNCHANGED <<cmd, step, passes, seen, osenv, saved, exit, files, produced, commands, session>>
Drain ==
    /\ step = "sut" /\ sut = "killed"
    /\ Note(Infra, Append(Results, Ran(Scenario, Infra)))
    /\ sut' = "none" /\ step' = "scenario"
    /\ UNCHANGED <<cmd, osenv, saved, exit, files, produced, commands, session>>

----------------------------------------------------------------------------
(* The end of a command. *)

AllPasses == step = "enter" /\ Len(passes) = Len(Plan)
Report == IF passes = <<>> THEN <<>> ELSE passes[1]
File == [run |-> commands, results |-> Report]
End(code) == step' = "ended" /\ exit' = code
Green(ok) == IF ok THEN "green" ELSE "red"

(* run_suite returns and the artifacts are written one after the other. *)
Written == <<"ndjson", "junit", "report">>
FinishRun ==
    /\ AllPasses /\ cmd.mode = "run"
    /\ produced' = produced \cup {Report}
    /\ IF cmd.out = "nowhere" THEN End(Green(Passed(Report)))
       ELSE step' = "write" /\ UNCHANGED exit
    /\ UNCHANGED <<cmd, passes, seen, osenv, saved, sut, files, commands, session>>
Write ==
    /\ step = "write"
    /\ \E i \in DOMAIN Written :
          /\ files[Written[i]].run # commands
          /\ \A j \in 1..(i-1) : files[Written[j]].run = commands
          /\ files' = [files EXCEPT ![Written[i]] = File]
    /\ UNCHANGED <<cmd, step, passes, seen, osenv, saved, sut, exit, produced, commands, session>>
AllWritten == \A i \in DOMAIN Written : files[Written[i]].run = commands
FinishWrite ==
    /\ step = "write" /\ AllWritten
    /\ files' = IF cmd.out # "sealed" THEN files
                ELSE [files EXCEPT !["seal"] =
                        [run |-> commands, seal |-> SealReport(Report, cmd.key)]]
    /\ End(Green(Passed(Report)))
    /\ UNCHANGED <<cmd, passes, seen, osenv, saved, sut, produced, commands, session>>

FinishCapture ==
    /\ AllPasses /\ cmd.mode = "capture"
    /\ files' = [files EXCEPT !["baseline"] =
                    [run |-> commands, golden |-> CaptureBaseline(cmd.hw, Report)]]
    /\ End("green")
    /\ UNCHANGED <<cmd, passes, seen, osenv, saved, sut, produced, commands, session>>

(* The gate; a baseline that cannot be loaded is an exception. *)
GateRegressions == Regressions(cmd.hw, Report, files["baseline"].golden, Policy)
FinishBaseline ==
    /\ AllPasses /\ cmd.mode = "baseline"
    /\ End(IF files["baseline"] = NoFile THEN "raised" ELSE Green(GateRegressions = {}))
    /\ UNCHANGED <<cmd, passes, seen, osenv, saved, sut, files, produced, commands, session>>

FinishMatrix ==
    /\ AllPasses /\ cmd.mode = "matrix"
    /\ End(Green(~AnyFailure(passes)))
    /\ UNCHANGED <<cmd, passes, seen, osenv, saved, sut, files, produced, commands, session>>

FinishDeterminism ==
    /\ AllPasses /\ cmd.mode = "determinism"
    /\ End(Green(\A i \in DOMAIN passes : Classify(passes[i]) # "flaky"))
    /\ UNCHANGED <<cmd, passes, seen, osenv, saved, sut, files, produced, commands, session>>

(* --verify reads the report and its seal and runs nothing. *)
Verify ==
    /\ step = "ended" /\ commands < Len(session) /\ commands' = commands + 1
    /\ session[commands + 1] = "verify"
    /\ \E key \in Keys :
          /\ cmd' = [mode |-> "verify", key |-> key]
          /\ exit' = IF NoFile \in {files["report"], files["seal"]} THEN "raised"
                     ELSE Green(VerifyReport(files["report"].results, files["seal"].seal, key))
    /\ passes' = <<>> /\ seen' = <<>>
    /\ UNCHANGED <<step, osenv, saved, sut, files, produced, session>>

(* The station loses power, or someone presses Ctrl-C: nothing more is     *)
(* written, and a file in the middle of the list is the last of this run.  *)
Kill ==
    /\ step # "ended"
    /\ step' = "ended" /\ exit' = "killed" /\ sut' = "none"
    /\ osenv' = Mode0 /\ saved' = Mode0
    /\ cmd' = NoCommand /\ passes' = <<>> /\ seen' = <<>>
    /\ UNCHANGED <<files, produced, commands, session>>

(* The report changes after it was written: a verdict, or a result gone. *)
Edit ==
    /\ step = "ended" /\ NoFile \notin {files["report"], files["seal"]}
    /\ files["report"].results # <<>>
    /\ \E changed \in {Front(files["report"].results),
                       [files["report"].results EXCEPT
                           ![1] = [files["report"].results[1] EXCEPT !.status = "PASS"]]} :
          files' = [files EXCEPT !["report"] = [run |-> 0, results |-> changed]]
    /\ cmd' = NoCommand /\ exit' = "green" /\ passes' = <<>> /\ seen' = <<>>
    /\ UNCHANGED <<step, osenv, saved, sut, produced, commands, session>>

RunOne == Skip \/ SkipRaises \/ Call \/ Launch \/ LaunchFails \/ Timeout \/ Drain
Finish == \/ FinishRun \/ Write \/ FinishWrite \/ FinishCapture
          \/ FinishBaseline \/ FinishMatrix \/ FinishDeterminism
Work == Enter \/ RunOne \/ Leave \/ Finish
Next == Command \/ Work \/ Exits \/ Verify \/ Kill \/ Edit

Spec == Init /\ [][Next]_vars

(* The harness keeps running; the timer of communicate() fires, and killed *)
(* processes close their pipes.  Nothing says that a process exits.        *)
FairSpec == Spec /\ WF_vars(Work)

----------------------------------------------------------------------------
(* Properties. *)

Done(mode) == step = "ended" /\ cmd.mode = mode
Outcome(c, i) == seen[c][i][1]

(* The shapes of the state. *)
TypeOK ==
    /\ step \in {"enter", "scenario", "sut", "write", "ended"}
    /\ Len(passes) = Len(seen)
    /\ \A c \in DOMAIN passes :
          /\ Len(passes[c]) = Len(seen[c])
          /\ \A i \in DOMAIN passes[c] :
                passes[c][i].status \in {"PASS", "FAIL", "ERROR", "SKIP"}
    /\ sut \in {"none", "running", "killed"}
    /\ (sut # "none") <=> (step = "sut")
    /\ exit \in {"green", "red", "raised", "killed"}
    /\ commands \in 0..Len(session)

(* A run that exits 0 has run every scenario it selected, in order, and    *)
(* what each system under test really did satisfies each of its checks, or *)
(* it was skipped; whatever crashed, hung or printed nonsense on the way.  *)
GreenIsEarned ==
    (Done("run") /\ exit = "green") =>
        LET suite == Select(cmd.tag) IN
        /\ suite # <<>> /\ Len(Report) = Len(suite)
        /\ \A i \in DOMAIN suite :
              /\ Report[i].id = suite[i].id
              /\ Outcome(1, i) # NotRun =>
                    /\ Outcome(1, i).ok
                    /\ \A k \in DOMAIN suite[i].checks :
                          CheckHolds(suite[i].checks[k], Outcome(1, i))

(* Every configuration is seen by its own pass and by no later one, and a  *)
(* command leaves the environment as it found it, by whatever way it ends. *)
ConfigsDoNotLeak ==
    /\ step = "ended" => osenv = Mode0
    /\ cmd.mode = "matrix" =>
          \A c \in DOMAIN seen : \A i \in DOMAIN seen[c] :
              seen[c][i][2] = IF Matrix[c] = None THEN Mode0 ELSE Matrix[c]

(* baseline.py:6-16: which machine a run is judged on changes only what is *)
(* said of performance, and only by not gating it elsewhere; and a run     *)
(* never regresses against itself, on any machine.                         *)
PortableVerdict ==
    (Done("baseline") /\ exit \in {"green", "red"}) =>
        LET golden == files["baseline"].golden
            On(h) == Regressions(h, Report, golden, Policy)
            Perf == {r \in On(golden.hw) : r[2] = "metric" /\ HardwareSensitive(Policy[r[3]])}
        IN \A h \in Machines :
              /\ On(h) = IF h = golden.hw THEN On(golden.hw) ELSE On(golden.hw) \ Perf
              /\ Regressions(h, Report, CaptureBaseline(h, Report), Policy) = {}

(* The determinism gate is green only when no scenario it probed came to   *)
(* two different verdicts.                                                 *)
FlakyIsCaught ==
    (Done("determinism") /\ exit = "green") =>
        \A p \in DOMAIN passes : \A i, j \in DOMAIN passes[p] :
            "SKIP" \in {passes[p][i].status, passes[p][j].status}
            \/ passes[p][i].status = passes[p][j].status

(* The scenarios the matrix reports as depending on the configuration are  *)
(* those with different verdicts under two of them, wherever the two are.  *)
MatrixTellsApart ==
    (Done("matrix") /\ exit \in {"green", "red"}) =>
        \A i \in DOMAIN Select(cmd.tag) :
            (Select(cmd.tag)[i].id \in Divergent(passes)) <=>
                \E c, d \in DOMAIN passes : passes[c][i].status # passes[d][i].status

(* A report that verifies is one that a run really produced, unchanged     *)
(* since; and one that is still beside the seal of its own run verifies.   *)
VerifiedIsProduced ==
    (Done("verify") /\ exit # "raised") =>
        LET report == files["report"]
            seal == files["seal"].seal
        IN /\ exit = "green" => report.results \in produced
           /\ (report.run = files["seal"].run
               /\ (seal.signature = None \/ cmd.key = None \/ seal.signature[1] = cmd.key))
              => exit = "green"

(* When a run has answered, every artifact it was asked for is its own:    *)
(* none of an earlier run is left beside them.                             *)
ArtifactsAgree ==
    (Done("run") /\ exit \in {"green", "red"} /\ cmd.out # "nowhere") =>
        /\ \A a \in {"ndjson", "junit", "report"} :
              files[a] = [run |-> commands, results |-> Report]
        /\ cmd.out = "sealed" => files["seal"].run = commands

(* Every command ends, whatever hangs: the timeout is on the process the   *)
(* harness started, and draining it does not wait for one that goes on.    *)
CommandsEnd == []<>(step = "ended")

(* No verdict that was not earned: the plain run, the baseline, the matrix *)
(* and the determinism gate each report what the systems under test did,   *)
(* under the configuration they did it in (runner.py, baseline.py,         *)
(* matrix.py, reliability.py).                                             *)
VerdictsAreEarned ==
    /\ TypeOK
    /\ GreenIsEarned
    /\ PortableVerdict
    /\ FlakyIsCaught
    /\ MatrixTellsApart
    /\ ConfigsDoNotLeak

(* What is on disk is what a run produced (integrity.py, __main__.py).     *)
EvidenceIsGenuine == VerifiedIsProduced /\ ArtifactsAgree
=============================================================================
