----------------------------- MODULE MCHarness -----------------------------
(* Two scenarios: "pi", in process, with an exact and a throughput metric,  *)
(* and "probe", an external command that may find its device absent.        *)
EXTENDS HarnessSession

Metrics(x, v) == [k \in {x} |-> v]
Ok(x, v) == [ok |-> TRUE, exit |-> 0, marker |-> TRUE, metrics |-> Metrics(x, v)]

MCSuite == <<
    [id |-> "pi", tags |-> {"fast"}, adapter |-> "callable", skip_if |-> FALSE,
     checks |-> <<NoError, MetricThreshold("pi", "<", 4)>>],
    [id |-> "probe", tags |-> {"device"}, adapter |-> "command", skip_if |-> TRUE,
     checks |-> <<ExitZero, OutputContains, MetricPresent("rate")>>] >>

MCReplies == [id \in {"pi", "probe"} |->
    IF id = "pi"
    THEN {Ok("pi", 3), Ok("pi", 1), Ok("pi", Text), Ok("pi", NaN)}
    ELSE {Ok("rate", 4), Ok("rate", 2),
          [Ok("rate", 4) EXCEPT !.exit = 1], [Ok("rate", 4) EXCEPT !.metrics = NoMetrics]}]

MCPolicy == [x \in {"pi", "rate"} |->
    IF x = "pi" THEN [direction |-> "exact", tol |-> 1]
                ELSE [direction |-> "higher", tol |-> 30]]
MCMatrix == <<"fast", None>>
MCKeys == {None, "k1"}
MCArguments == {<<None, None>>, <<None, "device">>, <<"fast", None>>}
MCSessions == {<<"matrix">>, <<"determinism">>, <<"capture", "baseline">>,
               <<"run", "run", "verify">>}
=============================================================================
