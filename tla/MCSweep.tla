------------------------------ MODULE MCSweep ------------------------------
(* Two workers and the parent, over one column that changes.  "a" and "a2"  *)
(* are two spellings of one expression, "b" is another expression, "bad"    *)
(* does not compile.  The memory tier holds one of the two panels.          *)
EXTENDS SignalSweep

CONSTANTS w1, w2, main

MCProcs == {w1, w2, main}
MCSignals == {"a", "a2", "b", "bad"}
MCExpr == [s \in MCSignals |-> IF s = "a2" THEN "a" ELSE s]
MCReads == [s \in MCSignals |-> IF s = "bad" THEN {} ELSE {"close"}]
MCBad == {"bad"}
MCSize == [e \in {"a", "b", "bad"} |-> IF e = "b" THEN 3 ELSE 2]
MCLeftovers == {<<"a", [c \in {"close"} |-> 1]>>}
MCTasks == <<"a", "bad", "a2", "b">>
=============================================================================
