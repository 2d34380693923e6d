---------------------------- MODULE SweepPromise ----------------------------
(***************************************************************************)
(* What evaluate_signals (research/mds/parallel.py) promises its caller,   *)
(* whatever the pool, the scheduler and the cache do: the results come in  *)
(* input order, one per signal, and each is the panel of that signal on    *)
(* the environment of the call or an error that stays with that signal.    *)
(***************************************************************************)
EXTENDS Integers, Sequences

CONSTANTS Tasks,        \* the signals of a sweep, in order
          Panel(_, _)   \* Panel(s, d): the panel of signal s on environment d

VARIABLES env,   \* the environment of the sweep
          out    \* the results so far, in input order

Error == [ok |-> FALSE]
Result(panel) == [ok |-> TRUE, panel |-> panel]

Answer ==
    /\ Len(out) < Len(Tasks)
    /\ \E r \in {Error, Result(Panel(Tasks[Len(out) + 1], env))} :
          out' = Append(out, r)
    /\ UNCHANGED env

(* The next sweep starts from nothing, on whatever the data are by then. *)
NewSweep == out' = <<>>

Promise == out = <<>> /\ [][Answer \/ NewSweep]_<<env, out>>
=============================================================================
