---------------------------- MODULE SignalSweep ----------------------------
(***************************************************************************)
(* research/mds/parallel.py: a sweep of signals over a process pool whose  *)
(* workers open the same cache directory.                                  *)
(*                                                                         *)
(* The parent submits every task and then collects the futures in input    *)
(* order.  A worker that dies hard leaves the pool broken: from then on    *)
(* submit() raises, every future without a result gets BrokenProcessPool,  *)
(* and the executor (concurrent.futures, modelled from how it is used)     *)
(* terminates the other workers wherever they are.                         *)
(***************************************************************************)
EXTENDS SignalCache

CONSTANTS
    Parent,     \* the process that runs the sweep
    Tasks,      \* the signals of a sweep, in input order
    MaxSweeps,  \* bound: sweeps of one history
    MaxDeaths,  \* bound: processes that die in one history
    MaxFailed   \* bound: cache writes that fail in one history

ASSUME SweepAssumption ==
    /\ Parent \in Procs
    /\ Tasks \in Seq(Signals) /\ Tasks # <<>>
    /\ MaxSweeps \in Nat /\ MaxDeaths \in Nat /\ MaxFailed \in Nat

VARIABLES
    phase,    \* where _run is: idle, serial, submit, collect, and how it ended
    pool,     \* the worker processes that are alive
    broken,   \* "no", "died" (a worker is dead, nobody knows), "yes"
    future,   \* future of each task: none, queued, running, done, broken
    worker,   \* process -> the task it works on, 0 for none
    outcome,  \* what the task returned, for the futures that are done
    results,  \* what the parent has collected, in input order
    sweeps, deaths, failed  \* how often each bounded event happened

sweepVars == <<phase, pool, broken, future, worker, outcome, results>>
counts == <<sweeps, deaths, failed>>
vars == <<cacheVars, sweepVars, counts>>

N == Len(Tasks)
Error == [ok |-> FALSE]
Result(panel) == [ok |-> TRUE, panel |-> panel]
Ended == {"returned", "raised", "dead"}

Init ==
    /\ CacheInit
    /\ phase = "idle" /\ pool = {} /\ broken = "no"
    /\ future = [i \in 1..N |-> "none"]
    /\ worker = [p \in Procs |-> 0]
    /\ outcome = [i \in 1..N |-> Error]
    /\ results = <<>>
    /\ sweeps = 0 /\ deaths = 0 /\ failed = 0

(* A sweep starts: the data may have changed since the last one, the       *)
(* directory has not.  One worker, or one task, is the serial path.        *)
Start ==
    /\ phase \in {"idle"} \cup Ended
    /\ sweeps < MaxSweeps /\ sweeps' = sweeps + 1
    /\ data' \in [Cols -> Versions]
    /\ \E ws \in SUBSET (Procs \ {Parent}) :
          /\ Cardinality(ws) \in 1..N
          /\ IF Cardinality(ws) = 1 \/ N = 1
             THEN phase' = "serial" /\ pool' = {}
             ELSE phase' = "submit" /\ pool' = ws
    /\ broken' = "no"
    /\ future' = [i \in 1..N |-> "none"]
    /\ worker' = [p \in Procs |-> 0]
    /\ outcome' = [i \in 1..N |-> Error]
    /\ results' = <<>>
    /\ mem' = [p \in Procs |-> <<>>] /\ bytes' = [p \in Procs |-> 0]
    /\ op' = [p \in Procs |-> Idle]
    /\ UNCHANGED <<disk, temp, deaths, failed>>

(* pool.submit of the next task; it raises once the pool is known broken,  *)
(* and nothing in _run catches that.                                       *)
Submit ==
    /\ phase = "submit"
    /\ IF broken = "yes"
       THEN phase' = "raised" /\ UNCHANGED future
       ELSE \E i \in 1..N :
               /\ future[i] = "none" /\ \A j \in 1..(i-1) : future[j] # "none"
               /\ future' = [future EXCEPT ![i] = "queued"]
               /\ phase' = IF i = N THEN "collect" ELSE "submit"
    /\ UNCHANGED <<cacheVars, pool, broken, worker, outcome, results, counts>>

(* A worker takes the oldest task of the queue. *)
Take(p) ==
    /\ p \in pool /\ worker[p] = 0 /\ broken # "yes"
    /\ \E i \in 1..N :
          /\ future[i] = "queued" /\ \A j \in 1..(i-1) : future[j] # "queued"
          /\ future' = [future EXCEPT ![i] = "running"]
          /\ worker' = [worker EXCEPT ![p] = i]
    /\ UNCHANGED <<cacheVars, phase, pool, broken, outcome, results, counts>>

(* The steps of the cache for the task of the process. *)
Begin(p) ==
    /\ worker[p] # 0
    /\ LookUp(p, Tasks[worker[p]])
    /\ UNCHANGED <<sweepVars, counts>>
Work(p) == CacheStep(p) /\ UNCHANGED <<sweepVars, counts>>
DiskFull(p) ==
    /\ failed < MaxFailed /\ failed' = failed + 1
    /\ WriteFails(p)
    /\ UNCHANGED <<sweepVars, sweeps, deaths>>

(* _eval_one: the panel, or any exception as a result of its own task. *)
Answer(p) == IF Doing(p, "served") THEN Result(op[p].panel) ELSE Error
Answers(p) ==
    /\ op[p].at \in {"served", "raised"}
    /\ op' = [op EXCEPT ![p] = Idle]
    /\ worker' = [worker EXCEPT ![p] = 0]

Finish(p) ==
    /\ p \in pool /\ Answers(p)
    /\ outcome' = [outcome EXCEPT ![worker[p]] = Answer(p)]
    /\ future' = [future EXCEPT ![worker[p]] = "done"]
    /\ UNCHANGED <<data, disk, temp, mem, bytes, phase, pool, broken, results, counts>>

(* Results are read future by future, in the order of the tasks. *)
BugCollect ==
    /\ phase = "collect"
    /\ \E i \in 1..N :
          /\ future[i] = "done"
          /\ results' = Append(results, outcome[i])
    /\ phase' = IF Len(results') = N THEN "returned" ELSE phase
    /\ UNCHANGED <<cacheVars, pool, broken, future, worker, outcome, counts>>
Collect ==
    /\ phase = "collect"
    /\ LET i == Len(results) + 1 IN
          /\ future[i] \in {"done", "broken"}
          /\ results' = Append(results, IF future[i] = "done" THEN outcome[i] ELSE Error)
    /\ phase' = IF Len(results') = N THEN "returned" ELSE phase
    /\ UNCHANGED <<cacheVars, pool, broken, future, worker, outcome, counts>>

(* The serial path: the parent works through the tasks itself. *)
SerialTake ==
    /\ phase = "serial" /\ worker[Parent] = 0
    /\ worker' = [worker EXCEPT ![Parent] = Len(results) + 1]
    /\ UNCHANGED <<cacheVars, phase, pool, broken, future, outcome, results, counts>>
SerialFinish ==
    /\ phase = "serial" /\ Answers(Parent)
    /\ results' = Append(results, Answer(Parent))
    /\ phase' = IF Len(results') = N THEN "returned" ELSE phase
    /\ UNCHANGED <<data, disk, temp, mem, bytes, pool, broken, future, outcome, counts>>

(* A hard death: a segfault or the OOM killer.  The process keeps nothing; *)
(* its temporary file stays.  In the serial path it is the whole sweep.    *)
Die(p) ==
    /\ p \in pool \/ (phase = "serial" /\ p = Parent)
    /\ deaths < MaxDeaths /\ deaths' = deaths + 1
    /\ pool' = pool \ {p}
    /\ broken' = IF p \in pool THEN "died" ELSE broken
    /\ phase' = IF p = Parent THEN "dead" ELSE phase
    /\ worker' = [worker EXCEPT ![p] = 0]
    /\ op' = [op EXCEPT ![p] = Idle]
    /\ mem' = [mem EXCEPT ![p] = <<>>] /\ bytes' = [bytes EXCEPT ![p] = 0]
    /\ UNCHANGED <<data, disk, temp, future, outcome, results, sweeps, failed>>

(* The executor notices: every open future breaks, every worker goes. *)
BugNoticeDeath ==
    /\ broken = "died" /\ broken' = "yes"
    /\ future' = [i \in 1..N |-> IF future[i] = "queued" THEN "broken" ELSE future[i]]
    /\ pool' = {}
    /\ worker' = [p \in Procs |-> 0] /\ op' = [p \in Procs |-> Idle]
    /\ UNCHANGED <<data, disk, temp, mem, bytes, phase, outcome, results, counts>>
NoticeDeath ==
    /\ broken = "died" /\ broken' = "yes"
    /\ future' = [i \in 1..N |->
                     IF future[i] \in {"queued", "running"} THEN "broken" ELSE future[i]]
    /\ pool' = {}
    /\ worker' = [p \in Procs |-> 0] /\ op' = [p \in Procs |-> Idle]
    /\ UNCHANGED <<data, disk, temp, mem, bytes, phase, outcome, results, counts>>

ParentStep == Submit \/ Collect \/ SerialTake \/ SerialFinish
ProcStep(p) == Take(p) \/ Begin(p) \/ Work(p) \/ Finish(p)
Next ==
    \/ Start \/ ParentStep \/ NoticeDeath
    \/ \E p \in Procs : ProcStep(p) \/ DiskFull(p) \/ Die(p)

Spec == Init /\ [][Next]_vars

(* The operating system runs every process that can run. *)
Fairness ==
    /\ WF_vars(ParentStep) /\ WF_vars(NoticeDeath)
    /\ \A p \in Procs : WF_vars(ProcStep(p))
FairSpec == Spec /\ Fairness

----------------------------------------------------------------------------
(* Properties. *)

(* The shapes of the state. *)
TypeOK ==
    /\ data \in [Cols -> Versions]
    /\ disk \in [Panels -> {Absent, Torn} \cup {Whole(k) : k \in Panels}]
    /\ temp \subseteq Procs \X Panels
    /\ phase \in {"idle", "serial", "submit", "collect"} \cup Ended
    /\ pool \subseteq Procs \ {Parent}
    /\ broken \in {"no", "died", "yes"}
    /\ future \in [1..N -> {"none", "queued", "running", "done", "broken"}]
    /\ worker \in [Procs -> 0..N]
    /\ \A p \in Procs : mem[p] \in Seq([key : Panels, panel : Panels])

(* A file holds the panel of the address it is filed under, and so does    *)
(* every entry in memory: no interleaving of readers, writers and deaths   *)
(* files one signal's panel, or one day's data, under another's address.   *)
FiledUnderItsAddress ==
    /\ \A k \in Panels : disk[k] \in {Absent, Torn, Whole(k)}
    /\ \A p \in Procs : \A i \in DOMAIN mem[p] : mem[p][i].panel = mem[p][i].key

(* A process killed in the middle of a write leaves no truncated file that *)
(* would poison its address: files that do not parse are only those that   *)
(* were in the directory before (sigcache.py:120-129).                     *)
NeverTears ==
    [][\A k \in Panels : disk'[k] = Torn => disk[k] = Torn]_vars

(* After every call the memory tier is within both of its budgets, and the *)
(* running byte total is the size of what it really holds, however entries *)
(* were touched, replaced and evicted.                                     *)
BudgetKept ==
    \A p \in Procs : /\ Fits(mem[p])
                     /\ bytes[p] = SizeSum(mem[p])

(* A signal that fails costs no other signal its result: without a dead    *)
(* process, the good signals that come back as errors are at most as many  *)
(* as the cache writes that failed.                                        *)
FailuresStayPut ==
    (phase = "returned" /\ deaths = 0) =>
        Cardinality({i \in 1..N : Tasks[i] \notin Bad /\ ~results[i].ok}) <= failed

(* Every sweep ends: the parent returns, raises or dies; it never waits    *)
(* for a future that nobody will complete, whoever died and when.          *)
SweepEnds == []<>(phase \in {"idle"} \cup Ended)

(* The sweep implements its promise: input order, the panel of this data   *)
(* or an error, from the pool or serially, with a warm or a torn cache.    *)
KeepsPromise ==
    INSTANCE SweepPromise WITH env <- data, out <- results,
        Panel <- LAMBDA s, d : <<Expr[s], [c \in Reads[s] |-> d[c]]>>
Refines == KeepsPromise!Promise
=============================================================================
