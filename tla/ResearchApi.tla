----------------------------- MODULE ResearchApi -----------------------------
(* The Research Lab's API (service/app.py over service/compute.py, and the   *)
(* builder service/export_snapshot.py).  Handlers run concurrently in the    *)
(* server's thread pool; the signals are memoized once per process, and a    *)
(* miss does not keep another thread from missing too.  The builder is a     *)
(* process of its own that writes the told-story snapshot the server reads.  *)
EXTENDS Integers, Sequences

CONSTANTS
    Requests,       \* requests that may run at the same time
    Loads,          \* the families of signals a load can yield: all of them, or the
                    \* price signals alone, when EDGAR cannot be reached
    NoFamily,       \* nothing memoized yet
    MaxBuilds       \* a bound on the snapshots built

ASSUME LabAssumption == NoFamily \notin Loads /\ MaxBuilds \in Nat

VARIABLES
    memo,           \* what _all_signals has memoized
    file,           \* the snapshot on disk; build 0 while there is none
    request,        \* request[r]: how far the handler of r has come
    builder,        \* how far the builder has come
    builds          \* snapshots begun

labVars == <<memo, file, request, builder, builds>>

Told == {"findings", "construction"}            \* served from the snapshot
Signals == (UNION Loads) \cup {"composite"}
Asks == Told \cup {"menu"} \cup Signals

Snapshot == [build : 0 .. MaxBuilds, findings : Loads \cup {NoFamily},
             construction : Loads \cup {NoFamily}, torn : BOOLEAN]
NoSnapshot == [build |-> 0, findings |-> NoFamily, construction |-> NoFamily, torn |-> FALSE]

\* `known`: what was memoized when the request began; `seen`: what its calls of
\* _all_signals have returned, or what the snapshot told it.
Request == [at : {"idle", "calling", "loading", "answered"}, ask : Asks, known : Loads \cup {NoFamily},
            seen : Seq(Loads), code : {0, 200, 404, 500}, build : 0 .. MaxBuilds]
Waiting == [at |-> "idle", ask |-> "menu", known |-> NoFamily, seen |-> <<>>, code |-> 0,
            build |-> 0]

Builder == [at : {"idle", "construction", "write", "writing"},
            findings : Loads \cup {NoFamily}, construction : Loads \cup {NoFamily}]
NoBuild == [at |-> "idle", findings |-> NoFamily, construction |-> NoFamily]

LabTypeOK ==
    /\ memo \in Loads \cup {NoFamily}
    /\ file \in Snapshot
    /\ request \in [Requests -> Request]
    /\ builder \in Builder
    /\ builds \in 0 .. MaxBuilds

LabInit ==
    /\ memo = NoFamily
    /\ file = NoSnapshot
    /\ request = [r \in Requests |-> Waiting]
    /\ builder = NoBuild
    /\ builds = 0

(* Of several loads that overlap, the first to finish is memoized.          *)
Memo(cached, loaded) == IF cached = NoFamily THEN loaded ELSE cached

\* Mutant: the signals are loaded at every call.
BugRecalled(cached, loaded) == loaded

(* What a process without concurrent calls gets from _all_signals.          *)
Recalled(cached, loaded) == IF cached = NoFamily THEN loaded ELSE cached

----------------------------------------------------------------------------
(* A backtest takes its signal, its bar and the wording of its verdict from *)
(* _all_signals, in three calls; everything else calls it once.             *)
CallsOf(ask) == IF ask \in Signals THEN 3 ELSE 1
Unknown(ask, family) == ask \in Signals /\ ask # "composite" /\ ask \notin family

(* A call has returned `family` to request q: the answer, or the next call. *)
Returned(q, family) ==
    LET seen == Append(q.seen, family)
    IN [q EXCEPT !.seen = seen,
                 !.at = IF Unknown(q.ask, seen[1]) \/ Len(seen) = CallsOf(q.ask)
                        THEN "answered" ELSE "calling",
                 !.code = IF Unknown(q.ask, seen[1]) THEN 404 ELSE 200]

(* The told story comes from the snapshot when there is one; a file that    *)
(* does not parse is an error.                                              *)
FromSnapshot(q) ==
    [q EXCEPT !.at = "answered",
              !.code = IF file.torn THEN 500 ELSE 200,
              !.seen = IF file.torn THEN <<>> ELSE <<file[q.ask]>>,
              !.build = file.build]

RequestArrives(r, ask) ==
    LET q == [Waiting EXCEPT !.at = "calling", !.ask = ask, !.known = memo]
    IN /\ request[r].at = "idle"
       /\ request' = [request EXCEPT ![r] = IF ask \in Told /\ file # NoSnapshot
                                            THEN FromSnapshot(q) ELSE q]
       /\ UNCHANGED <<memo, file, builder, builds>>

(* A call of _all_signals: a hit returns the memo, a miss starts a load.    *)
SignalsCalled(r) ==
    /\ request[r].at = "calling"
    /\ request' = [request EXCEPT ![r] = IF memo # NoFamily THEN Returned(@, memo)
                                         ELSE [@ EXCEPT !.at = "loading"]]
    /\ UNCHANGED <<memo, file, builder, builds>>

(* The load of a miss ends: the caller gets what it loaded itself.          *)
SignalsLoaded(r, family) ==
    /\ request[r].at = "loading"
    /\ memo' = Memo(memo, family)
    /\ request' = [request EXCEPT ![r] = Returned(@, family)]
    /\ UNCHANGED <<file, builder, builds>>

----------------------------------------------------------------------------
(* build_snapshot: the findings, then the construction, then the file,      *)
(* which is truncated and written in place.                                 *)
BuildFindings(family) ==
    /\ builder.at = "idle" /\ builds < MaxBuilds
    /\ builds' = builds + 1
    /\ builder' = [NoBuild EXCEPT !.at = "construction", !.findings = family]
    /\ UNCHANGED <<memo, file, request>>

BuildConstruction(family) ==
    /\ builder.at = "construction"
    /\ builder' = [builder EXCEPT !.at = "write",
                                  !.construction = Recalled(builder.findings, family)]
    /\ UNCHANGED <<memo, file, request, builds>>

Truncate ==
    /\ builder.at = "write"
    /\ builder' = [builder EXCEPT !.at = "writing"]
    /\ file' = [file EXCEPT !.torn = TRUE, !.build = builds]
    /\ UNCHANGED <<memo, request, builds>>

Written ==
    /\ builder.at = "writing"
    /\ builder' = NoBuild
    /\ file' = [build |-> builds, findings |-> builder.findings,
                construction |-> builder.construction, torn |-> FALSE]
    /\ UNCHANGED <<memo, request, builds>>

Interrupted ==
    /\ builder.at # "idle"
    /\ builder' = NoBuild
    /\ UNCHANGED <<memo, file, request, builds>>

BuilderStep ==
    \/ \E family \in Loads : BuildFindings(family) \/ BuildConstruction(family)
    \/ Truncate \/ Written \/ Interrupted

LabNext ==
    \/ \E r \in Requests : \/ \E ask \in Asks : RequestArrives(r, ask)
                           \/ SignalsCalled(r)
                           \/ \E family \in Loads : SignalsLoaded(r, family)
    \/ BuilderStep

LabSpec == LabInit /\ [][LabNext]_labVars

----------------------------------------------------------------------------
(* Once one load has been memoized, every call returns it: a request that   *)
(* began before then may have its signal from a load of its own, and every  *)
(* other signal, bar and verdict is of one family for the process's life    *)
(* (compute.py _all_signals).                                               *)
OneFamilyOnceWarm ==
    \A r \in Requests :
        LET q == request[r]
        IN \A i \in DOMAIN q.seen :
              (q.build = 0 /\ (q.known # NoFamily \/ i > 1)) => q.seen[i] = memo

(* Findings and construction answered from one snapshot tell of the same    *)
(* trials (compute.py build_snapshot, app.py).                              *)
OneStory ==
    \A f \in Requests, c \in Requests :
        LET a == request[f]
            b == request[c]
        IN (/\ a.at = "answered" /\ b.at = "answered" /\ a.ask = "findings"
            /\ b.ask = "construction" /\ a.code = 200 /\ b.code = 200
            /\ a.build = b.build /\ a.build > 0) => a.seen = b.seen

(* What the lab shows is one analysis, whoever asks and when.               *)
ViewsAgree == LabTypeOK /\ OneFamilyOnceWarm /\ OneStory
=============================================================================
