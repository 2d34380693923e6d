------------------------- MODULE SignalSweepProofs -------------------------
(***************************************************************************)
(* For any processes, signals, columns, budgets, tasks and faults: a file  *)
(* and a memory entry hold the panel of their address, no write is ever    *)
(* seen half done, the memory tiers keep their budgets, a failure costs no *)
(* other task its result, and the sweep implements its promise.            *)
(***************************************************************************)
EXTENDS SignalSweep, FoldTheorems, SequenceTheorems, TLAPS

(***************************************************************************)
(* The inductive invariant.  The shapes of the state; what a process is    *)
(* doing is the task the parent gave it; what it serves, and what a future *)
(* holds, is the panel of that task on the data of this sweep, or an error;*)
(* and a phase that still collects has results to collect.                 *)
(***************************************************************************)
Entry == {e \in [key : Panels, panel : Panels] : e.panel = e.key}

Steps == {"read", "unlink", "evaluate", "rename", "raised"}

OpStates ==
  {Idle} \cup [at : Steps, signal : Signals]
         \cup [at : {"served"}, signal : Signals, panel : Panels]

Outcomes == {Error} \cup {Result(k) : k \in Panels}

Good(i) == {Error, Result(Value(Tasks[i]))}

ShapesOK ==
  /\ data \in [Cols -> Versions]
  /\ disk \in [Panels -> {Absent, Torn} \cup {Whole(k) : k \in Panels}]
  /\ temp \subseteq Procs \X Panels
  /\ phase \in {"idle", "serial", "submit", "collect"} \cup Ended
  /\ pool \subseteq Procs \ {Parent}
  /\ broken \in {"no", "died", "yes"}
  /\ future \in [1..N -> {"none", "queued", "running", "done", "broken"}]
  /\ worker \in [Procs -> 0..N]
  /\ mem \in [Procs -> Seq(Entry)]
  /\ op \in [Procs -> OpStates]
  /\ outcome \in [1..N -> Outcomes]
  /\ results \in Seq(Outcomes)

FilesMatch == \A k \in Panels : disk[k] \in {Absent, Torn, Whole(k)}

DoesItsTask ==
  \A p \in Procs : op[p].at # "idle" =>
    worker[p] \in 1..N /\ op[p].signal = Tasks[worker[p]]

ServesItsValue ==
  \A p \in Procs : op[p].at = "served" => op[p].panel = Value(op[p].signal)

OutcomesGood == \A i \in 1..N : outcome[i] \in Good(i)

StillCollecting ==
  phase \in {"serial", "submit", "collect"} => Len(results) < N

SerialInOrder == phase = "serial" => worker[Parent] \in {0, Len(results) + 1}

SweepInv ==
  /\ ShapesOK /\ FilesMatch /\ DoesItsTask
  /\ ServesItsValue /\ OutcomesGood /\ StillCollecting /\ SerialInOrder

-----------------------------------------------------------------------------
\* The number of tasks is a positive integer, and each task is a signal.
LEMMA TasksOK == N \in Nat /\ N >= 1 /\ \A i \in 1..N : Tasks[i] \in Signals
<1>1. Tasks \in Seq(Signals) /\ Tasks # <<>>
  BY SweepAssumption
<1>2. Len(Tasks) \in Nat /\ Len(Tasks) # 0
  BY <1>1, EmptySeq
<1> QED
  BY <1>1, <1>2 DEF N

\* The address of a signal is one of the addresses a file can have.
LEMMA KeyIsPanel ==
  ASSUME NEW s \in Signals, data \in [Cols -> Versions]
  PROVE  Key(s) \in Panels /\ Value(s) = Key(s)
<1> DEFINE d == [c \in Reads[s] |-> data[c]]
<1>1. Reads[s] \subseteq Cols
  BY CacheAssumption
<1>2. d \in [Reads[s] -> Versions]
  BY <1>1
<1>3. <<Expr[s], d>> \in {<<Expr[s], x>> : x \in [Reads[s] -> Versions]}
  BY <1>2
<1>4. <<Expr[s], d>> \in Panels
  BY <1>3 DEF Panels
<1> QED
  BY <1>4 DEF Key, Value

\* Absent, torn and whole files are told apart, and a whole file gives its panel back.
LEMMA FilesDiffer ==
  /\ Absent # Torn
  /\ \A k : Whole(k) # Torn /\ Whole(k) # Absent /\ Whole(k).panel = k
<1>1. Absent.file = "absent" /\ Torn.file = "torn"
  BY DEF Absent, Torn
<1>2. \A k : Whole(k).file = "whole" /\ Whole(k).panel = k
  BY DEF Whole
<1> QED
  BY <1>1, <1>2

-----------------------------------------------------------------------------
\* The end of a list of entries, and an entry moved to the end, is a list of entries.
LEMMA SuffixOK ==
  ASSUME NEW s \in Seq(Entry), NEW n \in 0..Len(s)
  PROVE  Suffix(s, n) \in Seq(Entry)
<1>1. Len(s) \in Nat /\ \A i \in 1..Len(s) : s[i] \in Entry
  OBVIOUS
<1>2. \A i \in (n + 1)..Len(s) : s[i] \in Entry
  BY <1>1
<1>3. SubSeq(s, n + 1, Len(s)) \in Seq(Entry)
  BY <1>1, <1>2, SubSeqProperties
<1> QED
  BY <1>3 DEF Suffix

LEMMA TouchedOK ==
  ASSUME SweepInv, NEW p \in Procs, NEW i \in DOMAIN mem[p]
  PROVE  Touched(p, i) \in Seq(Entry)
<1> DEFINE s == mem[p]
<1>1. s \in Seq(Entry)
  BY DEF SweepInv, ShapesOK
<1>2. Len(s) \in Nat /\ i \in 1..Len(s) /\ \A j \in 1..Len(s) : s[j] \in Entry
  BY <1>1
<1> HIDE DEF s
<1>3. SubSeq(s, 1, i - 1) \in Seq(Entry)
  BY <1>2, SubSeqProperties
<1>4. SubSeq(s, i + 1, Len(s)) \in Seq(Entry)
  BY <1>2, SubSeqProperties
<1>5. <<s[i]>> \in Seq(Entry)
  BY <1>2
<1>6. SubSeq(s, 1, i - 1) \o SubSeq(s, i + 1, Len(s)) \in Seq(Entry)
  BY <1>3, <1>4, ConcatProperties
<1>7. SubSeq(s, 1, i - 1) \o SubSeq(s, i + 1, Len(s)) \o <<s[i]>> \in Seq(Entry)
  BY <1>5, <1>6, ConcatProperties
<1> QED
  BY <1>7 DEF Touched, s

\* A panel remembered under its own address leaves every tier a list of entries.
LEMMA RememberOK ==
  ASSUME SweepInv, NEW p \in Procs, NEW k \in Panels, Remember(p, k, k)
  PROVE  mem' \in [Procs -> Seq(Entry)]
<1> DEFINE all == Append(mem[p], [key |-> k, panel |-> k])
<1>1. mem \in [Procs -> Seq(Entry)]
  BY DEF SweepInv, ShapesOK
<1>2. [key |-> k, panel |-> k] \in Entry
  BY DEF Entry
<1>3. all \in Seq(Entry)
  BY <1>1, <1>2, AppendProperties
<1>4. PICK n \in 0..Len(all) : mem' = [mem EXCEPT ![p] = Suffix(all, n)]
  BY DEF Remember
<1> HIDE DEF all
<1>5. Suffix(all, n) \in Seq(Entry)
  BY <1>3, SuffixOK
<1> QED
  BY <1>1, <1>4, <1>5

(***************************************************************************)
(* One step of evaluate() by process p: it reaches the state st, the       *)
(* sweep's own variables do not change, and the tiers stay in order.       *)
(***************************************************************************)
LEMMA CacheStepInv ==
  ASSUME SweepInv, NEW p \in Procs, NEW st \in OpStates,
         op' = [op EXCEPT ![p] = st],
         st.at # "idle" => worker[p] \in 1..N /\ st.signal = Tasks[worker[p]],
         st.at = "served" => st.panel = Value(st.signal),
         mem' \in [Procs -> Seq(Entry)],
         temp' \subseteq Procs \X Panels,
         disk' \in [Panels -> {Absent, Torn} \cup {Whole(k) : k \in Panels}],
         FilesMatch',
         UNCHANGED <<data, sweepVars>>
  PROVE  SweepInv'
<1> USE DEF SweepInv
<1>0. /\ data' = data /\ phase' = phase /\ pool' = pool /\ broken' = broken
      /\ future' = future /\ worker' = worker /\ outcome' = outcome /\ results' = results
  BY DEF sweepVars
<1>1. op \in [Procs -> OpStates]
  BY DEF ShapesOK
<1>2. op' \in [Procs -> OpStates] /\ op'[p] = st /\ \A q \in Procs \ {p} : op'[q] = op[q]
  BY <1>1
<1>3. ShapesOK'
  BY <1>0, <1>2 DEF ShapesOK
<1>4. DoesItsTask'
  BY <1>0, <1>2 DEF DoesItsTask
<1>5. \A s : Value(s)' = Value(s)
  BY <1>0 DEF Value
<1>6. ServesItsValue'
  BY <1>2, <1>5 DEF ServesItsValue
<1>7. OutcomesGood'
  BY <1>0, <1>5 DEF OutcomesGood, Good
<1>8. StillCollecting' /\ SerialInOrder'
  BY <1>0 DEF StillCollecting, SerialInOrder
<1> QED
  BY <1>3, <1>4, <1>6, <1>7, <1>8

\* What a busy process is doing, in the terms of its signal's address.
LEMMA BusyOK ==
  ASSUME SweepInv, NEW p \in Procs, op[p].at # "idle"
  PROVE  /\ op[p].signal \in Signals
         /\ worker[p] \in 1..N /\ op[p].signal = Tasks[worker[p]]
         /\ Key(op[p].signal) \in Panels
         /\ Value(op[p].signal) = Key(op[p].signal)
<1>1. worker[p] \in 1..N /\ op[p].signal = Tasks[worker[p]]
  BY DEF SweepInv, DoesItsTask
<1>2. op[p].signal \in Signals
  BY <1>1, TasksOK
<1>3. data \in [Cols -> Versions]
  BY DEF SweepInv, ShapesOK
<1> QED
  BY <1>1, <1>2, <1>3, KeyIsPanel

\* Begin: the address is looked up in memory and on disk.
LEMMA BeginInv ==
  ASSUME SweepInv, NEW p \in Procs, Begin(p)
  PROVE  SweepInv'
<1> DEFINE s == Tasks[worker[p]]
<1>1. /\ worker[p] \in 1..N /\ s \in Signals
      /\ UNCHANGED <<data, disk, temp, bytes, sweepVars>>
  BY TasksOK DEF Begin, SweepInv, ShapesOK, LookUp
<1>2. Key(s) \in Panels /\ Value(s) = Key(s)
  BY <1>1, KeyIsPanel DEF SweepInv, ShapesOK
<1>3. /\ FilesMatch' /\ temp' \subseteq Procs \X Panels
      /\ disk' \in [Panels -> {Absent, Torn} \cup {Whole(k) : k \in Panels}]
      /\ mem \in [Procs -> Seq(Entry)]
  BY <1>1 DEF SweepInv, ShapesOK, FilesMatch
<1>4. LookUp(p, s)
  BY DEF Begin
<1> HIDE DEF s
<1>5. CASE Raise(p, s) /\ UNCHANGED mem
  <2> DEFINE st == [at |-> "raised", signal |-> s]
  <2>1. st \in OpStates
    BY <1>1 DEF OpStates, Steps
  <2>2. op' = [op EXCEPT ![p] = st]
    BY <1>5 DEF Raise, Go
  <2>3. st.signal = Tasks[worker[p]] /\ st.at # "served"
    BY DEF s
  <2> QED
    BY <1>1, <1>3, <1>5, <2>1, <2>2, <2>3, CacheStepInv
<1>6. CASE \E i \in DOMAIN mem[p] :
             /\ mem[p][i].key = Key(s)
             /\ mem' = [mem EXCEPT ![p] = Touched(p, i)]
             /\ Serve(p, s, mem[p][i].panel)
  <2>1. PICK i \in DOMAIN mem[p] :
             /\ mem[p][i].key = Key(s)
             /\ mem' = [mem EXCEPT ![p] = Touched(p, i)]
             /\ Serve(p, s, mem[p][i].panel)
    BY <1>6
  <2>2. mem[p] \in Seq(Entry)
    BY <1>3
  <2>3. mem[p][i] \in Entry
    BY <2>2
  <2>4. mem[p][i].panel = Key(s)
    BY <2>1, <2>3 DEF Entry
  <2>5. Touched(p, i) \in Seq(Entry)
    BY TouchedOK
  <2>6. mem' \in [Procs -> Seq(Entry)]
    BY <1>3, <2>1, <2>5
  <2> DEFINE st == [at |-> "served", signal |-> s, panel |-> Key(s)]
  <2>7. st \in OpStates
    BY <1>1, <1>2 DEF OpStates
  <2>8. op' = [op EXCEPT ![p] = st]
    BY <2>1, <2>4 DEF Serve
  <2>9. st.signal = Tasks[worker[p]] /\ st.panel = Value(st.signal)
    BY <1>2 DEF s
  <2> QED
    BY <1>1, <1>3, <2>6, <2>7, <2>8, <2>9, CacheStepInv
<1>7. CASE /\ Go(p, IF disk[Key(s)] = Absent THEN "evaluate" ELSE "read", s)
           /\ UNCHANGED mem
  <2> DEFINE st == [at |-> IF disk[Key(s)] = Absent THEN "evaluate" ELSE "read", signal |-> s]
  <2>1. st \in OpStates
    BY <1>1 DEF OpStates, Steps
  <2>2. op' = [op EXCEPT ![p] = st]
    BY <1>7 DEF Go
  <2>3. st.signal = Tasks[worker[p]] /\ st.at # "served"
    BY DEF s
  <2> QED
    BY <1>1, <1>3, <1>7, <2>1, <2>2, <2>3, CacheStepInv
<1> QED
  BY <1>4, <1>5, <1>6, <1>7 DEF LookUp

\* Read: a file that parses is served and remembered, another one is to be unlinked.
LEMMA ReadInv ==
  ASSUME SweepInv, NEW p \in Procs, Read(p), UNCHANGED <<sweepVars, counts>>
  PROVE  SweepInv'
<1> DEFINE s == op[p].signal
<1>1. op[p].at = "read" /\ UNCHANGED <<data, disk, temp>>
  BY DEF Read, Doing
<1>2. /\ s \in Signals /\ worker[p] \in 1..N /\ s = Tasks[worker[p]]
      /\ Key(s) \in Panels /\ Value(s) = Key(s)
  BY <1>1, BusyOK
<1>3. /\ FilesMatch' /\ temp' \subseteq Procs \X Panels
      /\ disk' \in [Panels -> {Absent, Torn} \cup {Whole(k) : k \in Panels}]
      /\ mem \in [Procs -> Seq(Entry)]
  BY <1>1 DEF SweepInv, ShapesOK, FilesMatch
<1>4. CASE disk[Key(s)] \in {Absent, Torn}
  <2> DEFINE st == [at |-> "unlink", signal |-> s]
  <2>1. op' = [op EXCEPT ![p] = st] /\ mem' = mem
    BY <1>4 DEF Read, Go
  <2>2. st \in OpStates
    BY <1>2 DEF OpStates, Steps
  <2> QED
    BY <1>1, <1>2, <1>3, <2>1, <2>2, CacheStepInv
<1>5. CASE disk[Key(s)] \notin {Absent, Torn}
  <2>1. disk[Key(s)].panel = Key(s)
    BY <1>2, <1>5, FilesDiffer DEF SweepInv, FilesMatch
  <2>2. Remember(p, Key(s), Key(s)) /\ Serve(p, s, Key(s))
    BY <1>5, <2>1 DEF Read
  <2>3. mem' \in [Procs -> Seq(Entry)]
    BY <1>2, <2>2, RememberOK
  <2> DEFINE st == [at |-> "served", signal |-> s, panel |-> Key(s)]
  <2>4. op' = [op EXCEPT ![p] = st]
    BY <2>2 DEF Serve
  <2>5. st \in OpStates
    BY <1>2 DEF OpStates
  <2> QED
    BY <1>1, <1>2, <1>3, <2>3, <2>4, <2>5, CacheStepInv
<1> QED
  BY <1>4, <1>5

\* Unlink: the file of the address goes.
LEMMA UnlinkInv ==
  ASSUME SweepInv, NEW p \in Procs, Unlink(p), UNCHANGED sweepVars
  PROVE  SweepInv'
<1> DEFINE s == op[p].signal
           st == [at |-> "evaluate", signal |-> s]
<1>1. op[p].at = "unlink" /\ op' = [op EXCEPT ![p] = st] /\ UNCHANGED <<data, mem>>
  BY DEF Unlink, Doing, Go, Raise
<1>2. s \in Signals /\ worker[p] \in 1..N /\ s = Tasks[worker[p]] /\ Key(s) \in Panels
  BY <1>1, BusyOK
<1>3. st \in OpStates
  BY <1>2 DEF OpStates, Steps
<1>4. mem' \in [Procs -> Seq(Entry)]
  BY <1>1 DEF SweepInv, ShapesOK
<1>5. temp' \subseteq Procs \X Panels
  BY <1>2 DEF Unlink, SweepInv, ShapesOK
<1>6. /\ FilesMatch'
      /\ disk' \in [Panels -> {Absent, Torn} \cup {Whole(k) : k \in Panels}]
  BY <1>2 DEF Unlink, SweepInv, ShapesOK, FilesMatch
<1> QED
  BY <1>1, <1>2, <1>3, <1>4, <1>5, <1>6, CacheStepInv

\* WriteTemp: only a temporary file of the process appears.
LEMMA WriteTempInv ==
  ASSUME SweepInv, NEW p \in Procs, WriteTemp(p), UNCHANGED sweepVars
  PROVE  SweepInv'
<1> DEFINE s == op[p].signal
           st == [at |-> "rename", signal |-> s]
<1>1. op[p].at = "evaluate" /\ op' = [op EXCEPT ![p] = st] /\ UNCHANGED <<data, mem>>
  BY DEF WriteTemp, Doing, Go, Raise
<1>2. s \in Signals /\ worker[p] \in 1..N /\ s = Tasks[worker[p]] /\ Key(s) \in Panels
  BY <1>1, BusyOK
<1>3. st \in OpStates
  BY <1>2 DEF OpStates, Steps
<1>4. mem' \in [Procs -> Seq(Entry)]
  BY <1>1 DEF SweepInv, ShapesOK
<1>5. temp' \subseteq Procs \X Panels
  BY <1>2 DEF WriteTemp, SweepInv, ShapesOK
<1>6. /\ FilesMatch'
      /\ disk' \in [Panels -> {Absent, Torn} \cup {Whole(k) : k \in Panels}]
  BY <1>2 DEF WriteTemp, SweepInv, ShapesOK, FilesMatch
<1> QED
  BY <1>1, <1>2, <1>3, <1>4, <1>5, <1>6, CacheStepInv

\* WriteFails: the temporary file goes, the error is this signal's own.
LEMMA WriteFailsInv ==
  ASSUME SweepInv, NEW p \in Procs, WriteFails(p), UNCHANGED sweepVars
  PROVE  SweepInv'
<1> DEFINE s == op[p].signal
           st == [at |-> "raised", signal |-> s]
<1>1. op[p].at = "rename" /\ op' = [op EXCEPT ![p] = st] /\ UNCHANGED <<data, mem>>
  BY DEF WriteFails, Doing, Go, Raise
<1>2. s \in Signals /\ worker[p] \in 1..N /\ s = Tasks[worker[p]] /\ Key(s) \in Panels
  BY <1>1, BusyOK
<1>3. st \in OpStates
  BY <1>2 DEF OpStates, Steps
<1>4. mem' \in [Procs -> Seq(Entry)]
  BY <1>1 DEF SweepInv, ShapesOK
<1>5. temp' \subseteq Procs \X Panels
  BY <1>2 DEF WriteFails, SweepInv, ShapesOK
<1>6. /\ FilesMatch'
      /\ disk' \in [Panels -> {Absent, Torn} \cup {Whole(k) : k \in Panels}]
  BY <1>2 DEF WriteFails, SweepInv, ShapesOK, FilesMatch
<1> QED
  BY <1>1, <1>2, <1>3, <1>4, <1>5, <1>6, CacheStepInv

\* Rename: the panel of the address appears under it, whole.
LEMMA RenameInv ==
  ASSUME SweepInv, NEW p \in Procs, Rename(p), UNCHANGED sweepVars
  PROVE  SweepInv'
<1> DEFINE s == op[p].signal
           st == [at |-> "served", signal |-> s, panel |-> Key(s)]
<1>1. op[p].at = "rename" /\ UNCHANGED data
  BY DEF Rename, Doing
<1>2. /\ s \in Signals /\ worker[p] \in 1..N /\ s = Tasks[worker[p]]
      /\ Key(s) \in Panels /\ Value(s) = Key(s)
  BY <1>1, BusyOK
<1>3. /\ op' = [op EXCEPT ![p] = st]
      /\ disk' = [disk EXCEPT ![Key(s)] = Whole(Key(s))]
      /\ temp' = temp \ {<<p, Key(s)>>}
      /\ Remember(p, Key(s), Key(s))
  BY <1>2 DEF Rename, Serve
<1>4. st \in OpStates
  BY <1>2 DEF OpStates
<1>5. mem' \in [Procs -> Seq(Entry)]
  BY <1>2, <1>3, RememberOK
<1>6. temp' \subseteq Procs \X Panels
  BY <1>3 DEF SweepInv, ShapesOK
<1>7. /\ FilesMatch'
      /\ disk' \in [Panels -> {Absent, Torn} \cup {Whole(k) : k \in Panels}]
  BY <1>2, <1>3 DEF SweepInv, ShapesOK, FilesMatch
<1> QED
  BY <1>1, <1>2, <1>3, <1>4, <1>5, <1>6, <1>7, CacheStepInv

-----------------------------------------------------------------------------
\* The initial state satisfies the invariant.
LEMMA SweepInvInit == Init => SweepInv
<1> SUFFICES ASSUME Init PROVE SweepInv
  OBVIOUS
<1> USE TasksOK DEF Init, CacheInit
<1>1. ShapesOK
  <2>1. disk \in [Panels -> {Absent, Torn} \cup {Whole(k) : k \in Panels}]
    OBVIOUS
  <2>2. mem \in [Procs -> Seq(Entry)]
    OBVIOUS
  <2>3. op \in [Procs -> OpStates]
    BY DEF OpStates
  <2>4. outcome \in [1..N -> Outcomes] /\ results \in Seq(Outcomes)
    BY DEF Outcomes
  <2>5. worker \in [Procs -> 0..N]
    OBVIOUS
  <2> QED
    BY <2>1, <2>2, <2>3, <2>4, <2>5 DEF ShapesOK
<1>2. FilesMatch
  BY DEF FilesMatch
<1>3. \A p \in Procs : op[p].at = "idle"
  BY DEF Idle
<1>4. DoesItsTask /\ ServesItsValue
  BY <1>3 DEF DoesItsTask, ServesItsValue
<1>5. OutcomesGood
  BY DEF OutcomesGood, Good
<1>6. StillCollecting /\ SerialInOrder
  BY DEF StillCollecting, SerialInOrder
<1> QED
  BY <1>1, <1>2, <1>4, <1>5, <1>6 DEF SweepInv

\* Start: everything but the directory is new.
LEMMA StartInv == SweepInv /\ Start => SweepInv'
<1> SUFFICES ASSUME SweepInv, Start PROVE SweepInv'
  OBVIOUS
<1> USE TasksOK DEF Start
<1>1. ShapesOK'
  <2>1. disk' = disk /\ temp' = temp /\ data' \in [Cols -> Versions]
    OBVIOUS
  <2>2. phase' \in {"serial", "submit"} /\ pool' \subseteq Procs \ {Parent}
    OBVIOUS
  <2>3. mem' \in [Procs -> Seq(Entry)]
    OBVIOUS
  <2>4. op' \in [Procs -> OpStates]
    BY DEF OpStates
  <2>5. outcome' \in [1..N -> Outcomes] /\ results' \in Seq(Outcomes)
    BY DEF Outcomes
  <2>6. worker' \in [Procs -> 0..N] /\ broken' = "no" /\ future' = [i \in 1..N |-> "none"]
    OBVIOUS
  <2> QED
    BY <2>1, <2>2, <2>3, <2>4, <2>5, <2>6 DEF ShapesOK, SweepInv
<1>2. FilesMatch'
  BY DEF FilesMatch, SweepInv
<1>3. \A p \in Procs : op'[p].at = "idle"
  BY DEF Idle
<1>4. DoesItsTask' /\ ServesItsValue'
  BY <1>3 DEF DoesItsTask, ServesItsValue
<1>5. OutcomesGood'
  BY DEF OutcomesGood, Good
<1>6. StillCollecting' /\ SerialInOrder'
  BY SweepAssumption DEF StillCollecting, SerialInOrder
<1> QED
  BY <1>1, <1>2, <1>4, <1>5, <1>6 DEF SweepInv

\* Values do not change while the data do not.
LEMMA SameData ==
  ASSUME UNCHANGED data
  PROVE  (\A s : Value(s)' = Value(s)) /\ (\A i : Good(i)' = Good(i))
BY DEF Value, Good

\* Submit and Take move futures and workers only.
LEMMA SubmitInv == SweepInv /\ Submit => SweepInv'
<1> SUFFICES ASSUME SweepInv, Submit PROVE SweepInv'
  OBVIOUS
<1> USE DEF SweepInv
<1>1. /\ phase = "submit" /\ phase' \in {"raised", "submit", "collect"}
      /\ UNCHANGED <<data, disk, temp, mem, bytes, op>>
      /\ UNCHANGED <<pool, broken, worker, outcome, results>>
  BY DEF Submit, cacheVars
<1>2. future' \in [1..N -> {"none", "queued", "running", "done", "broken"}]
  BY DEF Submit, ShapesOK
<1>3. ShapesOK'
  BY <1>1, <1>2 DEF ShapesOK, Ended
<1>4. FilesMatch' /\ DoesItsTask' /\ StillCollecting' /\ SerialInOrder'
  BY <1>1 DEF FilesMatch, DoesItsTask, StillCollecting, SerialInOrder
<1>5. ServesItsValue' /\ OutcomesGood'
  BY <1>1, SameData DEF ServesItsValue, OutcomesGood
<1> QED
  BY <1>3, <1>4, <1>5

LEMMA TakeInv ==
  ASSUME SweepInv, NEW p \in Procs, Take(p)
  PROVE  SweepInv'
<1> USE DEF SweepInv
<1>1. /\ UNCHANGED <<data, disk, temp, mem, bytes, op>>
      /\ UNCHANGED <<phase, pool, broken, outcome, results>>
  BY DEF Take, cacheVars
<1>2. PICK i \in 1..N : /\ future' = [future EXCEPT ![i] = "running"]
                        /\ worker' = [worker EXCEPT ![p] = i]
  BY DEF Take
<1>3. i \in 0..N
  BY TasksOK
<1>4. ShapesOK'
  BY <1>1, <1>2, <1>3 DEF ShapesOK
<1>5. worker[p] = 0
  BY DEF Take
<1>6. op[p].at = "idle"
  BY <1>5, TasksOK DEF DoesItsTask
<1>7. DoesItsTask'
  BY <1>1, <1>2, <1>6 DEF DoesItsTask, ShapesOK
<1>8. FilesMatch' /\ StillCollecting'
  BY <1>1 DEF FilesMatch, StillCollecting
<1>10. SerialInOrder'
  <2>1. p # Parent
    BY DEF Take, ShapesOK
  <2> QED
    BY <1>1, <1>2, <2>1 DEF SerialInOrder, ShapesOK
<1>9. ServesItsValue' /\ OutcomesGood'
  BY <1>1, SameData DEF ServesItsValue, OutcomesGood
<1> QED
  BY <1>4, <1>7, <1>8, <1>9, <1>10

\* The serial path hands the next task to the parent itself.
LEMMA SerialTakeInv == SweepInv /\ SerialTake => SweepInv'
<1> SUFFICES ASSUME SweepInv, SerialTake PROVE SweepInv'
  OBVIOUS
<1> USE DEF SweepInv
<1>1. /\ UNCHANGED <<data, disk, temp, mem, bytes, op>>
      /\ UNCHANGED <<phase, pool, broken, future, outcome, results>>
      /\ phase = "serial" /\ worker[Parent] = 0
      /\ worker' = [worker EXCEPT ![Parent] = Len(results) + 1]
  BY DEF SerialTake, cacheVars
<1>2. Len(results) \in Nat /\ Len(results) + 1 \in 1..N
  <2>1. results \in Seq(Outcomes)
    BY DEF ShapesOK
  <2>2. Len(results) \in Nat
    BY <2>1
  <2> QED
    BY <1>1, <2>2, TasksOK DEF StillCollecting
<1>3. ShapesOK'
  <2>1. Len(results) + 1 \in 0..N
    BY <1>2, TasksOK
  <2>2. worker' \in [Procs -> 0..N]
    BY <1>1, <2>1 DEF ShapesOK
  <2> QED
    BY <1>1, <2>2 DEF ShapesOK
<1>4. op[Parent].at = "idle"
  BY <1>1, TasksOK, SweepAssumption DEF DoesItsTask
<1>5. DoesItsTask'
  BY <1>1, <1>4, SweepAssumption DEF DoesItsTask, ShapesOK
<1>6. FilesMatch' /\ StillCollecting' /\ SerialInOrder'
  BY <1>1, SweepAssumption DEF FilesMatch, StillCollecting, SerialInOrder, ShapesOK
<1>7. ServesItsValue' /\ OutcomesGood'
  BY <1>1, SameData DEF ServesItsValue, OutcomesGood
<1> QED
  BY <1>3, <1>5, <1>6, <1>7

\* One more result: the collecting phases end exactly with the last one.
LEMMA AppendOK ==
  ASSUME SweepInv, phase \in {"serial", "submit", "collect"}, NEW r \in Outcomes,
         results' = Append(results, r),
         phase' = IF Len(results') = N THEN "returned" ELSE phase
  PROVE  /\ results' \in Seq(Outcomes) /\ StillCollecting'
         /\ phase' \in {"idle", "serial", "submit", "collect"} \cup Ended
<1>1. results \in Seq(Outcomes)
  BY DEF SweepInv, ShapesOK
<1>2. results' \in Seq(Outcomes) /\ Len(results') = Len(results) + 1 /\ Len(results) \in Nat
  BY <1>1, AppendProperties
<1>3. Len(results) < N
  BY DEF SweepInv, StillCollecting
<1>4. StillCollecting'
  BY <1>2, <1>3, TasksOK DEF StillCollecting
<1> QED
  BY <1>2, <1>4 DEF SweepInv, ShapesOK, Ended

\* What a future or the parent gives for a task is good for that task.
LEMMA GoodIsOutcome ==
  ASSUME SweepInv, NEW i \in 1..N
  PROVE  Good(i) \subseteq Outcomes
<1>1. Value(Tasks[i]) \in Panels
  BY TasksOK, KeyIsPanel DEF SweepInv, ShapesOK
<1> QED
  BY <1>1 DEF Good, Outcomes

LEMMA CollectInv ==
  ASSUME SweepInv, Collect
  PROVE  /\ SweepInv'
         /\ Len(results) + 1 \in 1..N
         /\ \E r \in Good(Len(results) + 1) : results' = Append(results, r)
<1> DEFINE i == Len(results) + 1
           r == IF future[i] = "done" THEN outcome[i] ELSE Error
<1>1. /\ UNCHANGED <<data, disk, temp, mem, bytes, op>>
      /\ UNCHANGED <<pool, broken, future, worker, outcome>>
      /\ phase = "collect" /\ results' = Append(results, r)
      /\ phase' = IF Len(results') = N THEN "returned" ELSE phase
  BY DEF Collect, cacheVars
<1>2. i \in 1..N
  <2>1. Len(results) \in Nat
    BY DEF SweepInv, ShapesOK
  <2> QED
    BY <1>1, <2>1, TasksOK DEF SweepInv, StillCollecting
<1> HIDE DEF i
<1>3. r \in Good(i)
  BY <1>2 DEF SweepInv, OutcomesGood, Good
<1>4. r \in Outcomes
  BY <1>2, <1>3, GoodIsOutcome
<1> HIDE DEF r
<1>5. /\ results' \in Seq(Outcomes) /\ StillCollecting'
      /\ phase' \in {"idle", "serial", "submit", "collect"} \cup Ended
  BY <1>1, <1>4, AppendOK
<1>6. ShapesOK'
  BY <1>1, <1>5 DEF SweepInv, ShapesOK
<1>7. FilesMatch' /\ DoesItsTask' /\ SerialInOrder'
  BY <1>1 DEF SweepInv, FilesMatch, DoesItsTask, SerialInOrder
<1>8. ServesItsValue' /\ OutcomesGood'
  BY <1>1, SameData DEF SweepInv, ServesItsValue, OutcomesGood
<1> QED
  BY <1>1, <1>2, <1>3, <1>5, <1>6, <1>7, <1>8 DEF SweepInv, i

\* What a process answers is good for the task it works on.
LEMMA AnswerGood ==
  ASSUME SweepInv, NEW p \in Procs, op[p].at \in {"served", "raised"}
  PROVE  /\ worker[p] \in 1..N
         /\ Answer(p) \in Good(worker[p])
<1>1. worker[p] \in 1..N /\ op[p].signal = Tasks[worker[p]]
  BY BusyOK
<1>2. op[p].at = "served" => op[p].panel = Value(Tasks[worker[p]])
  BY <1>1 DEF SweepInv, ServesItsValue
<1> QED
  BY <1>1, <1>2 DEF Answer, Good, Doing

\* A process that has answered, died or been stopped does nothing.
LEMMA IdleIsState == Idle \in OpStates /\ Idle.at = "idle"
BY DEF Idle, OpStates

LEMMA FinishInv ==
  ASSUME SweepInv, NEW p \in Procs, Finish(p)
  PROVE  SweepInv'
<1> USE DEF SweepInv
<1>1. /\ UNCHANGED <<data, disk, temp, mem, bytes, phase, pool, broken, results>>
      /\ op[p].at \in {"served", "raised"}
      /\ op' = [op EXCEPT ![p] = Idle] /\ worker' = [worker EXCEPT ![p] = 0]
      /\ outcome' = [outcome EXCEPT ![worker[p]] = Answer(p)]
      /\ future' = [future EXCEPT ![worker[p]] = "done"]
  BY DEF Finish, Answers
<1>2. worker[p] \in 1..N /\ Answer(p) \in Good(worker[p])
  BY <1>1, AnswerGood
<1>3. Answer(p) \in Outcomes
  BY <1>2, GoodIsOutcome
<1>4. ShapesOK'
  <2>1. worker' \in [Procs -> 0..N]
    BY <1>1, TasksOK DEF ShapesOK
  <2>2. op' \in [Procs -> OpStates]
    BY <1>1, IdleIsState DEF ShapesOK
  <2>3. outcome' \in [1..N -> Outcomes]
    BY <1>1, <1>3 DEF ShapesOK
  <2>4. future' \in [1..N -> {"none", "queued", "running", "done", "broken"}]
    BY <1>1 DEF ShapesOK
  <2> QED
    BY <1>1, <2>1, <2>2, <2>3, <2>4 DEF ShapesOK
<1>5. op'[p].at = "idle" /\ \A q \in Procs \ {p} : op'[q] = op[q] /\ worker'[q] = worker[q]
  BY <1>1, IdleIsState DEF ShapesOK
<1>6. DoesItsTask'
  BY <1>5 DEF DoesItsTask
<1>7. ServesItsValue'
  BY <1>1, <1>5, SameData DEF ServesItsValue
<1>8. OutcomesGood'
  BY <1>1, <1>2, SameData DEF OutcomesGood, ShapesOK
<1>9. FilesMatch' /\ StillCollecting'
  BY <1>1 DEF FilesMatch, StillCollecting
<1>10. SerialInOrder'
  <2>1. p # Parent
    BY DEF Finish, ShapesOK
  <2> QED
    BY <1>1, <1>5, <2>1, SweepAssumption DEF SerialInOrder
<1> QED
  BY <1>4, <1>6, <1>7, <1>8, <1>9, <1>10

LEMMA SerialFinishInv ==
  ASSUME SweepInv, SerialFinish
  PROVE  /\ SweepInv'
         /\ Len(results) + 1 \in 1..N
         /\ \E r \in Good(Len(results) + 1) : results' = Append(results, r)
<1> DEFINE r == Answer(Parent)
<1>1. /\ UNCHANGED <<data, disk, temp, mem, bytes, pool, broken, future, outcome>>
      /\ phase = "serial" /\ op[Parent].at \in {"served", "raised"}
      /\ op' = [op EXCEPT ![Parent] = Idle] /\ worker' = [worker EXCEPT ![Parent] = 0]
      /\ results' = Append(results, r)
      /\ phase' = IF Len(results') = N THEN "returned" ELSE phase
  BY DEF SerialFinish, Answers
<1>2. worker[Parent] \in 1..N /\ r \in Good(worker[Parent])
  BY <1>1, AnswerGood, SweepAssumption
<1>3. r \in Outcomes
  BY <1>2, GoodIsOutcome
<1> HIDE DEF r
<1>4. /\ results' \in Seq(Outcomes) /\ StillCollecting'
      /\ phase' \in {"idle", "serial", "submit", "collect"} \cup Ended
  BY <1>1, <1>3, AppendOK
<1>5. ShapesOK'
  <2>0. worker \in [Procs -> 0..N] /\ 0 \in 0..N
    BY TasksOK DEF SweepInv, ShapesOK
  <2>1. worker' \in [Procs -> 0..N]
    BY <1>1, <2>0
  <2>2. op' \in [Procs -> OpStates]
    BY <1>1, IdleIsState DEF SweepInv, ShapesOK
  <2> QED
    BY <1>1, <1>4, <2>1, <2>2 DEF SweepInv, ShapesOK
<1>6. /\ op'[Parent].at = "idle"
      /\ \A q \in Procs \ {Parent} : op'[q] = op[q] /\ worker'[q] = worker[q]
  BY <1>1, IdleIsState, SweepAssumption DEF SweepInv, ShapesOK
<1>7. DoesItsTask'
  BY <1>6 DEF SweepInv, DoesItsTask
<1>8. ServesItsValue' /\ OutcomesGood'
  BY <1>1, <1>6, SameData DEF SweepInv, ServesItsValue, OutcomesGood
<1>9. FilesMatch'
  BY <1>1 DEF SweepInv, FilesMatch
<1>10. Len(results) + 1 \in 1..N
  <2>1. Len(results) \in Nat
    BY DEF SweepInv, ShapesOK
  <2> QED
    BY <1>1, <2>1, TasksOK DEF SweepInv, StillCollecting
<1>11. SerialInOrder'
  BY <1>1, SweepAssumption DEF SweepInv, ShapesOK, SerialInOrder
<1>12. worker[Parent] = Len(results) + 1
  BY <1>1, <1>2, TasksOK DEF SweepInv, SerialInOrder
<1> QED
  BY <1>1, <1>2, <1>4, <1>5, <1>7, <1>8, <1>9, <1>10, <1>11, <1>12 DEF SweepInv

\* The executor stops every worker and breaks every open future.
LEMMA NoticeDeathInv == SweepInv /\ NoticeDeath => SweepInv'
<1> SUFFICES ASSUME SweepInv, NoticeDeath PROVE SweepInv'
  OBVIOUS
<1> USE DEF SweepInv
<1>1. /\ UNCHANGED <<data, disk, temp, mem, bytes, phase, outcome, results>>
      /\ pool' = {} /\ broken' = "yes"
      /\ worker' = [p \in Procs |-> 0] /\ op' = [p \in Procs |-> Idle]
  BY DEF NoticeDeath
<1>2. future' \in [1..N -> {"none", "queued", "running", "done", "broken"}]
  BY DEF NoticeDeath, ShapesOK
<1>3. ShapesOK'
  <2>1. worker' \in [Procs -> 0..N]
    BY <1>1, TasksOK
  <2>2. op' \in [Procs -> OpStates]
    BY <1>1, IdleIsState
  <2> QED
    BY <1>1, <1>2, <2>1, <2>2 DEF ShapesOK
<1>4. \A p \in Procs : op'[p].at = "idle"
  BY <1>1, IdleIsState
<1>5. DoesItsTask' /\ ServesItsValue'
  BY <1>4 DEF DoesItsTask, ServesItsValue
<1>6. OutcomesGood'
  BY <1>1, SameData DEF OutcomesGood
<1>7. FilesMatch' /\ StillCollecting' /\ SerialInOrder'
  BY <1>1, SweepAssumption DEF FilesMatch, StillCollecting, SerialInOrder
<1> QED
  BY <1>3, <1>5, <1>6, <1>7

\* A dead process holds no task, no panel and no step.
LEMMA DieInv ==
  ASSUME SweepInv, NEW p \in Procs, Die(p)
  PROVE  SweepInv'
<1> USE DEF SweepInv
<1>1. /\ UNCHANGED <<data, disk, temp, future, outcome, results>>
      /\ pool' = pool \ {p} /\ broken' = IF p \in pool THEN "died" ELSE broken
      /\ phase' = IF p = Parent THEN "dead" ELSE phase
      /\ worker' = [worker EXCEPT ![p] = 0] /\ op' = [op EXCEPT ![p] = Idle]
      /\ mem' = [mem EXCEPT ![p] = <<>>]
  BY DEF Die
<1>2. ShapesOK'
  <2>1. worker' \in [Procs -> 0..N]
    BY <1>1, TasksOK DEF ShapesOK
  <2>2. op' \in [Procs -> OpStates]
    BY <1>1, IdleIsState DEF ShapesOK
  <2>3. mem' \in [Procs -> Seq(Entry)]
    BY <1>1 DEF ShapesOK
  <2>4. /\ phase' \in {"idle", "serial", "submit", "collect"} \cup Ended
        /\ broken' \in {"no", "died", "yes"} /\ pool' \subseteq Procs \ {Parent}
    BY <1>1 DEF ShapesOK, Ended
  <2> QED
    BY <1>1, <2>1, <2>2, <2>3, <2>4 DEF ShapesOK
<1>3. op'[p].at = "idle" /\ \A q \in Procs \ {p} : op'[q] = op[q] /\ worker'[q] = worker[q]
  BY <1>1, IdleIsState DEF ShapesOK
<1>4. DoesItsTask'
  BY <1>3 DEF DoesItsTask
<1>5. ServesItsValue' /\ OutcomesGood'
  BY <1>1, <1>3, SameData DEF ServesItsValue, OutcomesGood
<1>6. FilesMatch' /\ StillCollecting' /\ SerialInOrder'
  BY <1>1, SweepAssumption DEF FilesMatch, StillCollecting, SerialInOrder
<1> QED
  BY <1>2, <1>4, <1>5, <1>6

-----------------------------------------------------------------------------
\* Every step preserves the invariant.
LEMMA SweepInvNext == SweepInv /\ [Next]_vars => SweepInv'
<1> SUFFICES ASSUME SweepInv, [Next]_vars PROVE SweepInv'
  OBVIOUS
<1>1. CASE Start
  BY <1>1, StartInv
<1>2. CASE ParentStep
  <2>1. CASE Submit
    BY <2>1, SubmitInv
  <2>2. CASE Collect
    BY <2>2, CollectInv
  <2>3. CASE SerialTake
    BY <2>3, SerialTakeInv
  <2>4. CASE SerialFinish
    BY <2>4, SerialFinishInv
  <2> QED
    BY <1>2, <2>1, <2>2, <2>3, <2>4 DEF ParentStep
<1>3. CASE NoticeDeath
  BY <1>3, NoticeDeathInv
<1>4. ASSUME NEW p \in Procs, ProcStep(p) PROVE SweepInv'
  <2>1. CASE Take(p)
    BY <2>1, TakeInv
  <2>2. CASE Begin(p)
    BY <2>2, BeginInv
  <2>3. CASE Work(p)
    <3>1. UNCHANGED sweepVars /\ UNCHANGED <<sweepVars, counts>>
      BY <2>3 DEF Work
    <3>2. CASE Read(p)
      BY <3>1, <3>2, ReadInv
    <3>3. CASE Unlink(p)
      BY <3>1, <3>3, UnlinkInv
    <3>4. CASE WriteTemp(p)
      BY <3>1, <3>4, WriteTempInv
    <3>5. CASE Rename(p)
      BY <3>1, <3>5, RenameInv
    <3> QED
      BY <2>3, <3>2, <3>3, <3>4, <3>5 DEF Work, CacheStep
  <2>4. CASE Finish(p)
    BY <2>4, FinishInv
  <2> QED
    BY <1>4, <2>1, <2>2, <2>3, <2>4 DEF ProcStep
<1>5. ASSUME NEW p \in Procs, DiskFull(p) PROVE SweepInv'
  BY <1>5, WriteFailsInv DEF DiskFull
<1>6. ASSUME NEW p \in Procs, Die(p) PROVE SweepInv'
  BY <1>6, DieInv
<1>7. CASE UNCHANGED vars
  <2>1. /\ UNCHANGED <<data, disk, temp, mem, bytes, op>>
        /\ UNCHANGED <<phase, pool, broken, future, worker, outcome, results>>
    BY <1>7 DEF vars, cacheVars, sweepVars
  <2>2. ShapesOK'
    BY <2>1 DEF SweepInv, ShapesOK
  <2>3. FilesMatch' /\ DoesItsTask' /\ StillCollecting' /\ SerialInOrder'
    BY <2>1 DEF SweepInv, FilesMatch, DoesItsTask, StillCollecting, SerialInOrder
  <2>4. ServesItsValue' /\ OutcomesGood'
    BY <2>1, SameData DEF SweepInv, ServesItsValue, OutcomesGood
  <2> QED
    BY <2>2, <2>3, <2>4 DEF SweepInv
<1> QED
  BY <1>1, <1>2, <1>3, <1>4, <1>5, <1>6, <1>7 DEF Next

LEMMA SweepInvAlways == Spec => []SweepInv
BY SweepInvInit, SweepInvNext, PTL DEF Spec

(***************************************************************************)
(* The shapes of the state hold for any number of processes and tasks:     *)
(* no index of a future, a worker or a result ever leaves the task list.   *)
(***************************************************************************)
THEOREM SweepShapes == Spec => []TypeOK
<1>1. SweepInv => TypeOK
  <2> SUFFICES ASSUME SweepInv PROVE TypeOK
    OBVIOUS
  <2>1. \A p \in Procs : mem[p] \in Seq([key : Panels, panel : Panels])
    <3> SUFFICES ASSUME NEW p \in Procs PROVE mem[p] \in Seq([key : Panels, panel : Panels])
      OBVIOUS
    <3>1. mem[p] \in Seq(Entry)
      BY DEF SweepInv, ShapesOK
    <3>2. \A i \in 1..Len(mem[p]) : mem[p][i] \in [key : Panels, panel : Panels]
      BY <3>1 DEF Entry
    <3>3. Len(mem[p]) \in Nat /\ SubSeq(mem[p], 1, Len(mem[p])) = mem[p]
      BY <3>1, SubSeqFull
    <3>4. SubSeq(mem[p], 1, Len(mem[p])) \in Seq([key : Panels, panel : Panels])
      BY <3>2, <3>3, SubSeqProperties
    <3> QED
      BY <3>3, <3>4
  <2> QED
    BY <2>1 DEF SweepInv, ShapesOK, TypeOK
<1> QED
  BY <1>1, SweepInvAlways, PTL

(***************************************************************************)
(* Whatever readers, writers, unlinks and deaths interleave in the shared  *)
(* directory, a file and an entry in memory hold the panel of the address  *)
(* they are filed under (sigcache.py evaluate, _atomic_write).             *)
(***************************************************************************)
THEOREM FilesAreFiled == Spec => []FiledUnderItsAddress
<1>1. SweepInv => FiledUnderItsAddress
  <2> SUFFICES ASSUME SweepInv PROVE FiledUnderItsAddress
    OBVIOUS
  <2>1. ASSUME NEW p \in Procs, NEW i \in DOMAIN mem[p]
        PROVE  mem[p][i].panel = mem[p][i].key
    <3>1. mem[p] \in Seq(Entry)
      BY DEF SweepInv, ShapesOK
    <3>2. mem[p][i] \in Entry
      BY <3>1
    <3> QED
      BY <3>2 DEF Entry
  <2> QED
    BY <2>1 DEF SweepInv, FilesMatch, FiledUnderItsAddress
<1> QED
  BY <1>1, SweepInvAlways, PTL

-----------------------------------------------------------------------------
\* The only steps that change a file are Unlink and Rename, and neither leaves it torn.
LEMMA NoStepTears ==
  ASSUME SweepInv, [Next]_vars, NEW k \in Panels, disk'[k] = Torn
  PROVE  disk[k] = Torn
<1>1. CASE disk' = disk
  BY <1>1
<1>2. ASSUME NEW p \in Procs, Unlink(p) PROVE disk[k] = Torn
  <2>1. op[p].at = "unlink" /\ disk' = [disk EXCEPT ![Key(op[p].signal)] = Absent]
    BY <1>2 DEF Unlink, Doing
  <2>2. disk \in [Panels -> {Absent, Torn} \cup {Whole(x) : x \in Panels}]
    BY DEF SweepInv, ShapesOK
  <2> QED
    BY <2>1, <2>2, FilesDiffer
<1>3. ASSUME NEW p \in Procs, Rename(p) PROVE disk[k] = Torn
  <2>1. disk' = [disk EXCEPT ![Key(op[p].signal)] = Whole(Value(op[p].signal))]
    BY <1>3 DEF Rename
  <2>2. disk \in [Panels -> {Absent, Torn} \cup {Whole(x) : x \in Panels}]
    BY DEF SweepInv, ShapesOK
  <2> QED
    BY <2>1, <2>2, FilesDiffer
<1>4. \/ disk' = disk
      \/ \E p \in Procs : Unlink(p) \/ Rename(p)
  BY DEF Next, vars, cacheVars, Start, ParentStep, Submit, Collect, SerialTake, SerialFinish,
         NoticeDeath, ProcStep, Take, Begin, LookUp, Work, CacheStep, Read, WriteTemp,
         Finish, DiskFull, WriteFails, Die
<1> QED
  BY <1>1, <1>2, <1>3, <1>4

(***************************************************************************)
(* No process, killed or not, leaves a truncated file under a final name   *)
(* (sigcache.py _atomic_write): a file that does not parse was there       *)
(* before.                                                                 *)
(***************************************************************************)
THEOREM WritesAreAtomic == Spec => NeverTears
<1>1. SweepInv /\ [Next]_vars => [\A k \in Panels : disk'[k] = Torn => disk[k] = Torn]_vars
  BY NoStepTears
<1> QED
  BY <1>1, SweepInvAlways, PTL DEF Spec, NeverTears

\* A step gives the next task an answer good for it, begins a sweep, or shows nothing.
LEMMA StepIsPromised ==
  ASSUME SweepInv, [Next]_vars
  PROVE  [KeepsPromise!Answer \/ KeepsPromise!NewSweep]_<<data, results>>
<1>1. CASE Start
  BY <1>1 DEF Start, KeepsPromise!NewSweep
<1>2. CASE Collect
  <2>1. /\ data' = data /\ Len(results) + 1 \in 1..N
        /\ \E r \in Good(Len(results) + 1) : results' = Append(results, r)
    BY <1>2, CollectInv DEF Collect, cacheVars
  <2>2. Len(results) \in Nat
    BY DEF SweepInv, ShapesOK
  <2>3. Len(results) < Len(Tasks)
    BY <2>1, <2>2, TasksOK DEF N
  <2> QED
    BY <2>1, <2>3 DEF KeepsPromise!Answer, KeepsPromise!Error, KeepsPromise!Result,
                      Good, Error, Result, Value
<1>3. CASE SerialFinish
  <2>1. /\ data' = data /\ Len(results) + 1 \in 1..N
        /\ \E r \in Good(Len(results) + 1) : results' = Append(results, r)
    BY <1>3, SerialFinishInv DEF SerialFinish
  <2>2. Len(results) \in Nat
    BY DEF SweepInv, ShapesOK
  <2>3. Len(results) < Len(Tasks)
    BY <2>1, <2>2, TasksOK DEF N
  <2> QED
    BY <2>1, <2>3 DEF KeepsPromise!Answer, KeepsPromise!Error, KeepsPromise!Result,
                      Good, Error, Result, Value
<1>4. \/ Start \/ Collect \/ SerialFinish
      \/ data' = data /\ results' = results
  BY DEF Next, vars, cacheVars, sweepVars, ParentStep, Submit, SerialTake,
         NoticeDeath, ProcStep, Take, Begin, LookUp, Work, CacheStep, Read, Unlink, WriteTemp,
         Rename, Finish, DiskFull, WriteFails, Die
<1> QED
  BY <1>1, <1>2, <1>3, <1>4

(***************************************************************************)
(* The sweep implements SweepPromise: for any pool, cache, deaths and      *)
(* failing writes the results come in input order, and each is the panel   *)
(* of its signal on the data of the sweep or an error (parallel.py _run).  *)
(***************************************************************************)
THEOREM SweepKeepsItsPromise == Spec => Refines
<1>1. Init => results = <<>>
  BY DEF Init
<1>2. SweepInv /\ [Next]_vars => [KeepsPromise!Answer \/ KeepsPromise!NewSweep]_<<data, results>>
  BY StepIsPromised
<1> QED
  BY <1>1, <1>2, SweepInvAlways, PTL DEF Spec, Refines, KeepsPromise!Promise

-----------------------------------------------------------------------------
\* The size of an entry is a number, and so is the size of a list of them.
LEMMA EntrySize == \A e \in Entry : Size(e) \in Nat
<1> SUFFICES ASSUME NEW e \in Entry PROVE Size(e) \in Nat
  OBVIOUS
<1>1. e.panel \in Panels
  BY DEF Entry
<1>2. PICK s \in Signals : e.panel \in {<<Expr[s], d>> : d \in [Reads[s] -> Versions]}
  BY <1>1 DEF Panels
<1>3. e.panel[1] = Expr[s]
  BY <1>2
<1>4. SizeOf[Expr[s]] \in Nat
  BY CacheAssumption
<1> QED
  BY <1>3, <1>4 DEF Size

LEMMA SizesAre ==
  ASSUME NEW s \in Seq(Entry)
  PROVE  /\ Len(s) \in Nat /\ DOMAIN s = 1 .. Len(s) /\ IsFiniteSet(1 .. Len(s))
         /\ \A i \in 1 .. Len(s) : s[i] \in Entry /\ Size(s[i]) \in Nat
<1>1. Len(s) \in Nat /\ DOMAIN s = 1 .. Len(s) /\ \A i \in 1 .. Len(s) : s[i] \in Entry
  OBVIOUS
<1>2. IsFiniteSet(1 .. Len(s))
  BY <1>1, FS_Interval
<1> QED
  BY <1>1, <1>2, EntrySize

LEMMA SizeSumType ==
  ASSUME NEW s \in Seq(Entry)
  PROVE  SizeSum(s) \in Nat
<1> DEFINE f == [i \in DOMAIN s |-> Size(s[i])]
           n == Len(s)
<1>1. IsFiniteSet(1 .. n) /\ DOMAIN s = 1 .. n /\ \A i \in 1 .. n : f[i] \in Nat
  BY SizesAre
<1>2. SizeSum(s) = SumFunctionOnSet(f, 1 .. n)
  BY <1>1 DEF SizeSum
<1> HIDE DEF f, n
<1> QED
  BY <1>1, <1>2, SumNat

LEMMA SizeSumEmpty == SizeSum(<<>>) = 0
<1>1. DOMAIN <<>> = {}
  OBVIOUS
<1> QED
  BY <1>1, SumEmpty DEF SizeSum

\* One entry more.
LEMMA SizeSumAppend ==
  ASSUME NEW s \in Seq(Entry), NEW e \in Entry
  PROVE  SizeSum(Append(s, e)) = SizeSum(s) + Size(e)
<1> DEFINE t == Append(s, e)
           n == Len(s)
           f == [i \in DOMAIN s |-> Size(s[i])]
           g == [i \in DOMAIN t |-> Size(t[i])]
<1>1. /\ n \in Nat /\ DOMAIN s = 1 .. n /\ DOMAIN t = 1 .. n + 1
      /\ t[n + 1] = e /\ \A i \in 1 .. n : t[i] = s[i]
  BY AppendProperties
<1>2. Size(e) \in Nat /\ \A i \in 1 .. n : Size(s[i]) \in Nat
  BY EntrySize, SizesAre
<1>3. /\ \A i \in 1 .. n : f[i] \in Int /\ g[i] = f[i]
      /\ \A i \in (1 .. n) \cup {n + 1} : g[i] \in Int
      /\ g[n + 1] = Size(e)
  BY <1>1, <1>2
<1>4. SizeSum(s) = SumFunctionOnSet(f, 1 .. n) /\ SizeSum(t) = SumFunctionOnSet(g, 1 .. n + 1)
  BY <1>1 DEF SizeSum
<1>5. IsFiniteSet(1 .. n) /\ n + 1 \notin 1 .. n /\ 1 .. n + 1 = (1 .. n) \cup {n + 1}
  <2>1. n \in Nat
    BY <1>1
  <2> HIDE DEF n
  <2>2. 1 \in Int /\ n \in Int
    BY <2>1
  <2>3. IsFiniteSet(1 .. n)
    BY <2>2, FS_Interval
  <2>4. n + 1 \notin 1 .. n /\ 1 .. n + 1 = (1 .. n) \cup {n + 1}
    BY <2>1
  <2> QED
    BY <2>3, <2>4
<1> HIDE DEF f, g, n, t
<1>6. SumFunctionOnSet(g, 1 .. n) = SumFunctionOnSet(f, 1 .. n)
  BY <1>3, <1>5, SumSame
<1>7. SumFunctionOnSet(g, (1 .. n) \cup {n + 1}) = SumFunctionOnSet(g, 1 .. n) + g[n + 1]
  BY <1>3, <1>5, SumAdd
<1> QED
  BY <1>3, <1>4, <1>5, <1>6, <1>7 DEF t

\* The size of two lists one after the other.
LEMMA SizeSumConcat ==
  ASSUME NEW s \in Seq(Entry), NEW t \in Seq(Entry)
  PROVE  SizeSum(s \o t) = SizeSum(s) + SizeSum(t)
<1> DEFINE u(n) == SubSeq(t, 1, n)
           Wrong == {n \in 0 .. Len(t) : SizeSum(s \o u(n)) # SizeSum(s) + SizeSum(u(n))}
<1>1. ASSUME NEW n \in Wrong, \A k \in Wrong : n <= k PROVE FALSE
  <2>1. n # 0
    <3>1. u(0) = <<>>
      BY SubSeqEmpty
    <3>2. s \o <<>> = s
      BY ConcatEmptySeq
    <3>3. SizeSum(s) \in Nat
      BY SizeSumType
    <3> DEFINE z == u(0)
    <3>4. 0 \in Wrong => SizeSum(s \o z) # SizeSum(s) + SizeSum(z)
      OBVIOUS
    <3> HIDE DEF Wrong, z, u
    <3>5. z = <<>>
      BY <3>1 DEF z
    <3>6. s \o z = s /\ SizeSum(z) = 0
      BY <3>2, <3>5, SizeSumEmpty
    <3>7. 0 \notin Wrong
      BY <3>3, <3>4, <3>6
    <3> QED
      BY <3>7
  <2>2. Len(t) \in Nat /\ n \in 1 .. Len(t) /\ n - 1 \in 0 .. Len(t)
    BY <2>1
  <2>3. n - 1 \notin Wrong
    BY <1>1, <2>2
  <2>4. /\ u(n - 1) \in Seq(Entry) /\ t[n] \in Entry
        /\ u(n) = Append(u(n - 1), t[n])
    BY <2>2, SubSeqProperties, LenProperties
  <2> DEFINE v == u(n - 1)
             e == t[n]
  <2>5. SizeSum(s \o v) = SizeSum(s) + SizeSum(v)
    BY <2>2, <2>3
  <2>6. u(n) = Append(v, e) /\ v \in Seq(Entry) /\ e \in Entry
    BY <2>4
  <2>7. SizeSum(s \o u(n)) # SizeSum(s) + SizeSum(u(n))
    OBVIOUS
  <2> HIDE DEF v, e, u, Wrong
  <2>8. s \o Append(v, e) = Append(s \o v, e) /\ s \o v \in Seq(Entry)
    BY <2>6
  <2>9. /\ SizeSum(Append(v, e)) = SizeSum(v) + Size(e)
        /\ SizeSum(Append(s \o v, e)) = SizeSum(s \o v) + Size(e)
    BY <2>6, <2>8, SizeSumAppend
  <2>10. SizeSum(s) \in Nat /\ SizeSum(v) \in Nat /\ Size(e) \in Nat
    BY <2>6, SizeSumType, EntrySize
  <2> QED
    BY <2>5, <2>6, <2>7, <2>8, <2>9, <2>10
<1>2. Wrong \in SUBSET Nat
  OBVIOUS
<1>3. Wrong = {}
  <2> HIDE DEF Wrong
  <2> QED
    BY <1>1, <1>2, MinimalNat
<1>4. Len(t) \in 0 .. Len(t) /\ u(Len(t)) = t
  BY SubSeqFull
<1>5. Len(t) \notin Wrong
  BY <1>3
<1> QED
  BY <1>4, <1>5

\* A list is what comes before n and after.
LEMMA SplitAt ==
  ASSUME NEW s \in Seq(Entry), NEW n \in 0 .. Len(s)
  PROVE  /\ SubSeq(s, 1, n) \in Seq(Entry) /\ Suffix(s, n) \in Seq(Entry)
         /\ Len(Suffix(s, n)) = Len(s) - n
         /\ SizeSum(s) = SizeSum(SubSeq(s, 1, n)) + SizeSum(Suffix(s, n))
<1> DEFINE a == SubSeq(s, 1, n)
           b == SubSeq(s, n + 1, Len(s))
<1>1. Len(s) \in Nat /\ n \in Nat /\ n <= Len(s)
  OBVIOUS
<1>2. a \in Seq(Entry) /\ Len(a) = n /\ \A i \in 1 .. n : a[i] = s[i]
  BY <1>1, SubSeqProperties
<1>3. b \in Seq(Entry) /\ Len(b) = Len(s) - n /\ \A i \in 1 .. Len(s) - n : b[i] = s[n + i]
  BY <1>1, SubSeqProperties
<1> HIDE DEF a, b
<1>4. a \o b = s
  <2>0. /\ a \o b \in Seq(Entry) /\ Len(a \o b) = Len(a) + Len(b)
        /\ \A i \in 1 .. Len(a) + Len(b) :
              (a \o b)[i] = IF i <= Len(a) THEN a[i] ELSE b[i - Len(a)]
    BY <1>2, <1>3, ConcatProperties
  <2>1. Len(a \o b) = Len(s)
    BY <1>1, <1>2, <1>3, <2>0
  <2>2. ASSUME NEW i \in 1 .. Len(s) PROVE (a \o b)[i] = s[i]
    <3>1. CASE i <= n
      BY <1>1, <1>2, <1>3, <2>0, <3>1
    <3>2. CASE ~(i <= n)
      <4>1. i - n \in 1 .. Len(s) - n /\ n + (i - n) = i
        BY <1>1, <3>2
      <4>2. b[i - n] = s[n + (i - n)]
        BY <1>3, <4>1
      <4> QED
        BY <1>1, <1>2, <1>3, <2>0, <3>2, <4>1, <4>2
    <3> QED
      BY <3>1, <3>2
  <2> QED
    BY <2>0, <2>1, <2>2, SeqEqual
<1>5. SizeSum(a \o b) = SizeSum(a) + SizeSum(b)
  BY <1>2, <1>3, SizeSumConcat
<1> QED
  BY <1>2, <1>3, <1>4, <1>5 DEF a, b, Suffix

\* An entry moved to the end changes neither the number of entries nor their size.
LEMMA TouchedSize ==
  ASSUME NEW s \in Seq(Entry), NEW i \in 1 .. Len(s)
  PROVE  LET t == SubSeq(s, 1, i - 1) \o SubSeq(s, i + 1, Len(s)) \o <<s[i]>>
         IN  Len(t) = Len(s) /\ SizeSum(t) = SizeSum(s)
<1> DEFINE a == SubSeq(s, 1, i - 1)
           b == SubSeq(s, i + 1, Len(s))
           c == SubSeq(s, 1, i)
           e == s[i]
           t == a \o b \o <<e>>
<1>1. Len(s) \in Nat /\ i \in 1 .. Len(s) /\ i \in 0 .. Len(s) /\ i - 1 \in 0 .. Len(s) /\ e \in Entry
  OBVIOUS
<1>2. a \in Seq(Entry) /\ Len(a) = i - 1
  BY <1>1, SubSeqProperties
<1>3. c \in Seq(Entry) /\ c = Append(a, e)
  BY <1>1, SubSeqProperties, LenProperties
<1>4. b \in Seq(Entry) /\ Len(b) = Len(s) - i /\ SizeSum(s) = SizeSum(c) + SizeSum(b)
  BY <1>1, SplitAt DEF Suffix
<1> HIDE DEF a, b, c, e, t
<1>6. a \o b \in Seq(Entry) /\ Len(a \o b) = Len(a) + Len(b)
  BY <1>2, <1>4, ConcatProperties
<1>7. t = Append(a \o b, e)
  BY <1>1, <1>6, AppendIsConcat DEF t
<1>8. Len(t) = Len(a \o b) + 1
  BY <1>1, <1>6, <1>7, AppendProperties
<1>9. SizeSum(t) = SizeSum(a \o b) + Size(e) /\ SizeSum(c) = SizeSum(a) + Size(e)
  BY <1>1, <1>2, <1>3, <1>6, <1>7, SizeSumAppend
<1>10. SizeSum(a \o b) = SizeSum(a) + SizeSum(b)
  BY <1>2, <1>4, SizeSumConcat
<1>11. SizeSum(a) \in Nat /\ SizeSum(b) \in Nat /\ Size(e) \in Nat
  BY <1>1, <1>2, <1>4, SizeSumType, EntrySize
<1>12. SizeSum(t) = SizeSum(s)
  BY <1>4, <1>9, <1>10, <1>11
<1>13. Len(t) = Len(s)
  BY <1>1, <1>2, <1>4, <1>6, <1>8
<1> QED
  BY <1>12, <1>13 DEF t, a, b, e

-----------------------------------------------------------------------------
(***************************************************************************)
(* The budgets, as an inductive invariant: every tier fits, and the        *)
(* running total of its process is the size of what it holds.              *)
(***************************************************************************)
InBudget(s, total) == Fits(s) /\ total = SizeSum(s)
BudgetInv ==
  /\ bytes \in [Procs -> Int]
  /\ \A p \in Procs : InBudget(mem[p], bytes[p])

LEMMA EmptyInBudget == InBudget(<<>>, 0)
<1>1. Len(<<>>) = 0 /\ MemItems \in Nat /\ MemBytes \in Nat
  BY CacheAssumption
<1> QED
  BY <1>1, SizeSumEmpty DEF InBudget, Fits

\* What is left after the evictions is in the budget, if the total was right before.
LEMMA EvictedInBudget ==
  ASSUME NEW s \in Seq(Entry), NEW n \in 0 .. Len(s), Evictions(s, SizeSum(s), n)
  PROVE  InBudget(Suffix(s, n), SizeSum(s) - SizeSum(SubSeq(s, 1, n)))
<1> DEFINE b == Suffix(s, n)
           gone == SizeSum(SubSeq(s, 1, n))
<1>1. Len(s) \in Nat /\ n \in Nat /\ n <= Len(s)
  OBVIOUS
<1>2. b \in Seq(Entry) /\ Len(b) = Len(s) - n /\ SizeSum(s) = gone + SizeSum(b)
  BY SplitAt
<1>3. gone \in Nat /\ SizeSum(b) \in Nat
  BY SplitAt, SizeSumType
<1>4. MemItems \in Nat /\ MemBytes \in Nat
  BY CacheAssumption
<1>5. n < Len(s) => Len(s) - n <= MemItems /\ SizeSum(s) - gone <= MemBytes
  <2>1. n < Len(s) => ~(Len(s) - n > MemItems \/ SizeSum(s) - gone > MemBytes)
    BY DEF Evictions
  <2>2. SizeSum(s) \in Nat
    BY SizeSumType
  <2> HIDE DEF gone
  <2> QED
    BY <1>1, <1>3, <1>4, <2>1, <2>2
<1> HIDE DEF b, gone
<1>6. SizeSum(s) - gone = SizeSum(b)
  BY <1>2, <1>3
<1>7. CASE n < Len(s)
  BY <1>2, <1>5, <1>6, <1>7 DEF InBudget, Fits, b, gone
<1>8. CASE n = Len(s)
  <2>1. Len(b) = 0
    BY <1>1, <1>2, <1>8
  <2>2. b = <<>>
    BY <1>2, <2>1, EmptySeq
  <2>3. SizeSum(s) - gone = 0
    BY <1>6, <2>2, SizeSumEmpty
  <2> QED
    BY <2>2, <2>3, EmptyInBudget DEF b, gone
<1> QED
  BY <1>1, <1>7, <1>8

\* One process's tier and total change together.
LEMMA OneTierChanges ==
  ASSUME SweepInv, BudgetInv, NEW p \in Procs, NEW s, NEW total \in Int,
         mem' = [mem EXCEPT ![p] = s], bytes' = [bytes EXCEPT ![p] = total],
         InBudget(s, total)
  PROVE  BudgetInv'
<1>1. mem \in [Procs -> Seq(Entry)] /\ bytes \in [Procs -> Int]
  BY DEF SweepInv, ShapesOK, BudgetInv
<1>2. bytes' \in [Procs -> Int]
  BY <1>1
<1>3. ASSUME NEW q \in Procs PROVE InBudget(mem'[q], bytes'[q])
  <2>1. CASE q = p
    <3>1. mem'[q] = s /\ bytes'[q] = total
      BY <1>1, <2>1
    <3> QED
      BY <3>1
  <2>2. CASE q # p
    <3>1. mem'[q] = mem[q] /\ bytes'[q] = bytes[q]
      BY <1>1, <2>2
    <3> QED
      BY <3>1 DEF BudgetInv
  <2> QED
    BY <2>1, <2>2
<1> QED
  BY <1>2, <1>3 DEF BudgetInv

LEMMA SameTiers == ASSUME BudgetInv, UNCHANGED <<mem, bytes>> PROVE BudgetInv'
BY DEF BudgetInv

LEMMA RememberBudget ==
  ASSUME SweepInv, BudgetInv, NEW p \in Procs, NEW k \in Panels, Remember(p, k, k)
  PROVE  BudgetInv'
<1> DEFINE e == [key |-> k, panel |-> k]
           s == mem[p]
           all == Append(s, e)
           total == bytes[p] + Size(all[Len(all)])
<1>1. mem \in [Procs -> Seq(Entry)]
  BY DEF SweepInv, ShapesOK
<1>2. e \in Entry /\ s \in Seq(Entry)
  BY <1>1 DEF Entry
<1>3. PICK n \in 0 .. Len(all) :
        /\ Evictions(all, total, n)
        /\ mem' = [mem EXCEPT ![p] = Suffix(all, n)]
        /\ bytes' = [bytes EXCEPT ![p] = total - SizeSum(SubSeq(all, 1, n))]
  BY DEF Remember
<1>4. bytes[p] = SizeSum(s)
  BY DEF BudgetInv, InBudget
<1> HIDE DEF s, e
<1>5. all \in Seq(Entry) /\ all[Len(all)] = e
  BY <1>2, AppendProperties
<1>6. total = SizeSum(all)
  BY <1>2, <1>4, <1>5, SizeSumAppend
<1> HIDE DEF all, total
<1>7. InBudget(Suffix(all, n), total - SizeSum(SubSeq(all, 1, n)))
  BY <1>3, <1>5, <1>6, EvictedInBudget
<1>8. total - SizeSum(SubSeq(all, 1, n)) \in Int
  <2>1. SizeSum(all) \in Nat /\ SizeSum(SubSeq(all, 1, n)) \in Nat
    BY <1>3, <1>5, SplitAt, SizeSumType
  <2> QED
    BY <1>6, <2>1
<1> QED
  BY <1>3, <1>7, <1>8, OneTierChanges

LEMMA BeginBudget ==
  ASSUME SweepInv, BudgetInv, NEW p \in Procs, Begin(p)
  PROVE  BudgetInv'
<1> DEFINE s == Tasks[worker[p]]
<1>1. bytes' = bytes
  BY DEF Begin, LookUp
<1>2. CASE mem' = mem
  BY <1>1, <1>2, SameTiers
<1>3. CASE \E i \in DOMAIN mem[p] : mem' = [mem EXCEPT ![p] = Touched(p, i)]
  <2>1. PICK i \in DOMAIN mem[p] : mem' = [mem EXCEPT ![p] = Touched(p, i)]
    BY <1>3
  <2>2. mem[p] \in Seq(Entry) /\ bytes \in [Procs -> Int]
    BY DEF SweepInv, ShapesOK, BudgetInv
  <2>3. i \in 1 .. Len(mem[p])
    BY <2>2
  <2>4. Len(Touched(p, i)) = Len(mem[p]) /\ SizeSum(Touched(p, i)) = SizeSum(mem[p])
    BY <2>2, <2>3, TouchedSize DEF Touched
  <2>5. InBudget(mem[p], bytes[p])
    BY DEF BudgetInv
  <2>6. InBudget(Touched(p, i), bytes[p])
    BY <2>4, <2>5 DEF InBudget, Fits
  <2>7. bytes' = [bytes EXCEPT ![p] = bytes[p]] /\ bytes[p] \in Int
    BY <1>1, <2>2
  <2> QED
    BY <2>1, <2>6, <2>7, OneTierChanges
<1> QED
  BY <1>2, <1>3 DEF Begin, LookUp

LEMMA WorkBudget ==
  ASSUME SweepInv, BudgetInv, NEW p \in Procs, CacheStep(p)
  PROVE  BudgetInv'
<1> DEFINE s == op[p].signal
<1>1. CASE Read(p)
  <2>1. op[p].at = "read"
    BY <1>1 DEF Read, Doing
  <2>2. Key(s) \in Panels
    BY <2>1, BusyOK
  <2>3. CASE disk[Key(s)] \in {Absent, Torn}
    <3>1. UNCHANGED <<mem, bytes>>
      BY <1>1, <2>3 DEF Read
    <3> QED
      BY <3>1, SameTiers
  <2>4. CASE disk[Key(s)] \notin {Absent, Torn}
    <3>1. disk[Key(s)].panel = Key(s)
      BY <2>2, <2>4, FilesDiffer DEF SweepInv, FilesMatch
    <3>2. Remember(p, Key(s), Key(s))
      BY <1>1, <2>4, <3>1 DEF Read
    <3> QED
      BY <2>2, <3>2, RememberBudget
  <2> QED
    BY <2>3, <2>4
<1>2. CASE Unlink(p)
  BY <1>2, SameTiers DEF Unlink
<1>3. CASE WriteTemp(p)
  BY <1>3, SameTiers DEF WriteTemp
<1>4. CASE Rename(p)
  <2>1. op[p].at = "rename"
    BY <1>4 DEF Rename, Doing
  <2>2. Key(s) \in Panels /\ Value(s) = Key(s)
    BY <2>1, BusyOK
  <2>3. Remember(p, Key(s), Value(s))
    BY <1>4 DEF Rename
  <2> QED
    BY <2>2, <2>3, RememberBudget
<1> QED
  BY <1>1, <1>2, <1>3, <1>4 DEF CacheStep

\* Every process starts, and starts again, with an empty tier.
LEMMA FreshBudget ==
  ASSUME mem' = [p \in Procs |-> <<>>], bytes' = [p \in Procs |-> 0]
  PROVE  BudgetInv'
<1>1. bytes' \in [Procs -> Int] /\ \A p \in Procs : mem'[p] = <<>> /\ bytes'[p] = 0
  OBVIOUS
<1> QED
  BY <1>1, EmptyInBudget DEF BudgetInv

LEMMA BudgetInvNext == SweepInv /\ BudgetInv /\ [Next]_vars => BudgetInv'
<1> SUFFICES ASSUME SweepInv, BudgetInv, [Next]_vars PROVE BudgetInv'
  OBVIOUS
<1>1. CASE Start
  BY <1>1, FreshBudget DEF Start
<1>2. CASE ParentStep
  BY <1>2, SameTiers DEF ParentStep, Submit, Collect, SerialTake, SerialFinish, cacheVars
<1>3. CASE NoticeDeath
  BY <1>3, SameTiers DEF NoticeDeath
<1>4. ASSUME NEW p \in Procs, ProcStep(p) PROVE BudgetInv'
  <2>1. CASE Take(p) \/ Finish(p)
    BY <2>1, SameTiers DEF Take, Finish, cacheVars
  <2>2. CASE Begin(p)
    BY <2>2, BeginBudget
  <2>3. CASE Work(p)
    BY <2>3, WorkBudget DEF Work
  <2> QED
    BY <1>4, <2>1, <2>2, <2>3 DEF ProcStep
<1>5. ASSUME NEW p \in Procs, DiskFull(p) PROVE BudgetInv'
  BY <1>5, SameTiers DEF DiskFull, WriteFails
<1>6. ASSUME NEW p \in Procs, Die(p) PROVE BudgetInv'
  <2>1. mem' = [mem EXCEPT ![p] = <<>>] /\ bytes' = [bytes EXCEPT ![p] = 0]
    BY <1>6 DEF Die
  <2>2. 0 \in Int
    OBVIOUS
  <2> QED
    BY <2>1, <2>2, EmptyInBudget, OneTierChanges
<1>7. CASE UNCHANGED vars
  BY <1>7, SameTiers DEF vars, cacheVars
<1> QED
  BY <1>1, <1>2, <1>3, <1>4, <1>5, <1>6, <1>7 DEF Next

(***************************************************************************)
(* However a process reads, replaces, touches and evicts, and whatever a   *)
(* death cuts short, the memory tier of every process is within its number *)
(* of items and its bytes, and its running total is never off.             *)
(***************************************************************************)
THEOREM BudgetAlwaysKept == Spec => []BudgetKept
<1>1. Init => BudgetInv
  <2> SUFFICES ASSUME Init PROVE BudgetInv
    OBVIOUS
  <2>1. mem = [p \in Procs |-> <<>>] /\ bytes = [p \in Procs |-> 0]
    BY DEF Init, CacheInit
  <2>2. bytes \in [Procs -> Int] /\ \A p \in Procs : mem[p] = <<>> /\ bytes[p] = 0
    BY <2>1
  <2> QED
    BY <2>2, EmptyInBudget DEF BudgetInv
<1>2. BudgetInv => BudgetKept
  BY DEF BudgetInv, InBudget, BudgetKept
<1> QED
  BY <1>1, <1>2, BudgetInvNext, SweepInvAlways, PTL DEF Spec

-----------------------------------------------------------------------------
(***************************************************************************)
(* The failures, counted.  A good task is lost when its error has been     *)
(* collected, waits in its future, or is being raised; nothing but a       *)
(* cache write that fails adds to them, as long as every process lives.    *)
(***************************************************************************)
Reported(i) == i \in 1 .. Len(results) /\ results[i] = Error
Held(i) == future[i] = "done" /\ outcome[i] = Error
Raising(i) == \E p \in Procs : worker[p] = i /\ op[p].at = "raised"
Lost == {i \in 1..N : Tasks[i] \notin Bad /\ (Reported(i) \/ Held(i) \/ Raising(i))}

NobodyDied ==
  deaths = 0 => broken = "no" /\ \A i \in 1..N : future[i] # "broken"
LossesCounted == deaths = 0 => Cardinality(Lost) <= failed
AllCollected == phase = "returned" => Len(results) = N

FailInv ==
  /\ failed \in Nat /\ deaths \in Nat
  /\ NobodyDied /\ LossesCounted /\ AllCollected

LEMMA ErrorIsNotResult == \A k : Result(k) # Error /\ Result(k).ok
<1>1. \A k : Result(k).ok = TRUE /\ Error.ok = FALSE
  BY DEF Result, Error
<1> QED
  BY <1>1

LEMMA LostIsFinite == IsFiniteSet(Lost) /\ Cardinality(Lost) \in Nat
<1>1. IsFiniteSet(1..N)
  BY TasksOK, FS_Interval
<1>2. Lost \subseteq 1..N
  BY DEF Lost
<1>3. IsFiniteSet(Lost)
  BY <1>1, <1>2, FS_Subset
<1> QED
  BY <1>3, FS_CardinalityType

\* A step that loses no further task keeps the count.
LEMMA NoMoreLost ==
  ASSUME FailInv, failed' = failed, deaths' = deaths,
         deaths = 0 => Lost' \subseteq Lost
  PROVE  LossesCounted' /\ failed' \in Nat /\ deaths' \in Nat
<1>1. failed' \in Nat /\ deaths' \in Nat
  BY DEF FailInv
<1>2. ASSUME deaths = 0 PROVE Cardinality(Lost') <= failed'
  <2>1. Cardinality(Lost) <= failed
    BY <1>2 DEF FailInv, LossesCounted
  <2>2. Lost' \subseteq Lost
    BY <1>2
  <2>3. IsFiniteSet(Lost) /\ Cardinality(Lost) \in Nat
    BY LostIsFinite
  <2>4. Cardinality(Lost') \in Nat /\ Cardinality(Lost') <= Cardinality(Lost)
    BY <2>2, <2>3, FS_Subset, FS_CardinalityType
  <2> QED
    BY <1>1, <2>1, <2>3, <2>4
<1> QED
  BY <1>1, <1>2 DEF LossesCounted

\* A step of one process at its task, which it does not make it raise.
LEMMA LostByProcess ==
  ASSUME FailInv, NEW p \in Procs, UNCHANGED <<sweepVars, failed, deaths>>,
         op \in [Procs -> OpStates],
         NEW st, op' = [op EXCEPT ![p] = st],
         st.at = "raised" => Tasks[worker[p]] \in Bad
  PROVE  FailInv'
<1>1. /\ phase' = phase /\ broken' = broken /\ future' = future /\ worker' = worker
      /\ outcome' = outcome /\ results' = results /\ failed' = failed /\ deaths' = deaths
  BY DEF sweepVars
<1>2. Lost' \subseteq Lost
  <2> SUFFICES ASSUME NEW i \in Lost' PROVE i \in Lost
    OBVIOUS
  <2>1. i \in 1..N /\ Tasks[i] \notin Bad /\ (Reported(i)' \/ Held(i)' \/ Raising(i)')
    BY DEF Lost
  <2>2. CASE Reported(i)'
    BY <1>1, <2>1, <2>2 DEF Reported, Lost
  <2>3. CASE Held(i)'
    BY <1>1, <2>1, <2>3 DEF Held, Lost
  <2>4. CASE Raising(i)'
    <3>1. PICK q \in Procs : worker[q] = i /\ op'[q].at = "raised"
      BY <1>1, <2>4 DEF Raising
    <3>2. q # p
      BY <2>1, <3>1
    <3>3. op'[q] = op[q]
      BY <3>2
    <3>4. Raising(i)
      BY <3>1, <3>3 DEF Raising
    <3> QED
      BY <2>1, <3>4 DEF Lost
  <2> QED
    BY <2>1, <2>2, <2>3, <2>4
<1>3. NobodyDied' /\ AllCollected'
  BY <1>1 DEF FailInv, NobodyDied, AllCollected
<1>4. LossesCounted' /\ failed' \in Nat /\ deaths' \in Nat
  BY <1>1, <1>2, NoMoreLost
<1> QED
  BY <1>3, <1>4 DEF FailInv

LEMMA BeginFails ==
  ASSUME SweepInv, FailInv, NEW p \in Procs, Begin(p)
  PROVE  FailInv'
<1> DEFINE s == Tasks[worker[p]]
<1>1. UNCHANGED <<sweepVars, failed, deaths>> /\ op \in [Procs -> OpStates]
  BY DEF Begin, counts, SweepInv, ShapesOK
<1>2. LookUp(p, s)
  BY DEF Begin
<1>3. PICK st : op' = [op EXCEPT ![p] = st] /\ (st.at = "raised" => s \in Bad)
  <2>1. CASE s \in Bad /\ Raise(p, s)
    <3> DEFINE st == [at |-> "raised", signal |-> s]
    <3>1. op' = [op EXCEPT ![p] = st]
      BY <2>1 DEF Raise, Go
    <3> QED
      BY <2>1, <3>1
  <2>2. CASE \E i \in DOMAIN mem[p] : Serve(p, s, mem[p][i].panel)
    <3>1. PICK i \in DOMAIN mem[p] : Serve(p, s, mem[p][i].panel)
      BY <2>2
    <3> DEFINE st == [at |-> "served", signal |-> s, panel |-> mem[p][i].panel]
    <3>2. op' = [op EXCEPT ![p] = st] /\ st.at # "raised"
      BY <3>1 DEF Serve
    <3> QED
      BY <3>2
  <2>3. CASE Go(p, IF disk[Key(s)] = Absent THEN "evaluate" ELSE "read", s)
    <3> DEFINE st == [at |-> IF disk[Key(s)] = Absent THEN "evaluate" ELSE "read", signal |-> s]
    <3>1. op' = [op EXCEPT ![p] = st] /\ st.at # "raised"
      BY <2>3 DEF Go
    <3> QED
      BY <3>1
  <2> HIDE DEF s
  <2> QED
    BY <1>2, <2>1, <2>2, <2>3 DEF LookUp
<1> QED
  BY <1>1, <1>3, LostByProcess

LEMMA WorkFails ==
  ASSUME SweepInv, FailInv, NEW p \in Procs, CacheStep(p), UNCHANGED <<sweepVars, counts>>
  PROVE  FailInv'
<1> DEFINE s == op[p].signal
<1>1. UNCHANGED <<sweepVars, failed, deaths>> /\ op \in [Procs -> OpStates]
  BY DEF counts, SweepInv, ShapesOK
<1>2. ASSUME NEW step \in {"unlink", "evaluate", "rename"}, Go(p, step, s) PROVE FailInv'
  <2> DEFINE st == [at |-> step, signal |-> s]
  <2>1. op' = [op EXCEPT ![p] = st] /\ st.at # "raised"
    BY <1>2 DEF Go
  <2> HIDE DEF st
  <2> QED
    BY <1>1, <2>1, LostByProcess
<1>3. ASSUME NEW k, Serve(p, s, k) PROVE FailInv'
  <2> DEFINE st == [at |-> "served", signal |-> s, panel |-> k]
  <2>1. op' = [op EXCEPT ![p] = st] /\ st.at # "raised"
    BY <1>3 DEF Serve
  <2> HIDE DEF st
  <2> QED
    BY <1>1, <2>1, LostByProcess
<1>4. CASE Read(p)
  <2>1. CASE disk[Key(s)] \in {Absent, Torn}
    BY <1>2, <1>4, <2>1 DEF Read
  <2>2. CASE disk[Key(s)] \notin {Absent, Torn}
    <3>1. Serve(p, s, disk[Key(s)].panel)
      BY <1>4, <2>2 DEF Read
    <3> QED
      BY <1>3, <3>1
  <2> QED
    BY <2>1, <2>2
<1>5. CASE Unlink(p)
  BY <1>2, <1>5 DEF Unlink
<1>6. CASE WriteTemp(p)
  BY <1>2, <1>6 DEF WriteTemp
<1>7. CASE Rename(p)
  <2>1. Serve(p, s, Value(s))
    BY <1>7 DEF Rename
  <2> QED
    BY <1>3, <2>1
<1> QED
  BY <1>4, <1>5, <1>6, <1>7 DEF CacheStep

\* A write that fails loses at most the task of its process, and is counted.
LEMMA DiskFullFails ==
  ASSUME SweepInv, FailInv, NEW p \in Procs, DiskFull(p)
  PROVE  FailInv'
<1> DEFINE s == op[p].signal
           w == worker[p]
           st == [at |-> "raised", signal |-> s]
<1>1. /\ phase' = phase /\ broken' = broken /\ future' = future /\ worker' = worker
      /\ outcome' = outcome /\ results' = results /\ failed' = failed + 1 /\ deaths' = deaths
  BY DEF DiskFull, sweepVars
<1>2. op' = [op EXCEPT ![p] = st] /\ op \in [Procs -> OpStates]
  BY DEF DiskFull, WriteFails, Raise, Go, SweepInv, ShapesOK
<1>3. failed \in Nat /\ deaths \in Nat
  BY DEF FailInv
<1>4. Lost' \subseteq Lost \cup {w}
  <2> SUFFICES ASSUME NEW i \in Lost', i # w PROVE i \in Lost
    OBVIOUS
  <2>1. i \in 1..N /\ Tasks[i] \notin Bad /\ (Reported(i)' \/ Held(i)' \/ Raising(i)')
    BY DEF Lost
  <2>2. CASE Reported(i)'
    BY <1>1, <2>1, <2>2 DEF Reported, Lost
  <2>3. CASE Held(i)'
    BY <1>1, <2>1, <2>3 DEF Held, Lost
  <2>4. CASE Raising(i)'
    <3>1. PICK q \in Procs : worker[q] = i /\ op'[q].at = "raised"
      BY <1>1, <2>4 DEF Raising
    <3>2. op'[q] = op[q]
      BY <1>2, <3>1
    <3>3. Raising(i)
      BY <3>1, <3>2 DEF Raising
    <3> QED
      BY <2>1, <3>3 DEF Lost
  <2> QED
    BY <2>1, <2>2, <2>3, <2>4
<1>5. ASSUME deaths = 0 PROVE Cardinality(Lost') <= failed'
  <2>1. Cardinality(Lost) <= failed
    BY <1>5 DEF FailInv, LossesCounted
  <2>2. IsFiniteSet(Lost) /\ Cardinality(Lost) \in Nat
    BY LostIsFinite
  <2> HIDE DEF w
  <2>3. IsFiniteSet(Lost \cup {w}) /\ Cardinality(Lost \cup {w}) \in Nat
        /\ Cardinality(Lost \cup {w}) <= Cardinality(Lost) + 1
    <3> DEFINE L == Lost
    <3>1. IsFiniteSet(L) /\ Cardinality(L) \in Nat
      BY <2>2
    <3> HIDE DEF L
    <3>2. /\ IsFiniteSet(L \cup {w})
          /\ Cardinality(L \cup {w}) = IF w \in L THEN Cardinality(L) ELSE Cardinality(L) + 1
      BY <3>1, FS_AddElement
    <3>3. Cardinality(L \cup {w}) \in {Cardinality(L), Cardinality(L) + 1}
      BY <3>2
    <3> QED
      BY <3>1, <3>2, <3>3 DEF L
  <2>4. Cardinality(Lost') \in Nat /\ Cardinality(Lost') <= Cardinality(Lost \cup {w})
    BY <1>4, <2>3, FS_Subset, FS_CardinalityType
  <2> QED
    BY <1>1, <1>3, <2>1, <2>2, <2>3, <2>4
<1>6. NobodyDied' /\ AllCollected'
  BY <1>1 DEF FailInv, NobodyDied, AllCollected
<1> QED
  BY <1>1, <1>3, <1>5, <1>6 DEF FailInv, LossesCounted

\* Submitting and taking a task loses none.
LEMMA SubmitFails == SweepInv /\ FailInv /\ Submit => FailInv'
<1> SUFFICES ASSUME SweepInv, FailInv, Submit PROVE FailInv'
  OBVIOUS
<1>1. /\ broken' = broken /\ worker' = worker /\ op' = op /\ outcome' = outcome
      /\ results' = results /\ failed' = failed /\ deaths' = deaths
  BY DEF Submit, counts, cacheVars
<1>2. \A i \in 1..N : future'[i] \in {future[i], "queued"}
  BY DEF Submit, SweepInv, ShapesOK
<1>3. phase' # "returned"
  BY DEF Submit
<1>4. Lost' \subseteq Lost
  BY <1>1, <1>2 DEF Lost, Reported, Held, Raising
<1>5. NobodyDied' /\ AllCollected'
  BY <1>1, <1>2, <1>3 DEF FailInv, NobodyDied, AllCollected
<1> QED
  BY <1>1, <1>4, <1>5, NoMoreLost DEF FailInv

LEMMA TakeFails ==
  ASSUME SweepInv, FailInv, NEW p \in Procs, Take(p)
  PROVE  FailInv'
<1>1. /\ broken' = broken /\ phase' = phase /\ op' = op /\ outcome' = outcome
      /\ results' = results /\ failed' = failed /\ deaths' = deaths
  BY DEF Take, counts, cacheVars
<1>2. PICK j \in 1..N : /\ future' = [future EXCEPT ![j] = "running"]
                        /\ worker' = [worker EXCEPT ![p] = j]
  BY DEF Take
<1>3. op[p].at = "idle"
  BY DEF Take, SweepInv, DoesItsTask
<1>4. future \in [1..N -> {"none", "queued", "running", "done", "broken"}] /\ worker \in [Procs -> 0..N]
  BY DEF SweepInv, ShapesOK
<1>5. \A i \in 1..N : future'[i] \in {future[i], "running"}
  BY <1>2, <1>4
<1>6. ASSUME NEW i \in 1..N, Raising(i)' PROVE Raising(i)
  <2>1. PICK q \in Procs : worker'[q] = i /\ op[q].at = "raised"
    BY <1>1, <1>6 DEF Raising
  <2>2. worker'[q] = worker[q]
    BY <1>2, <1>3, <1>4, <2>1
  <2> QED
    BY <2>1, <2>2 DEF Raising
<1>7. Lost' \subseteq Lost
  BY <1>1, <1>5, <1>6 DEF Lost, Reported, Held
<1>8. NobodyDied' /\ AllCollected'
  BY <1>1, <1>5 DEF FailInv, NobodyDied, AllCollected
<1> QED
  BY <1>1, <1>7, <1>8, NoMoreLost DEF FailInv

LEMMA SerialTakeFails == SweepInv /\ FailInv /\ SerialTake => FailInv'
<1> SUFFICES ASSUME SweepInv, FailInv, SerialTake PROVE FailInv'
  OBVIOUS
<1>1. /\ broken' = broken /\ phase' = phase /\ op' = op /\ outcome' = outcome /\ future' = future
      /\ results' = results /\ failed' = failed /\ deaths' = deaths
      /\ worker' = [worker EXCEPT ![Parent] = Len(results) + 1]
  BY DEF SerialTake, counts, cacheVars
<1>2. op[Parent].at = "idle"
  BY SweepAssumption DEF SerialTake, SweepInv, DoesItsTask
<1>3. worker \in [Procs -> 0..N]
  BY DEF SweepInv, ShapesOK
<1>4. ASSUME NEW i \in 1..N, Raising(i)' PROVE Raising(i)
  <2>1. PICK q \in Procs : worker'[q] = i /\ op[q].at = "raised"
    BY <1>1, <1>4 DEF Raising
  <2>2. worker'[q] = worker[q]
    BY <1>1, <1>2, <1>3, <2>1
  <2> QED
    BY <2>1, <2>2 DEF Raising
<1>5. Lost' \subseteq Lost
  BY <1>1, <1>4 DEF Lost, Reported, Held
<1>6. NobodyDied' /\ AllCollected'
  BY <1>1 DEF FailInv, NobodyDied, AllCollected
<1> QED
  BY <1>1, <1>5, <1>6, NoMoreLost DEF FailInv

\* An answer is an error only when its process was raising one.
LEMMA AnswerIsRaised ==
  ASSUME NEW p \in Procs, op[p].at \in {"served", "raised"}, Answer(p) = Error
  PROVE  op[p].at = "raised"
BY ErrorIsNotResult DEF Answer, Doing

LEMMA FinishFails ==
  ASSUME SweepInv, FailInv, NEW p \in Procs, Finish(p)
  PROVE  FailInv'
<1> DEFINE w == worker[p]
<1>1. /\ broken' = broken /\ phase' = phase /\ results' = results
      /\ failed' = failed /\ deaths' = deaths
      /\ op' = [op EXCEPT ![p] = Idle] /\ worker' = [worker EXCEPT ![p] = 0]
      /\ outcome' = [outcome EXCEPT ![w] = Answer(p)]
      /\ future' = [future EXCEPT ![w] = "done"]
  BY DEF Finish, Answers, counts
<1>2. op[p].at \in {"served", "raised"}
  BY DEF Finish, Answers
<1>3. w \in 1..N
  BY <1>2, BusyOK
<1>4. /\ future \in [1..N -> {"none", "queued", "running", "done", "broken"}]
      /\ worker \in [Procs -> 0..N] /\ op \in [Procs -> OpStates] /\ outcome \in [1..N -> Outcomes]
  BY DEF SweepInv, ShapesOK
<1>5. ASSUME NEW i \in 1..N, Raising(i)' PROVE Raising(i)
  <2>1. PICK q \in Procs : worker'[q] = i /\ op'[q].at = "raised"
    BY <1>5 DEF Raising
  <2>2. worker'[q] = worker[q] /\ op'[q] = op[q]
    BY <1>1, <1>4, <2>1
  <2> QED
    BY <2>1, <2>2 DEF Raising
<1>6. ASSUME NEW i \in 1..N, Held(i)' PROVE Held(i) \/ Raising(i)
  <2>1. CASE i = w
    <3>1. Answer(p) = Error
      BY <1>1, <1>4, <1>6, <2>1 DEF Held
    <3>2. op[p].at = "raised"
      BY <1>2, <3>1, AnswerIsRaised
    <3> QED
      BY <2>1, <3>2 DEF Raising
  <2>2. CASE i # w
    <3>1. future'[i] = future[i] /\ outcome'[i] = outcome[i]
      BY <1>1, <1>4, <2>2
    <3> QED
      BY <1>6, <3>1 DEF Held
  <2> QED
    BY <2>1, <2>2
<1>7. Lost' \subseteq Lost
  BY <1>1, <1>5, <1>6 DEF Lost, Reported
<1>8. \A i \in 1..N : future'[i] \in {future[i], "done"}
  BY <1>1, <1>4
<1>9. NobodyDied' /\ AllCollected'
  BY <1>1, <1>8 DEF FailInv, NobodyDied, AllCollected
<1> QED
  BY <1>1, <1>7, <1>9, NoMoreLost DEF FailInv

\* A result that is appended is in place, after those that were there.
LEMMA OneMoreResult ==
  ASSUME NEW r \in Seq(Outcomes), NEW x \in Outcomes
  PROVE  /\ Len(r) \in Nat /\ Len(Append(r, x)) = Len(r) + 1
         /\ \A i \in 1 .. Len(r) + 1 : Append(r, x)[i] = IF i = Len(r) + 1 THEN x ELSE r[i]
BY AppendProperties

LEMMA CollectFails == SweepInv /\ FailInv /\ Collect => FailInv'
<1> SUFFICES ASSUME SweepInv, FailInv, Collect PROVE FailInv'
  OBVIOUS
<1> DEFINE j == Len(results) + 1
           x == IF future[j] = "done" THEN outcome[j] ELSE Error
<1>1. /\ broken' = broken /\ future' = future /\ outcome' = outcome /\ worker' = worker /\ op' = op
      /\ failed' = failed /\ deaths' = deaths /\ phase = "collect"
      /\ future[j] \in {"done", "broken"} /\ results' = Append(results, x)
      /\ phase' = IF Len(results') = N THEN "returned" ELSE phase
  BY DEF Collect, counts, cacheVars
<1>2. results \in Seq(Outcomes) /\ outcome \in [1..N -> Outcomes] /\ Len(results) < N
  BY <1>1 DEF SweepInv, ShapesOK, StillCollecting
<1>3. Len(results) \in Nat /\ j \in 1..N
  BY <1>2, TasksOK
<1>4. x \in Outcomes
  BY <1>2, <1>3 DEF Outcomes
<1> HIDE DEF x
<1>5. Len(results') = Len(results) + 1
      /\ \A i \in 1 .. Len(results) + 1 : results'[i] = IF i = Len(results) + 1 THEN x ELSE results[i]
  BY <1>1, <1>2, <1>4, OneMoreResult
<1>6. ASSUME deaths = 0, NEW i \in 1..N, Reported(i)' PROVE Reported(i) \/ Held(i)
  <2>1. i \in 1 .. Len(results) + 1 /\ results'[i] = Error
    BY <1>5, <1>6 DEF Reported
  <2>2. CASE i = j
    <3>1. x = Error
      BY <1>5, <2>1, <2>2
    <3>2. future[j] # "broken"
      BY <1>3, <1>6 DEF FailInv, NobodyDied
    <3>3. future[j] = "done" /\ outcome[j] = Error
      BY <1>1, <3>1, <3>2 DEF x
    <3> QED
      BY <2>2, <3>3 DEF Held
  <2>3. CASE i # j
    <3>1. i \in 1 .. Len(results) /\ results[i] = Error
      BY <1>3, <1>5, <2>1, <2>3
    <3> QED
      BY <3>1 DEF Reported
  <2> QED
    BY <2>2, <2>3
<1>7. deaths = 0 => Lost' \subseteq Lost
  BY <1>1, <1>6 DEF Lost, Held, Raising
<1>8. NobodyDied' /\ AllCollected'
  BY <1>1 DEF FailInv, NobodyDied, AllCollected
<1> QED
  BY <1>1, <1>7, <1>8, NoMoreLost DEF FailInv

LEMMA SerialFinishFails == SweepInv /\ FailInv /\ SerialFinish => FailInv'
<1> SUFFICES ASSUME SweepInv, FailInv, SerialFinish PROVE FailInv'
  OBVIOUS
<1> DEFINE x == Answer(Parent)
<1>1. /\ broken' = broken /\ future' = future /\ outcome' = outcome
      /\ op' = [op EXCEPT ![Parent] = Idle] /\ worker' = [worker EXCEPT ![Parent] = 0]
      /\ failed' = failed /\ deaths' = deaths /\ phase = "serial" /\ results' = Append(results, x)
      /\ phase' = IF Len(results') = N THEN "returned" ELSE phase
      /\ op[Parent].at \in {"served", "raised"}
  BY DEF SerialFinish, Answers, counts
<1>2. /\ results \in Seq(Outcomes) /\ worker \in [Procs -> 0..N] /\ op \in [Procs -> OpStates]
      /\ Parent \in Procs /\ worker[Parent] \in {0, Len(results) + 1}
  BY <1>1, SweepAssumption DEF SweepInv, ShapesOK, SerialInOrder
<1>3. worker[Parent] \in 1..N /\ worker[Parent] = Len(results) + 1
  BY <1>1, <1>2, BusyOK
<1>4. x \in Outcomes
  <2>1. x \in Good(worker[Parent])
    BY <1>1, <1>2, AnswerGood
  <2> QED
    BY <1>3, <2>1, GoodIsOutcome
<1>5. Len(results') = Len(results) + 1
      /\ \A i \in 1 .. Len(results) + 1 : results'[i] = IF i = Len(results) + 1 THEN x ELSE results[i]
  BY <1>1, <1>2, <1>4, OneMoreResult
<1>6. ASSUME NEW i \in 1..N, Reported(i)' PROVE Reported(i) \/ Raising(i)
  <2>1. i \in 1 .. Len(results) + 1 /\ results'[i] = Error
    BY <1>5, <1>6 DEF Reported
  <2>2. CASE i = Len(results) + 1
    <3>1. x = Error
      BY <1>5, <2>1, <2>2
    <3>2. op[Parent].at = "raised"
      BY <1>1, <1>2, <3>1, AnswerIsRaised
    <3> QED
      BY <1>2, <1>3, <2>2, <3>2 DEF Raising
  <2>3. CASE i # Len(results) + 1
    <3>1. i \in 1 .. Len(results) /\ results[i] = Error
      BY <1>2, <1>5, <2>1, <2>3
    <3> QED
      BY <3>1 DEF Reported
  <2> QED
    BY <2>2, <2>3
<1>7. ASSUME NEW i \in 1..N, Raising(i)' PROVE Raising(i)
  <2>1. PICK q \in Procs : worker'[q] = i /\ op'[q].at = "raised"
    BY <1>7 DEF Raising
  <2>2. worker'[q] = worker[q] /\ op'[q] = op[q]
    BY <1>1, <1>2, <2>1
  <2> QED
    BY <2>1, <2>2 DEF Raising
<1>8. Lost' \subseteq Lost
  BY <1>1, <1>6, <1>7 DEF Lost, Held
<1>9. NobodyDied' /\ AllCollected'
  BY <1>1 DEF FailInv, NobodyDied, AllCollected
<1> QED
  BY <1>1, <1>8, <1>9, NoMoreLost DEF FailInv

\* A sweep that starts has lost nothing yet.
LEMMA StartFails ==
  ASSUME FailInv, results' = <<>>, failed' \in Nat, deaths' \in Nat,
         future' = [i \in 1..N |-> "none"], worker' = [p \in Procs |-> 0],
         broken' = "no", phase' # "returned"
  PROVE  FailInv'
<1>1. Lost' = {}
  BY DEF Lost, Reported, Held, Raising
<1>2. Cardinality(Lost') = 0
  BY <1>1, FS_EmptySet
<1> QED
  BY <1>2 DEF FailInv, NobodyDied, LossesCounted, AllCollected

LEMMA FailInvNext == SweepInv /\ FailInv /\ [Next]_vars => FailInv'
<1> SUFFICES ASSUME SweepInv, FailInv, [Next]_vars PROVE FailInv'
  OBVIOUS
<1>1. CASE Start
  BY <1>1, StartFails DEF Start, FailInv
<1>2. CASE ParentStep
  BY <1>2, SubmitFails, CollectFails, SerialTakeFails, SerialFinishFails DEF ParentStep
<1>3. CASE NoticeDeath
  <2>1. deaths' = deaths /\ failed' = failed /\ phase' = phase /\ results' = results
    BY <1>3 DEF NoticeDeath, counts
  <2>2. deaths # 0
    BY <1>3 DEF NoticeDeath, FailInv, NobodyDied
  <2> QED
    BY <2>1, <2>2 DEF FailInv, NobodyDied, LossesCounted, AllCollected
<1>4. ASSUME NEW p \in Procs, ProcStep(p) PROVE FailInv'
  BY <1>4, TakeFails, BeginFails, WorkFails, FinishFails DEF ProcStep, Work
<1>5. ASSUME NEW p \in Procs, DiskFull(p) PROVE FailInv'
  BY <1>5, DiskFullFails
<1>6. ASSUME NEW p \in Procs, Die(p) PROVE FailInv'
  <2>1. /\ deaths' = deaths + 1 /\ failed' = failed /\ results' = results
        /\ phase' \in {"dead", phase}
    BY <1>6 DEF Die
  <2>2. deaths' \in Nat /\ deaths' # 0
    BY <2>1 DEF FailInv
  <2> QED
    BY <2>1, <2>2 DEF FailInv, NobodyDied, LossesCounted, AllCollected
<1>7. CASE UNCHANGED vars
  <2>1. /\ broken' = broken /\ phase' = phase /\ op' = op /\ outcome' = outcome /\ future' = future
        /\ results' = results /\ failed' = failed /\ deaths' = deaths /\ worker' = worker
    BY <1>7 DEF vars, cacheVars, sweepVars, counts
  <2>2. Lost' = Lost
    BY <2>1 DEF Lost, Reported, Held, Raising
  <2> QED
    BY <2>1, <2>2 DEF FailInv, NobodyDied, LossesCounted, AllCollected
<1> QED
  BY <1>1, <1>2, <1>3, <1>4, <1>5, <1>6, <1>7 DEF Next

(***************************************************************************)
(* A task that fails costs no other task its result: while no process      *)
(* dies, the good tasks a sweep returns as errors are no more than the     *)
(* cache writes that failed.                                               *)
(***************************************************************************)
THEOREM FailuresAlwaysStayPut == Spec => []FailuresStayPut
<1>1. Init => FailInv
  <2> SUFFICES ASSUME Init PROVE FailInv
    OBVIOUS
  <2>1. Lost = {}
    BY DEF Init, Lost, Reported, Held, Raising
  <2>2. Cardinality(Lost) = 0
    BY <2>1, FS_EmptySet
  <2> QED
    BY <2>2 DEF Init, FailInv, NobodyDied, LossesCounted, AllCollected
<1>2. SweepInv /\ FailInv => FailuresStayPut
  <2> SUFFICES ASSUME SweepInv, FailInv, phase = "returned", deaths = 0
               PROVE  Cardinality({i \in 1..N : Tasks[i] \notin Bad /\ ~results[i].ok}) <= failed
    BY DEF FailuresStayPut
  <2> DEFINE failing == {i \in 1..N : Tasks[i] \notin Bad /\ ~results[i].ok}
  <2>1. Len(results) = N /\ results \in Seq(Outcomes)
    BY DEF FailInv, AllCollected, SweepInv, ShapesOK
  <2>2. ASSUME NEW i \in failing PROVE i \in Lost
    <3>1. i \in 1..N /\ Tasks[i] \notin Bad /\ ~results[i].ok
      OBVIOUS
    <3>2. results[i] \in Outcomes
      BY <2>1, <3>1
    <3>3. results[i] = Error
      BY <3>1, <3>2, ErrorIsNotResult DEF Outcomes
    <3> QED
      BY <2>1, <3>1, <3>3 DEF Lost, Reported
  <2>3. failing \subseteq Lost
    BY <2>2
  <2> HIDE DEF failing
  <2>4. IsFiniteSet(Lost) /\ Cardinality(Lost) \in Nat
    BY LostIsFinite
  <2>5. Cardinality(failing) \in Nat /\ Cardinality(failing) <= Cardinality(Lost)
    BY <2>3, <2>4, FS_Subset, FS_CardinalityType
  <2>6. Cardinality(Lost) <= failed /\ failed \in Nat
    BY DEF FailInv, LossesCounted
  <2>7. Cardinality(failing) <= failed
    BY <2>4, <2>5, <2>6
  <2> QED
    BY <2>7 DEF failing
<1> QED
  BY <1>1, <1>2, FailInvNext, SweepInvAlways, PTL DEF Spec
=============================================================================
