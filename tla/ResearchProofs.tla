---------------------------- MODULE ResearchProofs ----------------------------
(***************************************************************************)
(* Proofs about the research platform: what the Research Lab answers while *)
(* requests and the builder of its snapshot overlap, what the replay of a  *)
(* recorded order book gives back, what is left on disk by downloads that  *)
(* overlap, fail and die, and what the books of the platform know when     *)
(* they take their positions.                                              *)
(***************************************************************************)
EXTENDS ResearchBooks, ResearchApi, L2Replay, DownloadCaches, FoldTheorems

\* A request that has not been told from the snapshot.
LiveOK(q, cached) ==
  /\ q.known # NoFamily \/ q.seen # <<>> => cached # NoFamily
  /\ q.at = "idle" => q.seen = <<>> /\ q.known = NoFamily
  /\ q.at = "loading" => q.seen = <<>> /\ q.known = NoFamily
  /\ \A i \in DOMAIN q.seen : q.known # NoFamily \/ i > 1 => q.seen[i] = cached

\* A request that was told from the snapshot f.
ToldOK(q, f) ==
  /\ q.at = "answered" /\ q.ask \in Told
  /\ q.build <= f.build
  /\ q.code = 200 /\ q.build = f.build => ~f.torn /\ q.seen = <<f.findings>>

RequestOK(q, cached, f) ==
  IF q.build = 0 THEN LiveOK(q, cached) ELSE ToldOK(q, f)

\* Two requests that were told from one snapshot.
SameStory(a, b) ==
  a.build > 0 /\ a.build = b.build /\ a.code = 200 /\ b.code = 200 => a.seen = b.seen

\* The file tells one story, and only the build that writes it has its number.
FileOK(f, b, n) ==
  /\ f.build <= n
  /\ b.at \in {"construction", "write"} => f.build < n
  /\ b.at = "writing" => f.build = n /\ f.torn
  /\ b.at # "idle" => n > 0 /\ b.findings \in Loads
  /\ b.at \in {"write", "writing"} => b.construction = b.findings
  /\ f.torn => f.build > 0
  /\ ~f.torn => f.findings = f.construction
  /\ ~f.torn /\ f.build > 0 => f.findings \in Loads
  /\ f.build = 0 => f = NoSnapshot

LabInv ==
  /\ LabTypeOK
  /\ \A r \in Requests : RequestOK(request[r], memo, file)
  /\ \A a, b \in Requests : SameStory(request[a], request[b])
  /\ FileOK(file, builder, builds)

\* Nothing has been asked, memoized or built.
LEMMA LabInvInit == LabInit => LabInv
<1> SUFFICES ASSUME LabInit PROVE LabInv  OBVIOUS
<1>1. NoSnapshot \in Snapshot /\ Waiting \in Request /\ NoBuild \in Builder
  BY LabAssumption DEF NoSnapshot, Snapshot, Waiting, Request, NoBuild, Builder, Asks
<1>2. LabTypeOK
  BY <1>1, LabAssumption DEF LabInit, LabTypeOK
<1>3. ASSUME NEW r \in Requests PROVE RequestOK(request[r], memo, file)
  BY DEF LabInit, RequestOK, LiveOK, Waiting
<1>4. ASSUME NEW a \in Requests, NEW b \in Requests PROVE SameStory(request[a], request[b])
  BY DEF LabInit, SameStory, Waiting
<1>5. FileOK(file, builder, builds)
  BY DEF LabInit, FileOK, NoSnapshot, NoBuild
<1> QED  BY <1>2, <1>3, <1>4, <1>5 DEF LabInv

\* Only request r has changed.
LEMMA OneRequest ==
  ASSUME LabInv, NEW r \in Requests, NEW q \in Request,
         request' = [request EXCEPT ![r] = q],
         file' = file, builder' = builder, builds' = builds,
         memo' \in Loads \cup {NoFamily}, memo # NoFamily => memo' = memo,
         RequestOK(q, memo', file),
         \A a \in Requests : a # r => SameStory(request[a], q) /\ SameStory(q, request[a])
  PROVE  LabInv'
<1>1. \A a \in Requests : request'[a] = IF a = r THEN q ELSE request[a]
  BY DEF LabInv, LabTypeOK
<1>2. LabTypeOK'
  BY DEF LabInv, LabTypeOK
<1>3. ASSUME NEW a \in Requests PROVE RequestOK(request'[a], memo', file)
  <2>1. CASE a = r
    BY <1>1, <2>1
  <2>2. CASE a # r
    <3>1. RequestOK(request[a], memo, file) /\ request[a] \in Request
      BY DEF LabInv, LabTypeOK
    <3>2. CASE request[a].build # 0
      BY <1>1, <2>2, <3>1, <3>2 DEF RequestOK
    <3>3. CASE request[a].build = 0 /\ memo' = memo
      BY <1>1, <2>2, <3>1, <3>3
    <3>4. CASE request[a].build = 0 /\ memo = NoFamily
      <4>1. request[a].known = NoFamily /\ request[a].seen = <<>>
        BY <3>1, <3>4 DEF RequestOK, LiveOK
      <4> QED  BY <1>1, <2>2, <3>1, <3>4, <4>1 DEF RequestOK, LiveOK
    <3> QED  BY <3>2, <3>3, <3>4
  <2> QED  BY <2>1, <2>2
<1>4. ASSUME NEW a \in Requests, NEW b \in Requests PROVE SameStory(request'[a], request'[b])
  <2>1. SameStory(request[a], request[b])
    BY DEF LabInv
  <2>2. SameStory(q, q)
    BY DEF SameStory
  <2> QED  BY <1>1, <2>1, <2>2
<1>5. FileOK(file', builder', builds')
  BY DEF LabInv
<1> QED  BY <1>2, <1>3, <1>4, <1>5 DEF LabInv

\* A handler begins: it is told from the snapshot, or starts to call.
LEMMA RequestArrivesInv ==
  ASSUME LabInv, NEW r \in Requests, NEW ask \in Asks, RequestArrives(r, ask) PROVE LabInv'
<1> DEFINE q == [at |-> "calling", ask |-> ask, known |-> memo, seen |-> <<>>, code |-> 0, build |-> 0]
<1>1. memo \in Loads \cup {NoFamily}
  BY DEF LabInv, LabTypeOK
<1>2. [Waiting EXCEPT !.at = "calling", !.ask = ask, !.known = memo] = q
  <2> DEFINE x == [Waiting EXCEPT !.at = "calling"]
             y == [x EXCEPT !.ask = ask]
  <2>1. x = [at |-> "calling", ask |-> "menu", known |-> NoFamily, seen |-> <<>>, code |-> 0,
             build |-> 0]
    BY DEF Waiting
  <2>2. [y EXCEPT !.known = memo] = [Waiting EXCEPT !.at = "calling", !.ask = ask, !.known = memo]
    OBVIOUS
  <2> HIDE DEF x
  <2>3. y = [at |-> "calling", ask |-> ask, known |-> NoFamily, seen |-> <<>>, code |-> 0,
             build |-> 0]
    BY <2>1
  <2> HIDE DEF y
  <2>4. [y EXCEPT !.known = memo] = q
    BY <2>3
  <2> QED  BY <2>2, <2>4
<1>3. CASE ask \in Told /\ file # NoSnapshot
  <2> DEFINE s == IF file.torn THEN <<>> ELSE <<file[ask]>>
             c == IF file.torn THEN 500 ELSE 200
             p == [at |-> "answered", ask |-> ask, known |-> memo, seen |-> s, code |-> c,
                   build |-> file.build]
  <2>1. FromSnapshot(q) = p
    <3>1. q.ask = ask
      OBVIOUS
    <3>2. FromSnapshot(q) = [q EXCEPT !.at = "answered", !.code = c, !.seen = s, !.build = file.build]
      BY <3>1 DEF FromSnapshot
    <3> HIDE DEF s, c
    <3> QED  BY <3>2
  <2>2. request' = [request EXCEPT ![r] = p]
    BY <1>2, <1>3, <2>1 DEF RequestArrives
  <2>3. file \in Snapshot /\ FileOK(file, builder, builds)
    BY DEF LabInv, LabTypeOK
  <2>4. file.build > 0 /\ (~file.torn => file[ask] = file.findings /\ file.findings \in Loads)
    BY <1>3, <2>3, LabAssumption DEF FileOK, Snapshot, Told
  <2>5. s \in Seq(Loads) /\ (~file.torn => s = <<file.findings>>) /\ c \in {500, 200}
        /\ (c = 200 => ~file.torn)
    BY <2>4
  <2> HIDE DEF s, c
  <2>6. p \in Request
    BY <1>1, <2>3, <2>5 DEF Request, Snapshot
  <2>7. p.build = file.build /\ p.code = c /\ p.seen = s /\ p.at = "answered" /\ p.ask = ask
    OBVIOUS
  <2> HIDE DEF p
  <2>8. RequestOK(p, memo, file)
    BY <1>3, <2>3, <2>4, <2>5, <2>7 DEF RequestOK, ToldOK, Snapshot
  <2>9. ASSUME NEW a \in Requests PROVE SameStory(request[a], p) /\ SameStory(p, request[a])
    <3>1. RequestOK(request[a], memo, file)
      BY DEF LabInv
    <3> QED  BY <2>4, <2>5, <2>7, <3>1 DEF SameStory, RequestOK, ToldOK
  <2> QED  BY <2>2, <2>6, <2>8, <2>9, OneRequest DEF RequestArrives, LabInv, LabTypeOK
<1>4. CASE ~(ask \in Told /\ file # NoSnapshot)
  <2>1. request' = [request EXCEPT ![r] = q]
    BY <1>2, <1>4 DEF RequestArrives
  <2>2. q.build = 0 /\ q.at = "calling" /\ q.seen = <<>> /\ q.known = memo
    OBVIOUS
  <2>3. q.known # NoFamily => memo # NoFamily
    BY <2>2
  <2>4. q \in Request
    BY <1>1, LabAssumption DEF Request
  <2> HIDE DEF q
  <2>5. RequestOK(q, memo, file)
    BY <2>2, <2>3 DEF RequestOK, LiveOK
  <2>6. \A a \in Requests : SameStory(request[a], q) /\ SameStory(q, request[a])
    BY <2>2 DEF SameStory
  <2> QED  BY <2>1, <2>4, <2>5, <2>6, OneRequest DEF RequestArrives, LabInv, LabTypeOK
<1> QED  BY <1>3, <1>4

\* A request that has gone on is a request.
LEMMA GoneOn ==
  ASSUME NEW q \in Request, NEW a \in {"answered", "calling"}
  PROVE  [q EXCEPT !.at = a] \in Request
BY DEF Request

\* A call has returned the family that is memoized by then, or the first one a load of its own.
LEMMA ReturnedOK ==
  ASSUME NEW q \in Request, NEW family \in Loads, NEW cached \in Loads, NEW old,
         LiveOK(q, old), q.build = 0, q.at \in {"calling", "loading"},
         old # NoFamily => cached = old,
         q.seen # <<>> \/ q.known # NoFamily => family = cached
  PROVE  /\ Returned(q, family) \in Request
         /\ Returned(q, family).build = 0
         /\ LiveOK(Returned(q, family), cached)
<1> DEFINE s == Append(q.seen, family)
           a == IF Unknown(q.ask, s[1]) \/ Len(s) = CallsOf(q.ask) THEN "answered" ELSE "calling"
           c == IF Unknown(q.ask, s[1]) THEN 404 ELSE 200
<1> DEFINE p == [q EXCEPT !.seen = s, !.at = a, !.code = c]
<1>0. Returned(q, family) = p
  BY DEF Returned
<1>2. q.seen \in Seq(Loads) /\ s \in Seq(Loads)
  BY DEF Request
<1>3. a \in {"answered", "calling"} /\ c \in {404, 200}
  OBVIOUS
<1>4. \A i \in DOMAIN s : q.known # NoFamily \/ i > 1 => s[i] = cached
  <2> SUFFICES ASSUME NEW i \in DOMAIN s, q.known # NoFamily \/ i > 1 PROVE s[i] = cached
    OBVIOUS
  <2>1. CASE i \in DOMAIN q.seen
    <3>1. q.seen # <<>>
      BY <1>2, <2>1
    <3>2. q.seen[i] = old /\ old # NoFamily
      BY <2>1, <3>1 DEF LiveOK
    <3> QED  BY <1>2, <2>1, <3>2
  <2>2. CASE i \notin DOMAIN q.seen
    <3>1. i = Len(q.seen) + 1 /\ s[i] = family
      BY <1>2, <2>2
    <3>2. q.known # NoFamily \/ q.seen # <<>>
      BY <1>2, <3>1
    <3> QED  BY <3>1, <3>2
  <2> QED  BY <2>1, <2>2
<1> HIDE DEF a, c, s
<1>5. p \in Request
  <2> DEFINE x == [q EXCEPT !.seen = s]
             y == [x EXCEPT !.at = a]
  <2>1. x \in Request
    BY <1>2 DEF Request
  <2>2. p = [y EXCEPT !.code = c]
    OBVIOUS
  <2> HIDE DEF x
  <2>3. y \in Request
    BY <1>3, <2>1, GoneOn
  <2> HIDE DEF y
  <2>4. [y EXCEPT !.code = c] \in Request
    BY <1>3, <2>3 DEF Request
  <2> QED  BY <2>2, <2>4
<1>6. p.build = 0 /\ p.seen = s /\ p.at \in {"answered", "calling"} /\ p.known = q.known
  BY <1>3 DEF Request
<1> HIDE DEF p
<1>7. cached # NoFamily
  BY LabAssumption
<1>8. \A i \in DOMAIN s : p.known # NoFamily \/ i > 1 => s[i] = cached
  BY <1>4, <1>6
<1>9. LiveOK(p, cached)
  BY <1>6, <1>7, <1>8 DEF LiveOK
<1> QED  BY <1>0, <1>5, <1>6, <1>9

\* A call of _all_signals hits the memo or starts a load.
LEMMA CallInv ==
  ASSUME LabInv, NEW r \in Requests, SignalsCalled(r) PROVE LabInv'
<1>1. request[r] \in Request /\ RequestOK(request[r], memo, file) /\ request[r].at = "calling"
  BY DEF SignalsCalled, LabInv, LabTypeOK
<1>2. request[r].build = 0 /\ LiveOK(request[r], memo)
  BY <1>1 DEF RequestOK, ToldOK
<1>3. CASE memo # NoFamily
  <2> DEFINE q == Returned(request[r], memo)
  <2>1. request' = [request EXCEPT ![r] = q]
    BY <1>3 DEF SignalsCalled
  <2>2. memo \in Loads
    BY <1>3 DEF LabInv, LabTypeOK
  <2>3. q \in Request /\ q.build = 0 /\ LiveOK(q, memo)
    BY <1>1, <1>2, <2>2, ReturnedOK
  <2> HIDE DEF q
  <2>4. RequestOK(q, memo, file)
    BY <2>3 DEF RequestOK
  <2>5. \A a \in Requests : SameStory(request[a], q) /\ SameStory(q, request[a])
    BY <2>3 DEF SameStory
  <2> QED  BY <2>1, <2>3, <2>4, <2>5, OneRequest DEF SignalsCalled, LabInv, LabTypeOK
<1>4. CASE memo = NoFamily
  <2> DEFINE q == [request[r] EXCEPT !.at = "loading"]
  <2>1. request' = [request EXCEPT ![r] = q]
    BY <1>4 DEF SignalsCalled
  <2>2. request[r].known = NoFamily /\ request[r].seen = <<>>
    BY <1>2, <1>4 DEF LiveOK
  <2>3. q \in Request /\ q.build = 0 /\ RequestOK(q, memo, file)
    BY <1>1, <1>2, <2>2 DEF Request, RequestOK, LiveOK
  <2> HIDE DEF q
  <2>4. \A a \in Requests : SameStory(request[a], q) /\ SameStory(q, request[a])
    BY <2>3 DEF SameStory
  <2> QED  BY <2>1, <2>3, <2>4, OneRequest DEF SignalsCalled, LabInv, LabTypeOK
<1> QED  BY <1>3, <1>4

\* A load ends, is memoized if it is the first, and answers its caller.
LEMMA LoadInv ==
  ASSUME LabInv, NEW r \in Requests, NEW family \in Loads, SignalsLoaded(r, family)
  PROVE  LabInv'
<1>1. request[r] \in Request /\ RequestOK(request[r], memo, file) /\ request[r].at = "loading"
  BY DEF SignalsLoaded, LabInv, LabTypeOK
<1>2. request[r].build = 0 /\ LiveOK(request[r], memo)
  BY <1>1 DEF RequestOK, ToldOK
<1>3. request[r].seen = <<>> /\ request[r].known = NoFamily
  BY <1>1, <1>2 DEF LiveOK
<1>4. memo' \in Loads /\ (memo # NoFamily => memo' = memo)
  BY DEF SignalsLoaded, Memo, LabInv, LabTypeOK
<1> DEFINE q == Returned(request[r], family)
<1>5. request' = [request EXCEPT ![r] = q]
  BY DEF SignalsLoaded
<1>6. q \in Request /\ q.build = 0 /\ LiveOK(q, memo')
  BY <1>1, <1>2, <1>3, <1>4, ReturnedOK
<1> HIDE DEF q
<1>7. RequestOK(q, memo', file)
  BY <1>6 DEF RequestOK
<1>8. \A a \in Requests : SameStory(request[a], q) /\ SameStory(q, request[a])
  BY <1>6 DEF SameStory
<1> QED  BY <1>4, <1>5, <1>6, <1>7, <1>8, OneRequest DEF SignalsLoaded, LabInv, LabTypeOK

\* What a step of the builder owes: the file tells one story, and what was
\* told before is not told otherwise under the same number.
BuilderOK(f, b, n, new) ==
  /\ n \in 0 .. MaxBuilds /\ b \in Builder /\ new \in Snapshot
  /\ FileOK(new, b, n)
  /\ \/ new = f
     \/ new.torn /\ f.build < new.build
     \/ f.torn /\ new.build = f.build

\* A step of the builder keeps the snapshot of one family, and tears only a build of its own.
LEMMA BuilderStepOK ==
  ASSUME LabInv, BuilderStep PROVE BuilderOK(file, builder', builds', file')
<1>1. /\ file \in Snapshot /\ builder \in Builder /\ builds \in 0 .. MaxBuilds
      /\ FileOK(file, builder, builds) /\ MaxBuilds \in Nat
  BY LabAssumption DEF LabInv, LabTypeOK
<1>2. NoBuild \in Builder /\ NoBuild.at = "idle"
  BY DEF NoBuild, Builder
<1>3. ASSUME NEW family \in Loads, BuildFindings(family)
      PROVE  BuilderOK(file, builder', builds', file')
  <2>1. builder' = [at |-> "construction", findings |-> family, construction |-> NoFamily]
    BY <1>3 DEF BuildFindings, NoBuild
  <2>2. builds' = builds + 1 /\ builds < MaxBuilds /\ file' = file
    BY <1>3 DEF BuildFindings
  <2>3. builder' \in Builder
    BY <2>1 DEF Builder
  <2>4. FileOK(file', builder', builds')
    BY <1>1, <2>1, <2>2 DEF FileOK, Snapshot
  <2> QED  BY <1>1, <2>2, <2>3, <2>4 DEF BuilderOK
<1>4. ASSUME NEW family \in Loads, BuildConstruction(family)
      PROVE  BuilderOK(file, builder', builds', file')
  <2>1. builder.at = "construction" /\ builds' = builds /\ file' = file
    BY <1>4 DEF BuildConstruction
  <2>2. builder.findings \in Loads /\ Recalled(builder.findings, family) = builder.findings
    BY <1>1, <2>1, LabAssumption DEF FileOK, Recalled
  <2>3. builder' = [at |-> "write", findings |-> builder.findings, construction |-> builder.findings]
    BY <1>1, <1>4, <2>2 DEF BuildConstruction, Builder
  <2>4. builder' \in Builder
    BY <2>2, <2>3 DEF Builder
  <2>5. FileOK(file', builder', builds')
    BY <1>1, <2>1, <2>2, <2>3 DEF FileOK
  <2> QED  BY <1>1, <2>1, <2>4, <2>5 DEF BuilderOK
<1>5. ASSUME Truncate PROVE BuilderOK(file, builder', builds', file')
  <2>1. builder.at = "write" /\ builds' = builds
    BY <1>5 DEF Truncate
  <2>2. builder' = [at |-> "writing", findings |-> builder.findings,
                    construction |-> builder.construction]
    BY <1>1, <1>5 DEF Truncate, Builder
  <2>3. file' = [build |-> builds, findings |-> file.findings,
                 construction |-> file.construction, torn |-> TRUE]
    BY <1>1, <1>5 DEF Truncate, Snapshot
  <2>4. builder' \in Builder /\ file' \in Snapshot
    BY <1>1, <2>2, <2>3 DEF Builder, Snapshot
  <2>5. FileOK(file', builder', builds') /\ file.build < file'.build
    BY <1>1, <2>1, <2>2, <2>3 DEF FileOK
  <2> QED  BY <1>1, <2>1, <2>3, <2>4, <2>5 DEF BuilderOK
<1>6. ASSUME Written PROVE BuilderOK(file, builder', builds', file')
  <2>1. builder.at = "writing" /\ builds' = builds /\ builder' = NoBuild
    BY <1>6 DEF Written
  <2>2. file' = [build |-> builds, findings |-> builder.findings,
                 construction |-> builder.construction, torn |-> FALSE]
    BY <1>6 DEF Written
  <2>3. file.build = builds /\ file.torn /\ builds > 0 /\ builder.findings \in Loads
        /\ builder.construction = builder.findings
    BY <1>1, <2>1 DEF FileOK
  <2>4. file' \in Snapshot
    BY <1>1, <2>2, <2>3 DEF Snapshot
  <2>5. FileOK(file', builder', builds')
    BY <1>1, <1>2, <2>1, <2>2, <2>3 DEF FileOK
  <2> QED  BY <1>1, <1>2, <2>1, <2>2, <2>3, <2>4, <2>5 DEF BuilderOK
<1>7. ASSUME Interrupted PROVE BuilderOK(file, builder', builds', file')
  <2>1. builder' = NoBuild /\ builds' = builds /\ file' = file
    BY <1>7 DEF Interrupted
  <2>2. FileOK(file', builder', builds')
    BY <1>1, <1>2, <2>1 DEF FileOK
  <2> QED  BY <1>1, <1>2, <2>1, <2>2 DEF BuilderOK
<1> QED  BY <1>3, <1>4, <1>5, <1>6, <1>7 DEF BuilderStep

\* What requests were told stays true while the builder goes on.
LEMMA BuilderInv ==
  ASSUME LabInv, BuilderStep PROVE LabInv'
<1>1. memo' = memo /\ request' = request
  BY DEF BuilderStep, BuildFindings, BuildConstruction, Truncate, Written, Interrupted
<1>2. BuilderOK(file, builder', builds', file')
  BY BuilderStepOK
<1>3. file \in Snapshot /\ file' \in Snapshot
  BY <1>2 DEF LabInv, LabTypeOK, BuilderOK
<1>4. ASSUME NEW r \in Requests PROVE RequestOK(request[r], memo, file')
  <2>1. RequestOK(request[r], memo, file) /\ request[r] \in Request
    BY DEF LabInv, LabTypeOK
  <2>2. CASE request[r].build = 0
    BY <2>1, <2>2 DEF RequestOK
  <2>3. CASE request[r].build # 0
    BY <1>2, <1>3, <2>1, <2>3 DEF RequestOK, ToldOK, BuilderOK, Snapshot, Request
  <2> QED  BY <2>2, <2>3
<1> QED  BY <1>1, <1>2, <1>4 DEF LabInv, LabTypeOK, BuilderOK

\* Every step of the lab keeps its invariant.
LEMMA LabInvNext == LabInv /\ [LabNext]_labVars => LabInv'
<1> SUFFICES ASSUME LabInv, [LabNext]_labVars PROVE LabInv'  OBVIOUS
<1>1. ASSUME NEW r \in Requests, NEW ask \in Asks, RequestArrives(r, ask) PROVE LabInv'
  BY <1>1, RequestArrivesInv
<1>2. ASSUME NEW r \in Requests, SignalsCalled(r) PROVE LabInv'
  BY <1>2, CallInv
<1>3. ASSUME NEW r \in Requests, NEW family \in Loads, SignalsLoaded(r, family) PROVE LabInv'
  BY <1>3, LoadInv
<1>4. CASE BuilderStep
  BY <1>4, BuilderInv
<1>5. CASE UNCHANGED labVars
  BY <1>5 DEF labVars, LabInv, LabTypeOK
<1> QED  BY <1>1, <1>2, <1>3, <1>4, <1>5 DEF LabNext

\* The invariant of the lab implies what is promised of it.
LEMMA LabInvShows == LabInv => ViewsAgree
<1> SUFFICES ASSUME LabInv PROVE ViewsAgree  OBVIOUS
<1>1. ASSUME NEW r \in Requests PROVE RequestOK(request[r], memo, file)
  BY DEF LabInv
<1>2. OneFamilyOnceWarm
  BY <1>1 DEF OneFamilyOnceWarm, RequestOK, LiveOK
<1>3. OneStory
  BY DEF OneStory, LabInv, SameStory
<1> QED  BY <1>2, <1>3 DEF ViewsAgree, LabInv

\* For any requests, families, loads that fail and builds that are interrupted:
\* what the lab shows is one analysis (compute.py, app.py, export_snapshot.py).
THEOREM LabShowsOneAnalysis == LabSpec => []ViewsAgree
<1>1. LabSpec => []LabInv
  BY LabInvInit, LabInvNext, PTL DEF LabSpec
<1> QED  BY <1>1, LabInvShows, PTL

-----------------------------------------------------------------------------

\* The levels of a snapshot that have been written.
WrittenPart(book, u) == [s \in Sides |-> [p \in Prices |-> IF <<s, p>> \in u THEN 0 ELSE book[s][p]]]

Books == [Sides -> [Prices -> Nat]]

FlowSum(st) == SumFunction([i \in DOMAIN st.rows |-> st.rows[i].flow]) + st.flow

\* Where the replay of a snapshot is: not begun, in the middle, or through.
SnapshotOK(st, n, v, u, d) ==
  /\ u # {} /\ u = LevelsOf(v) => ~st.inSnap \/ st.seq # n
  /\ u # {} /\ u # LevelsOf(v) => st.inSnap /\ st.seq = n /\ st.book = WrittenPart(v, u)
  /\ u = {} /\ (st.inSnap \/ ~d) => st.book = v

BookOK(st, n, v, u, d, b) ==
  /\ u = {} => st.seq <= n
  /\ ~b => SnapshotOK(st, n, v, u, d)

TapeInv ==
  /\ TapeTypeOK
  /\ ~deep => ~Deep(venue)
  /\ BookOK(replay, seq, venue, unwritten, deep, blind)
  /\ FlowSum(replay) = traded

\* The mid of a book with two sides is a number.
LEMMA MidType == ASSUME NEW book \in Books, TwoSided(book) PROVE Mid(book) \in Int
<1>1. ASSUME NEW s \in Sides PROVE Levels(book, s) \subseteq Prices /\ IsFiniteSet(Levels(book, s))
  BY TapeAssumption, FS_Subset DEF Levels
<1>2. Max(Levels(book, "B")) \in Nat
  <2> DEFINE L == Levels(book, "B")
  <2>1. L # {} /\ L \subseteq Nat /\ IsFiniteSet(L)
    BY <1>1, TapeAssumption DEF TwoSided, Sides
  <2> HIDE DEF L
  <2>2. \E m \in L : \A k \in L : m >= k
    BY <2>1, MaximalNat
  <2>3. Max(L) \in L
    BY <2>2 DEF Max
  <2> QED  BY <2>1, <2>3 DEF L
<1>3. Min(Levels(book, "A")) \in Nat
  <2> DEFINE L == Levels(book, "A")
  <2>1. L # {} /\ L \in SUBSET Nat
    BY <1>1, TapeAssumption DEF TwoSided, Sides
  <2> HIDE DEF L
  <2>2. \E m \in L : \A k \in L : m <= k
    BY <2>1, MinimalNat
  <2>3. Min(L) \in L
    BY <2>2 DEF Min
  <2> QED  BY <2>1, <2>3 DEF L
<1> QED  BY <1>2, <1>3 DEF Mid, Best

\* A pruned book is a book.
LEMMA PrunedType == ASSUME NEW book \in Books PROVE Pruned(book) \in Books
BY DEF Pruned, Books

\* Nothing is cut from a book no deeper than the cap.
LEMMA NotPruned == ASSUME NEW book \in Books, ~Deep(book) PROVE Pruned(book) = book
<1>1. \A s \in Sides : ~(Cardinality(Levels(book, s)) > Cap)
  BY DEF Deep
<1>2. Pruned(book) = [s \in Sides |-> book[s]]
  BY <1>1 DEF Pruned
<1> QED  BY <1>2 DEF Books

\* A book with one level set is a book.
LEMMA SetLevelType ==
  ASSUME NEW book \in Books, NEW s \in Sides, NEW p \in Prices, NEW row, row.side = s,
         row.price = p, row.size \in Nat
  PROVE  /\ SetLevel(book, row) \in Books
         /\ SetLevel(book, row) = [book EXCEPT ![s][p] = row.size]
BY DEF SetLevel, Books

\* The flow of the feature rows adds up to a number.
LEMMA FlowType ==
  ASSUME NEW rows \in Seq(FeatureRow)
  PROVE  SumFunction([i \in DOMAIN rows |-> rows[i].flow]) \in Int
<1> DEFINE f == [i \in DOMAIN rows |-> rows[i].flow]
<1>0. DOMAIN f = 1 .. Len(rows) /\ Len(rows) \in Nat
  OBVIOUS
<1>1. ASSUME NEW i \in 1 .. Len(rows) PROVE f[i] \in Int
  <2>1. rows[i] \in FeatureRow
    OBVIOUS
  <2> QED  BY <2>1 DEF FeatureRow
<1> HIDE DEF f
<1>2. IsFiniteSet(1 .. Len(rows))
  BY <1>0, FS_Interval
<1>3. SumFunctionOnSet(f, 1 .. Len(rows)) \in Int
  BY <1>1, <1>2, SumType
<1> QED  BY <1>0, <1>3 DEF SumFunction, f

\* A feature row more adds its flow.
LEMMA FlowAdded ==
  ASSUME NEW rows \in Seq(FeatureRow), NEW row \in FeatureRow
  PROVE  LET more == Append(rows, row)
         IN  SumFunction([i \in DOMAIN more |-> more[i].flow])
               = SumFunction([i \in DOMAIN rows |-> rows[i].flow]) + row.flow
<1> DEFINE more == Append(rows, row)
           f == [i \in DOMAIN rows |-> rows[i].flow]
           g == [i \in DOMAIN more |-> more[i].flow]
           n == Len(rows)
<1>1. n \in Nat /\ DOMAIN f = 1 .. n /\ DOMAIN g = (1 .. n) \cup {n + 1} /\ n + 1 \notin 1 .. n
  OBVIOUS
<1>2. ASSUME NEW i \in 1 .. n PROVE f[i] \in Int /\ g[i] = f[i]
  <2>1. rows[i] \in FeatureRow /\ more[i] = rows[i] /\ i \in DOMAIN rows /\ i \in DOMAIN more
    OBVIOUS
  <2>2. f[i] = rows[i].flow /\ g[i] = rows[i].flow
    BY <2>1
  <2> QED  BY <2>1, <2>2 DEF FeatureRow
<1>3. g[n + 1] = row.flow /\ row.flow \in Int
  BY DEF FeatureRow
<1> HIDE DEF f, g, n, more
<1>4. IsFiniteSet(1 .. n)
  BY <1>1, FS_Interval
<1>5. SumFunctionOnSet(g, (1 .. n) \cup {n + 1}) = SumFunctionOnSet(g, 1 .. n) + g[n + 1]
  BY <1>1, <1>2, <1>3, <1>4, SumAdd
<1>6. SumFunctionOnSet(g, 1 .. n) = SumFunctionOnSet(f, 1 .. n)
  BY <1>2, <1>4, SumSame
<1>7. SumFunction(g) = SumFunction(f) + row.flow
  BY <1>1, <1>3, <1>5, <1>6 DEF SumFunction
<1> QED  BY <1>7 DEF f, g, more

\* A replay with another flow is a replay.
LEMMA NewFlow ==
  ASSUME NEW st \in Replaying, NEW f \in Int
  PROVE  LET new == [st EXCEPT !.flow = f]
         IN  /\ new \in Replaying /\ new.flow = f
             /\ \A k \in {"book", "seq", "inSnap", "lastMid", "changes", "rows"} : new[k] = st[k]
BY DEF Replaying

\* A change of the book brings this book, completes the snapshot and moves no flow.
LEMMA ChangedOK ==
  ASSUME NEW st \in Replaying, NEW book \in Books
  PROVE  LET new == Changed(st, book)
         IN  /\ new \in Replaying /\ new.book = book /\ new.seq = st.seq /\ ~new.inSnap
             /\ FlowSum(new) = FlowSum(st)
<1> DEFINE new == Changed(st, book)
           next == [st EXCEPT !.book = book, !.changes = @ + 1, !.inSnap = FALSE]
<1>1. /\ next \in Replaying /\ next.book = book /\ next.seq = st.seq /\ next.inSnap = FALSE
      /\ next.rows = st.rows /\ next.flow = st.flow
  <2> DEFINE x == [st EXCEPT !.book = book]
             y == [x EXCEPT !.changes = @ + 1]
  <2>1. next = [y EXCEPT !.inSnap = FALSE]
    OBVIOUS
  <2>2. x \in Replaying /\ x.book = book /\ x.seq = st.seq /\ x.rows = st.rows /\ x.flow = st.flow
    BY DEF Replaying, Books
  <2> HIDE DEF x
  <2>3. y \in Replaying /\ y.book = book /\ y.seq = st.seq /\ y.rows = st.rows /\ y.flow = st.flow
    <3>1. x.changes + 1 \in Nat
      BY <2>2 DEF Replaying
    <3>2. y \in Replaying
      BY <2>2, <3>1 DEF Replaying
    <3> QED  BY <2>2, <3>2 DEF Replaying
  <2> HIDE DEF y
  <2> QED  BY <2>1, <2>3 DEF Replaying
<1> HIDE DEF next
<1>2. CASE ~TwoSided(book)
  <2>1. new = next
    BY <1>2 DEF Changed, next
  <2> QED  BY <1>1, <2>1 DEF FlowSum
<1>3. CASE TwoSided(book) /\ next.changes % SampleEvery = 0
  <2>1. new = Sampled(next, book)
    BY <1>3 DEF Changed, next
  <2> DEFINE row == [mid |-> Mid(book), flow |-> next.flow]
             x == [next EXCEPT !.rows = Append(@, row)]
             y == [x EXCEPT !.flow = 0]
             z == [y EXCEPT !.lastMid = Mid(book)]
  <2>2. Sampled(next, book) = z
    BY DEF Sampled
  <2>3. Mid(book) \in Int /\ row \in FeatureRow /\ row.flow = next.flow /\ next.flow \in Int
    BY <1>1, <1>3, MidType DEF FeatureRow, Replaying
  <2> HIDE DEF row
  <2>4. next.rows \in Seq(FeatureRow) /\ Append(next.rows, row) \in Seq(FeatureRow)
    BY <1>1, <2>3 DEF Replaying
  <2>5. /\ x \in Replaying /\ x.book = book /\ x.seq = st.seq /\ x.inSnap = FALSE
        /\ x.rows = Append(next.rows, row)
    BY <1>1, <2>4 DEF Replaying
  <2> HIDE DEF x
  <2>6. /\ y \in Replaying /\ y.book = book /\ y.seq = st.seq /\ y.inSnap = FALSE
        /\ y.rows = Append(next.rows, row) /\ y.flow = 0
    <3> HIDE DEF y
    <3>0. PICK f \in Int : f = 0
      OBVIOUS
    <3>1. y \in Replaying /\ y.flow = f
      BY <2>5, <3>0, NewFlow DEF y
    <3>2. y.book = x.book /\ y.seq = x.seq /\ y.inSnap = x.inSnap /\ y.rows = x.rows
      BY <2>5, <3>0, NewFlow DEF y
    <3> QED  BY <2>5, <3>0, <3>1, <3>2
  <2> HIDE DEF y
  <2>7. /\ z \in Replaying /\ z.book = book /\ z.seq = st.seq /\ z.inSnap = FALSE
        /\ z.rows = Append(next.rows, row) /\ z.flow = 0
    BY <2>3, <2>6 DEF Replaying
  <2> HIDE DEF z
  <2>8. SumFunction([i \in DOMAIN z.rows |-> z.rows[i].flow])
          = SumFunction([i \in DOMAIN next.rows |-> next.rows[i].flow]) + row.flow
    BY <2>3, <2>4, <2>7, FlowAdded
  <2>9. FlowSum(z) = SumFunction([i \in DOMAIN next.rows |-> next.rows[i].flow]) + row.flow + 0
    BY <2>7, <2>8 DEF FlowSum
  <2>10. SumFunction([i \in DOMAIN next.rows |-> next.rows[i].flow]) \in Int
    BY <2>4, FlowType
  <2>11. FlowSum(z) = FlowSum(st)
    BY <1>1, <2>3, <2>9, <2>10 DEF FlowSum
  <2> QED  BY <2>1, <2>2, <2>7, <2>11
<1>4. CASE TwoSided(book) /\ next.changes % SampleEvery # 0
  <2> DEFINE z == [next EXCEPT !.lastMid = Mid(book)]
  <2>1. new = z
    BY <1>4 DEF Changed, next
  <2>2. /\ z \in Replaying /\ z.book = book /\ z.seq = st.seq /\ z.inSnap = FALSE
        /\ z.rows = st.rows /\ z.flow = st.flow
    BY <1>1, <1>4, MidType DEF Replaying
  <2> HIDE DEF z
  <2> QED  BY <2>1, <2>2 DEF FlowSum
<1> QED  BY <1>2, <1>3, <1>4

\* What has been written of a book is a book.
LEMMA WrittenType ==
  ASSUME NEW v \in Books, NEW u PROVE WrittenPart(v, u) \in Books
BY DEF WrittenPart, Books

\* All of a book, once every level has been written.
LEMMA AllWritten ==
  ASSUME NEW v \in Books PROVE WrittenPart(v, {}) = v
BY DEF WrittenPart, Books

\* Nothing, as long as none has been.
LEMMA NoneWritten ==
  ASSUME NEW v \in Books PROVE WrittenPart(v, LevelsOf(v)) = EmptyBook
<1>1. ASSUME NEW s \in Sides, NEW p \in Prices
      PROVE  (IF <<s, p>> \in LevelsOf(v) THEN 0 ELSE v[s][p]) = 0
  BY DEF LevelsOf, Books
<1> QED  BY <1>1 DEF WrittenPart, EmptyBook, NoLevels

\* The next level written is the next level of the book.
LEMMA OneWritten ==
  ASSUME NEW v \in Books, NEW u, NEW s \in Sides, NEW p \in Prices, <<s, p>> \in u
  PROVE  [WrittenPart(v, u) EXCEPT ![s][p] = v[s][p]] = WrittenPart(v, u \ {<<s, p>>})
<1> DEFINE w == WrittenPart(v, u)
           x == [w EXCEPT ![s][p] = v[s][p]]
           z == WrittenPart(v, u \ {<<s, p>>})
<1>1. w \in Books /\ z \in Books
  BY WrittenType
<1>2. x = [w EXCEPT ![s] = [w[s] EXCEPT ![p] = v[s][p]]]
  BY <1>1 DEF Books
<1>3. x \in Books
  <2> HIDE DEF w
  <2>1. [w[s] EXCEPT ![p] = v[s][p]] \in [Prices -> Nat]
    BY <1>1 DEF Books
  <2> QED  BY <1>1, <1>2, <2>1 DEF Books
<1>4. ASSUME NEW a \in Sides, NEW b \in Prices PROVE x[a][b] = z[a][b]
  <2>1. z[a][b] = IF <<a, b>> \in u \ {<<s, p>>} THEN 0 ELSE v[a][b]
    BY DEF WrittenPart
  <2>2. w[a][b] = IF <<a, b>> \in u THEN 0 ELSE v[a][b]
    BY DEF WrittenPart
  <2> HIDE DEF w, z
  <2>3. x[a][b] = IF a = s /\ b = p THEN v[s][p] ELSE w[a][b]
    BY <1>1, <1>2 DEF Books
  <2> HIDE DEF x
  <2>4. CASE a = s /\ b = p
    BY <2>1, <2>3, <2>4
  <2>5. CASE a # s \/ b # p
    <3>1. <<a, b>> # <<s, p>>
      BY <2>5
    <3> QED  BY <2>1, <2>2, <2>3, <2>5, <3>1
  <2> QED  BY <2>4, <2>5
<1>5. x = z
  <2> HIDE DEF x, z
  <2>1. ASSUME NEW a \in Sides PROVE x[a] = z[a]
    <3>1. x[a] \in [Prices -> Nat] /\ z[a] \in [Prices -> Nat]
      BY <1>1, <1>3 DEF Books
    <3> QED  BY <1>4, <3>1
  <2> QED  BY <1>1, <1>3, <2>1 DEF Books
<1> QED  BY <1>5

TapeRow == [kind : {"SNAP", "UPD", "TRD"}, seq : Nat, side : Sides, price : Prices, size : Nat]

\* A level of a snapshot is set in the book it started and moves no flow.
LEMMA SnapOK ==
  ASSUME NEW st \in Replaying, NEW row \in TapeRow, row.kind = "SNAP"
  PROVE  LET new == Replay(st, row)
         IN  /\ new \in Replaying /\ new.book = SetLevel(Fresh(st, row), row)
             /\ new.seq = row.seq /\ new.inSnap = TRUE
             /\ FlowSum(new) = FlowSum(st)
<1> DEFINE book == SetLevel(Fresh(st, row), row)
           x == [st EXCEPT !.book = book]
           y == [x EXCEPT !.seq = row.seq]
           z == [y EXCEPT !.inSnap = TRUE]
<1>1. Replay(st, row) = z
  BY DEF Replay, Snap
<1>2. Fresh(st, row) \in Books
  BY DEF Fresh, EmptyBook, NoLevels, Books, Replaying
<1>3. book \in Books /\ row.seq \in Nat
  BY <1>2, SetLevelType DEF TapeRow
<1> HIDE DEF book
<1>4. x \in Replaying /\ x.book = book /\ x.rows = st.rows /\ x.flow = st.flow
  BY <1>3 DEF Replaying, Books
<1> HIDE DEF x
<1>5. y \in Replaying /\ y.book = book /\ y.rows = st.rows /\ y.flow = st.flow /\ y.seq = row.seq
  <2>1. y \in Replaying
    BY <1>3, <1>4 DEF Replaying
  <2> QED  BY <1>4, <2>1 DEF Replaying
<1> HIDE DEF y
<1>6. /\ z \in Replaying /\ z.book = book /\ z.rows = st.rows /\ z.flow = st.flow
      /\ z.seq = row.seq /\ z.inSnap = TRUE
  <2>1. z \in Replaying
    BY <1>5 DEF Replaying
  <2> QED  BY <1>5, <2>1 DEF Replaying
<1> HIDE DEF z
<1> QED  BY <1>1, <1>6 DEF book, FlowSum

\* A changed level is set, the book pruned, the snapshot complete.
LEMMA UpdOK ==
  ASSUME NEW st \in Replaying, NEW row \in TapeRow, row.kind = "UPD"
  PROVE  LET new == Replay(st, row)
         IN  /\ new \in Replaying /\ new.book = Pruned(SetLevel(st.book, row))
             /\ new.seq = st.seq /\ ~new.inSnap
             /\ FlowSum(new) = FlowSum(st)
<1> DEFINE book == Pruned(SetLevel(st.book, row))
<1>1. Replay(st, row) = Changed(st, book)
  BY DEF Replay
<1>2. st.book \in Books
  BY DEF Replaying, Books
<1>3. book \in Books
  BY <1>2, SetLevelType, PrunedType DEF TapeRow
<1> HIDE DEF book
<1> QED  BY <1>1, <1>3, ChangedOK DEF book

\* A trade is added to the flow and completes a snapshot.
LEMMA TrdOK ==
  ASSUME NEW st \in Replaying, NEW row \in TapeRow, row.kind = "TRD"
  PROVE  LET new == Replay(st, row)
         IN  /\ new \in Replaying /\ new.book = IF st.inSnap THEN Pruned(st.book) ELSE st.book
             /\ new.seq = st.seq /\ ~new.inSnap
             /\ Signed(st, row) \in Int /\ FlowSum(new) = FlowSum(st) + Signed(st, row)
<1> DEFINE s == Signed(st, row)
           x == [st EXCEPT !.flow = @ + s]
<1>1. s \in Int /\ st.flow \in Int /\ st.book \in Books
  BY DEF Signed, TapeRow, Replaying, Books
<1>2. x = [st EXCEPT !.flow = st.flow + s]
  OBVIOUS
<1>3. x \in Replaying /\ x.flow = st.flow + s
  BY <1>1, <1>2, NewFlow
<1>4. x.book = st.book /\ x.seq = st.seq /\ x.inSnap = st.inSnap /\ x.rows = st.rows
  BY <1>1, <1>2, NewFlow
<1>5. Replay(st, row) = IF st.inSnap THEN Changed(x, Pruned(st.book)) ELSE x
  BY DEF Replay, Trade
<1> HIDE DEF x, s
<1>6. SumFunction([i \in DOMAIN st.rows |-> st.rows[i].flow]) \in Int
  BY FlowType DEF Replaying
<1>7. FlowSum(x) = FlowSum(st) + s
  BY <1>1, <1>3, <1>4, <1>6 DEF FlowSum
<1>8. CASE st.inSnap
  <2>1. Pruned(st.book) \in Books
    BY <1>1, PrunedType
  <2> QED  BY <1>1, <1>3, <1>4, <1>5, <1>7, <1>8, <2>1, ChangedOK DEF s
<1>9. CASE ~st.inSnap
  BY <1>1, <1>3, <1>4, <1>5, <1>7, <1>9 DEF s
<1> QED  BY <1>8, <1>9

\* A file that begins with a snapshot, or in mid-session.
LEMMA TapeInvInit == TapeInit => TapeInv
<1> SUFFICES ASSUME TapeInit PROVE TapeInv  OBVIOUS
<1>1. EmptyBook \in Books /\ venue \in Books
  BY TapeAssumption DEF EmptyBook, NoLevels, Books, TapeInit
<1>2. replay \in Replaying
  BY <1>1 DEF TapeInit, Start, Replaying, Books
<1>3. deep \in BOOLEAN /\ unwritten \subseteq LevelsOf(venue)
  BY DEF TapeInit, Deep
<1>4. TapeTypeOK
  BY <1>2, <1>3, TapeAssumption DEF TapeInit, TapeTypeOK
<1>5. ~blind /\ unwritten = {} => replay.book = venue
  <2> SUFFICES ASSUME ~blind, unwritten = {} PROVE EmptyBook = venue
    BY DEF TapeInit, Start
  <2>1. WrittenPart(venue, {}) = EmptyBook
    BY <1>1, NoneWritten DEF TapeInit
  <2> QED  BY <1>1, <2>1, AllWritten
<1>6. BookOK(replay, seq, venue, unwritten, deep, blind)
  BY <1>5 DEF BookOK, SnapshotOK, TapeInit, Start
<1>7. FlowSum(replay) = traded
  <2>1. SumFunction([i \in DOMAIN replay.rows |-> replay.rows[i].flow]) = 0
    BY SumEmpty DEF TapeInit, Start, SumFunction
  <2> QED  BY <2>1 DEF FlowSum, TapeInit, Start
<1> QED  BY <1>4, <1>6, <1>7 DEF TapeInv, TapeInit

\* A recorded row is what was recorded.
LEMMA EntryIs ==
  ASSUME NEW kind \in {"SNAP", "UPD", "TRD"}, NEW s \in Sides, NEW p \in Prices,
         NEW size \in Nat, seq' \in Nat
  PROVE  LET row == Entry(kind, s, p, size)
         IN  /\ row \in TapeRow /\ row.kind = kind /\ row.seq = seq' /\ row.side = s
             /\ row.price = p /\ row.size = size
BY DEF Entry, TapeRow

\* A level of a snapshot is written and replayed.
LEMMA SnapshotRowInv ==
  ASSUME TapeInv, NEW s \in Sides, NEW p \in Prices, SnapshotRow(s, p) PROVE TapeInv'
<1> DEFINE row == Entry("SNAP", s, p, venue[s][p])
           fresh == Fresh(replay, row)
<1>1. /\ replay \in Replaying /\ venue \in Books /\ venue \in Venues /\ seq \in Nat /\ seq' = seq
      /\ replay.seq \in Nat /\ unwritten \subseteq LevelsOf(venue) /\ <<s, p>> \in unwritten
      /\ BookOK(replay, seq, venue, unwritten, deep, blind)
  BY TapeAssumption DEF TapeInv, TapeTypeOK, SnapshotRow, Books, Replaying
<1>2. venue[s][p] \in Nat
  BY <1>1 DEF Books
<1>3. row \in TapeRow /\ row.kind = "SNAP" /\ row.seq = seq /\ row.side = s /\ row.price = p
      /\ row.size = venue[s][p]
  BY <1>1, <1>2, EntryIs
<1>4. replay' = Replay(replay, row)
  BY DEF SnapshotRow
<1> HIDE DEF row
<1>5. /\ replay' \in Replaying /\ replay'.book = SetLevel(fresh, row)
      /\ replay'.seq = seq /\ replay'.inSnap = TRUE /\ FlowSum(replay') = FlowSum(replay)
  BY <1>1, <1>3, <1>4, SnapOK
<1>6. ~blind => fresh = WrittenPart(venue, unwritten)
  <2> SUFFICES ASSUME ~blind PROVE fresh = WrittenPart(venue, unwritten)  OBVIOUS
  <2>0. SnapshotOK(replay, seq, venue, unwritten, deep)
    BY <1>1 DEF BookOK
  <2>1. CASE unwritten = LevelsOf(venue)
    <3>1. fresh = EmptyBook
      BY <1>1, <1>3, <2>0, <2>1 DEF Fresh, SnapshotOK
    <3> QED  BY <1>1, <2>1, <3>1, NoneWritten
  <2>2. CASE unwritten # LevelsOf(venue)
    BY <1>1, <1>3, <2>0, <2>2 DEF Fresh, SnapshotOK
  <2> QED  BY <2>1, <2>2
<1> HIDE DEF fresh
<1>7. ~blind => replay'.book = WrittenPart(venue, unwritten \ {<<s, p>>})
  <2> SUFFICES ASSUME ~blind PROVE replay'.book = WrittenPart(venue, unwritten \ {<<s, p>>})
    OBVIOUS
  <2>1. SetLevel(fresh, row) = [fresh EXCEPT ![s][p] = venue[s][p]]
    BY <1>1, <1>2, <1>3, <1>6, SetLevelType, WrittenType
  <2>2. [WrittenPart(venue, unwritten) EXCEPT ![s][p] = venue[s][p]]
          = WrittenPart(venue, unwritten \ {<<s, p>>})
    BY <1>1, OneWritten
  <2> QED  BY <1>5, <1>6, <2>1, <2>2
<1>8. /\ unwritten' = unwritten \ {<<s, p>>} /\ venue' = venue /\ deep' = deep /\ traded' = traded
      /\ blind' = blind /\ sessions' = sessions
  BY DEF SnapshotRow
<1>9. unwritten' # LevelsOf(venue)
  BY <1>1, <1>8
<1>10. ~blind /\ unwritten' = {} => replay'.book = venue
  BY <1>1, <1>7, <1>8, AllWritten
<1>11. BookOK(replay', seq', venue', unwritten', deep', blind')
  BY <1>1, <1>5, <1>7, <1>8, <1>9, <1>10 DEF BookOK, SnapshotOK
<1>12. TapeTypeOK'
  BY <1>1, <1>5, <1>8 DEF TapeInv, TapeTypeOK, LevelsOf
<1> QED  BY <1>5, <1>8, <1>11, <1>12 DEF TapeInv, Deep, Levels

\* A snapshot begins whose number the last one replayed does not have.
LEMMA ConnectedInv ==
  ASSUME TapeInv, Connected, seq' \in 1 .. MaxSeq, sessions' \in 1 .. MaxRecorders,
         blind' \in BOOLEAN, ~blind' => ~replay.inSnap \/ replay.seq # seq'
  PROVE  TapeInv'
<1>1. /\ replay' = replay /\ venue' \in Venues /\ LevelsOf(venue') # {}
      /\ unwritten' = LevelsOf(venue') /\ deep' = Deep(venue') /\ traded' = traded
  BY DEF Connected
<1>2. deep' \in BOOLEAN
  BY <1>1 DEF Deep
<1>3. BookOK(replay', seq', venue', unwritten', deep', blind')
  BY <1>1 DEF BookOK, SnapshotOK
<1>4. TapeTypeOK'
  BY <1>1, <1>2 DEF TapeInv, TapeTypeOK, LevelsOf
<1>5. FlowSum(replay') = traded'
  BY <1>1 DEF TapeInv
<1>6. ~deep' => ~Deep(venue')
  BY <1>1
<1> QED  BY <1>3, <1>4, <1>5, <1>6 DEF TapeInv, Deep, Levels

\* The number of a reconnection is new.
LEMMA ReconnectsInv == ASSUME TapeInv, Reconnects PROVE TapeInv'
<1>1. /\ seq \in Nat /\ replay.seq \in Nat /\ replay.seq <= seq /\ seq' = seq + 1
      /\ seq' \in 1 .. MaxSeq /\ sessions' \in 1 .. MaxRecorders
  BY TapeAssumption DEF TapeInv, TapeTypeOK, BookOK, Reconnects, Numbered, Replaying
<1>2. Connected /\ blind' = FALSE
  BY DEF Reconnects
<1>3. ~blind' => ~replay.inSnap \/ replay.seq # seq'
  BY <1>1
<1> QED  BY <1>1, <1>2, <1>3, ConnectedInv

\* The number of a restart is new, but right after the first snapshot.
LEMMA RestartsInv == ASSUME TapeInv, Restarts PROVE TapeInv'
<1>1. Connected /\ seq' = 1 /\ seq' \in 1 .. MaxSeq /\ sessions' \in 1 .. MaxRecorders
  BY TapeAssumption DEF TapeInv, TapeTypeOK, Restarts
<1>2. blind' = (replay.inSnap /\ replay.seq = 1)
  BY DEF Restarts
<1>3. blind' \in BOOLEAN /\ (~blind' => ~replay.inSnap \/ replay.seq # seq')
  BY <1>1, <1>2
<1> QED  BY <1>1, <1>3, ConnectedInv

\* A level of the venue changes, and so does the replay.
LEMMA LevelChangesInv ==
  ASSUME TapeInv, NEW s \in Sides, NEW p \in Prices, LevelChanges(s, p) PROVE TapeInv'
<1> DEFINE row == Entry("UPD", s, p, venue'[s][p])
<1>1. /\ replay \in Replaying /\ venue \in Books /\ seq \in Nat /\ replay.seq \in Nat
      /\ unwritten = {} /\ BookOK(replay, seq, venue, unwritten, deep, blind)
      /\ seq' = seq + 1 /\ seq' \in 0 .. MaxSeq
  BY TapeAssumption DEF TapeInv, TapeTypeOK, LevelChanges, Numbered, Books, Replaying
<1>2. /\ venue' \in Venues /\ venue' \in Books /\ venue' = [venue EXCEPT ![s][p] = venue'[s][p]]
      /\ deep' = (deep \/ Deep(venue')) /\ unwritten' = unwritten /\ traded' = traded
      /\ replay' = Replay(replay, row) /\ blind' = blind /\ sessions' = sessions
  BY TapeAssumption DEF LevelChanges, Books
<1>3. venue'[s][p] \in Nat
  BY <1>2 DEF Books
<1>4. row \in TapeRow /\ row.kind = "UPD" /\ row.side = s /\ row.price = p
      /\ row.size = venue'[s][p]
  BY <1>1, <1>3, EntryIs
<1> HIDE DEF row
<1>5. /\ replay' \in Replaying /\ replay'.book = Pruned(SetLevel(replay.book, row))
      /\ replay'.seq = replay.seq /\ ~replay'.inSnap /\ FlowSum(replay') = FlowSum(replay)
  BY <1>1, <1>2, <1>4, UpdOK
<1>6. ASSUME ~deep', ~blind PROVE replay'.book = venue'
  <2>1. ~deep /\ ~Deep(venue') /\ replay.book = venue
    BY <1>1, <1>2, <1>6 DEF BookOK, SnapshotOK, TapeInv, TapeTypeOK
  <2>2. SetLevel(venue, row) = [venue EXCEPT ![s][p] = venue'[s][p]]
    BY <1>1, <1>3, <1>4, SetLevelType
  <2> QED  BY <1>2, <1>5, <2>1, <2>2, NotPruned
<1>7. BookOK(replay', seq', venue', unwritten', deep', blind')
  BY <1>1, <1>2, <1>5, <1>6 DEF BookOK, SnapshotOK
<1>8. deep' \in BOOLEAN /\ (~deep' => ~Deep(venue'))
  BY <1>2 DEF Deep
<1>9. TapeTypeOK'
  BY <1>1, <1>2, <1>5, <1>8 DEF TapeInv, TapeTypeOK, LevelsOf
<1> QED  BY <1>2, <1>5, <1>7, <1>8, <1>9 DEF TapeInv, Deep, Levels

\* A trade prints: the flow grows by it, the book stays.
LEMMA TradePrintsInv ==
  ASSUME TapeInv, NEW p \in Prices, NEW size \in TradeSizes, TradePrints(p, size) PROVE TapeInv'
<1> DEFINE row == Entry("TRD", "B", p, size)
<1>1. /\ replay \in Replaying /\ venue \in Books /\ seq \in Nat /\ replay.seq \in Nat
      /\ unwritten = {} /\ BookOK(replay, seq, venue, unwritten, deep, blind)
      /\ seq' = seq + 1 /\ seq' \in 0 .. MaxSeq /\ traded \in Int
  BY TapeAssumption DEF TapeInv, TapeTypeOK, TradePrints, Numbered, Books, Replaying
<1>2. /\ venue' = venue /\ deep' = deep /\ unwritten' = unwritten /\ blind' = blind
      /\ sessions' = sessions
      /\ traded' = traded + Signed(replay, row) /\ replay' = Replay(replay, row)
  BY DEF TradePrints
<1>3. row \in TapeRow /\ row.kind = "TRD"
  BY <1>1, EntryIs, TapeAssumption DEF Sides
<1> HIDE DEF row
<1>4. /\ replay' \in Replaying
      /\ replay'.book = IF replay.inSnap THEN Pruned(replay.book) ELSE replay.book
      /\ replay'.seq = replay.seq /\ ~replay'.inSnap
      /\ Signed(replay, row) \in Int /\ FlowSum(replay') = FlowSum(replay) + Signed(replay, row)
  BY <1>1, <1>2, <1>3, TrdOK
<1>5. ASSUME ~deep, ~blind PROVE replay'.book = venue
  <2>1. replay.book = venue /\ ~Deep(venue)
    BY <1>1, <1>5 DEF BookOK, SnapshotOK, TapeInv
  <2>2. Pruned(venue) = venue
    BY <1>1, <2>1, NotPruned
  <2> QED  BY <1>4, <2>1, <2>2
<1>6. BookOK(replay', seq', venue', unwritten', deep', blind')
  BY <1>1, <1>2, <1>4, <1>5 DEF BookOK, SnapshotOK
<1>7. TapeTypeOK'
  BY <1>1, <1>2, <1>4 DEF TapeInv, TapeTypeOK, LevelsOf
<1>8. FlowSum(replay') = traded'
  BY <1>2, <1>4 DEF TapeInv
<1> QED  BY <1>2, <1>6, <1>7, <1>8 DEF TapeInv, Deep, Levels

\* Every step of the venue and the recorder keeps the invariant.
LEMMA TapeInvNext == TapeInv /\ [TapeNext]_tapeVars => TapeInv'
<1> SUFFICES ASSUME TapeInv, [TapeNext]_tapeVars PROVE TapeInv'  OBVIOUS
<1>1. ASSUME NEW s \in Sides, NEW p \in Prices, SnapshotRow(s, p) PROVE TapeInv'
  BY <1>1, SnapshotRowInv
<1>2. ASSUME NEW s \in Sides, NEW p \in Prices, LevelChanges(s, p) PROVE TapeInv'
  BY <1>2, LevelChangesInv
<1>3. ASSUME NEW p \in Prices, NEW size \in TradeSizes, TradePrints(p, size) PROVE TapeInv'
  BY <1>3, TradePrintsInv
<1>4. CASE Reconnects
  BY <1>4, ReconnectsInv
<1>5. CASE Restarts
  BY <1>5, RestartsInv
<1>6. CASE UNCHANGED tapeVars
  <2>1. /\ replay' = replay /\ seq' = seq /\ venue' = venue /\ unwritten' = unwritten
        /\ deep' = deep /\ traded' = traded /\ blind' = blind /\ sessions' = sessions
    BY <1>6 DEF tapeVars
  <2>2. TapeTypeOK'
    BY <2>1 DEF TapeInv, TapeTypeOK, LevelsOf
  <2>3. BookOK(replay', seq', venue', unwritten', deep', blind')
    BY <2>1 DEF TapeInv
  <2>4. FlowSum(replay') = traded'
    BY <2>1 DEF TapeInv
  <2> QED  BY <2>1, <2>2, <2>3, <2>4 DEF TapeInv, Deep, Levels
<1> QED  BY <1>1, <1>2, <1>3, <1>4, <1>5, <1>6 DEF TapeNext

\* The invariant of the tape implies what is promised of it.
LEMMA TapeInvShows == TapeInv => TapesAreReplayed
BY DEF TapeInv, TapesAreReplayed, ReplayIsTheBook, FlowIsCountedOnce, BookOK, SnapshotOK, FlowSum

\* For any books, trades, caps, reconnections, restarts and files that begin in
\* mid-session: what is replayed is what happened (lob.py build_panel).
THEOREM TapesAlwaysReplayed == TapeSpec => []TapesAreReplayed
<1>1. TapeSpec => []TapeInv
  BY TapeInvInit, TapeInvNext, PTL DEF TapeSpec
<1> QED  BY <1>1, TapeInvShows, PTL

-----------------------------------------------------------------------------
(* Downloads that are kept (DownloadCaches).  Files of company facts.      *)

\* A load has real facts of all it has passed, but for what was refused, and
\* what it writes was said.
LoaderOK(l, given, denied) ==
  /\ l.got \subseteq given \cap ListedFiles
  /\ \A j \in 1 .. Len(Wanted) :
        j < l.k /\ Wanted[j] \in ListedFiles /\ Wanted[j] \notin denied => Wanted[j] \in l.got
  /\ l.at = "done" => l.k > Len(Wanted)
  /\ l.at \in {"ask"} \cup Parsed => l.k =< Len(Wanted) /\ Wanted[l.k] \in ListedFiles
  /\ l.at = "facts" => Wanted[l.k] \in given
  /\ l.at = "empty" => Wanted[l.k] \in denied

FactsInv ==
  /\ FactsTypeOK
  /\ FilesAreAnswers
  /\ \A p \in Loaders : LoaderOK(loader[p], gave, refused)
  /\ TornForACause

\* The list of files a load goes through.
LEMMA WantedIs ==
  /\ Wanted \in Seq(Files) /\ Len(Wanted) = Len(Tickers) + 1 /\ Len(Wanted) \in Nat
  /\ \A j \in 1 .. Len(Wanted) : Wanted[j] \in Files
  /\ \A i \in DOMAIN Tickers : i + 1 \in 1 .. Len(Wanted) /\ Wanted[i + 1] = Tickers[i]
<1>1. Tickers \in Seq(Files) /\ <<CikMap>> \in Seq(Files) /\ Len(<<CikMap>>) = 1
  BY DownloadAssumption DEF Files
<1> HIDE DEF CikMap
<1>2. Wanted \in Seq(Files) /\ Len(Wanted) = Len(Tickers) + 1
  BY <1>1 DEF Wanted
<1>3. ASSUME NEW i \in DOMAIN Tickers PROVE i + 1 \in 1 .. Len(Wanted) /\ Wanted[i + 1] = Tickers[i]
  BY <1>1, <1>2 DEF Wanted
<1> QED  BY <1>2, <1>3

\* What was said stays said.
LEMMA LoaderKept ==
  ASSUME NEW l, NEW g, NEW d, NEW g2, NEW d2, LoaderOK(l, g, d), g \subseteq g2, d \subseteq d2
  PROVE  LoaderOK(l, g2, d2)
  BY DEF LoaderOK

\* Nothing has been loaded.
LEMMA FactsInvInit == FactsInit => FactsInv
<1> SUFFICES ASSUME FactsInit PROVE FactsInv  OBVIOUS
<1>1. LoadFrom("idle", FALSE) \in Loader
  BY WantedIs, DownloadAssumption DEF LoadFrom, Loader, Ended
<1>2. FactsTypeOK
  <2>1. loader \in [Loaders -> Loader] /\ factFile \in [Files -> Content]
    BY <1>1 DEF FactsInit, Content
  <2>2. loadsBegun \in 0 .. MaxLoadsBegun
    BY DownloadAssumption DEF FactsInit
  <2> QED  BY <2>1, <2>2 DEF FactsInit, FactsTypeOK
<1>3. ASSUME NEW p \in Loaders PROVE LoaderOK(loader[p], gave, refused)
  BY WantedIs DEF FactsInit, LoaderOK, LoadFrom, Parsed
<1>4. FilesAreAnswers /\ TornForACause
  BY DEF FactsInit, FilesAreAnswers, TornForACause
<1> QED  BY <1>2, <1>3, <1>4 DEF FactsInv

\* One loader p goes from l to l2.
LEMMA LoaderMoves ==
  ASSUME FactsInv, NEW p \in Loaders, NEW l2, loader' = [loader EXCEPT ![p] = l2],
         l2 \in Loader, LoaderOK(l2, gave', refused'),
         gave \subseteq gave', refused \subseteq refused'
  PROVE  /\ loader' \in [Loaders -> Loader] /\ loader'[p] = l2
         /\ \A q \in Loaders \ {p} : loader'[q] = loader[q]
         /\ \A q \in Loaders : LoaderOK(loader'[q], gave', refused')
<1>1. loader \in [Loaders -> Loader]
  BY DEF FactsInv, FactsTypeOK
<1>2. /\ loader' \in [Loaders -> Loader] /\ loader'[p] = l2
      /\ \A q \in Loaders \ {p} : loader'[q] = loader[q]
  BY <1>1
<1>3. ASSUME NEW q \in Loaders PROVE LoaderOK(loader'[q], gave', refused')
  <2>1. CASE q = p  BY <2>1, <1>2
  <2>2. CASE q # p
    <3>1. LoaderOK(loader[q], gave, refused) /\ loader'[q] = loader[q]
      BY <2>2, <1>2 DEF FactsInv
    <3> QED  BY <3>1, LoaderKept
  <2> QED  BY <2>1, <2>2
<1> QED  BY <1>2, <1>3

\* As `Becomes` leaves p.
LEMMA Became ==
  ASSUME FactsInv, NEW p \in Loaders, NEW at \in Ended \cup {"look", "ask"} \cup Parsed, Becomes(p, at)
  PROVE  \E l2 \in Loader : /\ loader' = [loader EXCEPT ![p] = l2]
                            /\ l2.at = at /\ l2.k = loader[p].k /\ l2.got = loader[p].got
<1>1. loader \in [Loaders -> Loader] /\ loader[p] \in Loader
  BY DEF FactsInv, FactsTypeOK
<1>2. [loader[p] EXCEPT !.at = at] \in Loader
  BY <1>1 DEF Loader
<1>3. loader' = [loader EXCEPT ![p] = [loader[p] EXCEPT !.at = at]]
  BY <1>1 DEF Becomes
<1> QED  BY <1>1, <1>2, <1>3 DEF Loader

\* As `MovesOn` leaves p.
LEMMA Moved ==
  ASSUME FactsInv, NEW p \in Loaders, NEW content, MovesOn(p, content), loader[p].k =< Len(Wanted)
  PROVE  \E l2 \in Loader :
            /\ loader' = [loader EXCEPT ![p] = l2]
            /\ l2.at = "look" /\ l2.k = loader[p].k + 1
            /\ l2.got = IF content = "facts" THEN loader[p].got \cup {File(p)} ELSE loader[p].got
<1>1. loader \in [Loaders -> Loader] /\ loader[p] \in Loader
  BY DEF FactsInv, FactsTypeOK
<1>2. File(p) \in Files /\ loader[p].k + 1 \in 1 .. Len(Tickers) + 2
  BY <1>1, WantedIs, DownloadAssumption DEF File, Loader
<1> DEFINE l2 == [at |-> "look", k |-> loader[p].k + 1, refresh |-> loader[p].refresh, tries |-> 0,
                  got |-> IF content = "facts" THEN loader[p].got \cup {File(p)} ELSE loader[p].got]
<1>3. l2.got \in SUBSET Files /\ l2.refresh \in BOOLEAN /\ 0 \in 0 .. Attempts
  BY <1>1, <1>2, DownloadAssumption DEF Loader
<1>4. l2 \in Loader
  BY <1>2, <1>3 DEF Loader
<1>5. loader' = [loader EXCEPT ![p] = l2]
  BY <1>1 DEF MovesOn
<1> QED  BY <1>4, <1>5

\* The files: what is put into one of them.
LEMMA FileChanges ==
  ASSUME FactsInv, NEW f \in Files, NEW content \in Content,
         factFile' = [factFile EXCEPT ![f] = content],
         gave \subseteq gave', refused \subseteq refused',
         content = "facts" => f \in gave', content = "empty" => f \in refused'
  PROVE  factFile' \in [Files -> Content] /\ FilesAreAnswers'
<1>1. factFile \in [Files -> Content]
  BY DEF FactsInv, FactsTypeOK
<1>2. factFile' \in [Files -> Content]
  BY <1>1
<1>3. ASSUME NEW g \in Files
      PROVE  /\ factFile'[g] = "facts" => g \in gave'
             /\ factFile'[g] = "empty" => g \in refused'
  BY <1>1 DEF FactsInv, FilesAreAnswers
<1> QED  BY <1>2, <1>3 DEF FilesAreAnswers

\* A step that leaves the files alone, takes no writer away and takes back
\* nothing that was said.
LEMMA TornStays ==
  ASSUME FactsInv, UNCHANGED <<factFile, gave, refused, broken>>, NEW p \in Loaders, ~Writes(p),
         \A q \in Loaders \ {p} : loader'[q] = loader[q]
  PROVE  FilesAreAnswers' /\ TornForACause'
<1>1. factFile' = factFile /\ gave' = gave /\ refused' = refused /\ broken' = broken
  OBVIOUS
<1>2. ASSUME NEW f \in Files, factFile'[f] = "torn"
      PROVE  \/ f \in broken' \/ f \in gave' \cap refused'
             \/ \E q \in Loaders : Writes(q)' /\ File(q)' = f
  <2>1. CASE \E q \in Loaders : Writes(q) /\ File(q) = f
    <3>1. PICK q \in Loaders : Writes(q) /\ File(q) = f
      BY <2>1
    <3>2. q # p /\ loader'[q] = loader[q]
      BY <3>1
    <3>3. Writes(q)' /\ File(q)' = f
      BY <3>1, <3>2 DEF Writes, File
    <3> QED  BY <3>3
  <2>2. CASE f \in broken \/ f \in gave \cap refused
    BY <2>2, <1>1
  <2> QED  BY <2>1, <2>2, <1>1, <1>2 DEF FactsInv, TornForACause
<1> QED  BY <1>1, <1>2 DEF FactsInv, FilesAreAnswers, TornForACause

\* Such a step of one loader.
LEMMA LoaderSteps ==
  ASSUME FactsInv, UNCHANGED <<factFile, gave, refused, broken>>, NEW p \in Loaders, ~Writes(p),
         NEW l2 \in Loader, loader' = [loader EXCEPT ![p] = l2], LoaderOK(l2, gave, refused),
         loadsBegun' \in 0 .. MaxLoadsBegun
  PROVE  FactsInv'
<1>1. factFile' = factFile /\ gave' = gave /\ refused' = refused /\ broken' = broken
  OBVIOUS
<1>2. LoaderOK(l2, gave', refused')
  BY <1>1
<1>3. /\ loader' \in [Loaders -> Loader]
      /\ \A q \in Loaders \ {p} : loader'[q] = loader[q]
      /\ \A q \in Loaders : LoaderOK(loader'[q], gave', refused')
  BY <1>1, <1>2, LoaderMoves
<1>4. FilesAreAnswers' /\ TornForACause'
  BY <1>3, TornStays
<1>5. FactsTypeOK'
  BY <1>1, <1>3 DEF FactsInv, FactsTypeOK
<1> QED  BY <1>3, <1>4, <1>5 DEF FactsInv

\* A step that opens or leaves the file f of p.
LEMMA FilesStep ==
  ASSUME FactsInv, NEW p \in Loaders, File(p) \in Files, NEW l2 \in Loader,
         loader' = [loader EXCEPT ![p] = l2],
         NEW content \in Content, factFile' = [factFile EXCEPT ![File(p)] = content],
         LoaderOK(l2, gave', refused'), loadsBegun' = loadsBegun,
         gave \subseteq gave', refused \subseteq refused', broken \subseteq broken',
         gave' \subseteq Files, refused' \subseteq Files, broken' \subseteq Files,
         content = "facts" => File(p) \in gave', content = "empty" => File(p) \in refused',
         content = "torn" => \/ l2.at \in Parsed /\ l2.k = loader[p].k
                             \/ File(p) \in broken' \/ File(p) \in gave' \cap refused'
  PROVE  FactsInv'
<1>1. /\ loader' \in [Loaders -> Loader] /\ loader'[p] = l2
      /\ \A q \in Loaders \ {p} : loader'[q] = loader[q]
      /\ \A q \in Loaders : LoaderOK(loader'[q], gave', refused')
  BY LoaderMoves
<1>2. factFile' \in [Files -> Content] /\ FilesAreAnswers'
  BY FileChanges
<1>3. FactsTypeOK'
  BY <1>1, <1>2 DEF FactsInv, FactsTypeOK
<1>4. factFile \in [Files -> Content]
  BY DEF FactsInv, FactsTypeOK
<1>5. ASSUME NEW f \in Files, factFile'[f] = "torn"
      PROVE  \/ f \in broken' \/ f \in gave' \cap refused'
             \/ \E q \in Loaders : Writes(q)' /\ File(q)' = f
  <2>1. CASE f = File(p)
    <3>1. content = "torn"
      BY <2>1, <1>4, <1>5
    <3>2. l2.at \in Parsed /\ l2.k = loader[p].k => Writes(p)' /\ File(p)' = f
      BY <2>1, <1>1 DEF Writes, File
    <3> QED  BY <3>1, <3>2, <2>1
  <2>2. CASE f # File(p)
    <3>1. factFile[f] = "torn"
      BY <2>2, <1>4, <1>5
    <3>2. CASE \E q \in Loaders : Writes(q) /\ File(q) = f
      <4>1. PICK q \in Loaders : Writes(q) /\ File(q) = f
        BY <3>2
      <4>2. q # p /\ loader'[q] = loader[q]
        BY <4>1, <2>2, <1>1
      <4>3. Writes(q)' /\ File(q)' = f
        BY <4>1, <4>2 DEF Writes, File
      <4> QED  BY <4>3
    <3> QED  BY <3>1, <3>2 DEF FactsInv, TornForACause
  <2> QED  BY <2>1, <2>2
<1>6. TornForACause'
  BY <1>5 DEF TornForACause
<1> QED  BY <1>1, <1>2, <1>3, <1>6 DEF FactsInv

\* The file p is at.
LEMMA AtFile ==
  ASSUME FactsInv, NEW p \in Loaders
  PROVE  /\ loader[p] \in Loader /\ LoaderOK(loader[p], gave, refused)
         /\ loader[p].k \in Nat \ {0}
         /\ Looks(p) \/ Requesting(p) \/ Writes(p) =>
               loader[p].k \in 1 .. Len(Wanted) /\ File(p) \in Files
<1>1. loader[p] \in Loader /\ LoaderOK(loader[p], gave, refused)
  BY DEF FactsInv, FactsTypeOK
<1>2. loader[p].k \in Nat \ {0}
  BY <1>1, WantedIs DEF Loader
<1>3. Looks(p) \/ Requesting(p) \/ Writes(p) => loader[p].k =< Len(Wanted)
  BY <1>1 DEF Looks, Requesting, Writes, LoaderOK
<1>4. Looks(p) \/ Requesting(p) \/ Writes(p) => loader[p].k \in 1 .. Len(Wanted)
  BY <1>2, <1>3, WantedIs
<1> QED  BY <1>1, <1>2, <1>4, WantedIs DEF File

\* A load begins with the map, and without facts.
LEMMA LoadBeginsInv ==
  ASSUME FactsInv, NEW p \in Loaders, NEW refresh \in BOOLEAN, LoadBegins(p, refresh)
  PROVE  FactsInv'
<1>1. LoadFrom("look", refresh) \in Loader
  BY WantedIs, DownloadAssumption DEF LoadFrom, Loader
<1>2. LoaderOK(LoadFrom("look", refresh), gave, refused)
  BY WantedIs DEF LoaderOK, LoadFrom, Parsed
<1>3. loader' = [loader EXCEPT ![p] = LoadFrom("look", refresh)] /\ ~Writes(p)
  BY DEF LoadBegins, Writes, Parsed, Ended
<1>4. loadsBegun' \in 0 .. MaxLoadsBegun
  BY DownloadAssumption DEF LoadBegins, FactsInv, FactsTypeOK
<1>5. UNCHANGED <<factFile, gave, refused, broken>>
  BY DEF LoadBegins
<1> QED  BY <1>1, <1>2, <1>3, <1>4, <1>5, LoaderSteps

\* A loader that stays at its file.
LEMMA Stays ==
  ASSUME FactsInv, NEW p \in Loaders, ~Writes(p), NEW at \in Ended \cup {"look", "ask"},
         Becomes(p, at), UNCHANGED <<factFile, loadsBegun, gave, refused, broken>>,
         at = "done" => loader[p].k > Len(Wanted),
         at = "ask" => loader[p].k =< Len(Wanted) /\ File(p) \in ListedFiles
  PROVE  FactsInv'
<1>1. PICK l2 \in Loader : /\ loader' = [loader EXCEPT ![p] = l2]
                           /\ l2.at = at /\ l2.k = loader[p].k /\ l2.got = loader[p].got
  BY Became
<1>2. LoaderOK(loader[p], gave, refused)
  BY AtFile
<1>3. LoaderOK(l2, gave, refused)
  BY <1>1, <1>2 DEF LoaderOK, Parsed, Ended, File
<1>4. loadsBegun' \in 0 .. MaxLoadsBegun
  BY DEF FactsInv, FactsTypeOK
<1> QED  BY <1>1, <1>3, <1>4, LoaderSteps

\* It is over when it has been through all files.
LEMMA LoadEndsInv ==
  ASSUME FactsInv, NEW p \in Loaders, LoadEnds(p)
  PROVE  FactsInv'
<1>1. ~Writes(p) /\ "done" \in Ended /\ Becomes(p, "done") /\ loader[p].k > Len(Wanted)
  BY DEF LoadEnds, Writes, Parsed, Ended
<1>2. UNCHANGED <<factFile, loadsBegun, gave, refused, broken>>
  BY DEF LoadEnds
<1> QED  BY <1>1, <1>2, Stays

\* A file that is not there is asked for.
LEMMA CacheMissInv ==
  ASSUME FactsInv, NEW p \in Loaders, CacheMiss(p)
  PROVE  FactsInv'
<1>1. ~Writes(p) /\ Becomes(p, "ask") /\ loader[p].k =< Len(Wanted) /\ File(p) \in ListedFiles
  BY DEF CacheMiss, Looks, Writes, Parsed
<1>2. UNCHANGED <<factFile, loadsBegun, gave, refused, broken>>
  BY DEF CacheMiss
<1> QED  BY <1>1, <1>2, Stays

\* A request that fails leaves the files as they were.
LEMMA FetchFailsInv ==
  ASSUME FactsInv, NEW p \in Loaders, FetchFails(p)
  PROVE  FactsInv'
<1>1. ~Writes(p) /\ Becomes(p, "raised") /\ "raised" \in Ended
  BY DEF FetchFails, Requesting, Writes, Parsed, Ended
<1>2. UNCHANGED <<factFile, loadsBegun, gave, refused, broken>>
  BY DEF FetchFails
<1> QED  BY <1>1, <1>2, Stays

\* A loader moves on, with facts the server gave, or refused.
LEMMA MovesWell ==
  ASSUME FactsInv, NEW p \in Loaders, loader[p].k \in 1 .. Len(Wanted), NEW content, MovesOn(p, content),
         content = "facts" => File(p) \in gave \cap ListedFiles,
         File(p) \in ListedFiles \ refused => content = "facts"
  PROVE  \E l2 \in Loader : loader' = [loader EXCEPT ![p] = l2] /\ LoaderOK(l2, gave, refused)
<1>1. LoaderOK(loader[p], gave, refused) /\ loader[p].k =< Len(Wanted)
  BY AtFile, WantedIs
<1>2. PICK l2 \in Loader :
            /\ loader' = [loader EXCEPT ![p] = l2]
            /\ l2.at = "look" /\ l2.k = loader[p].k + 1
            /\ l2.got = IF content = "facts" THEN loader[p].got \cup {File(p)} ELSE loader[p].got
  BY <1>1, Moved
<1>3. l2.got \subseteq gave \cap ListedFiles
  BY <1>1, <1>2 DEF LoaderOK
<1>4. ASSUME NEW j \in 1 .. Len(Wanted), j < l2.k, Wanted[j] \in ListedFiles, Wanted[j] \notin refused
      PROVE  Wanted[j] \in l2.got
  <2>1. j < loader[p].k \/ j = loader[p].k
    BY <1>1, <1>2, <1>4, WantedIs
  <2>2. CASE j < loader[p].k
    BY <2>2, <1>4, <1>1, <1>2 DEF LoaderOK
  <2>3. CASE j = loader[p].k
    BY <2>3, <1>4, <1>2 DEF File
  <2> QED  BY <2>1, <2>2, <2>3
<1>5. LoaderOK(l2, gave, refused)
  BY <1>3, <1>4, <1>2 DEF LoaderOK, Parsed
<1> QED  BY <1>2, <1>5

\* A loader moves on from a file without writing.
LEMMA Moves ==
  ASSUME FactsInv, NEW p \in Loaders, Looks(p), NEW content, MovesOn(p, content),
         UNCHANGED <<factFile, loadsBegun, gave, refused, broken>>,
         content = "facts" => File(p) \in gave \cap ListedFiles,
         File(p) \in ListedFiles \ refused => content = "facts"
  PROVE  FactsInv'
<1>1. loader[p].k \in 1 .. Len(Wanted) /\ ~Writes(p)
  BY AtFile DEF Looks, Writes, Parsed
<1>2. PICK l2 \in Loader : loader' = [loader EXCEPT ![p] = l2] /\ LoaderOK(l2, gave, refused)
  BY <1>1, MovesWell
<1>3. loadsBegun' \in 0 .. MaxLoadsBegun
  BY DEF FactsInv, FactsTypeOK
<1> QED  BY <1>1, <1>2, <1>3, LoaderSteps

\* A company that is not listed is passed over.
LEMMA CompanySkippedInv ==
  ASSUME FactsInv, NEW p \in Loaders, CompanySkipped(p)
  PROVE  FactsInv'
<1>1. Looks(p) /\ File(p) \notin ListedFiles /\ MovesOn(p, "absent")
  BY DEF CompanySkipped
<1>2. UNCHANGED <<factFile, loadsBegun, gave, refused, broken>>
  BY DEF CompanySkipped
<1> QED  BY <1>1, <1>2, Moves

\* What a file holds was said once.
LEMMA CacheHitInv ==
  ASSUME FactsInv, NEW p \in Loaders, CacheHit(p)
  PROVE  FactsInv'
<1>1. Looks(p) /\ File(p) \in ListedFiles /\ File(p) \in Files /\ ~Writes(p)
  BY AtFile DEF CacheHit, Looks, Writes, Parsed
<1>2. UNCHANGED <<factFile, loadsBegun, gave, refused, broken>>
  BY DEF CacheHit
<1>3. CASE factFile[File(p)] = "torn"
  <2>1. Becomes(p, "raised") /\ "raised" \in Ended
    BY <1>3 DEF CacheHit, Ended
  <2> QED  BY <1>1, <1>2, <2>1, Stays
<1>4. CASE factFile[File(p)] # "torn"
  <2>1. MovesOn(p, factFile[File(p)])
    BY <1>4 DEF CacheHit
  <2>2. factFile[File(p)] \in Parsed
    BY <1>1, <1>4 DEF CacheHit, FactsInv, FactsTypeOK, Content
  <2>3. /\ factFile[File(p)] = "facts" => File(p) \in gave
        /\ factFile[File(p)] = "empty" => File(p) \in refused
    BY <1>1 DEF FactsInv, FilesAreAnswers
  <2>4. File(p) \in ListedFiles \ refused => factFile[File(p)] = "facts"
    BY <2>2, <2>3 DEF Parsed
  <2> HIDE DEF File
  <2> QED  BY <1>1, <1>2, <2>1, <2>3, <2>4, Moves
<1> QED  BY <1>3, <1>4

\* A request that was rate-limited is only counted.
LEMMA BusyInv ==
  ASSUME FactsInv, NEW p \in Loaders, Busy(p)
  PROVE  FactsInv'
<1>1. /\ loader \in [Loaders -> Loader] /\ loader[p] \in Loader
      /\ LoaderOK(loader[p], gave, refused) /\ ~Writes(p)
  BY AtFile DEF FactsInv, FactsTypeOK, Busy, Requesting, Writes, Parsed
<1> DEFINE l2 == [loader[p] EXCEPT !.tries = loader[p].tries + 1]
<1>2. loader[p].tries + 1 \in 0 .. Attempts
  BY <1>1, DownloadAssumption DEF Busy, Loader
<1>3. l2 \in Loader
  BY <1>1, <1>2 DEF Loader
<1>4. loader' = [loader EXCEPT ![p] = l2]
  BY <1>1 DEF Busy
<1>5. l2.at = loader[p].at /\ l2.k = loader[p].k /\ l2.got = loader[p].got
  BY <1>1 DEF Loader
<1> HIDE DEF l2
<1>6. LoaderOK(l2, gave, refused)
  BY <1>1, <1>5 DEF LoaderOK
<1>7. UNCHANGED <<factFile, gave, refused, broken>> /\ loadsBegun' \in 0 .. MaxLoadsBegun
  BY DEF Busy, FactsInv, FactsTypeOK
<1> QED  BY <1>1, <1>3, <1>4, <1>6, <1>7, LoaderSteps

\* Facts that were given: their file is torn while they are written.
LEMMA FactsGivenInv ==
  ASSUME FactsInv, NEW p \in Loaders, FactsGiven(p)
  PROVE  FactsInv'
<1>1. /\ loader[p] \in Loader /\ LoaderOK(loader[p], gave, refused) /\ File(p) \in Files
      /\ loader[p].at = "ask"
  BY AtFile DEF FactsGiven, Requesting
<1>2. /\ gave' = gave \cup {File(p)} /\ refused' = refused /\ broken' = broken
      /\ loadsBegun' = loadsBegun /\ Becomes(p, "facts")
      /\ factFile' = [factFile EXCEPT ![File(p)] = "torn"]
  BY DEF FactsGiven, Truncated
<1>3. PICK l2 \in Loader : /\ loader' = [loader EXCEPT ![p] = l2]
                           /\ l2.at = "facts" /\ l2.k = loader[p].k /\ l2.got = loader[p].got
  BY <1>2, Became DEF Parsed
<1>4. LoaderOK(l2, gave', refused')
  BY <1>1, <1>2, <1>3 DEF LoaderOK, Parsed, File
<1>5. gave \subseteq Files /\ refused \subseteq Files /\ broken \subseteq Files
  BY DEF FactsInv, FactsTypeOK
<1>6. "torn" \in Content /\ l2.at \in Parsed
  BY <1>3 DEF Content, Parsed
<1> HIDE DEF File
<1> QED  BY <1>1, <1>2, <1>3, <1>4, <1>5, <1>6, FilesStep

\* So is that of a company without facts.
LEMMA NoFactsInv ==
  ASSUME FactsInv, NEW p \in Loaders, NoFacts(p)
  PROVE  FactsInv'
<1>1. /\ loader[p] \in Loader /\ LoaderOK(loader[p], gave, refused) /\ File(p) \in Files
      /\ loader[p].at = "ask"
  BY AtFile DEF NoFacts, Requesting
<1>2. /\ refused' = refused \cup {File(p)} /\ gave' = gave /\ broken' = broken
      /\ loadsBegun' = loadsBegun /\ Becomes(p, "empty")
      /\ factFile' = [factFile EXCEPT ![File(p)] = "torn"]
  BY DEF NoFacts, Truncated
<1>3. PICK l2 \in Loader : /\ loader' = [loader EXCEPT ![p] = l2]
                           /\ l2.at = "empty" /\ l2.k = loader[p].k /\ l2.got = loader[p].got
  BY <1>2, Became DEF Parsed
<1>4. LoaderOK(l2, gave', refused')
  BY <1>1, <1>2, <1>3 DEF LoaderOK, Parsed, File
<1>5. gave \subseteq Files /\ refused \subseteq Files /\ broken \subseteq Files
  BY DEF FactsInv, FactsTypeOK
<1>6. "torn" \in Content /\ l2.at \in Parsed
  BY <1>3 DEF Content, Parsed
<1> HIDE DEF File
<1> QED  BY <1>1, <1>2, <1>3, <1>4, <1>5, <1>6, FilesStep

\* Written out, the file holds what was said, or what two answers have left.
LEMMA FactsWrittenInv ==
  ASSUME FactsInv, NEW p \in Loaders, FactsWritten(p), NEW what, what = loader[p].at
  PROVE  FactsInv'
<1>1. /\ LoaderOK(loader[p], gave, refused) /\ File(p) \in Files /\ what \in Parsed
      /\ loader[p].k \in 1 .. Len(Wanted)
  BY AtFile DEF FactsWritten, Writes
<1> DEFINE content == Overwritten(factFile[File(p)], what)
<1>2. /\ refused' = refused /\ gave' = gave /\ broken' = broken /\ loadsBegun' = loadsBegun
      /\ MovesOn(p, what) /\ factFile' = [factFile EXCEPT ![File(p)] = content]
  BY <1>1 DEF FactsWritten, FactsInv, FactsTypeOK
<1>3. /\ what = "facts" => File(p) \in gave
      /\ what = "empty" => File(p) \in refused
      /\ File(p) \in ListedFiles
  BY <1>1 DEF LoaderOK, File, Parsed
<1>4. File(p) \in ListedFiles \ refused => what = "facts"
  BY <1>1, <1>3 DEF Parsed
<1>5. what = "facts" => File(p) \in gave \cap ListedFiles
  BY <1>3
<1>6. /\ content \in Content
      /\ content = "facts" => File(p) \in gave
      /\ content = "empty" => File(p) \in refused
      /\ content = "torn" => File(p) \in gave \cap refused
  <2>1. factFile[File(p)] = "facts" => File(p) \in gave
    BY <1>1 DEF FactsInv, FilesAreAnswers
  <2> QED  BY <2>1, <1>1, <1>3 DEF Overwritten, Content, Parsed
<1> HIDE DEF File, content
<1>7. PICK l2 \in Loader : loader' = [loader EXCEPT ![p] = l2] /\ LoaderOK(l2, gave, refused)
  BY <1>1, <1>2, <1>4, <1>5, MovesWell
<1>8. LoaderOK(l2, gave', refused')
  BY <1>2, <1>7
<1>9. gave \subseteq Files /\ refused \subseteq Files /\ broken \subseteq Files
  BY DEF FactsInv, FactsTypeOK
<1> QED  BY <1>1, <1>2, <1>6, <1>7, <1>8, <1>9, FilesStep

\* A process that dies over a file has left it broken.
LEMMA LoadKilledInv ==
  ASSUME FactsInv, NEW p \in Loaders, LoadKilled(p)
  PROVE  FactsInv'
<1>1. LoaderOK(loader[p], gave, refused) /\ loader[p] \in Loader
  BY AtFile
<1>2. /\ refused' = refused /\ gave' = gave /\ factFile' = factFile
      /\ loadsBegun' = loadsBegun /\ Becomes(p, "idle")
      /\ broken' = IF Writes(p) THEN broken \cup {File(p)} ELSE broken
  BY DEF LoadKilled
<1>3. PICK l2 \in Loader : /\ loader' = [loader EXCEPT ![p] = l2]
                           /\ l2.at = "idle" /\ l2.k = loader[p].k /\ l2.got = loader[p].got
  BY <1>2, Became DEF Ended
<1>4. LoaderOK(l2, gave', refused')
  BY <1>1, <1>2, <1>3 DEF LoaderOK, Parsed
<1>5. /\ loader' \in [Loaders -> Loader]
      /\ \A q \in Loaders \ {p} : loader'[q] = loader[q]
      /\ \A q \in Loaders : LoaderOK(loader'[q], gave', refused')
  BY <1>2, <1>3, <1>4, LoaderMoves
<1>6. broken \subseteq broken' /\ broken' \subseteq Files
  BY <1>2, AtFile DEF FactsInv, FactsTypeOK
<1>7. FactsTypeOK'
  BY <1>2, <1>5, <1>6 DEF FactsInv, FactsTypeOK
<1>8. FilesAreAnswers'
  BY <1>2 DEF FactsInv, FilesAreAnswers
<1>9. ASSUME NEW f \in Files, factFile'[f] = "torn"
      PROVE  \/ f \in broken' \/ f \in gave' \cap refused'
             \/ \E q \in Loaders : Writes(q)' /\ File(q)' = f
  <2>1. CASE \E q \in Loaders : Writes(q) /\ File(q) = f
    <3>1. PICK q \in Loaders : Writes(q) /\ File(q) = f
      BY <2>1
    <3>2. CASE q = p
      BY <3>1, <3>2, <1>2
    <3>3. CASE q # p
      <4>1. Writes(q)' /\ File(q)' = f
        BY <3>1, <3>3, <1>5 DEF Writes, File
      <4> QED  BY <4>1
    <3> QED  BY <3>2, <3>3
  <2>2. CASE f \in broken \/ f \in gave \cap refused
    BY <2>2, <1>2, <1>6
  <2> QED  BY <2>1, <2>2, <1>2, <1>9 DEF FactsInv, TornForACause
<1> QED  BY <1>5, <1>7, <1>8, <1>9 DEF FactsInv, TornForACause

\* No step of a load breaks what holds of the files of facts.
LEMMA FactsInvNext == FactsInv /\ [FactsNext]_factVars => FactsInv'
<1> SUFFICES ASSUME FactsInv, [FactsNext]_factVars PROVE FactsInv'  OBVIOUS
<1>1. ASSUME NEW p \in Loaders,
             \/ \E refresh \in BOOLEAN : LoadBegins(p, refresh)
             \/ LoadEnds(p) \/ LoadKilled(p) \/ CompanySkipped(p) \/ CacheHit(p) \/ CacheMiss(p)
             \/ FactsGiven(p) \/ NotFound(p) \/ LastTimeBusy(p) \/ Busy(p) \/ FetchFails(p)
             \/ FactsWritten(p)
      PROVE  FactsInv'
  <2>1. ASSUME NEW refresh \in BOOLEAN, LoadBegins(p, refresh) PROVE FactsInv'
    BY <2>1, LoadBeginsInv
  <2>2. CASE LoadEnds(p)  BY <2>2, LoadEndsInv
  <2>3. CASE LoadKilled(p)  BY <2>3, LoadKilledInv
  <2>4. CASE CompanySkipped(p)  BY <2>4, CompanySkippedInv
  <2>5. CASE CacheHit(p)  BY <2>5, CacheHitInv
  <2>6. CASE CacheMiss(p)  BY <2>6, CacheMissInv
  <2>7. CASE FactsGiven(p)  BY <2>7, FactsGivenInv
  <2>8. CASE NotFound(p) \/ LastTimeBusy(p)
    <3>1. NoFacts(p)
      BY <2>8 DEF NotFound, LastTimeBusy
    <3> QED  BY <3>1, NoFactsInv
  <2>9. CASE Busy(p)  BY <2>9, BusyInv
  <2>10. CASE FetchFails(p)  BY <2>10, FetchFailsInv
  <2>11. CASE FactsWritten(p)  BY <2>11, FactsWrittenInv
  <2> QED
    BY <1>1, <2>1, <2>2, <2>3, <2>4, <2>5, <2>6, <2>7, <2>8, <2>9, <2>10, <2>11
<1>2. CASE FactsNext  BY <1>1, <1>2 DEF FactsNext
<1>3. CASE UNCHANGED factVars
  <2>1. /\ factFile' = factFile /\ loader' = loader /\ loadsBegun' = loadsBegun
        /\ gave' = gave /\ refused' = refused /\ broken' = broken
    BY <1>3 DEF factVars
  <2>2. FactsTypeOK' /\ FilesAreAnswers'
    BY <2>1 DEF FactsInv, FactsTypeOK, FilesAreAnswers
  <2>3. TornForACause'
    BY <2>1 DEF FactsInv, TornForACause, Writes, File
  <2>4. \A p \in Loaders : LoaderOK(loader'[p], gave', refused')
    BY <2>1 DEF FactsInv
  <2> QED  BY <2>2, <2>3, <2>4 DEF FactsInv
<1> QED  BY <1>2, <1>3

\* A load that has ended has been through every file, and has what it was not refused.
LEMMA FactsInvShows == FactsInv => FactsTypeOK /\ FilesAreAnswers /\ LoadsAreResumed /\ TornForACause
<1> SUFFICES ASSUME FactsInv PROVE LoadsAreResumed  BY DEF FactsInv
<1>1. ASSUME NEW p \in Loaders, loader[p].at = "done"
      PROVE  /\ loader[p].got \subseteq gave \cap ListedFiles
             /\ \A i \in DOMAIN Tickers : Tickers[i] \in Known \ refused => Tickers[i] \in loader[p].got
  <2>1. LoaderOK(loader[p], gave, refused) /\ loader[p].k \in Nat \ {0}
    BY AtFile
  <2>2. loader[p].got \subseteq gave \cap ListedFiles /\ loader[p].k > Len(Wanted)
    BY <2>1, <1>1 DEF LoaderOK
  <2>3. ASSUME NEW i \in DOMAIN Tickers, Tickers[i] \in Known \ refused
        PROVE  Tickers[i] \in loader[p].got
    <3>1. i + 1 \in 1 .. Len(Wanted) /\ Wanted[i + 1] = Tickers[i]
      BY WantedIs
    <3>2. i + 1 < loader[p].k
      BY <3>1, <2>1, <2>2, WantedIs
    <3>3. Wanted[i + 1] \in ListedFiles
      BY <3>1, <2>3 DEF ListedFiles
    <3> QED  BY <3>1, <3>2, <3>3, <2>1, <2>3 DEF LoaderOK
  <2> QED  BY <2>2, <2>3
<1> QED  BY <1>1 DEF LoadsAreResumed

-----------------------------------------------------------------------------
(* Bars.                                                                   *)
BarsInv == BarsTypeOK /\ PagesComeOnce

\* No page has come yet.
LEMMA BarsInvInit == BarsInit => BarsInv
<1> SUFFICES ASSUME BarsInit PROVE BarsInv  OBVIOUS
<1>1. 1 .. token - 1 = {}
  BY DEF BarsInit
<1>2. [i \in 1 .. token - 1 |-> i] = <<>>
  BY <1>1
<1> QED  BY <1>2, DownloadAssumption DEF BarsInit, BarsInv, BarsTypeOK, PagesComeOnce

\* A page comes after the ones before it.
LEMMA BarsInvNext == BarsInv /\ [BarsNext]_barVars => BarsInv'
<1> SUFFICES ASSUME BarsInv, [BarsNext]_barVars PROVE BarsInv'  OBVIOUS
<1>0. token \in 1 .. Pages + 1 /\ received \in Seq(1 .. Pages) /\ waits \in 0 .. MaxWaits
  BY DEF BarsInv, BarsTypeOK
<1>1. CASE Turn
  <2>1. token \in 1 .. Pages /\ token' = token + 1 /\ received' = Append(received, token) /\ waits' = waits
    BY <1>0, <1>1, DownloadAssumption DEF Turn
  <2>2. BarsTypeOK'
    BY <1>0, <2>1, DownloadAssumption DEF BarsTypeOK
  <2>3. received = [i \in 1 .. token - 1 |-> i] /\ Len(received) = token - 1
    BY <1>0 DEF BarsInv, PagesComeOnce
  <2>4. /\ received' \in Seq(1 .. Pages) /\ Len(received') = token
        /\ \A i \in 1 .. token : received'[i] = i
    BY <1>0, <2>1, <2>3
  <2>5. received' = [i \in 1 .. token |-> i]
    <3>1. DOMAIN received' = 1 .. token
      BY <2>1, <2>4
    <3>2. received' = [i \in 1 .. token |-> received'[i]]
      BY <2>4, <3>1
    <3> QED  BY <3>2, <2>4
  <2>6. token' - 1 = token
    BY <2>1
  <2>7. PagesComeOnce'
    BY <2>5, <2>6 DEF PagesComeOnce
  <2> QED  BY <2>2, <2>7 DEF BarsInv
<1>2. CASE Throttled
  BY <1>0, <1>2, DownloadAssumption DEF Throttled, BarsInv, BarsTypeOK, PagesComeOnce
<1>3. CASE UNCHANGED barVars
  BY <1>0, <1>3 DEF barVars, BarsInv, BarsTypeOK, PagesComeOnce
<1> QED  BY <1>1, <1>2, <1>3 DEF BarsNext

-----------------------------------------------------------------------------
(* Panels.  `Whole(n)`: the files are of the n-th run, but for a last one   *)
(* that was broken off.                                                    *)
Whole(n) ==
  /\ \A i \in PanelFiles : i < NumPanels => onDisk[i] = n
  /\ onDisk[NumPanels] \in {n, Torn}

\* A script that downloads alone has so far put down its own files, and no other
\* does; not alone, the files count as mixed.  A reader that found them whole and
\* has not been disturbed goes through files nobody writes.
ScriptOK(s) ==
  /\ Downloads(s) => script[s].run \in 1 .. MaxRuns
  /\ Downloads(s) /\ script[s].alone =>
        /\ ~OtherDownloads(s)
        /\ \A i \in PanelFiles : i < script[s].k => onDisk[i] = script[s].run
        /\ script[s].at = "fill" => onDisk[script[s].k] = Torn
  /\ Downloads(s) /\ ~script[s].alone => mixed
  /\ script[s].at = "read" /\ script[s].alone =>
        /\ ~mixed /\ Cached /\ \A r \in Scripts : ~Downloads(r)
        /\ \A i \in PanelFiles : i < script[s].k => script[s].seen[i] = onDisk[i] /\ onDisk[i] # Torn
  /\ script[s].at = "done" /\ script[s].alone =>
        \E run \in 1 .. MaxRuns : script[s].seen = [i \in PanelFiles |-> run]

\* Nobody has begun to write over the files that are there.
Untouched == \A r \in Scripts : Downloads(r) => script[r].at = "open" /\ script[r].k = 1

\* Unmixed files with a last one among them are of one download.
DiskOK == ~mixed /\ onDisk[NumPanels] # Absent /\ Untouched => \E n \in 1 .. MaxRuns : Whole(n)

PanelsInv == PanelsTypeOK /\ (\A s \in Scripts : ScriptOK(s)) /\ DiskOK

\* A run that begins.
LEMMA RunBegins ==
  ASSUME NEW at \in Ended \cup Downloading \cup {"read"}, NEW run \in 0 .. MaxRuns, NEW alone \in BOOLEAN
  PROVE  /\ RunFrom(at, run, alone) \in Script
         /\ RunFrom(at, run, alone).at = at /\ RunFrom(at, run, alone).k = 1
         /\ RunFrom(at, run, alone).run = run /\ RunFrom(at, run, alone).alone = alone
<1>1. NothingSeen \in [PanelFiles -> 0 .. MaxRuns] /\ 1 \in PanelFiles
  BY DownloadAssumption DEF NothingSeen, PanelFiles
<1> QED  BY <1>1 DEF RunFrom, Script

\* No panel has been downloaded.
LEMMA PanelsInvInit == PanelsInit => PanelsInv
<1> SUFFICES ASSUME PanelsInit PROVE PanelsInv  OBVIOUS
<1>1. NumPanels \in PanelFiles /\ 1 \in PanelFiles
  BY DownloadAssumption DEF PanelFiles
<1>2. 0 \in 0 .. MaxRuns /\ Absent \in Torn .. MaxRuns /\ "idle" \in Ended
  BY DownloadAssumption DEF Absent, Torn, Ended
<1>3. RunFrom("idle", 0, FALSE) \in Script
  BY <1>2, RunBegins
<1>4. PanelsTypeOK
  <2> HIDE DEF Absent, Torn
  <2> QED  BY <1>2, <1>3 DEF PanelsInit, PanelsTypeOK
<1>5. ASSUME NEW s \in Scripts PROVE ScriptOK(s)
  BY DEF PanelsInit, ScriptOK, RunFrom, Downloads, Downloading
<1>6. DiskOK
  BY <1>1 DEF PanelsInit, DiskOK
<1> QED  BY <1>4, <1>5, <1>6 DEF PanelsInv

\* What a script and the disk are.
LEMMA PanelTypes ==
  ASSUME PanelsInv, NEW s \in Scripts
  PROVE  /\ script \in [Scripts -> Script] /\ script[s] \in Script /\ ScriptOK(s)
         /\ script[s].at \in Ended \cup Downloading \cup {"read"}
         /\ script[s].k \in PanelFiles /\ script[s].k \in 1 .. NumPanels
         /\ script[s].run \in 0 .. MaxRuns /\ script[s].alone \in BOOLEAN
         /\ script[s].seen \in [PanelFiles -> 0 .. MaxRuns]
         /\ onDisk \in [PanelFiles -> Torn .. MaxRuns]
         /\ runs \in 0 .. MaxRuns /\ mixed \in BOOLEAN /\ NumPanels \in PanelFiles
         /\ NumPanels \in Nat /\ MaxRuns \in Nat
<1>1. NumPanels \in PanelFiles /\ NumPanels \in Nat /\ MaxRuns \in Nat
  BY DownloadAssumption DEF PanelFiles
<1>2. script \in [Scripts -> Script] /\ ScriptOK(s)
  BY DEF PanelsInv, PanelsTypeOK
<1>3. script[s] \in Script
  BY <1>2
<1>4. /\ script[s].at \in Ended \cup Downloading \cup {"read"}
      /\ script[s].k \in PanelFiles /\ script[s].run \in 0 .. MaxRuns
      /\ script[s].alone \in BOOLEAN /\ script[s].seen \in [PanelFiles -> 0 .. MaxRuns]
  BY <1>3 DEF Script
<1>5. script[s].k \in 1 .. NumPanels
  BY <1>4 DEF PanelFiles
<1> QED  BY <1>1, <1>2, <1>3, <1>4, <1>5 DEF PanelsInv, PanelsTypeOK

\* While s moves, another script keeps what holds of it.
LEMMA OtherScript ==
  ASSUME PanelsInv, NEW s \in Scripts, NEW r \in Scripts, r # s, script'[r] = script[r],
         \A q \in Scripts : Downloads(q)' => Downloads(q),
         \/ onDisk' = onDisk /\ mixed' = mixed
         \/ Downloads(s) /\ (mixed => mixed' \/ script[s].alone)
  PROVE  ScriptOK(r)'
<1>1. ScriptOK(r) /\ ScriptOK(s)
  BY DEF PanelsInv
<1>2. Downloads(r)' <=> Downloads(r)
  BY DEF Downloads
<1>3. OtherDownloads(r)' => OtherDownloads(r)
  BY DEF OtherDownloads
<1>4. CASE onDisk' = onDisk /\ mixed' = mixed
  <2>1. Cached => Cached'
    BY <1>4 DEF Cached
  <2> QED  BY <1>1, <1>2, <1>3, <1>4, <2>1 DEF ScriptOK
<1>5. CASE Downloads(s) /\ (mixed => mixed' \/ script[s].alone)
  <2>1. OtherDownloads(r)
    BY <1>5 DEF OtherDownloads
  <2>2. ~(Downloads(r) /\ script[r].alone)
    BY <2>1, <1>1 DEF ScriptOK
  <2>3. ~(script[r].at = "read" /\ script[r].alone)
    BY <1>5, <1>1 DEF ScriptOK
  <2>4. Downloads(r) => mixed'
    <3>1. Downloads(r) => mixed /\ OtherDownloads(s)
      BY <2>2, <1>1 DEF ScriptOK, OtherDownloads
    <3> QED  BY <3>1, <1>5, <1>1 DEF ScriptOK
  <2>5. Downloads(r) => script[r].run \in 1 .. MaxRuns
    BY <1>1 DEF ScriptOK
  <2>6. script[r].at = "done" /\ script[r].alone =>
          \E run \in 1 .. MaxRuns : script[r].seen = [i \in PanelFiles |-> run]
    BY <1>1 DEF ScriptOK
  <2> QED  BY <1>2, <2>2, <2>3, <2>4, <2>5, <2>6 DEF ScriptOK
<1> QED  BY <1>4, <1>5

\* Only s moves, to `now`.
LEMMA ScriptMoves ==
  ASSUME PanelsInv, NEW s \in Scripts, NEW now \in Script, script' = [script EXCEPT ![s] = now],
         now.at \in Downloading => Downloads(s),
         onDisk' \in [PanelFiles -> Torn .. MaxRuns], runs' \in 0 .. MaxRuns, mixed' \in BOOLEAN,
         \/ onDisk' = onDisk /\ mixed' = mixed
         \/ Downloads(s) /\ (mixed => mixed' \/ script[s].alone),
         ScriptOK(s)', DiskOK'
  PROVE  PanelsInv'
<1>1. script \in [Scripts -> Script]
  BY DEF PanelsInv, PanelsTypeOK
<1>2. script' \in [Scripts -> Script] /\ script'[s] = now
      /\ \A r \in Scripts \ {s} : script'[r] = script[r]
  BY <1>1
<1>3. \A q \in Scripts : Downloads(q)' => Downloads(q)
  BY <1>2 DEF Downloads
<1>4. ASSUME NEW r \in Scripts PROVE ScriptOK(r)'
  BY <1>2, <1>3, OtherScript
<1>5. PanelsTypeOK'
  BY <1>2 DEF PanelsTypeOK
<1> QED  BY <1>4, <1>5 DEF PanelsInv

\* A step that leaves the files alone and no download ends in.
LEMMA DiskStays ==
  ASSUME PanelsInv, onDisk' = onDisk, mixed' = mixed, Untouched' => Untouched
  PROVE  DiskOK'
  BY DEF PanelsInv, DiskOK, Whole

\* A reader begins: undisturbed if the files are unmixed and nobody downloads.
LEMMA CacheReadInv ==
  ASSUME PanelsInv, NEW s \in Scripts, CacheRead(s)
  PROVE  PanelsInv'
<1> DEFINE calm == ~mixed /\ ~OtherDownloads(s)
           now == RunFrom("read", 0, calm)
<1>1. 0 \in 0 .. MaxRuns /\ calm \in BOOLEAN
  BY PanelTypes
<1>2. /\ now \in Script /\ now.at = "read" /\ now.k = 1
      /\ now.alone = calm
  <2> HIDE DEF calm
  <2> QED  BY <1>1, RunBegins
<1>3. /\ script' = [script EXCEPT ![s] = now] /\ onDisk' = onDisk /\ mixed' = mixed
      /\ Cached /\ script[s].at \in Ended /\ runs' = runs + 1 /\ runs < MaxRuns
  BY DEF CacheRead
<1> HIDE DEF now
<1>4. runs' \in 0 .. MaxRuns /\ onDisk' \in [PanelFiles -> Torn .. MaxRuns] /\ mixed' \in BOOLEAN
  BY <1>3, PanelTypes
<1>5. ~Downloads(s)
  BY <1>3 DEF Downloads, Downloading, Ended
<1>6. script \in [Scripts -> Script]
  BY PanelTypes
<1>7. /\ script'[s] = now /\ ~Downloads(s)'
      /\ \A r \in Scripts \ {s} : script'[r] = script[r]
      /\ \A r \in Scripts : Downloads(r)' <=> Downloads(r)
  BY <1>2, <1>3, <1>5, <1>6 DEF Downloads, Downloading
<1>8. now.alone => ~mixed /\ \A r \in Scripts : ~Downloads(r)'
  BY <1>2, <1>7 DEF OtherDownloads
<1>9. ScriptOK(s)'
  <2>1. Cached'
    BY <1>3 DEF Cached
  <2>2. \A i \in PanelFiles : ~(i < now.k)
    BY <1>2 DEF PanelFiles
  <2> QED  BY <1>2, <1>3, <1>7, <1>8, <2>1, <2>2 DEF ScriptOK
<1>10. Untouched' => Untouched
  BY <1>5, <1>7 DEF Untouched
<1>11. DiskOK'
  BY <1>3, <1>10, DiskStays
<1>12. now.at \notin Downloading
  BY <1>2 DEF Downloading
<1> QED  BY <1>2, <1>3, <1>4, <1>9, <1>11, <1>12, ScriptMoves

\* A download begins: from now on nobody else is alone.
LEMMA DownloadedInv ==
  ASSUME PanelsInv, NEW s \in Scripts, NEW refresh \in BOOLEAN, Downloaded(s, refresh)
  PROVE  PanelsInv'
<1> DEFINE calm == ~OtherDownloads(s)
           now == RunFrom("open", runs + 1, calm)
<1>1. "open" \in Downloading /\ calm \in BOOLEAN
  BY DEF Downloading
<1>2. /\ runs + 1 \in 1 .. MaxRuns /\ runs' = runs + 1 /\ onDisk' = onDisk
      /\ mixed' = (mixed \/ OtherDownloads(s)) /\ script[s].at \in Ended
  BY PanelTypes DEF Downloaded
<1>3. /\ now \in Script /\ now.at = "open" /\ now.k = 1 /\ now.run = runs + 1
      /\ now.alone = calm
  <2>1. runs + 1 \in 0 .. MaxRuns
    BY <1>2, PanelTypes
  <2> HIDE DEF calm
  <2> QED  BY <1>1, <2>1, RunBegins
<1>4. script' = [r \in Scripts |-> IF r = s THEN now
                                   ELSE IF script[r].at \in Ended THEN script[r]
                                   ELSE [script[r] EXCEPT !.alone = FALSE]]
  BY DEF Downloaded
<1> HIDE DEF now
<1>5. ASSUME NEW r \in Scripts, r # s
      PROVE  /\ script'[r] \in Script /\ script'[r].at = script[r].at /\ script'[r].k = script[r].k
             /\ script'[r].run = script[r].run
             /\ script[r].at \in Ended => script'[r] = script[r]
             /\ script[r].at \notin Ended => ~script'[r].alone
  <2>1. script[r] \in Script
    BY PanelTypes
  <2>2. CASE script[r].at \in Ended
    BY <1>4, <1>5, <2>1, <2>2
  <2>3. CASE script[r].at \notin Ended
    <3>1. script'[r] = [script[r] EXCEPT !.alone = FALSE]
      BY <1>4, <1>5, <2>3
    <3> QED  BY <3>1, <2>1, <2>3 DEF Script
  <2> QED  BY <2>2, <2>3
<1>6. script'[s] = now
  BY <1>4
<1>7. script' \in [Scripts -> Script]
  <2>1. \A r \in Scripts : script'[r] \in Script
    BY <1>3, <1>5, <1>6
  <2>2. script' = [r \in Scripts |-> script'[r]]
    BY <1>4
  <2> QED  BY <2>1, <2>2
<1>8. PanelsTypeOK'
  <2>1. runs' \in 0 .. MaxRuns /\ mixed' \in BOOLEAN
    BY <1>2, PanelTypes
  <2>2. onDisk' \in [PanelFiles -> Torn .. MaxRuns]
    BY <1>2, PanelTypes
  <2> QED  BY <1>7, <2>1, <2>2 DEF PanelsTypeOK
<1>9. \A r \in Scripts \ {s} : Downloads(r)' <=> Downloads(r)
  BY <1>5 DEF Downloads
<1>10. OtherDownloads(s)' <=> OtherDownloads(s)
  BY <1>9 DEF OtherDownloads
<1>11. ScriptOK(s)'
  <2>1. \A i \in PanelFiles : ~(i < now.k)
    BY <1>3 DEF PanelFiles
  <2> QED  BY <1>2, <1>3, <1>6, <1>10, <2>1 DEF ScriptOK, Downloads
<1>12. ASSUME NEW r \in Scripts, r # s PROVE ScriptOK(r)'
  <2>1. ScriptOK(r) /\ script[r].at \in Ended \cup Downloading \cup {"read"}
    BY PanelTypes
  <2>2. CASE script[r].at \in Ended
    <3>1. script'[r] = script[r] /\ ~Downloads(r)' /\ script[r].at # "read"
      BY <1>5, <1>12, <2>2 DEF Downloads, Downloading, Ended
    <3> QED  BY <3>1, <2>1 DEF ScriptOK
  <2>3. CASE script[r].at \notin Ended
    <3>1. ~script'[r].alone
      BY <1>5, <1>12, <2>3
    <3>2. Downloads(r)' => script'[r].run \in 1 .. MaxRuns /\ mixed'
      <4>1. Downloads(r)' => Downloads(r) /\ OtherDownloads(s)
        BY <1>9, <1>12 DEF OtherDownloads
      <4> QED  BY <4>1, <1>2, <1>5, <1>12, <2>1 DEF ScriptOK
    <3> QED  BY <3>1, <3>2 DEF ScriptOK
  <2> QED  BY <2>2, <2>3
<1>13. DiskOK'
  <2> SUFFICES ASSUME ~mixed', onDisk[NumPanels] # Absent
               PROVE  \E n \in 1 .. MaxRuns : Whole(n)
    BY <1>2 DEF DiskOK, Whole
  <2>1. ~mixed /\ ~OtherDownloads(s) /\ ~Downloads(s)
    BY <1>2 DEF Downloads, Downloading, Ended
  <2>2. Untouched
    BY <2>1 DEF Untouched, OtherDownloads
  <2> QED  BY <2>1, <2>2 DEF PanelsInv, DiskOK
<1> QED  BY <1>8, <1>11, <1>12, <1>13 DEF PanelsInv

\* A file is truncated: the last one is not touched before the others are this run's.
LEMMA PanelOpenedInv ==
  ASSUME PanelsInv, NEW s \in Scripts, PanelOpened(s)
  PROVE  PanelsInv'
<1> DEFINE now == [script[s] EXCEPT !.at = "fill"]
<1>1. /\ script' = [script EXCEPT ![s] = now] /\ onDisk' = [onDisk EXCEPT ![script[s].k] = Torn]
      /\ runs' = runs /\ mixed' = mixed /\ script[s].at = "open" /\ Downloads(s)
  BY PanelTypes DEF PanelOpened, Downloads, Downloading
<1>2. /\ now \in Script /\ now.at = "fill" /\ now.k = script[s].k /\ now.run = script[s].run
      /\ now.alone = script[s].alone
  BY PanelTypes DEF Script, Downloading
<1> HIDE DEF now
<1>3. /\ runs' \in 0 .. MaxRuns /\ mixed' \in BOOLEAN
      /\ onDisk' \in [PanelFiles -> Torn .. MaxRuns]
  <2>1. Torn \in Torn .. MaxRuns
    BY PanelTypes DEF Torn
  <2> QED  BY <1>1, <2>1, PanelTypes
<1>4. onDisk'[script[s].k] = Torn /\ \A i \in PanelFiles : i < script[s].k => onDisk'[i] = onDisk[i]
  BY <1>1, PanelTypes DEF PanelFiles
<1>5. script'[s] = now /\ \A r \in Scripts \ {s} : script'[r] = script[r]
  BY <1>1, PanelTypes
<1>6. OtherDownloads(s)' => OtherDownloads(s)
  BY <1>5 DEF OtherDownloads, Downloads
<1>7. ScriptOK(s)'
  <2>1. ScriptOK(s)
    BY PanelTypes
  <2>2. Downloads(s)' /\ script'[s].at # "read" /\ script'[s].at # "done"
    BY <1>2, <1>5 DEF Downloads, Downloading
  <2> QED  BY <1>1, <1>2, <1>4, <1>5, <1>6, <2>1, <2>2 DEF ScriptOK
<1>8. DiskOK'
  BY <1>2, <1>5 DEF DiskOK, Untouched, Downloads, Downloading
<1>9. (now.at \in Downloading => Downloads(s)) /\ (mixed => mixed' \/ script[s].alone)
  BY <1>1
<1> QED  BY <1>1, <1>2, <1>3, <1>7, <1>8, <1>9, ScriptMoves

\* What is put into the file: its own panel, if the script is alone.
LEMMA FilledWith ==
  ASSUME PanelsInv, NEW s \in Scripts, Filled(s)
  PROVE  /\ Downloads(s) /\ runs' = runs /\ script[s].run \in 1 .. MaxRuns
         /\ onDisk' \in [PanelFiles -> Torn .. MaxRuns]
         /\ \A i \in PanelFiles : i # script[s].k => onDisk'[i] = onDisk[i]
         /\ script[s].alone => onDisk'[script[s].k] = script[s].run
<1>1. Downloads(s) /\ runs' = runs /\ script[s].at = "fill"
  BY DEF Filled, Downloads, Downloading
<1>2. ScriptOK(s) /\ script[s].run \in 1 .. MaxRuns
  BY <1>1, PanelTypes DEF ScriptOK
<1>3. PICK content \in {script[s].run} \cup (IF onDisk[script[s].k] = Torn THEN {} ELSE {Torn}) :
          onDisk' = [onDisk EXCEPT ![script[s].k] = content]
  BY DEF Filled
<1>4. content \in Torn .. MaxRuns
  BY <1>2, <1>3, PanelTypes DEF Torn
<1>5. script[s].alone => content = script[s].run
  BY <1>1, <1>2, <1>3 DEF ScriptOK
<1> QED  BY <1>1, <1>2, <1>3, <1>4, <1>5, PanelTypes

\* A file but the last is filled.
LEMMA PanelWrittenInv ==
  ASSUME PanelsInv, NEW s \in Scripts, PanelWritten(s)
  PROVE  PanelsInv'
<1> DEFINE now == [script[s] EXCEPT !.at = "open", !.k = script[s].k + 1]
<1>1. /\ script' = [script EXCEPT ![s] = now] /\ Filled(s) /\ script[s].k < NumPanels
      /\ mixed' = mixed
  BY DEF PanelWritten
<1>2. script[s].k + 1 \in PanelFiles
  BY <1>1, PanelTypes DEF PanelFiles
<1>3. /\ now \in Script /\ now.at = "open" /\ now.k = script[s].k + 1 /\ now.run = script[s].run
      /\ now.alone = script[s].alone
  BY <1>2, PanelTypes DEF Script, Downloading
<1> HIDE DEF now
<1>4. /\ Downloads(s) /\ runs' = runs /\ script[s].run \in 1 .. MaxRuns
      /\ onDisk' \in [PanelFiles -> Torn .. MaxRuns]
      /\ \A i \in PanelFiles : i # script[s].k => onDisk'[i] = onDisk[i]
      /\ script[s].alone => onDisk'[script[s].k] = script[s].run
  BY <1>1, FilledWith
<1>5. script'[s] = now /\ \A r \in Scripts \ {s} : script'[r] = script[r]
  BY <1>1, PanelTypes
<1>6. OtherDownloads(s)' => OtherDownloads(s)
  BY <1>5 DEF OtherDownloads, Downloads
<1>7. ScriptOK(s) /\ runs' \in 0 .. MaxRuns /\ mixed' \in BOOLEAN
  BY <1>1, <1>4, PanelTypes
<1>8. ScriptOK(s)'
  <2>1. Downloads(s)' /\ script'[s].at # "read" /\ script'[s].at # "done" /\ script'[s].at # "fill"
    BY <1>3, <1>5 DEF Downloads, Downloading
  <2>2. ASSUME script[s].alone, NEW i \in PanelFiles, i < now.k
        PROVE  onDisk'[i] = script[s].run
    <3>1. i < script[s].k \/ i = script[s].k
      BY <1>3, <2>2, PanelTypes DEF PanelFiles
    <3>2. CASE i = script[s].k
      BY <3>2, <1>4, <2>2
    <3>3. CASE i < script[s].k
      <4>1. i # script[s].k
        BY <3>3, PanelTypes DEF PanelFiles
      <4> QED  BY <4>1, <3>3, <1>4, <1>7, <2>2 DEF ScriptOK
    <3> QED  BY <3>1, <3>2, <3>3
  <2> QED  BY <1>1, <1>3, <1>4, <1>5, <1>6, <1>7, <2>1, <2>2 DEF ScriptOK
<1>9. DiskOK'
  <2>1. now.k # 1
    BY <1>3, PanelTypes
  <2> QED  BY <2>1, <1>3, <1>5 DEF DiskOK, Untouched, Downloads, Downloading
<1>10. (now.at \in Downloading => Downloads(s)) /\ (mixed => mixed' \/ script[s].alone)
  BY <1>1, <1>4
<1> QED  BY <1>1, <1>3, <1>4, <1>7, <1>8, <1>9, <1>10, ScriptMoves

\* With the last file a script that was alone leaves one download.
LEMMA DownloadEndsInv ==
  ASSUME PanelsInv, NEW s \in Scripts, DownloadEnds(s)
  PROVE  PanelsInv'
<1> DEFINE all == [i \in PanelFiles |-> script[s].run]
           now == [script[s] EXCEPT !.at = "done", !.seen = all]
<1>1. /\ script' = [script EXCEPT ![s] = now] /\ Filled(s) /\ script[s].k = NumPanels
      /\ mixed' = (mixed /\ ~script[s].alone)
  BY DEF DownloadEnds
<1>2. all \in [PanelFiles -> 0 .. MaxRuns]
  BY PanelTypes
<1>3. /\ now \in Script /\ now.at = "done" /\ now.seen = all /\ now.alone = script[s].alone
  BY <1>2, PanelTypes DEF Script, Ended
<1> HIDE DEF now
<1>4. /\ Downloads(s) /\ runs' = runs /\ script[s].run \in 1 .. MaxRuns
      /\ onDisk' \in [PanelFiles -> Torn .. MaxRuns]
      /\ \A i \in PanelFiles : i # script[s].k => onDisk'[i] = onDisk[i]
      /\ script[s].alone => onDisk'[script[s].k] = script[s].run
  BY <1>1, FilledWith
<1>5. script'[s] = now /\ \A r \in Scripts \ {s} : script'[r] = script[r]
  BY <1>1, PanelTypes
<1>6. ScriptOK(s) /\ runs' \in 0 .. MaxRuns /\ mixed' \in BOOLEAN
  BY <1>1, <1>4, PanelTypes
<1>7. ScriptOK(s)'
  <2>1. ~Downloads(s)' /\ script'[s].at # "read"
    BY <1>3, <1>5 DEF Downloads, Downloading
  <2>2. \E run \in 1 .. MaxRuns : script'[s].seen = [i \in PanelFiles |-> run]
    BY <1>3, <1>4, <1>5
  <2> QED  BY <2>1, <2>2 DEF ScriptOK
<1>8. DiskOK'
  <2> SUFFICES ASSUME ~mixed' PROVE \E n \in 1 .. MaxRuns : Whole(n)'
    BY DEF DiskOK
  <2>1. script[s].alone
    BY <1>1, <1>4, <1>6 DEF ScriptOK
  <2>2. \A i \in PanelFiles : i < NumPanels => onDisk'[i] = script[s].run
    <3> SUFFICES ASSUME NEW i \in PanelFiles, i < NumPanels PROVE onDisk'[i] = script[s].run
      OBVIOUS
    <3>1. i # script[s].k
      BY <1>1, PanelTypes DEF PanelFiles
    <3> QED  BY <3>1, <1>1, <1>4, <1>6, <2>1 DEF ScriptOK
  <2>3. onDisk'[NumPanels] = script[s].run
    BY <1>1, <1>4, <2>1
  <2>4. PICK n \in 1 .. MaxRuns : n = script[s].run
    BY <1>4
  <2>5. Whole(n)'
    BY <2>2, <2>3, <2>4 DEF Whole
  <2> QED  BY <2>5
<1>9. (now.at \in Downloading => Downloads(s)) /\ (mixed => mixed' \/ script[s].alone)
  BY <1>1, <1>4
<1> QED  BY <1>1, <1>3, <1>4, <1>6, <1>7, <1>8, <1>9, ScriptMoves

\* The last file of a reader that was not disturbed is of the download the others
\* are of.
LEMMA PanelReadInv ==
  ASSUME PanelsInv, NEW s \in Scripts, PanelRead(s)
  PROVE  PanelsInv'
<1>1. script[s].at = "read" /\ onDisk' = onDisk /\ runs' = runs /\ mixed' = mixed
  BY DEF PanelRead
<1>2. ~Downloads(s) /\ ScriptOK(s)
  BY <1>1, PanelTypes DEF Downloads, Downloading
<1>3. /\ runs' \in 0 .. MaxRuns /\ mixed' \in BOOLEAN
      /\ onDisk' \in [PanelFiles -> Torn .. MaxRuns]
  BY <1>1, PanelTypes
<1>4. ASSUME NEW now \in Script, script' = [script EXCEPT ![s] = now], now.at \notin Downloading,
             now.at = "read" /\ now.alone =>
                /\ script[s].alone
                /\ \A i \in PanelFiles : i < now.k => now.seen[i] = onDisk[i] /\ onDisk[i] # Torn,
             now.at = "done" /\ now.alone =>
                \E run \in 1 .. MaxRuns : now.seen = [i \in PanelFiles |-> run]
      PROVE  PanelsInv'
  <2>1. script'[s] = now /\ \A r \in Scripts \ {s} : script'[r] = script[r]
    BY <1>4, PanelTypes
  <2>2. ~Downloads(s)' /\ \A r \in Scripts : Downloads(r)' <=> Downloads(r)
    BY <2>1, <1>2, <1>4 DEF Downloads
  <2>3. Untouched' => Untouched
    BY <2>1, <2>2, <1>2 DEF Untouched
  <2>4. DiskOK'
    BY <2>3, <1>1, DiskStays
  <2>5. ScriptOK(s)'
    <3>1. Cached => Cached'
      BY <1>1 DEF Cached
    <3>2. script[s].alone => ~mixed /\ Cached /\ \A r \in Scripts : ~Downloads(r)
      BY <1>1, <1>2 DEF ScriptOK
    <3>3. script'[s].at = "read" /\ script'[s].alone =>
            /\ ~mixed' /\ Cached' /\ \A r \in Scripts : ~Downloads(r)'
            /\ \A i \in PanelFiles :
                  i < script'[s].k => script'[s].seen[i] = onDisk'[i] /\ onDisk'[i] # Torn
      BY <3>1, <3>2, <2>1, <2>2, <1>1, <1>4
    <3> QED  BY <3>3, <2>1, <2>2, <1>4 DEF ScriptOK
  <2> QED  BY <1>1, <1>3, <1>4, <2>4, <2>5, ScriptMoves
<1>5. CASE onDisk[script[s].k] = Torn
  <2> DEFINE now == [script[s] EXCEPT !.at = "raised"]
  <2>1. script' = [script EXCEPT ![s] = now]
    BY <1>5 DEF PanelRead
  <2>2. now \in Script /\ now.at = "raised"
    BY PanelTypes DEF Script, Ended
  <2>3. now.at \notin Downloading /\ now.at # "read" /\ now.at # "done"
    BY <2>2 DEF Downloading
  <2> HIDE DEF now
  <2> QED  BY <2>1, <2>2, <2>3, <1>4
<1>6. CASE onDisk[script[s].k] # Torn
  <2> DEFINE k == script[s].k
             seen == [script[s].seen EXCEPT ![k] = onDisk[k]]
             at == IF k = NumPanels THEN "done" ELSE "read"
             next == IF k = NumPanels THEN k ELSE k + 1
             now == [script[s] EXCEPT !.seen = seen, !.at = at, !.k = next]
  <2>1. script' = [script EXCEPT ![s] = now]
    BY <1>6 DEF PanelRead
  <2>2. k \in PanelFiles /\ k \in 1 .. NumPanels /\ script[s].seen \in [PanelFiles -> 0 .. MaxRuns]
    BY PanelTypes
  <2>3. onDisk[k] \in 0 .. MaxRuns
    BY <2>2, <1>6, PanelTypes DEF Torn
  <2>4. seen \in [PanelFiles -> 0 .. MaxRuns] /\ seen[k] = onDisk[k]
        /\ \A i \in PanelFiles : i # k => seen[i] = script[s].seen[i]
    BY <2>2, <2>3
  <2>5. next \in PanelFiles /\ at \in {"done", "read"}
    BY <2>2, PanelTypes DEF PanelFiles
  <2> HIDE DEF seen, at, next
  <2>6. /\ now \in Script /\ now.seen = seen /\ now.at = at /\ now.k = next
        /\ now.alone = script[s].alone
    BY <2>4, <2>5, PanelTypes DEF Script, Ended
  <2> HIDE DEF now
  <2>7. ASSUME script[s].alone, NEW i \in PanelFiles, i =< k
        PROVE  seen[i] = onDisk[i] /\ onDisk[i] # Torn
    <3>1. CASE i = k
      BY <3>1, <2>4, <1>6
    <3>2. CASE i # k
      <4>1. i < k
        BY <3>2, <2>2, <2>7 DEF PanelFiles
      <4> QED  BY <4>1, <3>2, <2>4, <2>7, <1>1, <1>2 DEF ScriptOK
    <3> QED  BY <3>1, <3>2
  <2>8. at = "read" /\ script[s].alone =>
          \A i \in PanelFiles : i < next => seen[i] = onDisk[i] /\ onDisk[i] # Torn
    <3> SUFFICES ASSUME at = "read", script[s].alone, NEW i \in PanelFiles, i < next
                 PROVE  i =< k
      BY <2>7
    <3>1. next = k + 1
      BY DEF at, next
    <3> QED  BY <3>1, <2>2 DEF PanelFiles
  <2>9. ASSUME at = "done", script[s].alone
        PROVE  \E run \in 1 .. MaxRuns : seen = [i \in PanelFiles |-> run]
    <3>1. k = NumPanels
      BY <2>9 DEF at
    <3>2. ~mixed /\ Cached /\ \A r \in Scripts : ~Downloads(r)
      BY <2>9, <1>1, <1>2 DEF ScriptOK
    <3>3. onDisk[NumPanels] # Absent /\ Untouched
      BY <3>2, PanelTypes DEF Cached, Untouched
    <3>4. PICK n \in 1 .. MaxRuns : Whole(n)
      BY <3>2, <3>3 DEF PanelsInv, DiskOK
    <3>5. ASSUME NEW i \in PanelFiles PROVE seen[i] = n
      <4>1. i =< k
        BY <3>1, PanelTypes DEF PanelFiles
      <4>2. seen[i] = onDisk[i] /\ onDisk[i] # Torn
        BY <4>1, <2>7, <2>9
      <4>3. CASE i = NumPanels
        BY <4>2, <4>3, <3>4 DEF Whole
      <4>4. CASE i # NumPanels
        <5>1. i < NumPanels
          BY <4>4, PanelTypes DEF PanelFiles
        <5> QED  BY <5>1, <4>2, <3>4 DEF Whole
      <4> QED  BY <4>3, <4>4
    <3>6. seen = [i \in PanelFiles |-> n]
      BY <3>5, <2>4
    <3> QED  BY <3>6
  <2>10. now.at \notin Downloading
    BY <2>5, <2>6 DEF Downloading
  <2> HIDE DEF k
  <2> QED  BY <2>1, <2>6, <2>8, <2>9, <2>10, <1>4
<1> QED  BY <1>5, <1>6

\* A script dies: unless that leaves a mixture, the files are as whole as they were.
LEMMA ScriptKilledInv ==
  ASSUME PanelsInv, NEW s \in Scripts, ScriptKilled(s)
  PROVE  PanelsInv'
<1> DEFINE now == [script[s] EXCEPT !.at = "idle"]
<1>1. /\ script' = [script EXCEPT ![s] = now] /\ script[s].at \notin Ended
      /\ mixed' = (mixed \/ LeavesMixture(s)) /\ onDisk' = onDisk /\ runs' = runs
  BY PanelTypes DEF ScriptKilled
<1>2. now \in Script /\ now.at = "idle"
  BY PanelTypes DEF Script, Ended
<1>3. now.at \notin Downloading /\ now.at # "read" /\ now.at # "done"
  BY <1>2 DEF Downloading
<1> HIDE DEF now
<1>4. /\ runs' \in 0 .. MaxRuns /\ mixed' \in BOOLEAN
      /\ onDisk' \in [PanelFiles -> Torn .. MaxRuns]
  BY <1>1, PanelTypes
<1>5. script'[s] = now /\ \A r \in Scripts \ {s} : script'[r] = script[r]
  BY <1>1, PanelTypes
<1>6. ScriptOK(s)'
  BY <1>3, <1>5 DEF ScriptOK, Downloads
<1>7. \/ onDisk' = onDisk /\ mixed' = mixed
      \/ Downloads(s) /\ (mixed => mixed' \/ script[s].alone)
  <2>1. LeavesMixture(s) => Downloads(s)
    BY DEF LeavesMixture, Downloads, Downloading
  <2> QED  BY <1>1, <2>1, PanelTypes
<1>8. DiskOK'
  <2> SUFFICES ASSUME ~mixed', onDisk[NumPanels] # Absent, Untouched'
               PROVE  \E n \in 1 .. MaxRuns : Whole(n)
    BY <1>1 DEF DiskOK, Whole
  <2>1. ~mixed /\ ~LeavesMixture(s)
    BY <1>1
  <2>2. \A r \in Scripts \ {s} : Downloads(r) => script[r].at = "open" /\ script[r].k = 1
    BY <1>5 DEF Untouched, Downloads
  <2>3. CASE Downloads(s) => script[s].at = "open" /\ script[s].k = 1
    BY <2>1, <2>2, <2>3 DEF PanelsInv, DiskOK, Untouched
  <2>4. CASE Downloads(s) /\ ~(script[s].at = "open" /\ script[s].k = 1)
    <3>1. script[s].at = "fill" /\ script[s].k = NumPanels
      BY <2>1, <2>4, PanelTypes DEF LeavesMixture, Downloads, Downloading
    <3>2. ScriptOK(s) /\ script[s].alone
      BY <2>1, <2>4, PanelTypes DEF ScriptOK
    <3>3. Whole(script[s].run) /\ script[s].run \in 1 .. MaxRuns
      BY <3>1, <3>2, <2>4 DEF ScriptOK, Whole
    <3> QED  BY <3>3
  <2> QED  BY <2>3, <2>4
<1> QED  BY <1>1, <1>2, <1>3, <1>4, <1>6, <1>7, <1>8, ScriptMoves

\* No step of a script breaks what holds of the panels.
LEMMA PanelsInvNext == PanelsInv /\ [PanelsNext]_panelVars => PanelsInv'
<1> SUFFICES ASSUME PanelsInv, [PanelsNext]_panelVars PROVE PanelsInv'  OBVIOUS
<1>1. ASSUME NEW s \in Scripts,
             \/ CacheRead(s) \/ \E refresh \in BOOLEAN : Downloaded(s, refresh)
             \/ PanelOpened(s) \/ PanelWritten(s) \/ DownloadEnds(s) \/ PanelRead(s)
             \/ ScriptKilled(s)
      PROVE  PanelsInv'
  <2>1. CASE CacheRead(s)  BY <2>1, CacheReadInv
  <2>2. ASSUME NEW refresh \in BOOLEAN, Downloaded(s, refresh) PROVE PanelsInv'
    BY <2>2, DownloadedInv
  <2>3. CASE PanelOpened(s)  BY <2>3, PanelOpenedInv
  <2>4. CASE PanelWritten(s)  BY <2>4, PanelWrittenInv
  <2>5. CASE DownloadEnds(s)  BY <2>5, DownloadEndsInv
  <2>6. CASE PanelRead(s)  BY <2>6, PanelReadInv
  <2>7. CASE ScriptKilled(s)  BY <2>7, ScriptKilledInv
  <2> QED  BY <1>1, <2>1, <2>2, <2>3, <2>4, <2>5, <2>6, <2>7
<1>2. CASE PanelsNext  BY <1>1, <1>2 DEF PanelsNext
<1>3. CASE UNCHANGED panelVars
  <2>1. onDisk' = onDisk /\ script' = script /\ runs' = runs /\ mixed' = mixed
    BY <1>3 DEF panelVars
  <2>2. PanelsTypeOK'
    BY <2>1 DEF PanelsInv, PanelsTypeOK
  <2>3. DiskOK'
    BY <2>1 DEF PanelsInv, DiskOK, Untouched, Whole, Downloads
  <2>4. \A s \in Scripts : ScriptOK(s)'
    BY <2>1 DEF PanelsInv, ScriptOK, Downloads, OtherDownloads, Cached
  <2> QED  BY <2>2, <2>3, <2>4 DEF PanelsInv
<1> QED  BY <1>2, <1>3

-----------------------------------------------------------------------------
DownloadInv == FactsInv /\ PanelsInv /\ BarsInv

\* A step of one of the three leaves the others' files alone.
LEMMA DownloadInvNext ==
  ASSUME DownloadInv, [FactsStep \/ PanelsStep \/ BarsStep]_downloadVars
  PROVE  DownloadInv'
<1>1. /\ FactsStep => UNCHANGED panelVars /\ UNCHANGED barVars
      /\ PanelsStep => UNCHANGED factVars /\ UNCHANGED barVars
      /\ BarsStep => UNCHANGED factVars /\ UNCHANGED panelVars
  BY DEF FactsStep, PanelsStep, BarsStep
<1>2. UNCHANGED downloadVars => UNCHANGED factVars /\ UNCHANGED panelVars /\ UNCHANGED barVars
  BY DEF downloadVars
<1>3. [FactsNext]_factVars /\ [PanelsNext]_panelVars /\ [BarsNext]_barVars
  BY <1>1, <1>2 DEF FactsStep, PanelsStep, BarsStep
<1> QED  BY <1>3, FactsInvNext, PanelsInvNext, BarsInvNext DEF DownloadInv

\* Whatever interleaving of loads, downloads and deaths of their processes, and
\* for all companies, panels and pages: a file of facts says what the server said,
\* a load that ends has all that was not refused, panels read together undisturbed
\* are of one download, and pages of bars come once each
\* (mds/edgar.py, buyback.py, longdata.py, alpaca_data.py).
THEOREM DownloadsAlwaysWhole == DownloadSpec => []DownloadsAreWhole
<1>1. DownloadInit => DownloadInv
  BY FactsInvInit, PanelsInvInit, BarsInvInit DEF DownloadInit, DownloadInv
<1>2. DownloadInv /\ [FactsStep \/ PanelsStep \/ BarsStep]_downloadVars => DownloadInv'
  BY DownloadInvNext
<1>3. DownloadInv => DownloadsAreWhole
  <2> SUFFICES ASSUME DownloadInv PROVE DownloadsAreWhole  OBVIOUS
  <2>1. FactsTypeOK /\ FilesAreAnswers /\ LoadsAreResumed /\ TornForACause
    BY FactsInvShows DEF DownloadInv
  <2>2. PanelsTypeOK /\ OneDownload
    BY DEF DownloadInv, PanelsInv, ScriptOK, OneDownload
  <2>3. BarsTypeOK /\ PagesComeOnce
    BY DEF DownloadInv, BarsInv
  <2> QED  BY <2>1, <2>2, <2>3 DEF DownloadsAreWhole
<1> QED  BY <1>1, <1>2, <1>3, PTL DEF DownloadSpec

-----------------------------------------------------------------------------
(* The books: what a value was computed from.                              *)

(* Observations of the days lo..hi.                                        *)
Seen(cells, lo, hi) ==
    \A cell \in cells : DayOf(cell) \in Int /\ lo =< DayOf(cell) /\ DayOf(cell) =< hi

(* Observations of no day after hi.                                        *)
Past(cells, hi) == \A cell \in cells : DayOf(cell) \in Int /\ DayOf(cell) =< hi

LEMMA SeenWider ==
  ASSUME NEW cells, NEW lo \in Int, NEW hi \in Int, Seen(cells, lo, hi),
         NEW l \in Int, NEW h \in Int, l =< lo, hi =< h
  PROVE  Seen(cells, l, h)
BY SMT DEF Seen

LEMMA SeenUnion ==
  ASSUME NEW S, NEW lo, NEW hi, \A cells \in S : Seen(cells, lo, hi)
  PROVE  Seen(UNION S, lo, hi)
BY DEF Seen

LEMMA SeenBoth ==
  ASSUME NEW A, NEW B, NEW lo, NEW hi, Seen(A, lo, hi), Seen(B, lo, hi)
  PROVE  Seen(A \cup B, lo, hi)
BY DEF Seen

LEMMA SeenIsPast ==
  ASSUME NEW cells, NEW lo \in Int, NEW hi \in Int, Seen(cells, lo, hi)
  PROVE  Past(cells, hi)
BY DEF Seen, Past

LEMMA SeenIsComplete ==
  ASSUME NEW cells, NEW lo \in Int, NEW hi \in Int, Seen(cells, lo, hi), lo >= 0
  PROVE  Complete(cells)
BY DEF Seen, Complete

LEMMA PastLater ==
  ASSUME NEW cells, NEW hi \in Int, Past(cells, hi), NEW h \in Int, hi =< h
  PROVE  Past(cells, h)
BY SMT DEF Past

LEMMA PastUnion ==
  ASSUME NEW S, NEW hi, \A cells \in S : Past(cells, hi)
  PROVE  Past(UNION S, hi)
BY DEF Past

LEMMA PastBoth ==
  ASSUME NEW A, NEW B, NEW hi, Past(A, hi), Past(B, hi)
  PROVE  Past(A \cup B, hi)
BY DEF Past

LEMMA PastIsKnown ==
  ASSUME NEW cells, NEW hi, Past(cells, hi)
  PROVE  KnownBy(cells, hi)
BY DEF Past, KnownBy

LEMMA NothingIsPast == ASSUME NEW lo, NEW hi PROVE Past({}, hi) /\ Seen({}, lo, hi)
BY DEF Past, Seen

LEMMA Remainders ==
  ASSUME NEW x \in Int, NEW every \in Nat \ {0}
  PROVE  /\ x % every \in 0 .. every - 1
         /\ x >= 0 => x % every =< x
         /\ x >= 0 /\ x - (x % every) # 0 => x - (x % every) >= every
BY SMT

LEMMA BlockStarts ==
  ASSUME NEW first \in Int, NEW t \in Int, NEW every \in Nat \ {0}
  PROVE  /\ BlockStart(first, t, every) \in Int
         /\ BlockStart(first, t, every) =< t
         /\ t >= first => BlockStart(first, t, every) >= first
         /\ t >= first /\ BlockStart(first, t, every) # first
              => BlockStart(first, t, every) - every >= first
<1> DEFINE x == t - first
<1> DEFINE r == x % every
<1>1. x \in Int /\ t = first + x /\ (t >= first <=> x >= 0)
  OBVIOUS
<1>2. BlockStart(first, t, every) = t - r
  BY DEF BlockStart
<1> HIDE DEF x
<1>3. /\ r \in 0 .. every - 1
      /\ x >= 0 => r =< x
      /\ x >= 0 /\ x - r # 0 => x - r >= every
  BY <1>1, Remainders
<1> HIDE DEF r
<1> QED BY <1>1, <1>2, <1>3, SMT

-----------------------------------------------------------------------------
(* The parameters, and what a window reads.                                *)

LEMMA Windows ==
  /\ Week \in Int /\ Month \in Int /\ Quarter \in Int /\ Half \in Int /\ Year \in Int
  /\ 1 =< Week /\ Week < Month /\ Month < Quarter /\ Quarter < Half /\ Half < Year
  /\ Hold \in Nat \ {0} /\ Slack \in Int /\ 1 =< Slack
BY WindowsGrow, BooksAssumption

LEMMA ObsSeen == ASSUME NEW series, NEW n, NEW t \in Int PROVE Seen(Obs(series, n, t), t, t)
BY DEF Seen, Obs, DayOf

LEMMA CloseSeen == ASSUME NEW n, NEW t \in Int PROVE Seen(Close(n, t), t, t)
BY ObsSeen DEF Close

LEMMA VolumeSeen == ASSUME NEW n, NEW t \in Int PROVE Seen(Volume(n, t), t, t)
BY ObsSeen DEF Volume

LEMMA RetSeen == ASSUME NEW n, NEW t \in Int PROVE Seen(Ret(n, t), t - 1, t)
<1>1. Seen(Close(n, t), t - 1, t) /\ Seen(Close(n, t - 1), t - 1, t)
  BY CloseSeen, SeenWider
<1> QED BY <1>1, SeenBoth DEF Ret, Diff

(* A window of w rows of observations that reach back no more than k days. *)
LEMMA RowsSeen ==
  ASSUME NEW first \in Int, NEW last \in Int, NEW cells, NEW k \in Nat,
         \A c \in cells : \E s \in first .. last : Seen(c, s - k, s)
  PROVE  Seen(UNION cells, first - k, last)
<1>1. \A c \in cells : Seen(c, first - k, last)
  <2> TAKE c \in cells
  <2>1. PICK s \in first .. last : Seen(c, s - k, s)
    OBVIOUS
  <2> QED BY <2>1, SeenWider
<1> QED BY <1>1, SeenUnion

LEMMA RollingRet ==
  ASSUME NEW n, NEW t \in Int, NEW w \in Nat \ {0}
  PROVE  Seen(Rolling(Ret, n, t, w), t - w, t)
<1> DEFINE first == t - w + 1
<1> DEFINE rows == {Ret(n, s) : s \in first .. t}
<1>1. Rolling(Ret, n, t, w) = UNION rows
  BY DEF Rolling, Rows
<1>2. first \in Int /\ first - 1 = t - w
  OBVIOUS
<1> HIDE DEF first
<1>3. \A c \in rows : \E s \in first .. t : Seen(c, s - 1, s)
  BY <1>2, RetSeen
<1>4. Seen(UNION rows, first - 1, t)
  BY <1>2, <1>3, RowsSeen
<1> QED BY <1>1, <1>2, <1>4

(* A cross-section sees what each name sees.                               *)
LEMMA RetsSeen == ASSUME NEW t \in Int PROVE Seen(All(Ret, t), t - 1, t)
BY RetSeen, SeenUnion DEF All, Across

LEMMA ClosesSeen == ASSUME NEW t \in Int PROVE Seen(All(Close, t), t, t)
BY CloseSeen, SeenUnion DEF All, Across

LEMMA RetRowsSeen ==
  ASSUME NEW first \in Int, NEW last \in Int
  PROVE  Seen(UNION {All(Ret, s) : s \in first .. last}, first - 1, last)
<1> DEFINE rows == {All(Ret, s) : s \in first .. last}
<1>1. \A c \in rows : \E s \in first .. last : Seen(c, s - 1, s)
  BY RetsSeen
<1> QED BY <1>1, RowsSeen

LEMMA CloseRowsSeen ==
  ASSUME NEW first \in Int, NEW last \in Int
  PROVE  Seen(UNION {All(Close, s) : s \in first .. last}, first, last)
<1> DEFINE rows == {All(Close, s) : s \in first .. last}
<1>1. \A c \in rows : \E s \in first .. last : Seen(c, s - 0, s)
  BY ClosesSeen
<1>2. Seen(UNION rows, first - 0, last)
  BY <1>1, RowsSeen
<1> QED BY <1>2

-----------------------------------------------------------------------------
(* trend.py                                                                *)

LEMMA ClosesApart ==
  ASSUME NEW n, NEW t \in Int, NEW k \in Nat
  PROVE  Seen(Diff(Close, n, t, k), t - k, t)
<1>1. Seen(Close(n, t), t - k, t) /\ Seen(Close(n, t - k), t - k, t)
  BY CloseSeen, SeenWider
<1> QED BY <1>1, SeenBoth DEF Diff

LEMMA TrendScoreSeen ==
  ASSUME NEW ms, NEW n, NEW t \in Int
  PROVE  Seen(TrendScore(ms, n, t), t - Year, t)
<1>1. \A w \in Lookbacks : Seen(Diff(Close, n, t, w) \cup Rolling(Ret, n, t, w), t - Year, t)
  <2> TAKE w \in Lookbacks
  <2>1. w \in Nat \ {0} /\ w =< Year
    BY Windows DEF Lookbacks
  <2>2. Seen(Diff(Close, n, t, w), t - Year, t) /\ Seen(Rolling(Ret, n, t, w), t - Year, t)
    BY <2>1, ClosesApart, RollingRet, SeenWider, Windows
  <2> QED BY <2>2, SeenBoth
<1>2. Seen(UNION {Diff(Close, n, t, w) \cup Rolling(Ret, n, t, w) : w \in Lookbacks}, t - Year, t)
  BY <1>1, SeenUnion
<1>3. Seen(Diff(Close, n, t, Year), t - Year, t)
  BY ClosesApart, Windows
<1> QED BY <1>2, <1>3 DEF TrendScore

LEMMA CarrySeen ==
  ASSUME NEW n, NEW t \in Int
  PROVE  Seen(CarryScore(n, t), t - Year, t)
<1>1. Seen(Obs("total", n, t), t - Year, t) /\ Seen(Obs("total", n, t - Year), t - Year, t)
  BY ObsSeen, SeenWider, Windows
<1>2. Seen(Diff(Close, n, t, Year), t - Year, t)
  BY ClosesApart, Windows
<1>3. CarryScore(n, t) = (Obs("total", n, t) \cup Obs("total", n, t - Year)) \cup Diff(Close, n, t, Year)
  BY DEF CarryScore, Diff
<1>4. Seen(Obs("total", n, t) \cup Obs("total", n, t - Year), t - Year, t)
  BY <1>1, SeenBoth
<1> QED BY <1>2, <1>3, <1>4, SeenBoth

LEMMA SkipMonthSeen ==
  ASSUME NEW n, NEW t \in Int
  PROVE  Seen(SkipMonth(n, t), t - Year, t)
<1>1. Seen(Close(n, t - Month), t - Year, t) /\ Seen(Close(n, t - Year), t - Year, t)
  BY CloseSeen, SeenWider, Windows
<1> QED BY <1>1, SeenBoth DEF SkipMonth

LEMMA XsSeen ==
  ASSUME NEW t \in Int
  PROVE  Seen(XsCarry(t), t - Year, t) /\ Seen(XsMomentum(t), t - Year, t)
BY CarrySeen, SkipMonthSeen, SeenUnion DEF XsCarry, XsMomentum, Across

LEMMA CrashSeen ==
  ASSUME NEW t \in Int
  PROVE  Seen(CrashScaler(t), t - Half, t)
<1> DEFINE first == t - Half + 1
<1>1. CrashScaler(t) = UNION {All(Ret, s) : s \in first .. t}
  BY DEF CrashScaler, All
<1>2. first \in Int /\ first - 1 = t - Half
  BY Windows
<1> HIDE DEF first
<1> QED BY <1>1, <1>2, RetRowsSeen

LEMMA InvVolSeen ==
  ASSUME NEW n, NEW t \in Int
  PROVE  Seen(InvVol(n, t), t - Quarter, t)
BY RollingRet, Windows DEF InvVol

LEMMA InvVolsSeen == ASSUME NEW t \in Int PROVE Seen(All(InvVol, t), t - Quarter, t)
BY InvVolSeen, SeenUnion DEF All, Across

LEMMA SignalPanelSeen ==
  ASSUME NEW enh, NEW n, NEW t \in Int
  PROVE  Seen(SignalPanel(enh, n, t), t - Year, t)
<1> DEFINE ms == "multiscale" \in enh
<1> DEFINE trends == {TrendScore(ms, m, t) : m \in Stocks}
<1> DEFINE parts == { TrendScore(ms, n, t),
                      IF "carry" \in enh THEN (UNION trends) \cup XsCarry(t) ELSE {},
                      IF "xs" \in enh THEN XsMomentum(t) ELSE {} }
<1>1. SignalPanel(enh, n, t) = UNION parts
  BY DEF SignalPanel, Across
<1>2. Seen(TrendScore(ms, n, t), t - Year, t)
  BY TrendScoreSeen
<1>3. \A c \in trends : Seen(c, t - Year, t)
  BY TrendScoreSeen
<1> HIDE DEF ms, trends
<1>4. Seen(UNION trends, t - Year, t)
  BY <1>3, SeenUnion
<1>5. Seen((UNION trends) \cup XsCarry(t), t - Year, t)
  BY <1>4, XsSeen, SeenBoth
<1>6. \A c \in parts : Seen(c, t - Year, t)
  BY <1>2, <1>5, XsSeen, NothingIsPast
<1> HIDE DEF parts
<1> QED BY <1>1, <1>6, SeenUnion

LEMMA SignalPanelsSeen ==
  ASSUME NEW enh, NEW t \in Int
  PROVE  Seen(UNION {SignalPanel(enh, n, t) : n \in Stocks}, t - Year, t)
<1> DEFINE panels == {SignalPanel(enh, n, t) : n \in Stocks}
<1>1. \A c \in panels : Seen(c, t - Year, t)
  BY SignalPanelSeen
<1> HIDE DEF panels
<1>2. Seen(UNION panels, t - Year, t)
  BY <1>1, SeenUnion
<1> QED BY <1>2 DEF panels

(* What a trend book reads for the block that starts at t, whatever is      *)
(* enhanced and however it is scaled.                                      *)
TrendReads(enh, mode, t) ==
    UNION { All(LAMBDA n, s : SignalPanel(enh, n, s), t - 1),
            IF "voltarget" \in enh THEN All(InvVol, t - 1) ELSE {},
            IF VolScaled(enh, mode)
            THEN UNION {All(Ret, s) : s \in (t - Year) .. (t - 1)} ELSE {},
            IF "crash" \in enh THEN CrashScaler(t - 1) ELSE {} }

LEMMA TrendReadsSeen ==
  ASSUME NEW enh, NEW mode, NEW t \in Int
  PROVE  Seen(TrendReads(enh, mode, t), t - Year - 1, t - 1)
<1> DEFINE first == t - Year
<1> DEFINE last == t - 1
<1> DEFINE parts == { UNION {SignalPanel(enh, n, last) : n \in Stocks},
            IF "voltarget" \in enh THEN All(InvVol, last) ELSE {},
            IF VolScaled(enh, mode) THEN UNION {All(Ret, s) : s \in first .. last} ELSE {},
            IF "crash" \in enh THEN CrashScaler(last) ELSE {} }
<1>1. TrendReads(enh, mode, t) = UNION parts
  BY DEF TrendReads, All, Across
<1>2. first \in Int /\ last \in Int /\ first - 1 = last - Year /\ first - 1 = t - Year - 1
      /\ last = t - 1
  BY Windows
<1> HIDE DEF first, last
<1>3. Seen(UNION {SignalPanel(enh, n, last) : n \in Stocks}, first - 1, last)
  BY <1>2, SignalPanelsSeen
<1>4. Seen(All(InvVol, last), first - 1, last) /\ Seen(CrashScaler(last), first - 1, last)
  BY <1>2, InvVolsSeen, CrashSeen, SeenWider, Windows
<1>5. Seen(UNION {All(Ret, s) : s \in first .. last}, first - 1, last)
  BY <1>2, RetRowsSeen
<1>6. \A c \in parts : Seen(c, first - 1, last)
  BY <1>3, <1>4, <1>5, NothingIsPast
<1> HIDE DEF parts
<1>7. Seen(UNION parts, first - 1, last)
  BY <1>6, SeenUnion
<1> QED BY <1>1, <1>2, <1>7

(* Observations of lo..hi, up to the day before d, none before the sample. *)
LEMMA SeenInTime ==
  ASSUME NEW cells, NEW lo \in Int, NEW hi \in Int, NEW d \in Int, Seen(cells, lo, hi), hi =< d - 1
  PROVE  Past(cells, d - 1) /\ (lo >= 0 => Complete(cells))
<1>1. Past(cells, hi) /\ (lo >= 0 => Complete(cells))
  BY SeenIsPast, SeenIsComplete
<1> DEFINE last == d - 1
<1>2. last \in Int /\ hi =< last
  OBVIOUS
<1> HIDE DEF last
<1>3. Past(cells, last)
  BY <1>1, <1>2, PastLater
<1> QED BY <1>1, <1>3 DEF last

LEMMA TrendBook ==
  ASSUME NEW enh, NEW mode, NEW d \in Int
  PROVE  /\ Past(TrendHeld(enh, mode, d), d - 1)
         /\ d >= TrendStart => Complete(TrendHeld(enh, mode, d))
<1> DEFINE t == TrendDecision(d)
<1>1. /\ t \in Int /\ t =< d
      /\ d >= TrendStart => t >= TrendStart
  BY BlockStarts, Windows DEF TrendDecision, TrendStart
<1>2. TrendHeld(enh, mode, d) = TrendReads(enh, mode, t)
  BY DEF TrendHeld, TrendReads
<1> HIDE DEF t
<1> DEFINE lo == t - Year - 1
<1> DEFINE hi == t - 1
<1>3. Seen(TrendHeld(enh, mode, d), lo, hi)
  BY <1>1, <1>2, TrendReadsSeen
<1>4. /\ lo \in Int /\ hi \in Int /\ hi =< d - 1
      /\ d >= TrendStart => lo >= 0
  BY <1>1, Windows DEF TrendStart
<1> HIDE DEF lo, hi
<1> QED BY <1>3, <1>4, SeenInTime

-----------------------------------------------------------------------------
(* assetalloc.py                                                           *)

(* The returns at the positions first..last are those of a day later.      *)
LEMMA PositionRowsSeen ==
  ASSUME NEW first \in Int, NEW last \in Int
  PROVE  Seen(UNION {All(Ret, DayAtPosition(q)) : q \in first .. last}, first, last + 1)
<1> DEFINE rows == {All(Ret, DayAtPosition(q)) : q \in first .. last}
<1> DEFINE later == {q + 1 : q \in first .. last}
<1>1. \A c \in rows : Seen(c, first, last + 1)
  <2> TAKE c \in rows
  <2>1. PICK q \in first .. last : c = All(Ret, DayAtPosition(q))
    OBVIOUS
  <2> DEFINE day == q + 1
  <2>2. day \in Int /\ first =< day - 1 /\ day =< last + 1 /\ c = All(Ret, day)
    BY <2>1 DEF DayAtPosition
  <2> HIDE DEF day
  <2>3. Seen(c, day - 1, day)
    BY <2>2, RetsSeen
  <2> QED BY <2>2, <2>3, SeenWider
<1> HIDE DEF rows
<1>2. Seen(UNION rows, first, last + 1)
  BY <1>1, SeenUnion
<1> QED BY <1>2 DEF rows

LEMMA ShrinkCovSeen ==
  ASSUME NEW p \in Int
  PROVE  Seen(ShrinkCov(p), p - Year, p)
<1> DEFINE first == p - Year
<1> DEFINE last == p - 1
<1>1. first \in Int /\ last \in Int /\ last + 1 = p
  BY Windows
<1>2. ShrinkCov(p) = UNION {All(Ret, DayAtPosition(q)) : q \in first .. last}
  BY DEF ShrinkCov
<1> HIDE DEF last
<1>3. Seen(ShrinkCov(p), first, last + 1)
  BY <1>1, <1>2, PositionRowsSeen
<1> QED BY <1>1, <1>3

LEMMA TsMomentumSeen ==
  ASSUME NEW p \in Int
  PROVE  Seen(TsMomentum(p), p - Half, p)
<1> DEFINE rows == {Diff(Close, n, p, Half) : n \in Stocks}
<1>1. \A c \in rows : Seen(c, p - Half, p)
  BY ClosesApart, Windows
<1>2. TsMomentum(p) = UNION rows
  BY DEF TsMomentum, All, Across
<1> HIDE DEF rows
<1> QED BY <1>1, <1>2, SeenUnion

LEMMA WeightsSeen ==
  ASSUME NEW method, NEW p \in Int
  PROVE  Seen(AllocationWeights(method, p), p - Year, p)
<1>1. Seen(TsMomentum(p), p - Year, p)
  BY TsMomentumSeen, SeenWider, Windows
<1>2. \A m : Seen(Allocator(m, ShrinkCov(p)), p - Year, p)
  BY ShrinkCovSeen, NothingIsPast DEF Allocator
<1>3. Seen(Allocator("risk_parity", ShrinkCov(p)) \cup TsMomentum(p), p - Year, p)
  BY <1>1, <1>2, SeenBoth
<1> QED BY <1>2, <1>3 DEF AllocationWeights, MomentumTilt

(* A block knows its own past, and the first has none before it.           *)
LEMMA AllocationBlock ==
  ASSUME NEW d \in Int
  PROVE  \E p \in Int :
           /\ p = BlockStart(AllocationStart, d - 1, Hold)
           /\ p =< d - 1
           /\ d - 1 >= AllocationStart =>
                p >= Year /\ (p # AllocationStart => p - Hold >= Year)
<1> DEFINE t == d - 1
<1>1. t \in Int /\ AllocationStart \in Int /\ AllocationStart = Year
  BY Windows DEF AllocationStart
<1> HIDE DEF t
<1> DEFINE p == BlockStart(AllocationStart, t, Hold)
<1>2. /\ p \in Int /\ p =< t
      /\ t >= AllocationStart =>
           p >= AllocationStart /\ (p # AllocationStart => p - Hold >= AllocationStart)
  BY <1>1, BlockStarts, Windows
<1>3. p = BlockStart(AllocationStart, d - 1, Hold)
  BY DEF t
<1> HIDE DEF p
<1>4. /\ p =< d - 1
      /\ d - 1 >= AllocationStart =>
           p >= Year /\ (p # AllocationStart => p - Hold >= Year)
  BY <1>1, <1>2 DEF t
<1> QED BY <1>2, <1>3, <1>4

LEMMA DriftedSeen ==
  ASSUME NEW method, NEW p \in Int, NEW d \in Int, p =< d - 1
  PROVE  /\ Past(Drifted(method, p), d - 1)
         /\ (p # AllocationStart => p - Hold >= Year) => Complete(Drifted(method, p))
<1> DEFINE before == p - Hold
<1> DEFINE last == p - 1
<1>1. /\ before \in Int /\ last \in Int /\ before =< p /\ last + 1 = p
      /\ before - Year \in Int /\ before - Year =< before
  BY Windows
<1>2. Drifted(method, p) = IF p = AllocationStart THEN {}
        ELSE AllocationWeights(method, before)
             \cup UNION {All(Ret, DayAtPosition(q)) : q \in before .. last}
  BY DEF Drifted
<1> DEFINE moves == UNION {All(Ret, DayAtPosition(q)) : q \in before .. last}
<1>3. before = p - Hold
  OBVIOUS
<1> HIDE DEF before, last
<1>4. Seen(AllocationWeights(method, before), before - Year, before)
  BY <1>1, WeightsSeen
<1>5. Seen(moves, before, last + 1)
  BY <1>1, PositionRowsSeen
<1> HIDE DEF moves
<1>6. Seen(AllocationWeights(method, before), before - Year, p) /\ Seen(moves, before - Year, p)
  BY <1>1, <1>4, <1>5, SeenWider
<1>7. Seen(AllocationWeights(method, before) \cup moves, before - Year, p)
  BY <1>6, SeenBoth
<1>8. CASE p = AllocationStart
  <2>1. Drifted(method, p) = {}
    BY <1>2, <1>8
  <2> QED BY <2>1 DEF Past, Complete
<1>9. CASE p # AllocationStart
  <2> DEFINE lo == before - Year
  <2>1. Drifted(method, p) = AllocationWeights(method, before) \cup moves
    BY <1>2, <1>9 DEF moves
  <2>2. lo \in Int /\ ((p # AllocationStart => p - Hold >= Year) => lo >= 0)
    BY <1>1, <1>3, <1>9, Windows
  <2>3. Seen(Drifted(method, p), lo, p)
    BY <1>7, <2>1
  <2> HIDE DEF lo
  <2> QED BY <2>2, <2>3, SeenInTime
<1> QED BY <1>8, <1>9

LEMMA AllocationBook ==
  ASSUME NEW method, NEW d \in Int
  PROVE  /\ Past(AllocationHeld(method, d), d - 1) /\ Past(SixtyFortyHeld(d), d - 1)
         /\ d >= DayAtPosition(AllocationStart) =>
              Complete(AllocationHeld(method, d)) /\ Complete(SixtyFortyHeld(d))
<1>1. PICK p \in Int :
           /\ p = BlockStart(AllocationStart, d - 1, Hold)
           /\ p =< d - 1
           /\ d - 1 >= AllocationStart =>
                p >= Year /\ (p # AllocationStart => p - Hold >= Year)
  BY AllocationBlock
<1> DEFINE started == d >= DayAtPosition(AllocationStart)
<1>2. started => d - 1 >= AllocationStart
  BY Windows DEF DayAtPosition, AllocationStart
<1> DEFINE lo == p - Year
<1>3. lo \in Int /\ (started => lo >= 0)
  BY <1>1, <1>2, Windows
<1>4. Seen(AllocationWeights(method, p), lo, p)
  BY WeightsSeen
<1>5. /\ AllocationHeld(method, d) = AllocationWeights(method, p) \cup Drifted(method, p)
      /\ SixtyFortyHeld(d) = Drifted("sixty_forty", p)
  BY <1>1 DEF AllocationHeld, SixtyFortyHeld
<1> HIDE DEF lo
<1> DEFINE last == d - 1
<1> DEFINE weights == AllocationWeights(method, p)
<1> DEFINE drifted == Drifted(method, p)
<1> DEFINE fixed == Drifted("sixty_forty", p)
<1>6. Past(weights, last) /\ (started => Complete(weights))
  <2>1. Past(AllocationWeights(method, p), d - 1) /\ (lo >= 0 => Complete(AllocationWeights(method, p)))
    BY <1>1, <1>3, <1>4, SeenInTime
  <2> QED BY <1>3, <2>1
<1>7. Past(drifted, last) /\ (started => Complete(drifted))
  <2>1. /\ Past(Drifted(method, p), d - 1)
        /\ (p # AllocationStart => p - Hold >= Year) => Complete(Drifted(method, p))
    BY <1>1, DriftedSeen
  <2> QED BY <1>1, <1>2, <2>1
<1>8. Past(fixed, last) /\ (started => Complete(fixed))
  <2>1. /\ Past(Drifted("sixty_forty", p), d - 1)
        /\ (p # AllocationStart => p - Hold >= Year) => Complete(Drifted("sixty_forty", p))
    BY <1>1, DriftedSeen
  <2> QED BY <1>1, <1>2, <2>1
<1>9. AllocationHeld(method, d) = weights \cup drifted /\ SixtyFortyHeld(d) = fixed
  BY <1>5
<1> HIDE DEF weights, drifted, fixed, last, started
<1>10. Past(weights \cup drifted, last)
  BY <1>6, <1>7, PastBoth
<1>11. started => Complete(weights \cup drifted)
  BY <1>6, <1>7 DEF Complete
<1>12. /\ Past(AllocationHeld(method, d), last) /\ Past(SixtyFortyHeld(d), last)
       /\ started => Complete(AllocationHeld(method, d)) /\ Complete(SixtyFortyHeld(d))
  BY <1>7, <1>8, <1>9, <1>10, <1>11
<1> QED BY <1>12 DEF last, started

-----------------------------------------------------------------------------
(* The strategies engine.run asks: at t for the block that starts at t,    *)
(* t-1 being the last day they see.                                        *)

LEMMA Decisions ==
  ASSUME NEW warmup \in Int, NEW d \in Int
  PROVE  \E t \in Int : /\ t = Decision(warmup, d) /\ t =< d
                        /\ d >= warmup => t >= warmup
BY BlockStarts, Windows DEF Decision

LEMMA FlowSeen ==
  ASSUME NEW n, NEW t \in Int
  PROVE  /\ Seen(TargetExposure(n, t), t - Month, t)
         /\ Seen(FlowSignal(n, t), t - Week - Month, t)
<1>1. \A s \in Int : Seen(TargetExposure(n, s), s - Month, s)
  BY RollingRet, Windows DEF TargetExposure, RealizedVol
<1> DEFINE lo == t - Week - Month
<1> DEFINE s == t - Week
<1>2. s \in Int /\ lo \in Int /\ lo = s - Month /\ lo =< t - Month /\ s =< t
  BY Windows
<1>3. FlowSignal(n, t) = TargetExposure(n, t) \cup TargetExposure(n, s)
  BY DEF FlowSignal, ForcedFlow, Diff
<1> HIDE DEF lo, s
<1>4. Seen(TargetExposure(n, t), t - Month, t) /\ Seen(TargetExposure(n, s), s - Month, s)
  BY <1>1, <1>2
<1>5. Seen(TargetExposure(n, t), lo, t) /\ Seen(TargetExposure(n, s), lo, t)
  BY <1>2, <1>4, SeenWider, Windows
<1>6. Seen(FlowSignal(n, t), lo, t)
  BY <1>3, <1>5, SeenBoth
<1> QED BY <1>4, <1>6 DEF lo

LEMMA ForcedSellerBook ==
  ASSUME NEW d \in Int
  PROVE  /\ Past(ForcedSellerHeld(d), d - 1)
         /\ d >= FlowWarmup => Complete(ForcedSellerHeld(d))
<1>1. FlowWarmup \in Int /\ FlowWarmup = Month + Month
  BY Windows DEF FlowWarmup
<1>2. PICK t \in Int : t = Decision(FlowWarmup, d) /\ t =< d /\ (d >= FlowWarmup => t >= FlowWarmup)
  BY <1>1, Decisions
<1> DEFINE s == t - 1
<1> DEFINE lo == s - Week - Month
<1>3. /\ s \in Int /\ lo \in Int /\ s =< d - 1
      /\ d >= FlowWarmup => lo >= 0
  BY <1>1, <1>2, Windows
<1>4. ForcedSellerHeld(d) = FlowSignal(Hedge, s)
  BY <1>2 DEF ForcedSellerHeld
<1> HIDE DEF s
<1>5. Seen(ForcedSellerHeld(d), lo, s)
  BY <1>3, <1>4, FlowSeen
<1> HIDE DEF lo
<1> QED BY <1>3, <1>5, SeenInTime

-----------------------------------------------------------------------------
(* What is computed from the rows that are present may be anything of the  *)
(* past.                                                                   *)
LEMMA PresentRowsPast ==
  ASSUME NEW cells, NEW t \in Int, \A c \in cells : \E s \in Int : s =< t /\ Past(c, s)
  PROVE  Past(UNION cells, t)
<1>1. \A c \in cells : Past(c, t)
  BY PastLater
<1> QED BY <1>1, PastUnion

LEMMA LiquidityPast ==
  ASSUME NEW method, NEW n, NEW t \in Int
  PROVE  Past(EstimateLiquidity(method, n, t), t)
<1> DEFINE first == t - Month + 1
<1> DEFINE dollars == {Close(n, s) \cup Volume(n, s) : s \in first .. t}
<1> DEFINE ranges == {HighLow(n, s) \cup HighLow(n, s - 1) : s \in first .. t}
<1>1. first \in Int /\ Adv(n, t) = UNION dollars /\ CorwinSchultz(n, t) = UNION ranges
  BY Windows DEF Adv, CorwinSchultz, Rolling, Rows, Diff
<1> HIDE DEF first
<1>2. \A s \in Int : Past(Close(n, s) \cup Volume(n, s), s)
  BY CloseSeen, VolumeSeen, SeenIsPast, PastBoth
<1>3. \A s \in Int : Past(HighLow(n, s), s)
  BY ObsSeen, SeenIsPast, PastBoth DEF HighLow
<1>4. \A s \in Int : Past(HighLow(n, s) \cup HighLow(n, s - 1), s)
  <2> TAKE s \in Int
  <2> DEFINE before == s - 1
  <2>1. before \in Int /\ before =< s
    OBVIOUS
  <2> HIDE DEF before
  <2>2. Past(HighLow(n, s), s) /\ Past(HighLow(n, before), s)
    BY <1>3, <2>1, PastLater
  <2>3. Past(HighLow(n, s) \cup HighLow(n, before), s)
    BY <2>2, PastBoth
  <2> QED BY <2>3 DEF before
<1>5. \A c \in dollars : \E s \in Int : s =< t /\ Past(c, s)
  BY <1>1, <1>2
<1>6. \A c \in ranges : \E s \in Int : s =< t /\ Past(c, s)
  BY <1>1, <1>4
<1> HIDE DEF dollars, ranges
<1>7. Past(Adv(n, t), t) /\ Past(CorwinSchultz(n, t), t)
  BY <1>1, <1>5, <1>6, PresentRowsPast
<1>8. Past(Rolling(Ret, n, t, Quarter), t)
  BY RollingRet, SeenIsPast, Windows
<1> DEFINE parts == { Adv(n, t), Rolling(Ret, n, t, Quarter),
            IF method = "corwin_schultz" THEN CorwinSchultz(n, t) ELSE Adv(n, t) }
<1>9. \A c \in parts : Past(c, t)
  BY <1>7, <1>8
<1>10. EstimateLiquidity(method, n, t) = UNION parts
  BY DEF EstimateLiquidity
<1> HIDE DEF parts
<1> QED BY <1>9, <1>10, PastUnion

LEMMA VolTargetBook ==
  ASSUME NEW method, NEW d \in Int
  PROVE  Past(VolTargetHeld(d) \cup EngineLiquidity(method, Decision(FlowWarmup, d)), d - 1)
<1>1. FlowWarmup \in Int
  BY Windows DEF FlowWarmup
<1>2. PICK t \in Int : t = Decision(FlowWarmup, d) /\ t =< d
  BY <1>1, Decisions
<1> DEFINE s == t - 1
<1> DEFINE rows == {EstimateLiquidity(method, n, s) : n \in Stocks}
<1>3. s \in Int /\ s =< d - 1 /\ d - 1 \in Int
  BY <1>2
<1>4. /\ VolTargetHeld(d) = TargetExposure(Hedge, s)
      /\ EngineLiquidity(method, Decision(FlowWarmup, d)) = UNION rows
  BY <1>2 DEF VolTargetHeld, EngineLiquidity, All, Across
<1> HIDE DEF s
<1>5. Past(TargetExposure(Hedge, s), s)
  BY <1>3, FlowSeen, SeenIsPast, Windows
<1>6. \A c \in rows : Past(c, s)
  BY <1>3, LiquidityPast
<1> HIDE DEF rows
<1>7. Past(UNION rows, s)
  BY <1>6, PastUnion
<1>8. Past(TargetExposure(Hedge, s) \cup UNION rows, s)
  BY <1>5, <1>7, PastBoth
<1> QED BY <1>3, <1>4, <1>8, PastLater

-----------------------------------------------------------------------------
(* implement.py: observations up to hi, all there if hi is far enough into *)
(* the sample.                                                             *)
Sound(cells, hi, first) == Past(cells, hi) /\ (hi >= first => Complete(cells))

LEMMA SeenIsSound ==
  ASSUME NEW cells, NEW lo \in Int, NEW hi \in Int, Seen(cells, lo, hi),
         NEW first \in Int, hi - first =< lo
  PROVE  Sound(cells, hi, first)
<1>1. Past(cells, hi)
  BY SeenIsPast
<1>2. hi >= first => lo >= 0
  OBVIOUS
<1> QED BY <1>1, <1>2, SeenIsComplete DEF Sound

LEMMA SoundUnion ==
  ASSUME NEW S, NEW hi, NEW first, \A cells \in S : Sound(cells, hi, first)
  PROVE  Sound(UNION S, hi, first)
BY DEF Sound, Past, Complete

LEMMA SoundBoth ==
  ASSUME NEW A, NEW B, NEW hi, NEW first, Sound(A, hi, first), Sound(B, hi, first)
  PROVE  Sound(A \cup B, hi, first)
BY DEF Sound, Past, Complete

LEMMA NothingIsSound == ASSUME NEW hi, NEW first PROVE Sound({}, hi, first)
BY DEF Sound, Past, Complete

FactorNames == {"mom", "lowvol", "rev"}

LEMMA ImplementedSignalSeen ==
  ASSUME NEW factors \in SUBSET FactorNames, NEW n, NEW t \in Int
  PROVE  Seen(ImplementedSignal(factors, n, t), t - Year, t)
<1>1. \A f \in factors : \A m \in Stocks : Seen(FactorScore(f, m, t), t - Year, t)
  <2> TAKE f \in factors
  <2> TAKE m \in Stocks
  <2>1. Seen(SkipMonth(m, t), t - Year, t) /\ Seen(Rolling(Ret, m, t, Year), t - Year, t)
    BY SkipMonthSeen, RollingRet, Windows
  <2>2. Seen(Diff(Close, m, t, Month), t - Year, t)
    BY ClosesApart, SeenWider, Windows
  <2>3. f = "mom" \/ f = "lowvol" \/ f = "rev"
    BY DEF FactorNames
  <2> QED BY <2>1, <2>2, <2>3 DEF FactorScore
<1>2. \A f \in factors : Seen(UNION {FactorScore(f, m, t) : m \in Stocks}, t - Year, t)
  <2> TAKE f \in factors
  <2> DEFINE row == {FactorScore(f, m, t) : m \in Stocks}
  <2>1. \A c \in row : Seen(c, t - Year, t)
    BY <1>1
  <2> HIDE DEF row
  <2>2. Seen(UNION row, t - Year, t)
    BY <2>1, SeenUnion
  <2> QED BY <2>2 DEF row
<1> DEFINE rows == {UNION {FactorScore(f, m, t) : m \in Stocks} : f \in factors}
<1>3. \A c \in rows : Seen(c, t - Year, t)
  BY <1>2
<1>4. MultiFactorScore(factors, n, t) = UNION rows
  BY DEF MultiFactorScore, Across
<1> HIDE DEF rows
<1>5. Seen(MultiFactorScore(factors, n, t), t - Year, t)
  BY <1>3, <1>4, SeenUnion
<1>6. Seen(MomentumSignal(n, t), t - Year, t)
  BY SkipMonthSeen DEF MomentumSignal
<1> QED BY <1>5, <1>6 DEF ImplementedSignal

LEMMA AlphaSound ==
  ASSUME NEW factors \in SUBSET FactorNames, NEW enh, NEW n, NEW t \in Int
  PROVE  Sound(Alpha(factors, enh, n, t), t, Year)
<1>1. Sound(ImplementedSignal(factors, n, t), t, Year)
  <2> DEFINE lo == t - Year
  <2>1. lo \in Int /\ t - Year =< lo
    BY Windows
  <2>2. Seen(ImplementedSignal(factors, n, t), lo, t)
    BY ImplementedSignalSeen
  <2> HIDE DEF lo
  <2> QED BY <2>1, <2>2, SeenIsSound, Windows
<1> DEFINE present == {ImplementedSignal(factors, n, s) :
              s \in {u \in (t - (t + 1) + 1) .. t : Complete(ImplementedSignal(factors, n, u))}}
<1>2. \A c \in present : Sound(c, t, Year)
  <2> TAKE c \in present
  <2>1. PICK s \in (t - (t + 1) + 1) .. t :
            Complete(ImplementedSignal(factors, n, s)) /\ c = ImplementedSignal(factors, n, s)
    OBVIOUS
  <2> DEFINE lo == s - Year
  <2>2. lo \in Int /\ s \in Int /\ s =< t
    BY <2>1, Windows
  <2>3. Seen(c, lo, s)
    BY <2>1, <2>2, ImplementedSignalSeen
  <2> HIDE DEF lo
  <2>4. Past(c, t)
    BY <2>2, <2>3, SeenIsPast, PastLater
  <2> QED BY <2>1, <2>4 DEF Sound
<1>3. SoFar(LAMBDA m, s : ImplementedSignal(factors, m, s), n, t) = UNION present
  BY DEF SoFar, RollingPresent
<1> HIDE DEF present
<1>4. Sound(UNION present, t, Year)
  BY <1>2, SoundUnion
<1>5. Alpha(factors, enh, n, t) = UNION present \/ Alpha(factors, enh, n, t) = ImplementedSignal(factors, n, t)
  BY <1>3 DEF Alpha
<1> QED BY <1>1, <1>4, <1>5

LEMMA HedgeBetaSeen ==
  ASSUME NEW n, NEW t \in Int
  PROVE  Seen(HedgeBeta(n, t), t - Half, t)
BY RollingRet, SeenBoth, Windows DEF HedgeBeta

LEMMA TargetWeightsSound ==
  ASSUME NEW factors \in SUBSET FactorNames, NEW enh, NEW t \in Int
  PROVE  Sound(TargetWeights(factors, enh, t), t - 1, Year)
<1> DEFINE last == t - 1
<1> DEFINE year == t - Year
<1> DEFINE quarter == t - Quarter
<1> DEFINE alphas == {Alpha(factors, enh, n, last) : n \in Stocks}
<1> DEFINE betas == {HedgeBeta(n, last) : n \in Stocks}
<1> DEFINE vols == All(InvVol, last)
<1> DEFINE window == UNION {All(Ret, s) : s \in year .. last}
<1> DEFINE risk == UNION {All(Ret, s) : s \in quarter .. last}
<1>1. /\ last \in Int /\ year \in Int /\ quarter \in Int
      /\ last - Year = year - 1 /\ last - Year =< quarter - 1
      /\ last - Year =< last - Half /\ last - Year =< last - Quarter
      /\ last - Half \in Int /\ last - Quarter \in Int /\ Year \in Int
  BY Windows
<1> DEFINE implemented == UNION { IF "risk" \in enh THEN vols \cup risk ELSE {},
                                  IF "hedge" \in enh THEN UNION betas ELSE {} }
<1> DEFINE parts == { UNION alphas,
            IF "neutralize" \in enh THEN (UNION betas) \cup vols ELSE {},
            IF "optimize" \in enh THEN window ELSE implemented }
<1>2. TargetWeights(factors, enh, t) = UNION parts
  BY DEF TargetWeights, All, Across, OptimizeWindow, RiskWindow
<1> HIDE DEF last, year, quarter
<1>3. Sound(UNION alphas, last, Year)
  <2>1. \A c \in alphas : Sound(c, last, Year)
    BY <1>1, AlphaSound
  <2> HIDE DEF alphas
  <2> QED BY <2>1, SoundUnion
<1>4. Sound(UNION betas, last, Year)
  <2> DEFINE lo == last - Half
  <2>1. \A c \in betas : Seen(c, lo, last)
    BY <1>1, HedgeBetaSeen
  <2> HIDE DEF betas, lo
  <2>2. Seen(UNION betas, lo, last)
    BY <2>1, SeenUnion
  <2> QED BY <1>1, <2>2, SeenIsSound DEF lo
<1>5. Sound(vols, last, Year)
  <2> DEFINE lo == last - Quarter
  <2>1. Seen(vols, lo, last)
    BY <1>1, InvVolsSeen
  <2> HIDE DEF vols, lo
  <2> QED BY <1>1, <2>1, SeenIsSound DEF lo
<1>6. Sound(window, last, Year)
  <2> DEFINE lo == year - 1
  <2>1. Seen(window, lo, last)
    BY <1>1, RetRowsSeen
  <2>2. lo \in Int /\ last - Year =< lo
    BY <1>1
  <2> HIDE DEF window, lo
  <2> QED BY <1>1, <2>1, <2>2, SeenIsSound
<1>7. Sound(risk, last, Year)
  <2> DEFINE lo == quarter - 1
  <2>1. Seen(risk, lo, last)
    BY <1>1, RetRowsSeen
  <2>2. lo \in Int /\ last - Year =< lo
    BY <1>1
  <2> HIDE DEF risk, lo
  <2> QED BY <1>1, <2>1, <2>2, SeenIsSound
<1>8. TargetWeights(factors, enh, t) = UNION parts /\ last = t - 1
  BY <1>2 DEF last
<1> HIDE DEF alphas, betas, vols, window, risk
<1>9. Sound(vols \cup risk, last, Year) /\ Sound((UNION betas) \cup vols, last, Year)
  BY <1>4, <1>5, <1>7, SoundBoth
<1>10. Sound(implemented, last, Year)
  <2> DEFINE some == { IF "risk" \in enh THEN vols \cup risk ELSE {},
                       IF "hedge" \in enh THEN UNION betas ELSE {} }
  <2>1. \A c \in some : Sound(c, last, Year)
    BY <1>4, <1>9, NothingIsSound
  <2> HIDE DEF some
  <2>2. Sound(UNION some, last, Year)
    BY <2>1, SoundUnion
  <2> QED BY <2>2 DEF some
<1> HIDE DEF implemented
<1>11. \A c \in parts : Sound(c, last, Year)
  BY <1>3, <1>6, <1>9, <1>10, NothingIsSound
<1> HIDE DEF parts
<1>12. Sound(UNION parts, last, Year)
  BY <1>11, SoundUnion
<1> QED BY <1>8, <1>12

LEMMA ImplementedBook ==
  ASSUME NEW factors \in SUBSET FactorNames, NEW enh, NEW d \in Int
  PROVE  /\ Past(ImplementedHeld(factors, enh, d), d - 1)
         /\ d >= ImplementWarmup => Complete(ImplementedHeld(factors, enh, d))
<1> DEFINE last == d - 1
<1>1. ImplementWarmup \in Int /\ ImplementWarmup > Year /\ last \in Int
  BY Windows DEF ImplementWarmup
<1>2. ASSUME NEW t \in Int
      PROVE  /\ t =< d => Past(TargetWeights(factors, enh, t), last)
             /\ t >= ImplementWarmup => Complete(TargetWeights(factors, enh, t))
  <2> DEFINE s == t - 1
  <2>1. s \in Int /\ (t =< d => s =< last) /\ (t >= ImplementWarmup => s >= Year)
    BY <1>1, Windows
  <2>2. Sound(TargetWeights(factors, enh, t), s, Year)
    BY TargetWeightsSound
  <2> HIDE DEF s, last
  <2> QED BY <1>1, <2>1, <2>2, PastLater DEF Sound
<1>3. PICK t \in Int : t = Decision(ImplementWarmup, d) /\ t =< d
                       /\ (d >= ImplementWarmup => t >= ImplementWarmup)
  BY <1>1, Decisions
<1> DEFINE now == TargetWeights(factors, enh, t)
<1>4. Past(now, last) /\ (d >= ImplementWarmup => Complete(now))
  BY <1>2, <1>3
<1> DEFINE all == {TargetWeights(factors, enh, s) : s \in PastDecisions(ImplementWarmup, d)}
<1>5. ASSUME NEW c \in all
      PROVE  Past(c, last) /\ Complete(c)
  <2>1. PICK s \in PastDecisions(ImplementWarmup, d) : c = TargetWeights(factors, enh, s)
    OBVIOUS
  <2>2. s \in Int /\ s >= ImplementWarmup /\ s =< d
    BY <1>1 DEF PastDecisions
  <2> QED BY <1>2, <2>1, <2>2
<1>6. \/ ImplementedHeld(factors, enh, d) = UNION all
      \/ ImplementedHeld(factors, enh, d) = now
  BY <1>3 DEF ImplementedHeld
<1> HIDE DEF all, now
<1>7. Past(UNION all, last)
  BY <1>5, PastUnion
<1>8. Complete(UNION all)
  BY <1>5 DEF Complete
<1>9. Past(ImplementedHeld(factors, enh, d), last)
  BY <1>4, <1>6, <1>7
<1>10. d >= ImplementWarmup => Complete(ImplementedHeld(factors, enh, d))
  BY <1>4, <1>6, <1>8
<1> QED BY <1>9, <1>10

-----------------------------------------------------------------------------
(* strategies_lib.py, xstatarb.py, dslstrategy.py                          *)

LEMMA LookbackSeen ==
  ASSUME NEW t \in Int
  PROVE  Seen(LookbackReturns(t), t - Year, t - 1)
<1> DEFINE first == t - Year
<1> DEFINE last == t - 1
<1>1. first \in Int /\ last \in Int
  BY Windows
<1>2. LookbackReturns(t) = UNION {All(Close, s) : s \in first .. last}
  BY DEF LookbackReturns
<1> HIDE DEF first, last
<1>3. Seen(LookbackReturns(t), first, last)
  BY <1>1, <1>2, CloseRowsSeen
<1> QED BY <1>3 DEF first, last

LEMMA RiskParityBook ==
  ASSUME NEW d \in Int
  PROVE  /\ Past(RiskParityHeld(d), d - 1)
         /\ d >= Year + Slack => Complete(RiskParityHeld(d))
<1> DEFINE warmup == Year + Slack
<1>1. warmup \in Int /\ warmup > Year
  BY Windows
<1>2. RiskParityHeld(d) = LookbackReturns(Decision(warmup, d))
  BY DEF RiskParityHeld
<1>3. warmup = Year + Slack
  OBVIOUS
<1> HIDE DEF warmup
<1>4. PICK t \in Int : t = Decision(warmup, d) /\ t =< d /\ (d >= warmup => t >= warmup)
  BY <1>1, Decisions
<1> DEFINE lo == t - Year
<1> DEFINE hi == t - 1
<1>5. /\ lo \in Int /\ hi \in Int /\ hi =< d - 1
      /\ d >= warmup => lo >= 0
  BY <1>1, <1>4, Windows
<1>6. Seen(RiskParityHeld(d), lo, hi)
  BY <1>2, <1>4, LookbackSeen
<1> HIDE DEF lo, hi
<1>7. Past(RiskParityHeld(d), d - 1) /\ (lo >= 0 => Complete(RiskParityHeld(d)))
  BY <1>5, <1>6, SeenInTime
<1> QED BY <1>3, <1>5, <1>7

LEMMA TsMomentumBook ==
  ASSUME NEW d \in Int
  PROVE  /\ Past(TsMomentumHeld(d), d - 1)
         /\ d >= Year + Slack => Complete(TsMomentumHeld(d))
<1> DEFINE warmup == Year + Slack
<1>1. warmup \in Int /\ warmup > Year
  BY Windows
<1>2. PICK t \in Int : t = Decision(warmup, d) /\ t =< d /\ (d >= warmup => t >= warmup)
  BY <1>1, Decisions
<1> DEFINE lo == t - Year - 1
<1> DEFINE hi == t - 1
<1> DEFINE trends == {TrendScore(TRUE, n, hi) : n \in Stocks}
<1> DEFINE parts == {UNION trends, All(InvVol, hi), LookbackReturns(t)}
<1>3. TsMomentumHeld(d) = UNION parts
  BY <1>2 DEF TsMomentumHeld, All, Across
<1>4. Seen(LookbackReturns(t), lo, hi)
  <2> DEFINE first == t - Year
  <2>1. first \in Int /\ lo \in Int /\ hi \in Int /\ lo =< first /\ hi =< hi
    BY Windows
  <2>2. Seen(LookbackReturns(t), first, hi)
    BY LookbackSeen
  <2> HIDE DEF first, lo, hi
  <2> QED BY <2>1, <2>2, SeenWider
<1>5. /\ lo \in Int /\ hi \in Int /\ hi =< d - 1 /\ lo = hi - Year
      /\ d >= warmup => lo >= 0
  BY <1>1, <1>2, Windows
<1>6. warmup = Year + Slack
  OBVIOUS
<1> HIDE DEF lo, hi, warmup
<1>7. Seen(UNION trends, lo, hi)
  <2>1. \A c \in trends : Seen(c, lo, hi)
    BY <1>5, TrendScoreSeen
  <2> HIDE DEF trends
  <2> QED BY <2>1, SeenUnion
<1>8. Seen(All(InvVol, hi), lo, hi)
  BY <1>5, InvVolsSeen, SeenWider, Windows
<1> HIDE DEF trends
<1>9. \A c \in parts : Seen(c, lo, hi)
  BY <1>4, <1>7, <1>8
<1> HIDE DEF parts
<1>10. Seen(TsMomentumHeld(d), lo, hi)
  BY <1>3, <1>9, SeenUnion
<1>11. Past(TsMomentumHeld(d), d - 1) /\ (lo >= 0 => Complete(TsMomentumHeld(d)))
  BY <1>5, <1>10, SeenInTime
<1> QED BY <1>5, <1>6, <1>11

LEMMA StatArbBook ==
  ASSUME NEW d \in Int
  PROVE  /\ Past(StatArbHeld(d), d - 1)
         /\ d >= StatArbWarmup => Complete(StatArbHeld(d))
<1>1. StatArbWarmup \in Int /\ StatArbWarmup > Quarter
  BY Windows DEF StatArbWarmup
<1>2. PICK t \in Int : t = Decision(StatArbWarmup, d) /\ t =< d
                       /\ (d >= StatArbWarmup => t >= StatArbWarmup)
  BY <1>1, Decisions
<1> DEFINE first == t - Quarter
<1> DEFINE hi == t - 1
<1> DEFINE lo == first - 1
<1>3. StatArbHeld(d) = UNION {All(Ret, s) : s \in first .. hi}
  BY <1>2 DEF StatArbHeld
<1>4. /\ first \in Int /\ lo \in Int /\ hi \in Int /\ hi =< d - 1
      /\ d >= StatArbWarmup => lo >= 0
  BY <1>1, <1>2, Windows
<1> HIDE DEF first, hi
<1>5. Seen(StatArbHeld(d), lo, hi)
  BY <1>3, <1>4, RetRowsSeen
<1> HIDE DEF lo
<1> QED BY <1>4, <1>5, SeenInTime

LEMMA DslBook == ASSUME NEW d \in Int PROVE Past(DslHeld(d), d - 1)
<1>1. PICK t \in Int : t = Decision(Year, d) /\ t =< d
  BY Decisions, Windows
<1> DEFINE hi == t - 1
<1> DEFINE lo == hi - Quarter
<1>2. lo \in Int /\ hi \in Int /\ hi =< d - 1 /\ DslHeld(d) = All(InvVol, hi)
  BY <1>1, Windows DEF DslHeld
<1> HIDE DEF hi
<1>3. Seen(DslHeld(d), lo, hi)
  BY <1>2, InvVolsSeen
<1> HIDE DEF lo
<1> QED BY <1>2, <1>3, SeenInTime

-----------------------------------------------------------------------------
(* statarb.py                                                              *)

LEMMA HedgeRatioSeen ==
  ASSUME NEW t \in Int, NEW last \in Int, t - 1 =< last
  PROVE  /\ Past(HedgeRatio(t), last)
         /\ t >= Half => Complete(HedgeRatio(t))
<1> DEFINE start == BlockStart(Half, t, Hold)
<1>1. start \in Int /\ start =< t /\ (t >= Half => start >= Half)
  BY BlockStarts, Windows
<1> DEFINE lo == start - Half
<1> DEFINE hi == start - 1
<1>2. HedgeRatio(t) = UNION {All(Close, s) : s \in lo .. hi}
  BY DEF HedgeRatio, PairBar
<1> HIDE DEF start
<1>3. lo \in Int /\ hi \in Int /\ hi =< last /\ (t >= Half => lo >= 0)
  BY <1>1, Windows
<1> HIDE DEF lo, hi
<1>4. Seen(HedgeRatio(t), lo, hi)
  BY <1>2, <1>3, CloseRowsSeen
<1>5. Past(HedgeRatio(t), last)
  BY <1>3, <1>4, SeenIsPast, PastLater
<1>6. t >= Half => Complete(HedgeRatio(t))
  BY <1>3, <1>4, SeenIsComplete
<1> QED BY <1>5, <1>6

LEMMA PairBook ==
  ASSUME NEW d \in Int
  PROVE  /\ Past(PairTraded(d), d - 1)
         /\ d >= Half + 1 => Complete(PairTraded(d))
<1> DEFINE last == d - 1
<1> DEFINE spreads == {Spread(s) : s \in Half .. last}
<1>1. PairHeld(d) = UNION spreads
  BY DEF PairHeld, PairPosition, Lagged
<1>2. last \in Int /\ d - 1 =< last /\ (d >= Half + 1 => d >= Half)
  BY Windows
<1> HIDE DEF last
<1>3. ASSUME NEW c \in spreads
      PROVE  Past(c, last) /\ Complete(c)
  <2>1. PICK s \in Half .. last : c = Spread(s)
    OBVIOUS
  <2>2. s \in Int /\ s >= Half /\ s =< last /\ s - 1 =< last /\ s >= 0
    BY <1>2, <2>1, Windows
  <2>3. Seen(PairBar(s), s, s)
    BY <2>2, ClosesSeen DEF PairBar
  <2>4. Past(PairBar(s), last)
    BY <1>2, <2>2, <2>3, SeenIsPast, PastLater
  <2>5. Complete(PairBar(s))
    BY <2>2, <2>3, SeenIsComplete
  <2>6. Past(HedgeRatio(s), last) /\ Complete(HedgeRatio(s))
    BY <1>2, <2>2, HedgeRatioSeen
  <2>7. c = PairBar(s) \cup HedgeRatio(s)
    BY <2>1 DEF Spread
  <2>8. Past(c, last)
    BY <2>4, <2>6, <2>7, PastBoth
  <2>9. Complete(c)
    BY <2>5, <2>6, <2>7 DEF Complete
  <2> QED BY <2>8, <2>9
<1> HIDE DEF spreads
<1>4. Past(UNION spreads, last)
  BY <1>3, PastUnion
<1>5. Complete(UNION spreads)
  BY <1>3 DEF Complete
<1>6. Past(HedgeRatio(d), last) /\ (d >= Half => Complete(HedgeRatio(d)))
  BY <1>2, HedgeRatioSeen
<1>7. PairTraded(d) = (UNION spreads) \cup HedgeRatio(d)
  BY <1>1 DEF PairTraded
<1>8. Past(PairTraded(d), last)
  BY <1>4, <1>6, <1>7, PastBoth
<1>9. d >= Half => Complete(PairTraded(d))
  BY <1>5, <1>6, <1>7 DEF Complete
<1> QED BY <1>2, <1>8, <1>9 DEF last

-----------------------------------------------------------------------------
(* crosssec.py: no signal of a day reads beyond it.                        *)

LEMMA RowsPast ==
  ASSUME NEW n, NEW t \in Int
  PROVE  /\ Past(Ret(n, t), t) /\ Past(Close(n, t), t) /\ Past(Volume(n, t), t)
         /\ Past(Overnight(n, t), t) /\ Past(VwapGap(n, t), t) /\ Past(TradeSize(n, t), t)
<1>1. Past(Ret(n, t), t)
  BY RetSeen, SeenIsPast
<1>2. Past(Close(n, t), t) /\ Past(Volume(n, t), t)
  BY CloseSeen, VolumeSeen, SeenIsPast
<1>3. Past(Obs("open", n, t), t) /\ Past(Obs("vwap", n, t), t) /\ Past(Obs("trades", n, t), t)
  BY ObsSeen, SeenIsPast
<1> DEFINE s == t - 1
<1>4. s \in Int /\ s =< t /\ Overnight(n, t) = Obs("open", n, t) \cup Close(n, s)
  BY DEF Overnight
<1> HIDE DEF s
<1>5. Past(Close(n, s), t)
  BY <1>4, CloseSeen, SeenIsPast, PastLater
<1>6. Past(Overnight(n, t), t)
  BY <1>3, <1>4, <1>5, PastBoth
<1>7. Past(VwapGap(n, t), t) /\ Past(TradeSize(n, t), t)
  BY <1>2, <1>3, PastBoth DEF VwapGap, TradeSize
<1> QED BY <1>1, <1>2, <1>6, <1>7

LEMMA MarketPast ==
  ASSUME NEW n, NEW t \in Int
  PROVE  /\ Past(LooMarket(n, t), t)
         /\ Past(SectorRelative(Ret, n, t), t) /\ Past(SectorRelative(SkipMonth, n, t), t)
<1> DEFINE others == {Ret(m, t) : m \in Stocks \ {n}}
<1> DEFINE sector == {m \in Stocks : Sector[m] = Sector[n]}
<1> DEFINE rets == {Ret(m, t) : m \in sector}
<1> DEFINE skips == {SkipMonth(m, t) : m \in sector}
<1>1. /\ LooMarket(n, t) = UNION others
      /\ SectorRelative(Ret, n, t) = UNION rets /\ SectorRelative(SkipMonth, n, t) = UNION skips
  BY DEF LooMarket, SectorRelative
<1>2. \A m : Past(SkipMonth(m, t), t)
  BY SkipMonthSeen, SeenIsPast, Windows
<1>3. \A c \in others : Past(c, t)
  BY RowsPast
<1>4. \A c \in rets : Past(c, t)
  BY RowsPast
<1>5. \A c \in skips : Past(c, t)
  BY <1>2
<1> HIDE DEF others, rets, skips
<1> QED BY <1>1, <1>3, <1>4, <1>5, PastUnion

LEMMA RollingMarketPast ==
  ASSUME NEW n, NEW t \in Int
  PROVE  Past(Rolling(LooMarket, n, t, Half), t)
<1> DEFINE first == t - Half + 1
<1> DEFINE rows == {LooMarket(n, s) : s \in first .. t}
<1>1. first \in Int
  BY Windows
<1>2. Rolling(LooMarket, n, t, Half) = UNION rows
  BY DEF Rolling, Rows
<1> HIDE DEF first
<1>3. \A c \in rows : \E s \in Int : s =< t /\ Past(c, s)
  BY <1>1, MarketPast
<1> HIDE DEF rows
<1> QED BY <1>2, <1>3, PresentRowsPast

LEMMA RollingOvernightPast ==
  ASSUME NEW n, NEW t \in Int
  PROVE  Past(Rolling(Overnight, n, t, Month), t)
<1> DEFINE first == t - Month + 1
<1> DEFINE rows == {Overnight(n, s) : s \in first .. t}
<1>1. first \in Int
  BY Windows
<1>2. Rolling(Overnight, n, t, Month) = UNION rows
  BY DEF Rolling, Rows
<1> HIDE DEF first
<1>3. \A c \in rows : \E s \in Int : s =< t /\ Past(c, s)
  BY <1>1, RowsPast
<1> HIDE DEF rows
<1> QED BY <1>2, <1>3, PresentRowsPast

LEMMA RollingVwapPast ==
  ASSUME NEW n, NEW t \in Int
  PROVE  Past(Rolling(VwapGap, n, t, Week), t)
<1> DEFINE first == t - Week + 1
<1> DEFINE rows == {VwapGap(n, s) : s \in first .. t}
<1>1. first \in Int
  BY Windows
<1>2. Rolling(VwapGap, n, t, Week) = UNION rows
  BY DEF Rolling, Rows
<1> HIDE DEF first
<1>3. \A c \in rows : \E s \in Int : s =< t /\ Past(c, s)
  BY <1>1, RowsPast
<1> HIDE DEF rows
<1> QED BY <1>2, <1>3, PresentRowsPast

LEMMA RollingVolumePast ==
  ASSUME NEW n, NEW t \in Int
  PROVE  Past(Rolling(Volume, n, t, Week), t)
<1> DEFINE first == t - Week + 1
<1> DEFINE rows == {Volume(n, s) : s \in first .. t}
<1>1. first \in Int
  BY Windows
<1>2. Rolling(Volume, n, t, Week) = UNION rows
  BY DEF Rolling, Rows
<1> HIDE DEF first
<1>3. \A c \in rows : \E s \in Int : s =< t /\ Past(c, s)
  BY <1>1, RowsPast
<1> HIDE DEF rows
<1> QED BY <1>2, <1>3, PresentRowsPast

LEMMA RollingSizePast ==
  ASSUME NEW n, NEW t \in Int
  PROVE  Past(Rolling(TradeSize, n, t, Month), t)
<1> DEFINE first == t - Month + 1
<1> DEFINE rows == {TradeSize(n, s) : s \in first .. t}
<1>1. first \in Int
  BY Windows
<1>2. Rolling(TradeSize, n, t, Month) = UNION rows
  BY DEF Rolling, Rows
<1> HIDE DEF first
<1>3. \A c \in rows : \E s \in Int : s =< t /\ Past(c, s)
  BY <1>1, RowsPast
<1> HIDE DEF rows
<1> QED BY <1>2, <1>3, PresentRowsPast

LEMMA SectorReversalPast ==
  ASSUME NEW n, NEW t \in Int
  PROVE  Past(Signal("sector_rel_rev", n, t), t)
<1> DEFINE first == t - Week + 1
<1> DEFINE rows == {SectorRelative(Ret, n, s) : s \in first .. t}
<1>1. first \in Int
  BY Windows
<1>2. Signal("sector_rel_rev", n, t) = UNION rows
  BY DEF Signal, Rolling, Rows
<1> HIDE DEF first
<1>3. \A c \in rows : \E s \in Int : s =< t /\ Past(c, s)
  BY <1>1, MarketPast
<1> HIDE DEF rows
<1> QED BY <1>2, <1>3, PresentRowsPast

LEMMA SizeTrendPast ==
  ASSUME NEW n, NEW t \in Int
  PROVE  Past(Signal("trade_size_trend", n, t), t)
<1> DEFINE first == t - Quarter + 1
<1> DEFINE rows == {Rolling(TradeSize, n, s, Month) : s \in first .. t}
<1>1. first \in Int
  BY Windows
<1>2. Signal("trade_size_trend", n, t) = UNION rows
  BY DEF Signal, Rolling, Rows
<1> HIDE DEF first
<1>3. \A c \in rows : \E s \in Int : s =< t /\ Past(c, s)
  BY <1>1, RollingSizePast
<1> HIDE DEF rows
<1> QED BY <1>2, <1>3, PresentRowsPast

LEMMA BetaPast ==
  ASSUME NEW n, NEW t \in Int
  PROVE  Past(RollingBeta(n, t), t)
<1>1. Past(Rolling(Ret, n, t, Half), t)
  BY RollingRet, SeenIsPast, Windows
<1> QED BY <1>1, RollingMarketPast, PastBoth DEF RollingBeta

LEMMA SignalPast ==
  ASSUME NEW name \in SignalNames, NEW n, NEW t \in Int
  PROVE  Past(Signal(name, n, t), t)
<1>1. Past(SkipMonth(n, t), t)
  BY SkipMonthSeen, SeenIsPast, Windows
<1>2. Past(Rolling(Ret, n, t, Week), t) /\ Past(Rolling(Ret, n, t, Month), t)
  BY RollingRet, SeenIsPast, Windows
<1>3. Past(SkipMonth(n, t) \cup RollingBeta(n, t), t)
  BY <1>1, BetaPast, PastBoth
<1>4. Past(Rolling(VwapGap, n, t, Week) \cup Rolling(Volume, n, t, Week), t)
  BY RollingVwapPast, RollingVolumePast, PastBoth
<1>5. CASE name \in {"momentum", "reversal", "low_vol", "max_lottery"}
  BY <1>1, <1>2, <1>5 DEF Signal
<1>6. CASE name \in {"bab", "idio_vol", "risk_adj_mom"}
  BY <1>3, <1>6, BetaPast DEF Signal, IdioVol
<1>7. CASE name = "sector_rel_mom"
  BY <1>7, MarketPast DEF Signal
<1>8. CASE name = "overnight"
  BY <1>8, RollingOvernightPast DEF Signal
<1>9. CASE name = "vwap_pressure"
  BY <1>9, RollingVwapPast DEF Signal
<1>10. CASE name = "flow_pressure"
  BY <1>4, <1>10 DEF Signal
<1>11. CASE name \in {"sector_rel_rev", "trade_size_trend"}
  BY <1>11, SectorReversalPast, SizeTrendPast
<1> QED BY <1>5, <1>6, <1>7, <1>8, <1>9, <1>10, <1>11 DEF SignalNames

-----------------------------------------------------------------------------
(* factors.py, factortiming.py                                             *)

LEMMA FiledPast ==
  ASSUME NEW n, NEW t \in Int
  PROVE  Past(FiledSoFar(n, t), t) /\ Past(BuybackYield(n, t), t)
<1> DEFINE facts == {Obs("fact", n, f) : f \in {g \in FilingDays : g =< t}}
<1>1. \A c \in facts : \E s \in Int : s =< t /\ Past(c, s)
  BY ObsSeen, SeenIsPast, WindowsGrow
<1>2. FiledSoFar(n, t) = UNION facts
  BY DEF FiledSoFar
<1> HIDE DEF facts
<1>3. Past(FiledSoFar(n, t), t)
  BY <1>1, <1>2, PresentRowsPast
<1>4. Past(BuybackYield(n, t), t)
  BY <1>3, RowsPast, PastBoth DEF BuybackYield
<1> QED BY <1>3, <1>4

LEMMA ScorePast ==
  ASSUME NEW name, NEW n, NEW t \in Int
  PROVE  Past(Score(name, n, t), t)
<1>1. Past(FiledSoFar(n, t) \cup Close(n, t), t) /\ Past(FiledSoFar(n, t) \cup {}, t)
  BY FiledPast, RowsPast, PastBoth, NothingIsPast
<1>2. Past(Fundamental(name, n, t), t)
  BY <1>1 DEF Fundamental
<1>3. CASE name \in SignalNames
  BY <1>3, SignalPast DEF Score
<1>4. CASE name \notin SignalNames
  BY <1>2, <1>4 DEF Score
<1> QED BY <1>3, <1>4

LEMMA RawWeightPast ==
  ASSUME NEW name, NEW t \in Int
  PROVE  Past(RawWeight(name, t), t) /\ Past(Neutralize(name, t), t)
<1> DEFINE scores == {Score(name, n, t) : n \in Stocks}
<1> DEFINE betas == {RollingBeta(n, t) : n \in Stocks}
<1>1. /\ RawWeight(name, t) = UNION scores
      /\ Neutralize(name, t) = RawWeight(name, t) \cup UNION betas
  BY DEF RawWeight, Neutralize, Across
<1>2. \A c \in scores : Past(c, t)
  BY ScorePast
<1>3. \A c \in betas : Past(c, t)
  BY BetaPast
<1> HIDE DEF scores, betas
<1>4. Past(RawWeight(name, t), t) /\ Past(UNION betas, t)
  BY <1>1, <1>2, <1>3, PastUnion
<1>5. Past(RawWeight(name, t) \cup UNION betas, t)
  BY <1>4, PastBoth
<1> QED BY <1>1, <1>4, <1>5

LEMMA CompositePast ==
  ASSUME NEW t \in Int
  PROVE  Past(Composite(t), t)
<1>1. \A name : Past(Standardize(name, t), t)
  <2> TAKE name
  <2> DEFINE row == {Present(Score(name, n, t)) : n \in Stocks}
  <2>1. \A c \in row : Past(c, t)
    BY ScorePast, NothingIsPast DEF Present
  <2>2. Standardize(name, t) = UNION row
    BY DEF Standardize, Across
  <2> HIDE DEF row
  <2> QED BY <2>1, <2>2, PastUnion
<1>2. \A names : Past(Blend(names, t), t)
  <2> TAKE names
  <2> DEFINE rows == {Standardize(name, t) : name \in names}
  <2>1. \A c \in rows : Past(c, t)
    BY <1>1
  <2>2. Blend(names, t) = UNION rows
    BY DEF Blend
  <2> HIDE DEF rows
  <2> QED BY <2>1, <2>2, PastUnion
<1> DEFINE scores == {FamilyScore(family, t) : family \in DOMAIN Families}
<1>3. \A c \in scores : Past(c, t)
  BY <1>2 DEF FamilyScore
<1>4. Composite(t) = UNION scores
  BY DEF Composite
<1> HIDE DEF scores
<1> QED BY <1>3, <1>4, PastUnion

(* macro.py: the score of the last day before, and of days before it.      *)
LEMMA FredPast ==
  ASSUME NEW n, NEW t \in Int
  PROVE  Past(FredFrame(n, t), t)
<1>1. \A s \in Int : Past(Macro(n, s), s)
  <2> TAKE s \in Int
  <2> DEFINE row == {Obs(series, n, s) : series \in {"hy", "ig", "vix"}}
  <2>1. \A c \in row : Past(c, s)
    BY ObsSeen, SeenIsPast
  <2>2. Macro(n, s) = UNION row
    BY DEF Macro
  <2> HIDE DEF row
  <2> QED BY <2>1, <2>2, PastUnion
<1> DEFINE rows == {Macro(n, s) : s \in {u \in FredDays : u =< t}}
<1>2. \A c \in rows : \E s \in Int : s =< t /\ Past(c, s)
  BY <1>1, WindowsGrow
<1>3. FredFrame(n, t) = UNION rows
  BY DEF FredFrame
<1> HIDE DEF rows
<1> QED BY <1>2, <1>3, PresentRowsPast

LEMMA RiskAppetitePast ==
  ASSUME NEW t \in Int
  PROVE  Past(RiskAppetite(t), t)
<1> DEFINE first == t - Year + 1
<1> DEFINE rows == {FredFrame(Hedge, s) : s \in {u \in first .. t : Complete(FredFrame(Hedge, u))}}
<1> DEFINE before == t - Month
<1>1. first \in Int /\ before \in Int /\ before =< t
  BY Windows
<1>2. RiskAppetite(t) = (UNION rows) \cup FredFrame(Hedge, before)
  BY DEF RiskAppetite, RollingPresent
<1> HIDE DEF first, before
<1>3. \A c \in rows : \E s \in Int : s =< t /\ Past(c, s)
  BY <1>1, FredPast
<1> HIDE DEF rows
<1>4. Past(UNION rows, t)
  BY <1>3, PresentRowsPast
<1>5. Past(FredFrame(Hedge, before), t)
  BY <1>1, FredPast, PastLater
<1> QED BY <1>2, <1>4, <1>5, PastBoth

LEMMA RiskScorePast ==
  ASSUME NEW t \in Int
  PROVE  Past(RiskScore(t), t - 1)
<1> DEFINE last == t - 1
<1> DEFINE scores == {RiskAppetite(u) : u \in LastFred(last)}
<1>1. last \in Int /\ RiskScore(t) = UNION scores
  BY DEF RiskScore
<1> HIDE DEF last
<1>2. \A u \in LastFred(last) : u \in Int /\ u =< last
  BY WindowsGrow DEF LastFred
<1>3. \A c \in scores : \E s \in Int : s =< last /\ Past(c, s)
  BY <1>2, RiskAppetitePast
<1> HIDE DEF scores
<1>4. Past(UNION scores, last)
  BY <1>1, <1>3, PresentRowsPast
<1> QED BY <1>1, <1>4 DEF last

LEMMA DollarAdvPast ==
  ASSUME NEW n, NEW t \in Int
  PROVE  Past(DollarAdv(n, t), t)
<1> DEFINE last == t - 1
<1> DEFINE first == last - Month + 1
<1> DEFINE rows == {Close(n, s) \cup Volume(n, s) :
                      s \in {u \in first .. last : Complete(Close(n, u) \cup Volume(n, u))}}
<1>1. last \in Int /\ last =< t /\ first \in Int
  BY Windows
<1>2. DollarAdv(n, t) = UNION rows
  BY DEF DollarAdv, RollingPresent
<1>3. \A s \in Int : Past(Close(n, s) \cup Volume(n, s), s)
  BY RowsPast, PastBoth
<1> HIDE DEF first, last
<1>4. \A c \in rows : \E s \in Int : s =< t /\ Past(c, s)
  <2> TAKE c \in rows
  <2>1. PICK s \in first .. last : c = Close(n, s) \cup Volume(n, s)
    OBVIOUS
  <2>2. s \in Int /\ s =< t
    BY <1>1, <2>1
  <2>3. Past(c, s)
    BY <1>3, <2>1, <2>2
  <2> QED BY <2>2, <2>3
<1> HIDE DEF rows
<1> QED BY <1>2, <1>4, PresentRowsPast

LEMMA TradeCostPast ==
  ASSUME NEW d \in Int
  PROVE  Past(TradeCost(d), d - 1)
<1> DEFINE t == d - 1
<1> DEFINE costs == {DollarAdv(n, t) : n \in Stocks}
<1>1. t \in Int /\ TradeCost(d) = UNION costs
  BY DEF TradeCost, All, Across, Lagged
<1> HIDE DEF t
<1>2. \A c \in costs : Past(c, t)
  BY <1>1, DollarAdvPast
<1> HIDE DEF costs
<1>3. Past(UNION costs, t)
  BY <1>2, PastUnion
<1> QED BY <1>1, <1>3 DEF t

LEMMA CrossBooks ==
  ASSUME NEW name, NEW d \in Int
  PROVE  /\ Past(CrossBook(name, d), d - 1) /\ Past(NeutralBook(name, d), d - 1)
         /\ Past(CompositeBook(d), d - 1) /\ Past(TimedBook(d), d - 1)
<1> DEFINE t == d - 1
<1>1. t \in Int /\ Lagged(d) = t
  BY DEF Lagged
<1>2. Past(TradeCost(d), t)
  BY TradeCostPast
<1>3. t = d - 1
  OBVIOUS
<1> HIDE DEF t
<1>4. Past(RawWeight(name, t) \cup TradeCost(d), t)
  BY <1>1, <1>2, RawWeightPast, PastBoth
<1>5. Past(NeutralBook(name, d), t)
  BY <1>1, RawWeightPast DEF NeutralBook
<1>6. Past(Composite(t), t)
  BY <1>1, CompositePast
<1>7. Past(RiskScore(t), t)
  <2> DEFINE s == t - 1
  <2>1. s \in Int /\ s =< t
    BY <1>1
  <2>2. Past(RiskScore(t), s)
    BY <1>1, RiskScorePast
  <2> HIDE DEF s
  <2> QED BY <1>1, <2>1, <2>2, PastLater
<1>8. Past(TimedBook(d), t)
  BY <1>1, <1>6, <1>7, PastBoth DEF TimedBook, TimedComposite
<1> QED BY <1>1, <1>3, <1>4, <1>5, <1>6, <1>8 DEF CrossBook, CompositeBook

-----------------------------------------------------------------------------
(* riskmodel.py                                                            *)

LEMMA ExposuresPast ==
  ASSUME NEW t \in Int
  PROVE  Past(Exposures(t), t)
<1> DEFINE row == {Present(RollingBeta(n, t)) : n \in Stocks}
<1>1. \A c \in row : Past(c, t)
  BY BetaPast, NothingIsPast DEF Present
<1>2. Exposures(t) = (UNION row) \cup Composite(t)
  BY DEF Exposures, All, Across
<1> HIDE DEF row
<1>3. Past(UNION row, t)
  BY <1>1, PastUnion
<1> QED BY <1>2, <1>3, CompositePast, PastBoth

LEMMA FactorReturnPast ==
  ASSUME NEW t \in Int
  PROVE  Past(FactorReturn(t), t) /\ Past(Exposures(t - 1), t)
<1> DEFINE s == t - 1
<1>1. s \in Int /\ s =< t /\ FactorReturn(t) = All(Ret, t) \cup Exposures(s) /\ s = t - 1
  BY DEF FactorReturn, ExplainedBy
<1> HIDE DEF s
<1>2. Past(Exposures(s), t)
  BY <1>1, ExposuresPast, PastLater
<1>3. Past(All(Ret, t), t)
  BY RetsSeen, SeenIsPast
<1>4. Past(All(Ret, t) \cup Exposures(s), t)
  BY <1>2, <1>3, PastBoth
<1> QED BY <1>1, <1>2, <1>4

LEMMA OptimizedBook == ASSUME NEW d \in Int PROVE Past(OptimizedHeld(d), d - 1)
<1> DEFINE last == d - 1
<1>1. ASSUME NEW t \in Int, t =< last
      PROVE  Past(OptimizedWeights(t), last)
  <2> DEFINE first == t - Year
  <2> DEFINE before == t - 1
  <2> DEFINE window == {FactorReturn(s) : s \in {u \in first .. before : u >= 1}}
  <2> DEFINE parts == {UNION window, Exposures(t - 1), Composite(t)}
  <2>1. OptimizedWeights(t) = UNION parts
    BY DEF OptimizedWeights, FactorWindow
  <2>2. first \in Int /\ before \in Int /\ before =< t
    BY Windows
  <2> HIDE DEF first, before
  <2>3. \A c \in window : \E s \in Int : s =< t /\ Past(c, s)
    BY <2>2, FactorReturnPast
  <2> HIDE DEF window
  <2>4. Past(UNION window, t)
    BY <2>3, PresentRowsPast
  <2>5. \A c \in parts : Past(c, t)
    BY <2>4, FactorReturnPast, CompositePast
  <2> HIDE DEF parts
  <2>6. Past(OptimizedWeights(t), t)
    BY <2>1, <2>5, PastUnion
  <2>7. last \in Int
    OBVIOUS
  <2> HIDE DEF last
  <2> QED BY <1>1, <2>6, <2>7, PastLater
<1> DEFINE all == {OptimizedWeights(t) : t \in {s \in Year .. last : (s - Year) % Hold = 0}}
<1>2. OptimizedHeld(d) = UNION all
  BY DEF OptimizedHeld, Lagged
<1>3. last \in Int
  OBVIOUS
<1>4. \A c \in all : Past(c, last)
  <2> TAKE c \in all
  <2>1. PICK t \in Year .. last : c = OptimizedWeights(t)
    OBVIOUS
  <2>2. t \in Int /\ t =< last
    BY <1>3, <2>1, Windows
  <2> QED BY <1>1, <2>1, <2>2
<1> HIDE DEF all, last
<1>5. Past(UNION all, last)
  BY <1>4, PastUnion
<1> QED BY <1>2, <1>5 DEF last

-----------------------------------------------------------------------------
(* Every book, with every overlay.                                         *)

LEMMA PositionsPast ==
  ASSUME NEW book, book.kind \in Kinds, NEW d \in Int
  PROVE  Past(Positions(book, d), d - 1)
<1>1. CASE book.kind = "trend"
  BY <1>1, TrendBook DEF Positions
<1>2. CASE book.kind = "allocation"
  BY <1>2, AllocationBook DEF Positions
<1>3. CASE book.kind = "benchmark"
  BY <1>3, AllocationBook DEF Positions
<1>4. CASE book.kind = "cross"
  BY <1>4, CrossBooks DEF Positions
<1>5. CASE book.kind = "neutral"
  BY <1>5, CrossBooks DEF Positions
<1>6. CASE book.kind = "composite"
  BY <1>6, CrossBooks DEF Positions
<1>7. CASE book.kind = "timed"
  BY <1>7, CrossBooks DEF Positions
<1>8. CASE book.kind = "optimized"
  BY <1>8, OptimizedBook DEF Positions
<1>9. CASE book.kind = "forced"
  BY <1>9, ForcedSellerBook DEF Positions
<1>10. CASE book.kind = "voltarget"
  BY <1>10, VolTargetBook DEF Positions
<1>11. CASE book.kind = "momentum"
  <2>1. Past(ImplementedHeld({}, book.enh, d), d - 1)
    BY ImplementedBook
  <2> QED BY <1>11, <2>1 DEF Positions
<1>12. CASE book.kind = "multifactor"
  <2>1. Past(ImplementedHeld({"mom", "lowvol", "rev"}, book.enh, d), d - 1)
    BY ImplementedBook DEF FactorNames
  <2> QED BY <1>12, <2>1 DEF Positions
<1>13. CASE book.kind = "riskparity"
  BY <1>13, RiskParityBook DEF Positions
<1>14. CASE book.kind = "tsmomentum"
  BY <1>14, TsMomentumBook DEF Positions
<1>15. CASE book.kind = "statarb"
  BY <1>15, StatArbBook DEF Positions
<1>16. CASE book.kind = "dsl"
  BY <1>16, DslBook DEF Positions
<1>17. CASE book.kind = "pairs"
  BY <1>17, PairBook DEF Positions
<1> QED BY <1>1, <1>2, <1>3, <1>4, <1>5, <1>6, <1>7, <1>8, <1>9, <1>10, <1>11, <1>12, <1>13,
           <1>14, <1>15, <1>16, <1>17 DEF Kinds

LEMMA PositionsComplete ==
  ASSUME NEW book, NEW d \in Int
  PROVE  WindowsComplete(book, d)
<1> SUFFICES ASSUME book.kind \in Warmed, d >= FirstDay(book)
             PROVE  Complete(Positions(book, d))
  BY DEF WindowsComplete
<1>1. CASE book.kind = "trend"
  BY <1>1, TrendBook DEF Positions, FirstDay
<1>2. CASE book.kind = "allocation"
  BY <1>2, AllocationBook DEF Positions, FirstDay
<1>3. CASE book.kind = "benchmark"
  BY <1>3, AllocationBook DEF Positions, FirstDay
<1>4. CASE book.kind = "forced"
  BY <1>4, ForcedSellerBook DEF Positions, FirstDay
<1>5. CASE book.kind = "momentum"
  <2>1. d >= ImplementWarmup
    BY <1>5 DEF FirstDay
  <2>2. Complete(ImplementedHeld({}, book.enh, d))
    BY <2>1, ImplementedBook
  <2> QED BY <1>5, <2>2 DEF Positions
<1>6. CASE book.kind = "multifactor"
  <2>1. d >= ImplementWarmup
    BY <1>6 DEF FirstDay
  <2>2. Complete(ImplementedHeld({"mom", "lowvol", "rev"}, book.enh, d))
    BY <2>1, ImplementedBook DEF FactorNames
  <2> QED BY <1>6, <2>2 DEF Positions
<1>7. CASE book.kind = "riskparity"
  BY <1>7, RiskParityBook DEF Positions, FirstDay
<1>8. CASE book.kind = "tsmomentum"
  BY <1>8, TsMomentumBook DEF Positions, FirstDay
<1>9. CASE book.kind = "statarb"
  BY <1>9, StatArbBook DEF Positions, FirstDay
<1>10. CASE book.kind = "pairs"
  BY <1>10, PairBook DEF Positions, FirstDay
<1> QED BY <1>1, <1>2, <1>3, <1>4, <1>5, <1>6, <1>7, <1>8, <1>9, <1>10 DEF Warmed

LEMMA HeldPast ==
  ASSUME NEW book, book.kind \in Kinds, book.overlay \in Overlays, NEW d \in Int
  PROVE  Past(Held(book, d), d - 1)
<1> DEFINE held == [t \in Int |-> Positions(book, t)]
<1> DEFINE last == d - 1
<1>1. last \in Int /\ Past(held[d], last)
  BY PositionsPast
<1>2. \A t \in Int : Past(BookReturn(held, t), t)
  <2> TAKE t \in Int
  <2> DEFINE before == t - 1
  <2>1. before \in Int /\ before =< t
    OBVIOUS
  <2>2. Past(held[t], before)
    BY PositionsPast
  <2> HIDE DEF before, held
  <2>3. Past(held[t], t)
    BY <2>1, <2>2, PastLater
  <2>4. Past(All(Ret, t), t)
    BY RetsSeen, SeenIsPast
  <2> QED BY <2>3, <2>4, PastBoth DEF BookReturn
<1>3. ASSUME NEW first \in Int, NEW some \in SUBSET (first .. last)
      PROVE  Past(held[d] \cup UNION {BookReturn(held, s) : s \in some}, last)
  <2> DEFINE rows == {BookReturn(held, s) : s \in some}
  <2>1. \A s \in some : s \in Int /\ s =< last
    BY <1>1
  <2> HIDE DEF held, last
  <2>2. \A c \in rows : \E s \in Int : s =< last /\ Past(c, s)
    BY <1>2, <2>1
  <2> HIDE DEF rows
  <2>3. Past(UNION rows, last)
    BY <1>1, <2>2, PresentRowsPast
  <2>4. Past(held[d] \cup UNION rows, last)
    BY <1>1, <2>3, PastBoth
  <2> QED BY <2>4 DEF rows
<1>4. CASE book.overlay = "none"
  BY <1>1, <1>4 DEF Held
<1>5. CASE book.overlay = "vol_managed"
  <2> DEFINE first == last - Month + 1
  <2> DEFINE some == {u \in first .. last : Complete(BookReturn(held, u))}
  <2>1. Held(book, d) = held[d] \cup UNION {BookReturn(held, s) : s \in some}
    BY <1>5 DEF Held, VolManaged, RollingPresent
  <2>2. first \in Int /\ some \in SUBSET (first .. last)
    BY Windows
  <2> HIDE DEF first, some, held, last
  <2>3. Past(held[d] \cup UNION {BookReturn(held, s) : s \in some}, last)
    BY <1>3, <2>2
  <2> QED BY <2>1, <2>3 DEF last
<1>6. CASE book.overlay = "vol_target"
  <2> DEFINE first == last - (last + 1) + 1
  <2> DEFINE some == {u \in first .. last : Complete(BookReturn(held, u))}
  <2>1. Held(book, d) = held[d] \cup UNION {BookReturn(held, s) : s \in some}
    BY <1>6 DEF Held, VolTarget, SoFar, RollingPresent
  <2>2. first \in Int /\ some \in SUBSET (first .. last)
    OBVIOUS
  <2> HIDE DEF first, some, held, last
  <2>3. Past(held[d] \cup UNION {BookReturn(held, s) : s \in some}, last)
    BY <1>3, <2>2
  <2> QED BY <2>1, <2>3 DEF last
<1>7. CASE book.overlay = "regime"
  <2>1. Held(book, d) = held[d] \cup RiskScore(d)
    BY <1>7 DEF Held, RegimeExposure
  <2>2. Past(RiskScore(d), last)
    BY RiskScorePast
  <2> HIDE DEF held, last
  <2>3. Past(held[d] \cup RiskScore(d), last)
    BY <1>1, <2>2, PastBoth
  <2> QED BY <2>1, <2>3 DEF last
<1>8. CASE book.overlay = "allocated"
  <2> DEFINE t == BlockStart(Half, d, Hold)
  <2> DEFINE first == t - Half
  <2> DEFINE some == first .. (t - 1)
  <2>1. Held(book, d) = held[d] \cup UNION {BookReturn(held, s) : s \in some}
    BY <1>8 DEF Held, Allocated
  <2>2. t \in Int /\ t =< d
    BY BlockStarts, Windows
  <2> HIDE DEF t
  <2>3. first \in Int /\ some \in SUBSET (first .. last)
    BY <2>2, Windows
  <2> HIDE DEF first, some, held, last
  <2>4. Past(held[d] \cup UNION {BookReturn(held, s) : s \in some}, last)
    BY <1>3, <2>3
  <2> QED BY <2>1, <2>4 DEF last
<1> QED BY <1>4, <1>5, <1>6, <1>7, <1>8 DEF Overlays

-----------------------------------------------------------------------------
(* buyback.py, mechflow.py: the later days that are seen.                  *)

LEMMA BlackoutSeesFilings ==
  ASSUME NEW d \in Int, NEW cell \in BlackoutHeld(d)
  PROVE  DayOf(cell) < d \/ (cell[1] = "filing" /\ DayOf(cell) < d + BlackoutPre)
<1> DEFINE t == BlockStart(0, d - 1, Hold)
<1>1. t \in Int /\ t =< d - 1
  BY BlockStarts, Windows
<1>2. PICK n : cell \in BlackoutMask(n, t, BlackoutPre, BlackoutGap) \/ cell \in BuybackYield(n, t)
  BY DEF BlackoutHeld, Lagged, Across
<1> HIDE DEF t
<1>3. CASE cell \in BuybackYield(n, t)
  <2>1. DayOf(cell) \in Int /\ DayOf(cell) =< t
    BY <1>1, <1>3, FiledPast DEF Past
  <2> QED BY <1>1, <2>1
<1>4. CASE cell \in BlackoutMask(n, t, BlackoutPre, BlackoutGap)
  <2>1. PICK f \in FilingDays \cap (t + BlackoutGap .. t + BlackoutPre) : cell = <<"filing", n, f>>
    BY <1>4 DEF BlackoutMask, Obs
  <2>2. f \in Int /\ f =< t + BlackoutPre
    BY <1>1, <2>1, BooksAssumption
  <2>3. cell[1] = "filing" /\ DayOf(cell) = f
    BY <2>1 DEF DayOf
  <2> QED BY <1>1, <2>2, <2>3, BooksAssumption
<1> QED BY <1>2, <1>3, <1>4

LEMMA OvernightSeesLiquidity ==
  ASSUME NEW d \in Int, NEW last \in Int, NEW cell \in OvernightHeld(d, last)
  PROVE  DayOf(cell) =< d \/ (cell[1] \in {"close", "volume"} /\ DayOf(cell) > last - Quarter)
<1>1. PICK n : cell \in Ret(n, d) \/ cell \in Rolling(Ret, n, d, Month) \/ cell \in RelativeFlow(n, last)
  BY DEF OvernightHeld, Across
<1>2. CASE cell \in Ret(n, d) \/ cell \in Rolling(Ret, n, d, Month)
  <2> DEFINE lo == d - Month
  <2>1. lo \in Int /\ Seen(Rolling(Ret, n, d, Month), lo, d)
    BY RollingRet, Windows
  <2> HIDE DEF lo
  <2>2. Past(Rolling(Ret, n, d, Month), d)
    BY <2>1, SeenIsPast
  <2>3. Past(Ret(n, d), d)
    BY RowsPast
  <2> QED BY <1>2, <2>2, <2>3 DEF Past
<1>3. CASE cell \in RelativeFlow(n, last)
  <2>1. PICK s \in (last - Quarter + 1) .. last : cell \in Close(n, s) \cup Volume(n, s)
    BY <1>3 DEF RelativeFlow, Rolling, Rows
  <2>2. s \in Int /\ s > last - Quarter
    BY <2>1, Windows
  <2>3. cell = <<"close", n, s>> \/ cell = <<"volume", n, s>>
    BY <2>1 DEF Close, Volume, Obs
  <2>4. cell[1] \in {"close", "volume"} /\ DayOf(cell) = s
    BY <2>3 DEF DayOf
  <2> QED BY <2>2, <2>4
<1> QED BY <1>1, <1>2, <1>3

(* However long its windows are, whenever it rebalances and reports are     *)
(* filed: no book of the platform holds over a day what was not known the   *)
(* day before, alone or under an overlay, and none with a warm-up takes a  *)
(* position on a missing value; the two books that see later days see      *)
(* those only (mds/crosssec.py, trend.py, assetalloc.py, engine.py,        *)
(* implement.py, portfolio.py, buyback.py, mechflow.py, ...).              *)
THEOREM NothingForeseen == BooksSpec => []NothingIsForeseen
<1> DEFINE BooksInv == backtest \in Backtests /\ today \in Int
<1>1. BooksInit => BooksInv
  BY DEF BooksInit
<1>2. BooksInv /\ [DayPasses]_bookVars => BooksInv'
  BY DEF DayPasses, bookVars
<1>3. BooksInv => NothingIsForeseen
  <2> SUFFICES ASSUME BooksInv PROVE NothingIsForeseen
    OBVIOUS
  <2>1. backtest.kind \in Kinds /\ backtest.overlay \in Overlays /\ LastDay \in Int
    BY BooksAssumption
  <2>2. KnownInTime(backtest, today)
    BY <2>1, HeldPast, PastIsKnown DEF KnownInTime
  <2>3. WindowsComplete(backtest, today)
    BY PositionsComplete
  <2>4. HindsightNamed(today, LastDay)
    BY <2>1, BlackoutSeesFilings, OvernightSeesLiquidity DEF HindsightNamed
  <2> QED BY <2>2, <2>3, <2>4 DEF NothingIsForeseen
<1> QED BY <1>1, <1>2, <1>3, PTL DEF BooksSpec

(***************************************************************************)
(* Level-2 models: what is trained on and what is tested on stay apart       *)
(***************************************************************************)

(* Of the rows before j, no more than j - i are not before i.              *)
LEMMA RowsBetween ==
  ASSUME NEW n \in Nat, NEW rows \in SUBSET (0 .. n), NEW i \in rows, NEW j \in rows, i < j
  PROVE  \E a \in Nat, b \in Nat :
           /\ a = Cardinality({k \in rows : k < i}) /\ b = Cardinality({k \in rows : k < j})
           /\ a < b /\ b - a =< j - i
<1> DEFINE A == {k \in rows : k < i}
<1> DEFINE B == {k \in rows : k < j}
<1> DEFINE C == {k \in rows : i =< k /\ k < j}
<1> DEFINE between == i .. (j - 1)
<1>1. \A k \in rows : k \in Int
  OBVIOUS
<1>2. i \in Int /\ j \in Int
  BY <1>1
<1>3. IsFiniteSet(rows)
  <2>1. IsFiniteSet(0 .. n)
    BY FS_Interval
  <2> QED BY <2>1, FS_Subset
<1>4. IsFiniteSet(A) /\ IsFiniteSet(B) /\ IsFiniteSet(C)
  <2>1. A \subseteq rows /\ B \subseteq rows /\ C \subseteq rows
    OBVIOUS
  <2> QED BY <1>3, <2>1, FS_Subset
<1>5. IsFiniteSet(between) /\ Cardinality(between) = j - i
  <2> DEFINE last == j - 1
  <2>1. last \in Int /\ i =< last /\ last - i + 1 = j - i
    BY <1>2
  <2> HIDE DEF last
  <2>2. /\ IsFiniteSet(i .. last)
        /\ Cardinality(i .. last) = IF i > last THEN 0 ELSE last - i + 1
    BY <1>2, <2>1, FS_Interval
  <2>3. ~(i > last)
    BY <1>2, <2>1
  <2>4. Cardinality(i .. last) = last - i + 1
    BY <2>2, <2>3
  <2> QED BY <2>1, <2>2, <2>4 DEF last
<1>6. C \subseteq between
  <2>1. ASSUME NEW k \in rows, i =< k, k < j
        PROVE  k \in between
    BY <1>1, <1>2, <2>1
  <2> QED BY <2>1
<1>7. A \cup C = B /\ A \cap C = {}
  <2>1. \A k \in rows : k < i \/ i =< k
    BY <1>1, <1>2
  <2>2. \A k \in rows : k < i => k < j
    BY <1>1, <1>2
  <2>3. \A k \in rows : ~(k < i /\ i =< k)
    BY <1>1, <1>2
  <2> QED BY <2>1, <2>2, <2>3
<1>8. i \in C
  BY <1>2
<1> HIDE DEF A, B, C, between
<1>9. Cardinality(A) \in Nat /\ Cardinality(B) \in Nat /\ Cardinality(C) \in Nat
  BY <1>4, FS_CardinalityType
<1>10. Cardinality(C) =< j - i
  BY <1>5, <1>6, FS_Subset
<1>11. Cardinality(C) # 0
  BY <1>4, <1>8, FS_EmptySet
<1>12. Cardinality(B) = Cardinality(A) + Cardinality(C)
  <2>1. Cardinality(A \cup C) = Cardinality(A) + Cardinality(C) - Cardinality(A \cap C)
    BY <1>4, FS_Union
  <2>2. Cardinality({}) = 0
    BY FS_EmptySet
  <2>3. Cardinality(A \cap C) = 0
    BY <1>7, <2>2
  <2>4. Cardinality(B) = Cardinality(A) + Cardinality(C) - 0
    BY <1>7, <2>1, <2>3
  <2> DEFINE a == Cardinality(A)
  <2> DEFINE b == Cardinality(B)
  <2> DEFINE c == Cardinality(C)
  <2>5. a \in Nat /\ b \in Nat /\ c \in Nat /\ b = a + c - 0
    BY <1>9, <2>4
  <2> HIDE DEF a, b, c
  <2>6. b = a + c
    BY <2>5
  <2> QED BY <2>6 DEF a, b, c
<1>13. Cardinality(A) < Cardinality(B) /\ Cardinality(B) - Cardinality(A) =< j - i
  BY <1>2, <1>9, <1>10, <1>11, <1>12
<1> QED BY <1>9, <1>13 DEF A, B

LEMMA MultiplesApart ==
  ASSUME NEW a \in Nat, NEW b \in Nat, NEW h \in Nat \ {0}, a % h = 0, b % h = 0, a < b
  PROVE  b - a >= h
<1>1. a = h * (a \div h) /\ b = h * (b \div h) /\ a \div h \in Int /\ b \div h \in Int
  BY SMT
<1> DEFINE p == a \div h
<1> DEFINE q == b \div h
<1> HIDE DEF p, q
<1>2. p \in Int /\ q \in Int /\ a = h * p /\ b = h * q
  BY <1>1 DEF p, q
<1>3. q > p
  BY <1>2, SMT
<1>4. b - a = h * (q - p)
  BY <1>2, SMT
<1> DEFINE k == q - p
<1>5. k \in Nat \ {0} /\ b - a = h * k
  BY <1>2, <1>3, <1>4
<1> HIDE DEF k
<1>6. h * k >= h
  BY <1>5, SMT
<1> QED BY <1>5, <1>6

LEMMA LargerOf ==
  ASSUME NEW a \in Int, NEW b \in Int
  PROVE  /\ Max({a, b}) \in {a, b} /\ Max({a, b}) >= a
         /\ Min({a, b}) \in {a, b} /\ Min({a, b}) =< a
<1>1. \E x \in {a, b} : \A y \in {a, b} : x >= y
  OBVIOUS
<1>2. \E x \in {a, b} : \A y \in {a, b} : x =< y
  OBVIOUS
<1> QED BY <1>1, <1>2 DEF Max, Min

(* A split trains before an end, and tests after it, `horizon` rows away.  *)
LEMMA SplitsApart ==
  ASSUME NEW n \in Nat, NEW folds \in Nat \ {0}, NEW minTrain \in Nat, NEW horizon \in Nat,
         NEW s \in Splits(n, folds, minTrain, horizon)
  PROVE  \E e \in Nat :
           /\ \A i \in s.train : i \in Nat /\ i + horizon < e
           /\ \A j \in s.test : j \in Nat /\ j < n /\ e + horizon =< j
<1> DEFINE start == (n * minTrain) \div 100
<1> DEFINE step  == Max({1, (n - start) \div folds})
<1> DEFINE trainEnd(k) == start + k * step
<1> DEFINE split(k) == [train |-> 0 .. PurgeEnd(trainEnd(k), horizon) - 1,
                        test  |-> trainEnd(k) + horizon
                                  .. Min({n, trainEnd(k) + horizon + step}) - 1]
<1>1. start \in Nat
  <2> DEFINE m == n * minTrain
  <2>1. m \in Nat
    OBVIOUS
  <2> HIDE DEF m
  <2>2. m \div 100 \in Nat
    BY <2>1, SMT
  <2> QED BY <2>2 DEF m
<1>2. PICK k \in 0 .. folds - 1 : s = split(k)
  BY DEF Splits
<1> HIDE DEF start
<1>3. step \in Nat
  <2> DEFINE q == (n - start) \div folds
  <2>1. q \in Int
    BY <1>1, SMT
  <2> HIDE DEF q
  <2>2. Max({1, q}) \in {1, q} /\ Max({1, q}) >= 1
    BY <2>1, LargerOf
  <2>3. Max({1, q}) \in Nat
    BY <2>1, <2>2
  <2> QED BY <2>3 DEF q
<1> HIDE DEF step
<1> DEFINE e == start + k * step
<1>4. e \in Nat
  <2>1. k \in Nat
    BY <1>2
  <2>2. k * step \in Nat
    BY <1>3, <2>1, SMT
  <2> QED BY <1>1, <2>2
<1> DEFINE top == e + horizon + step
<1>5. /\ s.train = 0 .. (e - horizon) - 1
      /\ s.test = e + horizon .. Min({n, top}) - 1
  BY <1>2 DEF PurgeEnd
<1>6. top \in Int
  BY <1>3, <1>4
<1> HIDE DEF e, top
<1>7. Min({n, top}) \in Int /\ Min({n, top}) =< n
  <2>1. n \in Int
    OBVIOUS
  <2>2. Min({n, top}) \in {n, top} /\ Min({n, top}) =< n
    BY <1>6, <2>1, LargerOf
  <2>3. \A x \in {n, top} : x \in Int
    BY <1>6, <2>1
  <2> QED BY <2>2, <2>3
<1> DEFINE last == Min({n, top})
<1> HIDE DEF last
<1>8. s.test = e + horizon .. last - 1 /\ last \in Int /\ last =< n
  BY <1>5, <1>7 DEF last
<1>9. \A i \in s.train : i \in Nat /\ i + horizon < e
  BY <1>4, <1>5
<1>10. \A j \in s.test : j \in Nat /\ j < n /\ e + horizon =< j
  BY <1>4, <1>8
<1> QED BY <1>4, <1>9, <1>10

(* However many rows, folds and how much of them trains: no label of the    *)
(* `horizon` rows to come that a model is trained on shares a move with one *)
(* it is tested on, and no two returns the backtest adds up share one        *)
(* (lob.py walk_forward_splits, net_backtest).                             *)
THEOREM LabelsNeverOverlap ==
  ASSUME NEW n \in Nat, NEW folds \in Nat \ {0}, NEW minTrain \in Nat, NEW horizon \in Nat \ {0}
  PROVE  LabelsDoNotOverlap(n, folds, minTrain, horizon)
<1>1. ASSUME NEW s \in Splits(n, folds, minTrain, horizon), NEW i \in s.train, NEW j \in s.test
      PROVE  LabelWindow(i, horizon) \cap LabelWindow(j, horizon) = {}
  <2>1. PICK e \in Nat :
           /\ \A a \in s.train : a \in Nat /\ a + horizon < e
           /\ \A b \in s.test : b \in Nat /\ b < n /\ e + horizon =< b
    BY SplitsApart
  <2>2. i \in Nat /\ j \in Nat /\ i + horizon < j
    BY <2>1
  <2>3. \A x \in i .. (i + horizon) : x \notin j .. (j + horizon)
    BY <2>2
  <2> QED BY <2>3 DEF LabelWindow
<1> DEFINE rows == Predicted(n, folds, minTrain, horizon)
<1>2. rows \in SUBSET (0 .. n)
  <2>1. ASSUME NEW s \in Splits(n, folds, minTrain, horizon), NEW j \in s.test
        PROVE  j \in 0 .. n
    <3>1. PICK e \in Nat : \A b \in s.test : b \in Nat /\ b < n /\ e + horizon =< b
      BY SplitsApart
    <3> QED BY <3>1
  <2> QED BY <2>1 DEF Predicted
<1> HIDE DEF rows
<1>3. ASSUME NEW i \in Counted(rows, horizon), NEW j \in Counted(rows, horizon), i < j
      PROVE  i + horizon =< j
  <2>1. /\ i \in rows /\ Cardinality({k \in rows : k < i}) % horizon = 0
        /\ j \in rows /\ Cardinality({k \in rows : k < j}) % horizon = 0
    BY DEF Counted
  <2>2. PICK a \in Nat, b \in Nat :
           /\ a = Cardinality({k \in rows : k < i}) /\ b = Cardinality({k \in rows : k < j})
           /\ a < b /\ b - a =< j - i
    BY <1>2, <1>3, <2>1, RowsBetween
  <2>3. b - a >= horizon
    BY <2>1, <2>2, MultiplesApart
  <2>4. i \in Int /\ j \in Int
    BY <1>2, <2>1
  <2> QED BY <2>2, <2>3, <2>4
<1> QED BY <1>1, <1>3 DEF LabelsDoNotOverlap, rows


-----------------------------------------------------------------------------
(* The ledger of a book (BookLimits).                                      *)
CONSTANTS Assets, CapNum, CapDen, BudgetNum, BudgetDen, Passes, TailNum, TailDen, MinReturns,
          PriceStep, Sleeve, Every, Cost, Gap

Ledger == INSTANCE BookLimits

\* What a finite set is mapped to.
LEMMA ImageIsFinite ==
  ASSUME NEW A, IsFiniteSet(A), NEW p
  PROVE  IsFiniteSet({p[a] : a \in A})
<1> DEFINE T == {p[a] : a \in A}
<1> DEFINE f == [a \in A |-> p[a]]
<1>1. f \in Surjection(A, T)
  BY DEF Surjection
<1> HIDE DEF f, T
<1>2. IsFiniteSet(T)
  BY <1>1, FS_Surjection
<1> QED BY <1>2 DEF T

\* A sum over other indices.
LEMMA SumReindex ==
  ASSUME NEW A, IsFiniteSet(A), NEW p, \A a, b \in A : p[a] = p[b] => a = b,
         NEW B, B = {p[a] : a \in A}, NEW f, \A b \in B : f[b] \in Int,
         NEW g, \A a \in A : g[a] = f[p[a]]
  PROVE  SumFunctionOnSet(g, A) = SumFunctionOnSet(f, B)
<1> DEFINE image(t) == {p[a] : a \in t}
<1> DEFINE Bad == {t \in SUBSET A : SumFunctionOnSet(g, t) # SumFunctionOnSet(f, image(t))}
<1>1. ASSUME NEW t \in Bad, \A v \in Bad : v \subseteq t => v = t PROVE FALSE
  <2>1. IsFiniteSet(t) /\ t \subseteq A
    BY FS_Subset
  <2>2. t # {}
    <3>1. image({}) = {}
      OBVIOUS
    <3>2. SumFunctionOnSet(g, {}) = 0 /\ SumFunctionOnSet(f, {}) = 0
      BY SumEmpty
    <3> QED BY <3>1, <3>2
  <2> PICK x \in t : TRUE
    BY <2>2
  <2> DEFINE u == t \ {x}
  <2>3. u \subseteq A /\ IsFiniteSet(u) /\ x \notin u /\ t = u \cup {x} /\ u # t
    BY <2>1, FS_Subset
  <2>4. SumFunctionOnSet(g, u) = SumFunctionOnSet(f, image(u))
    BY <1>1, <2>3
  <2>5. image(t) = image(u) \cup {p[x]} /\ p[x] \notin image(u)
    BY <2>1, <2>3
  <2>6. IsFiniteSet(image(u))
    BY <2>3, ImageIsFinite
  <2>7. /\ \A y \in u \cup {x} : g[y] \in Int
        /\ \A y \in image(u) \cup {p[x]} : f[y] \in Int
    BY <2>1, <2>3
  <2>8. t = u \cup {x} /\ x \notin u /\ IsFiniteSet(u) /\ g[x] = f[p[x]]
    BY <2>1, <2>3
  <2>9. SumFunctionOnSet(g, t) # SumFunctionOnSet(f, image(t))
    OBVIOUS
  <2> DEFINE im == image(u)
  <2>10. /\ IsFiniteSet(im) /\ image(t) = im \cup {p[x]} /\ p[x] \notin im
         /\ \A y \in im \cup {p[x]} : f[y] \in Int
         /\ SumFunctionOnSet(g, u) = SumFunctionOnSet(f, im)
    BY <2>4, <2>5, <2>6, <2>7
  <2> DEFINE it == image(t)
  <2>11. it = im \cup {p[x]} /\ SumFunctionOnSet(g, t) # SumFunctionOnSet(f, it)
    BY <2>9, <2>10
  <2> HIDE DEF Bad, u, im, it
  <2>12. SumFunctionOnSet(g, u \cup {x}) = SumFunctionOnSet(g, u) + g[x]
    BY <2>7, <2>8, SumAdd
  <2>13. SumFunctionOnSet(f, im \cup {p[x]}) = SumFunctionOnSet(f, im) + f[p[x]]
    BY <2>10, SumAdd
  <2> QED BY <2>8, <2>10, <2>11, <2>12, <2>13
<1>2. Bad = {}
  <2> HIDE DEF Bad
  <2>1. Bad \in SUBSET SUBSET A
    BY DEF Bad
  <2> QED BY <1>1, <2>1, MinimalSubset
<1> QED BY <1>2

\* A sum over pairs is a sum of sums.
LEMMA SumPairs ==
  ASSUME NEW A, IsFiniteSet(A), NEW B, IsFiniteSet(B), NEW h, \A p \in A \X B : h[p] \in Int,
         NEW r, \A a \in A : \A b \in B : r[a][b] = h[<<a, b>>],
         NEW g, \A a \in A : g[a] = SumFunctionOnSet(r[a], B)
  PROVE  SumFunctionOnSet(g, A) = SumFunctionOnSet(h, A \X B)
<1> DEFINE S == [a \in A |-> {a} \X B]
<1> DEFINE AB == A \X B
<1>1. IsFiniteSet(AB)
  BY FS_Product
<1>2. \A a \in A : S[a] \subseteq AB
  OBVIOUS
<1>3. \A a, b \in A : a # b => S[a] \cap S[b] = {}
  OBVIOUS
<1>4. UNION {S[a] : a \in A} = AB
  OBVIOUS
<1>5. ASSUME NEW a \in A PROVE g[a] = SumFunctionOnSet(h, S[a])
  <2> DEFINE p == [b \in B |-> <<a, b>>]
  <2> DEFINE row == r[a]
  <2> DEFINE Sa == S[a]
  <2>1. \A b, c \in B : p[b] = p[c] => b = c
    OBVIOUS
  <2>2. Sa = {p[b] : b \in B}
    OBVIOUS
  <2>3. \A y \in Sa : h[y] \in Int
    OBVIOUS
  <2>4. \A b \in B : row[b] = h[p[b]]
    OBVIOUS
  <2>5. g[a] = SumFunctionOnSet(row, B)
    OBVIOUS
  <2> HIDE DEF p, row, Sa
  <2>6. SumFunctionOnSet(row, B) = SumFunctionOnSet(h, Sa)
    BY <2>1, <2>2, <2>3, <2>4, SumReindex
  <2> QED BY <2>5, <2>6 DEF Sa
<1>6. \A y \in AB : h[y] \in Int
  OBVIOUS
<1> HIDE DEF S, AB
<1>7. SumFunctionOnSet(g, A) = SumFunctionOnSet(h, UNION {S[a] : a \in A})
  BY <1>1, <1>2, <1>3, <1>5, <1>6, SumOfSums
<1> QED BY <1>4, <1>7 DEF AB

\* A sum of sums, summand by summand.
LEMMA SumPlus ==
  ASSUME NEW S, IsFiniteSet(S), NEW f, NEW g, \A x \in S : f[x] \in Int, \A x \in S : g[x] \in Int,
         NEW h, \A x \in S : h[x] = f[x] + g[x]
  PROVE  SumFunctionOnSet(h, S) = SumFunctionOnSet(f, S) + SumFunctionOnSet(g, S)
<1> DEFINE Bad == {t \in SUBSET S :
                     SumFunctionOnSet(h, t) # SumFunctionOnSet(f, t) + SumFunctionOnSet(g, t)}
<1>1. ASSUME NEW t \in Bad, \A v \in Bad : v \subseteq t => v = t PROVE FALSE
  <2>1. IsFiniteSet(t) /\ t \subseteq S
    BY FS_Subset
  <2>2. t # {}
    <3>1. /\ SumFunctionOnSet(f, {}) = 0 /\ SumFunctionOnSet(g, {}) = 0
          /\ SumFunctionOnSet(h, {}) = 0
      BY SumEmpty
    <3>2. SumFunctionOnSet(h, t) # SumFunctionOnSet(f, t) + SumFunctionOnSet(g, t)
      OBVIOUS
    <3> HIDE DEF Bad
    <3>3. SumFunctionOnSet(h, {}) = SumFunctionOnSet(f, {}) + SumFunctionOnSet(g, {})
      BY <3>1
    <3> QED BY <3>2, <3>3
  <2> PICK x \in t : TRUE
    BY <2>2
  <2>3. SumFunctionOnSet(h, t \ {x})
          = SumFunctionOnSet(f, t \ {x}) + SumFunctionOnSet(g, t \ {x})
    BY <1>1
  <2>4. /\ \A y \in t : f[y] \in Int
        /\ \A y \in t : g[y] \in Int
        /\ \A y \in t : h[y] \in Int
        /\ h[x] = f[x] + g[x]
    BY <2>1
  <2>5. SumFunctionOnSet(f, t) = f[x] + SumFunctionOnSet(f, t \ {x})
    BY <2>1, <2>4, SumRemove
  <2>6. SumFunctionOnSet(g, t) = g[x] + SumFunctionOnSet(g, t \ {x})
    BY <2>1, <2>4, SumRemove
  <2>7. SumFunctionOnSet(h, t) = h[x] + SumFunctionOnSet(h, t \ {x})
    BY <2>1, <2>4, SumRemove
  <2>8. IsFiniteSet(t \ {x})
    BY <2>1, FS_Subset
  <2>9. SumFunctionOnSet(f, t \ {x}) \in Int /\ SumFunctionOnSet(g, t \ {x}) \in Int
    BY <2>4, <2>8, SumType
  <2>10. SumFunctionOnSet(h, t) # SumFunctionOnSet(f, t) + SumFunctionOnSet(g, t)
    OBVIOUS
  <2> HIDE DEF Bad
  <2> QED BY <2>3, <2>4, <2>5, <2>6, <2>7, <2>9, <2>10
<1>2. Bad = {}
  <2> HIDE DEF Bad
  <2>1. Bad \in SUBSET SUBSET S
    BY DEF Bad
  <2> QED BY <1>1, <2>1, MinimalSubset
<1> QED BY <1>2

\* f holds the sums of the rows of the table r; c is the table r on its side.
RowSums(r, f, A, B) == \A a \in A : f[a] = SumFunctionOnSet(r[a], B)
Flipped(r, c, A, B) == \A a \in A : \A b \in B : c[b][a] = r[a][b]

\* The rows of a table add up to what its columns add up to.
LEMMA SumExchange ==
  ASSUME NEW A, IsFiniteSet(A), NEW B, IsFiniteSet(B),
         NEW r \in [A -> [B -> Int]], NEW c \in [B -> [A -> Int]],
         Flipped(r, c, A, B), NEW f, RowSums(r, f, A, B), NEW g, RowSums(c, g, B, A)
  PROVE  SumFunctionOnSet(f, A) = SumFunctionOnSet(g, B)
<1> USE DEF Flipped, RowSums
<1> DEFINE G(t) == [b \in B |-> SumFunctionOnSet(c[b], t)]
<1> DEFINE Bad == {t \in SUBSET A : SumFunctionOnSet(f, t) # SumFunctionOnSet(G(t), B)}
<1>1. \A b \in B : \A a \in A : c[b][a] \in Int
  OBVIOUS
<1>2. \A a \in A : f[a] \in Int /\ f[a] = SumFunctionOnSet(r[a], B)
  BY SumType
<1>3. ASSUME NEW t \in SUBSET A, NEW b \in B
      PROVE  SumFunctionOnSet(c[b], t) \in Int
  <2>1. IsFiniteSet(t) /\ \A a \in t : c[b][a] \in Int
    BY <1>1, FS_Subset
  <2> QED BY <2>1, SumType
<1>4. ASSUME NEW t \in Bad, \A v \in Bad : v \subseteq t => v = t PROVE FALSE
  <2>1. IsFiniteSet(t) /\ t \subseteq A
    BY FS_Subset
  <2>2. SumFunctionOnSet(f, t) # SumFunctionOnSet(G(t), B)
    OBVIOUS
  <2>3. t # {}
    <3>1. SumFunctionOnSet(f, {}) = 0 /\ \A b \in B : SumFunctionOnSet(c[b], {}) = 0
      BY SumEmpty
    <3> DEFINE z == G({})
    <3>2. \A b \in B : z[b] = 0
      BY <3>1
    <3> HIDE DEF z
    <3>3. SumFunctionOnSet(z, B) = 0
      BY <3>2, SumZero
    <3> QED BY <2>2, <3>1, <3>3 DEF z
  <2> PICK x \in t : TRUE
    BY <2>3
  <2> DEFINE u == t \ {x}
  <2>4. u \in SUBSET A /\ u # t /\ u \subseteq t /\ x \in A /\ IsFiniteSet(u)
    BY <2>1, FS_Subset
  <2>5. SumFunctionOnSet(f, u) = SumFunctionOnSet(G(u), B)
    BY <1>4, <2>4
  <2>6. ASSUME NEW b \in B
        PROVE  SumFunctionOnSet(c[b], t) = r[x][b] + SumFunctionOnSet(c[b], u)
    <3>1. \A a \in t : c[b][a] \in Int
      BY <1>1, <2>1
    <3>2. SumFunctionOnSet(c[b], t) = c[b][x] + SumFunctionOnSet(c[b], t \ {x})
      BY <2>1, <3>1, SumRemove
    <3> QED BY <2>4, <3>2
  <2> DEFINE gt == G(t)
  <2> DEFINE gu == G(u)
  <2> DEFINE row == r[x]
  <2>7. \A b \in B : row[b] \in Int /\ gu[b] \in Int /\ gt[b] = row[b] + gu[b]
    BY <1>3, <2>4, <2>6
  <2>8. SumFunctionOnSet(f, t) = f[x] + SumFunctionOnSet(f, u)
    <3>1. \A a \in t : f[a] \in Int
      BY <1>2, <2>1
    <3>2. x \in t
      OBVIOUS
    <3> QED BY ONLY <2>1, <3>1, <3>2, SumRemove
  <2>9. f[x] = SumFunctionOnSet(row, B)
    BY <1>2, <2>4
  <2>10. SumFunctionOnSet(f, u) = SumFunctionOnSet(gu, B) /\ SumFunctionOnSet(f, t) # SumFunctionOnSet(gt, B)
    BY <2>2, <2>5
  <2> HIDE DEF gt, gu, row, u
  <2>11. (\A b \in B : row[b] \in Int) /\ (\A b \in B : gu[b] \in Int) /\ \A b \in B : gt[b] = row[b] + gu[b]
    BY <2>7
  <2>12. IsFiniteSet(B)
    OBVIOUS
  <2>13. SumFunctionOnSet(gt, B) = SumFunctionOnSet(row, B) + SumFunctionOnSet(gu, B)
    BY ONLY <2>11, <2>12, SumPlus
  <2> QED BY <2>8, <2>9, <2>10, <2>13
<1>5. Bad = {}
  <2> HIDE DEF Bad
  <2>1. Bad \in SUBSET SUBSET A
    BY DEF Bad
  <2> QED BY <1>4, <2>1, MinimalSubset
<1>6. SumFunctionOnSet(f, A) = SumFunctionOnSet(G(A), B)
  BY <1>5
<1> DEFINE ga == G(A)
<1>7. \A b \in B : ga[b] \in Int /\ g[b] = ga[b]
  BY <1>3
<1>8. SumFunctionOnSet(f, A) = SumFunctionOnSet(ga, B)
  BY <1>6
<1> HIDE DEF ga
<1>9. SumFunctionOnSet(g, B) = SumFunctionOnSet(ga, B)
  BY <1>7, SumSame
<1> QED BY <1>8, <1>9

\* f and g hold the sums of the rows and of the columns of one finite table.
Table(r, c, f, g, A, B) == /\ IsFiniteSet(A) /\ IsFiniteSet(B)
                           /\ r \in [A -> [B -> Int]] /\ c \in [B -> [A -> Int]]
                           /\ Flipped(r, c, A, B) /\ RowSums(r, f, A, B) /\ RowSums(c, g, B, A)

LEMMA TableSums ==
  \A A, B, r, c, f, g : Table(r, c, f, g, A, B) => SumFunctionOnSet(f, A) = SumFunctionOnSet(g, B)
<1> SUFFICES ASSUME NEW A, NEW B, NEW r, NEW c, NEW f, NEW g, Table(r, c, f, g, A, B)
             PROVE  SumFunctionOnSet(f, A) = SumFunctionOnSet(g, B)
  OBVIOUS
<1>1. IsFiniteSet(A)
  BY DEF Table
<1>2. IsFiniteSet(B)
  BY DEF Table
<1>3. r \in [A -> [B -> Int]]
  BY DEF Table
<1>4. c \in [B -> [A -> Int]]
  BY DEF Table
<1>5. Flipped(r, c, A, B)
  BY DEF Table
<1>6. RowSums(r, f, A, B)
  BY DEF Table
<1>7. RowSums(c, g, B, A)
  BY DEF Table
<1> QED BY ONLY <1>1, <1>2, <1>3, <1>4, <1>5, <1>6, <1>7, SumExchange

\* A factor of every summand.
LEMMA SumScaled ==
  ASSUME NEW S, IsFiniteSet(S), NEW c \in Int, NEW f, \A x \in S : f[x] \in Int,
         NEW g, \A x \in S : g[x] = c * f[x]
  PROVE  SumFunctionOnSet(g, S) = c * SumFunctionOnSet(f, S)
<1> DEFINE Bad == {t \in SUBSET S : SumFunctionOnSet(g, t) # c * SumFunctionOnSet(f, t)}
<1>1. ASSUME NEW t \in Bad, \A v \in Bad : v \subseteq t => v = t PROVE FALSE
  <2>1. IsFiniteSet(t) /\ t \subseteq S
    BY FS_Subset
  <2>2. t # {}
    <3>1. SumFunctionOnSet(g, {}) = 0 /\ SumFunctionOnSet(f, {}) = 0
      BY SumEmpty
    <3>2. c * 0 = 0
      OBVIOUS
    <3> QED BY <3>1, <3>2
  <2> PICK x \in t : TRUE
    BY <2>2
  <2>3. SumFunctionOnSet(g, t \ {x}) = c * SumFunctionOnSet(f, t \ {x})
    BY <1>1
  <2>4. (\A y \in t : f[y] \in Int) /\ (\A y \in t : g[y] \in Int) /\ g[x] = c * f[x]
    BY <2>1
  <2>5. SumFunctionOnSet(f, t) = f[x] + SumFunctionOnSet(f, t \ {x})
    BY <2>1, <2>4, SumRemove
  <2>6. SumFunctionOnSet(g, t) = g[x] + SumFunctionOnSet(g, t \ {x})
    BY <2>1, <2>4, SumRemove
  <2>7. IsFiniteSet(t \ {x})
    BY <2>1, FS_Subset
  <2>8. SumFunctionOnSet(f, t \ {x}) \in Int
    BY <2>4, <2>7, SumType
  <2>9. SumFunctionOnSet(g, t) # c * SumFunctionOnSet(f, t)
    OBVIOUS
  <2> DEFINE y == f[x]
  <2> DEFINE z == SumFunctionOnSet(f, t \ {x})
  <2>10. y \in Int /\ z \in Int
    BY <2>4, <2>8
  <2> HIDE DEF y, z, Bad
  <2>11. c * (y + z) = c * y + c * z
    BY <2>10, SMT
  <2> QED BY <2>3, <2>4, <2>5, <2>6, <2>9, <2>11 DEF y, z
<1>2. Bad = {}
  <2> HIDE DEF Bad
  <2>1. Bad \in SUBSET SUBSET S
    BY DEF Bad
  <2> QED BY <1>1, <2>1, MinimalSubset
<1> QED BY <1>2

-----------------------------------------------------------------------------
\* The instance sums as the module does.
LEMMA LedgerSums ==
  \A f, S : /\ Ledger!SumFunctionOnSet(f, S) = SumFunctionOnSet(f, S)
            /\ Ledger!SumFunction(f) = SumFunctionOnSet(f, DOMAIN f)
BY DEF Ledger!SumFunctionOnSet, Ledger!SumFunction, Ledger!FoldFunctionOnSet, Ledger!MapThenFoldSet,
       SumFunctionOnSet, FoldFunctionOnSet, MapThenFoldSet

\* Sleeves are a partition of the assets, those of no sleeve included.
LEMMA SleevesAddUp ==
  ASSUME IsFiniteSet(DOMAIN Sleeve), NEW A, IsFiniteSet(A), NEW f \in [A -> Int]
  PROVE  Ledger!SumFunction(Ledger!BySleeve(f)) = SumFunctionOnSet(f, A)
<1> DEFINE C == Ledger!SleeveNames
<1> DEFINE S == [s \in C |-> {a \in A : Ledger!SleeveOf(a) = s}]
<1> DEFINE g == Ledger!BySleeve(f)
<1>1. IsFiniteSet(C)
  <2> DEFINE T == {Sleeve[a] : a \in DOMAIN Sleeve}
  <2>1. IsFiniteSet(T)
    BY ImageIsFinite
  <2> HIDE DEF T
  <2>2. IsFiniteSet(T \cup {"Other"})
    BY <2>1, FS_AddElement
  <2> QED BY <2>2 DEF T, Ledger!SleeveNames
<1>2. \A a \in A : Ledger!SleeveOf(a) \in C
  BY DEF Ledger!SleeveOf, Ledger!SleeveNames
<1>3. DOMAIN g = C /\ \A s \in C : g[s] = SumFunctionOnSet(f, S[s])
  <2>1. g = [s \in C |-> Ledger!SumFunctionOnSet(f, {a \in A : Ledger!SleeveOf(a) = s})]
    BY DEF Ledger!BySleeve
  <2> HIDE DEF g
  <2> QED BY <2>1, LedgerSums
<1>4. UNION {S[s] : s \in C} = A
  BY <1>2
<1>5. /\ \A s \in C : S[s] \subseteq A
      /\ \A s, t \in C : s # t => S[s] \cap S[t] = {}
  OBVIOUS
<1>6. \A a \in A : f[a] \in Int
  OBVIOUS
<1>7. IsFiniteSet(A) /\ \A s \in C : g[s] = SumFunctionOnSet(f, S[s])
  BY <1>3
<1> HIDE DEF C, S, g
<1>8. SumFunctionOnSet(g, C) = SumFunctionOnSet(f, UNION {S[s] : s \in C})
  BY ONLY <1>1, <1>5, <1>6, <1>7, SumOfSums
<1>9. Ledger!SumFunction(g) = SumFunctionOnSet(g, C)
  BY <1>3, LedgerSums
<1> QED BY <1>4, <1>8, <1>9 DEF g

Row(A) == [r : [A -> Int \cup {Gap}], w : [A -> Int]]

\* What is held on a day is what the last rebalance set.
LEMMA WeightsType ==
  ASSUME Every \in Nat \ {0}, NEW A, NEW days \in Seq(Row(A)), NEW d \in 1 .. Len(days)
  PROVE  /\ Ledger!Weights(days, d) \in [A -> Int] /\ DOMAIN days[d].w = A
         /\ days[d].r \in [A -> Int \cup {Gap}] /\ DOMAIN days[1].w = A
<1>1. \A k \in 1 .. Len(days) : days[k] \in Row(A)
  OBVIOUS
<1> DEFINE q == (d - 1) % Every
<1>2. q \in 0 .. d - 1
  BY SMT
<1> HIDE DEF q
<1>3. d - q \in 1 .. Len(days) /\ Ledger!RebalanceDay(d) = d - q
  BY <1>2 DEF Ledger!RebalanceDay, q
<1>4. Ledger!Weights(days, d) = days[d - q].w
  BY <1>3 DEF Ledger!Weights
<1>5. 1 \in 1 .. Len(days)
  OBVIOUS
<1> QED BY <1>1, <1>3, <1>4, <1>5 DEF Row

\* The products of integers are integers.
LEMMA IntProduct == \A x, y \in Int : x * y \in Int
BY SMT

\* A day without a gap: its P&L, its costs given back, is that of its assets.
LEMMA GrossIs ==
  ASSUME Every \in Nat \ {0}, Cost \in Int, NEW A, IsFiniteSet(A), NEW days \in Seq(Row(A)),
         NEW d \in 1 .. Len(days), Ledger!Whole(days[d]),
         NEW e, e = [a \in A |-> Ledger!Weights(days, d)[a] * days[d].r[a]]
  PROVE  e \in [A -> Int] /\ Ledger!GrossReturn(days, d) = SumFunctionOnSet(e, A)
<1> DEFINE w == Ledger!Weights(days, d)
<1> DEFINE v == Ledger!Weights(days, d - 1)
<1> DEFINE r == days[d].r
<1>1. w \in [A -> Int] /\ DOMAIN days[d].w = A /\ r \in [A -> Int \cup {Gap}]
  BY WeightsType
<1>2. \A a \in A : r[a] \in Int
  <2>1. DOMAIN r = A
    BY <1>1
  <2> QED BY <1>1, <2>1 DEF Ledger!Whole
<1>3. v \in [A -> Int]
  <2>1. CASE d = 1
    <3>1. v = Ledger!Flat(days) /\ DOMAIN days[1].w = A
      BY <1>1, <2>1 DEF Ledger!Weights
    <3> QED BY <3>1 DEF Ledger!Flat
  <2>2. CASE d # 1
    <3> DEFINE y == d - 1
    <3>1. y \in 1 .. Len(days)
      BY <2>2
    <3> HIDE DEF y
    <3>2. Ledger!Weights(days, y) \in [A -> Int]
      BY <3>1, WeightsType
    <3> QED BY <3>2 DEF y
  <2> QED BY <2>1, <2>2
<1> DEFINE cost == Ledger!Turnover(days, d)
<1>4. cost \in Int
  <2> DEFINE t == [a \in DOMAIN days[d].w |-> Ledger!AbsOf(w[a] - v[a])]
  <2>1. DOMAIN t = A /\ \A a \in A : t[a] \in Int
    <3>1. \A a \in A : w[a] \in Int /\ v[a] \in Int
      BY <1>1, <1>3
    <3> HIDE DEF w, v
    <3>2. \A a \in A : Ledger!AbsOf(w[a] - v[a]) \in Int
      BY <3>1 DEF Ledger!AbsOf
    <3> QED BY <1>1, <3>2
  <2>2. cost = IF Ledger!RebalanceDay(d) # d THEN 0 ELSE Ledger!SumFunction(t)
    BY DEF Ledger!Turnover
  <2> HIDE DEF t, cost
  <2>3. Ledger!SumFunction(t) = SumFunctionOnSet(t, A)
    BY <2>1, LedgerSums
  <2>4. SumFunctionOnSet(t, A) \in Int
    BY <2>1, SumType
  <2> QED BY <2>2, <2>3, <2>4
<1>5. e = [a \in A |-> w[a] * r[a]]
  OBVIOUS
<1>6. Ledger!NetReturn(days, d)
        = Ledger!SumFunction([a \in A |-> w[a] * r[a]]) - Cost * cost
  BY <1>1 DEF Ledger!NetReturn
<1> HIDE DEF w, v, r
<1>7. e \in [A -> Int] /\ DOMAIN e = A
  BY <1>1, <1>2, <1>5, IntProduct
<1>8. Ledger!SumFunction(e) = SumFunctionOnSet(e, A)
  BY <1>7, LedgerSums
<1> DEFINE x == SumFunctionOnSet(e, A)
<1> DEFINE y == Cost * cost
<1>9. x \in Int
  <2>1. \A a \in A : e[a] \in Int
    BY <1>7
  <2> QED BY <2>1, SumType
<1>10. y \in Int
  <2> HIDE DEF cost
  <2> QED BY <1>4, IntProduct
<1>11. Ledger!NetReturn(days, d) = x - y
  BY <1>5, <1>6, <1>8
<1>12. Ledger!GrossReturn(days, d) = Ledger!NetReturn(days, d) + y
  BY DEF Ledger!GrossReturn
<1> HIDE DEF x, y, cost
<1>13. Ledger!GrossReturn(days, d) = x
  BY <1>9, <1>10, <1>11, <1>12
<1> QED BY <1>7, <1>13 DEF x

\* The P&L of the sleeves over a window without gaps.
LEMMA PnlAddsUp ==
  ASSUME IsFiniteSet(DOMAIN Sleeve), Every \in Nat \ {0}, Cost \in Int,
         NEW A, IsFiniteSet(A), NEW days \in Seq(Row(A)), days # <<>>,
         NEW window \in SUBSET (1 .. Len(days)), \A d \in window : Ledger!Whole(days[d])
  PROVE  Ledger!SumFunction(Ledger!BySleeve(Ledger!Contribution(days, window)))
           = Ledger!SumFunction([d \in window |-> Ledger!GrossReturn(days, d)])
<1> DEFINE p(d, a) == Ledger!Weights(days, d)[a] * days[d].r[a]
<1> DEFINE c == [d \in window |-> [a \in A |-> p(d, a)]]
<1> DEFINE r == [a \in A |-> [d \in window |-> p(d, a)]]
<1> DEFINE f == Ledger!Contribution(days, window)
<1> DEFINE g == [d \in window |-> Ledger!GrossReturn(days, d)]
<1>1. IsFiniteSet(window)
  <2>1. IsFiniteSet(1 .. Len(days))
    BY FS_Interval
  <2> QED BY <2>1, FS_Subset
<1>2. ASSUME NEW d \in window
      PROVE  c[d] \in [A -> Int] /\ g[d] = SumFunctionOnSet(c[d], A)
  <2>1. d \in 1 .. Len(days) /\ Ledger!Whole(days[d])
    OBVIOUS
  <2> DEFINE e == c[d]
  <2>2. e = [a \in A |-> Ledger!Weights(days, d)[a] * days[d].r[a]]
    OBVIOUS
  <2> HIDE DEF e
  <2>3. e \in [A -> Int] /\ Ledger!GrossReturn(days, d) = SumFunctionOnSet(e, A)
    BY <2>1, <2>2, GrossIs
  <2> QED BY <2>3 DEF e
<1>3. \A a \in A : \A d \in window : r[a][d] \in Int /\ c[d][a] = r[a][d]
  <2>1. \A a \in A : \A d \in window : c[d][a] = r[a][d]
    OBVIOUS
  <2> HIDE DEF c, r
  <2> QED BY <1>2, <2>1
<1>4. ASSUME NEW a \in A PROVE f[a] = SumFunctionOnSet(r[a], window)
  <2> DEFINE row == [d \in window |->
                       IF days[d].r[a] = Gap THEN 0 ELSE Ledger!Weights(days, d)[a] * days[d].r[a]]
  <2>1. DOMAIN days[1].w = A
    BY WeightsType
  <2>2. f[a] = Ledger!SumFunction(row)
    BY <2>1 DEF Ledger!Contribution
  <2>3. \A d \in window : days[d].r[a] # Gap
    <3> TAKE d \in window
    <3>1. DOMAIN days[d].r = A
      BY WeightsType
    <3> QED BY <3>1 DEF Ledger!Whole
  <2>4. row = r[a]
    BY <2>3
  <2>5. DOMAIN row = window
    OBVIOUS
  <2> HIDE DEF f, row, r
  <2> QED BY <2>2, <2>4, <2>5, LedgerSums
<1>5. DOMAIN f = A
  <2>1. DOMAIN days[1].w = A
    BY WeightsType
  <2> QED BY <2>1 DEF Ledger!Contribution
<1>6. DOMAIN g = window
  OBVIOUS
<1>7. f \in [A -> Int]
  <2>1. f = [a \in A |-> f[a]]
    BY <1>5 DEF Ledger!Contribution
  <2> HIDE DEF f, r
  <2>2. ASSUME NEW a \in A PROVE f[a] \in Int
    <3>1. \A d \in window : r[a][d] \in Int
      BY <1>3
    <3>2. SumFunctionOnSet(r[a], window) \in Int
      BY <1>1, <3>1, SumType
    <3> QED BY <1>4, <3>2
  <2> QED BY <2>1, <2>2
<1> HIDE DEF c, r, f, g
<1>8. SumFunctionOnSet(f, A) = SumFunctionOnSet(g, window)
  <2>1. IsFiniteSet(A) /\ IsFiniteSet(window)
    BY <1>1
  <2>2. r \in [A -> [window -> Int]] /\ c \in [window -> [A -> Int]]
    BY <1>2, <1>3 DEF r, c
  <2>3. Flipped(r, c, A, window)
    BY <1>3 DEF Flipped
  <2>4. RowSums(r, f, A, window) /\ RowSums(c, g, window, A)
    BY <1>2, <1>4 DEF RowSums
  <2>5. Table(r, c, f, g, A, window)
    BY <2>1, <2>2, <2>3, <2>4 DEF Table
  <2> QED BY ONLY <2>5, TableSums
<1>10. Ledger!SumFunction(Ledger!BySleeve(f)) = SumFunctionOnSet(f, A)
  BY <1>7, SleevesAddUp
<1>11. Ledger!SumFunction(g) = SumFunctionOnSet(g, window)
  BY <1>6, LedgerSums
<1> QED BY <1>8, <1>10, <1>11 DEF f, g

\* The risk of the sleeves.
LEMMA RiskAddsUp ==
  ASSUME IsFiniteSet(DOMAIN Sleeve), NEW A, IsFiniteSet(A), NEW w \in [A -> Int],
         NEW cov, \A a, b \in A : cov[{a, b}] \in Int
  PROVE  Ledger!SumFunction(Ledger!BySleeve(Ledger!RiskContribution(w, cov))) = Ledger!Variance(w, cov)
<1> DEFINE f == Ledger!RiskContribution(w, cov)
<1> DEFINE h == [p \in A \X A |-> w[p[1]] * w[p[2]] * cov[{p[1], p[2]}]]
<1> DEFINE inner == [a \in A |-> [b \in A |-> cov[{a, b}] * w[b]]]
<1> DEFINE r == [a \in A |-> [b \in A |-> h[<<a, b>>]]]
<1>1. \A a \in A : w[a] \in Int
  OBVIOUS
<1>2. \A a, b \in A : cov[{a, b}] * w[b] \in Int /\ w[a] * w[b] * cov[{a, b}] \in Int
                        /\ w[a] * w[b] * cov[{a, b}] = w[a] * (cov[{a, b}] * w[b])
  <2> TAKE a, b \in A
  <2> DEFINE x == w[a]
  <2> DEFINE y == w[b]
  <2> DEFINE z == cov[{a, b}]
  <2>1. x \in Int /\ y \in Int /\ z \in Int
    OBVIOUS
  <2> HIDE DEF x, y, z
  <2>2. z * y \in Int /\ x * y * z \in Int /\ x * y * z = x * (z * y)
    BY <2>1, SMT
  <2> QED BY <2>2 DEF x, y, z
<1>3. \A p \in A \X A : h[p] \in Int
  BY <1>2
<1>4. \A a, b \in A : inner[a][b] \in Int /\ r[a][b] = w[a] * inner[a][b] /\ r[a][b] = h[<<a, b>>]
  BY <1>2
<1>5. ASSUME NEW a \in A PROVE f[a] = SumFunctionOnSet(r[a], A) /\ f[a] \in Int
  <2> DEFINE row == inner[a]
  <2>1. row = [b \in A |-> cov[{a, b}] * w[b]] /\ DOMAIN row = A
    OBVIOUS
  <2>2. f[a] = w[a] * Ledger!SumFunction([b \in A |-> cov[{a, b}] * w[b]])
    BY DEF Ledger!RiskContribution
  <2> DEFINE scaled == r[a]
  <2>3. \A b \in A : row[b] \in Int /\ scaled[b] = w[a] * row[b]
    BY <1>4
  <2> HIDE DEF row, scaled, f
  <2>4. f[a] = w[a] * SumFunctionOnSet(row, A)
    BY <2>1, <2>2, LedgerSums
  <2>5. (\A b \in A : row[b] \in Int) /\ (\A b \in A : scaled[b] = w[a] * row[b]) /\ w[a] \in Int
        /\ IsFiniteSet(A)
    BY <2>3
  <2> DEFINE k == w[a]
  <2>6. k \in Int /\ \A b \in A : scaled[b] = k * row[b]
    BY <2>5
  <2> HIDE DEF k
  <2>7. SumFunctionOnSet(scaled, A) = k * SumFunctionOnSet(row, A)
    BY ONLY <2>5, <2>6, SumScaled
  <2>8. SumFunctionOnSet(row, A) \in Int
    BY <2>5, SumType
  <2>9. k * SumFunctionOnSet(row, A) \in Int
    BY <2>6, <2>8, IntProduct
  <2> QED BY <2>4, <2>7, <2>9 DEF k, scaled
<1>6. f \in [A -> Int]
  <2>1. f = [a \in A |-> f[a]]
    BY DEF Ledger!RiskContribution
  <2> HIDE DEF f
  <2> QED BY <1>5, <2>1
<1>7. Ledger!Variance(w, cov) = SumFunctionOnSet(h, A \X A)
  <2>1. Ledger!Variance(w, cov) = Ledger!SumFunction(h) /\ DOMAIN h = A \X A
    BY DEF Ledger!Variance
  <2> HIDE DEF h
  <2> QED BY <2>1, LedgerSums
<1> HIDE DEF f, h, inner, r
<1>8. /\ IsFiniteSet(A)
      /\ \A a \in A : \A b \in A : r[a][b] = h[<<a, b>>]
      /\ \A a \in A : f[a] = SumFunctionOnSet(r[a], A)
  BY <1>4, <1>5
<1>9. SumFunctionOnSet(f, A) = SumFunctionOnSet(h, A \X A)
  BY ONLY <1>3, <1>8, SumPairs
<1>10. Ledger!SumFunction(Ledger!BySleeve(f)) = SumFunctionOnSet(f, A)
  BY <1>6, SleevesAddUp
<1> QED BY <1>7, <1>9, <1>10 DEF f

(* For every book, sleeves, costs and covariances: over every window without *)
(* a gap, what attribution() gives the sleeves adds up to what the book      *)
(* earned gross of costs, and the sleeves' risk to the variance of the book  *)
(* (trend.py attribution, riskmgmt.py marginal_risk_contributions).          *)
THEOREM AttributionAlwaysAddsUp ==
  ASSUME IsFiniteSet(DOMAIN Sleeve), Every \in Nat \ {0}, Cost \in Int,
         NEW A, IsFiniteSet(A), NEW days \in Seq(Row(A)),
         NEW cov, \A a, b \in A : cov[{a, b}] \in Int
  PROVE  Ledger!AttributionAddsUp(days, cov)
<1> SUFFICES ASSUME NEW i \in DOMAIN days, NEW j \in DOMAIN days,
                    \A d \in Ledger!Between(i, j) : Ledger!Whole(days[d])
             PROVE  /\ Ledger!SumFunction(Ledger!BySleeve(Ledger!Contribution(days, Ledger!Between(i, j))))
                         = Ledger!SumFunction([d \in Ledger!Between(i, j) |-> Ledger!GrossReturn(days, d)])
                    /\ Ledger!SumFunction(Ledger!BySleeve(Ledger!RiskContribution(Ledger!Weights(days, j), cov)))
                         = Ledger!Variance(Ledger!Weights(days, j), cov)
  BY DEF Ledger!AttributionAddsUp
<1> DEFINE window == Ledger!Between(i, j)
<1>1. window \in SUBSET (1 .. Len(days)) /\ j \in 1 .. Len(days) /\ days # <<>>
  BY DEF Ledger!Between
<1>2. \A d \in window : Ledger!Whole(days[d])
  OBVIOUS
<1> HIDE DEF window
<1>3. Ledger!SumFunction(Ledger!BySleeve(Ledger!Contribution(days, window)))
        = Ledger!SumFunction([d \in window |-> Ledger!GrossReturn(days, d)])
  BY <1>1, <1>2, PnlAddsUp
<1>4. Ledger!Weights(days, j) \in [A -> Int]
  BY <1>1, WeightsType
<1>5. Ledger!SumFunction(Ledger!BySleeve(Ledger!RiskContribution(Ledger!Weights(days, j), cov)))
        = Ledger!Variance(Ledger!Weights(days, j), cov)
  BY <1>4, RiskAddsUp
<1> QED BY <1>3, <1>5 DEF window

====
