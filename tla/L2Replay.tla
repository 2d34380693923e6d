------------------------------- MODULE L2Replay -------------------------------
(***************************************************************************)
(* The replay of a recorded order-book session into feature rows           *)
(* (mds/lob.py build_panel), the walk-forward splits over them and the     *)
(* backtest of a prediction (mds/models.py).                               *)
(*                                                                         *)
(* A recorded row is [kind, seq, side, price, size]: kind "SNAP" for a     *)
(* level of a full book, "UPD" for a changed level, size 0 for one gone,   *)
(* "TRD" for a trade.  Mids are doubled to stay whole.                     *)
(*                                                                         *)
(* The recording is what L2Recorder writes to the file of a day while the  *)
(* venue trades: a row of its own number per change and per trade, and on  *)
(* every connection the venue's full book as it is by then, level by       *)
(* level, under one number.  A recorder that is restarted goes on in the   *)
(* same file and counts from one again.  The replay reads a row when it is *)
(* written; reading it later gives the same.                               *)
(***************************************************************************)
EXTENDS Integers, Sequences, FiniteSets, FiniteSetsExt, SequencesExt

CONSTANTS
    Prices, Cap, Keep,      \* levels beyond Cap on a side are cut to Keep
    SampleEvery,            \* book changes between two feature rows
    Venues,                 \* the books the venue may have
    TradeSizes,             \* the sizes trades may have
    MaxSeq,                 \* a bound on the numbers a recorder gives
    MaxRecorders            \* a bound on the recorders that write to one file

Sides == {"B", "A"}
NoLevels == [p \in Prices |-> 0]
EmptyBook == [s \in Sides |-> NoLevels]
Levels(book, s) == {p \in Prices : book[s][p] > 0}

ASSUME TapeAssumption ==
    /\ Prices \subseteq Nat /\ IsFiniteSet(Prices)
    /\ Cap \in Nat /\ Keep \in Nat /\ SampleEvery \in Nat \ {0}
    /\ Venues \subseteq [Sides -> [Prices -> Nat]]
    /\ TradeSizes \subseteq Nat /\ MaxSeq \in Nat \ {0} /\ MaxRecorders \in Nat \ {0}

VARIABLES
    replay,     \* build_panel: its book, its snapshot, its flow, its rows
    seq,        \* L2Recorder.seq: the number of the last event
    venue,      \* the book of the venue
    unwritten,  \* the levels of a snapshot that are still to be written
    sessions,   \* recorders that have written to the file
    deep,       \* a side of the venue was deeper than Cap since the last snapshot
    blind,      \* no snapshot is replayed as it was: the file began in mid-session, or
                \* the last one is laid over another of the same number
    traded      \* the signed quantity of the trades recorded (history)

tapeVars == <<replay, seq, venue, unwritten, sessions, deep, blind, traded>>

Best(book) == <<Max(Levels(book, "B")), Min(Levels(book, "A"))>>
TwoSided(book) == Levels(book, "B") # {} /\ Levels(book, "A") # {}
Mid(book) == Best(book)[1] + Best(book)[2]

Start == [book |-> EmptyBook, seq |-> 0, inSnap |-> FALSE, flow |-> 0,
          lastMid |-> 0, changes |-> 0, rows |-> <<>>]

\* A second snapshot is laid over the first.
BugFresh(st, row) == st.book

(* The first level of a snapshot clears the book.                          *)
Fresh(st, row) == IF ~st.inSnap \/ row.seq # st.seq THEN EmptyBook ELSE st.book

SetLevel(book, row) == [book EXCEPT ![row.side][row.price] = row.size]

Snap(st, row) ==
    [st EXCEPT !.book = SetLevel(Fresh(st, row), row), !.seq = row.seq, !.inSnap = TRUE]

(* Near-touch levels only, once a side is deep.                            *)
Nearest(levels, s) ==
    {p \in levels : Cardinality({q \in levels : IF s = "B" THEN q > p ELSE q < p}) < Keep}

Pruned(book) ==
    [s \in Sides |->
        IF Cardinality(Levels(book, s)) > Cap
        THEN [p \in Prices |-> IF p \in Nearest(Levels(book, s), s) THEN book[s][p] ELSE 0]
        ELSE book[s]]

(* A trade is bought or sold by where it is to the last mid.               *)
Signed(st, row) ==
    IF st.lastMid = 0 THEN 0
    ELSE IF 2 * row.price >= st.lastMid THEN row.size ELSE -row.size

Sampled(st, book) ==
    [st EXCEPT !.rows = Append(@, [mid |-> Mid(book), flow |-> st.flow]),
               !.flow = 0, !.lastMid = Mid(book)]

(* A change of the book: every SampleEvery-th gives a feature row.         *)
Changed(st, book) ==
    LET next == [st EXCEPT !.book = book, !.changes = @ + 1, !.inSnap = FALSE]
    IN  IF ~TwoSided(book) THEN next
        ELSE IF next.changes % SampleEvery = 0 THEN Sampled(next, book)
        ELSE [next EXCEPT !.lastMid = Mid(book)]

Trade(st, row) ==
    LET counted == [st EXCEPT !.flow = @ + Signed(st, row)]
    IN  IF st.inSnap THEN Changed(counted, Pruned(st.book)) ELSE counted

Replay(st, row) ==
    CASE row.kind = "SNAP" -> Snap(st, row)
      [] row.kind = "UPD"  -> Changed(st, Pruned(SetLevel(st.book, row)))
      [] row.kind = "TRD"  -> Trade(st, row)

-----------------------------------------------------------------------------
(* The venue and the recorder.                                             *)

Entry(kind, s, p, size) == [kind |-> kind, seq |-> seq', side |-> s, price |-> p, size |-> size]

LevelsOf(book) == {l \in Sides \X Prices : book[l[1]][l[2]] > 0}

Deep(book) == \E s \in Sides : Cardinality(Levels(book, s)) > Cap

FeatureRow == [mid : Int, flow : Int]
Replaying == [book : [Sides -> [Prices -> Nat]], seq : Nat, inSnap : BOOLEAN, flow : Int,
              lastMid : Int, changes : Nat, rows : Seq(FeatureRow)]

TapeTypeOK ==
    /\ replay \in Replaying
    /\ seq \in 0 .. MaxSeq
    /\ venue \in Venues
    /\ unwritten \subseteq LevelsOf(venue)
    /\ sessions \in 1 .. MaxRecorders
    /\ deep \in BOOLEAN
    /\ blind \in BOOLEAN
    /\ traded \in Int

(* The file begins with the snapshot of a new feed, or where the file of   *)
(* the day before broke off: after a snapshot or in the middle of one.     *)
TapeInit ==
    /\ replay = Start
    /\ seq = 1
    /\ venue \in Venues
    /\ blind \in BOOLEAN
    /\ unwritten \in IF blind THEN SUBSET LevelsOf(venue) ELSE {LevelsOf(venue)}
    /\ sessions = 1
    /\ deep = Deep(venue)
    /\ traded = 0

Numbered == unwritten = {} /\ seq < MaxSeq /\ seq' = seq + 1

SnapshotRow(s, p) ==
    /\ <<s, p>> \in unwritten
    /\ UNCHANGED <<seq, venue, sessions, deep, blind, traded>>
    /\ unwritten' = unwritten \ {<<s, p>>}
    /\ replay' = Replay(replay, Entry("SNAP", s, p, venue[s][p]))

(* The feed connects to a venue that has moved on.                         *)
Connected ==
    /\ venue' \in {book \in Venues : LevelsOf(book) # {}}
    /\ unwritten' = LevelsOf(venue')
    /\ deep' = Deep(venue')
    /\ UNCHANGED <<replay, traded>>

Reconnects ==
    /\ Numbered
    /\ Connected
    /\ blind' = FALSE
    /\ UNCHANGED sessions

(* The recorder stops, with rows unwritten or not, and another takes over. *)
Restarts ==
    /\ sessions < MaxRecorders
    /\ sessions' = sessions + 1
    /\ seq' = 1
    /\ Connected
    /\ blind' = (replay.inSnap /\ replay.seq = 1)

LevelChanges(s, p) ==
    /\ Numbered
    /\ venue' \in {book \in Venues : book = [venue EXCEPT ![s][p] = book[s][p]]}
    /\ deep' = (deep \/ Deep(venue'))
    /\ replay' = Replay(replay, Entry("UPD", s, p, venue'[s][p]))
    /\ UNCHANGED <<unwritten, sessions, blind, traded>>

(* The replay does not read the side of a trade.                           *)
TradePrints(p, size) ==
    /\ Numbered
    /\ traded' = traded + Signed(replay, Entry("TRD", "B", p, size))
    /\ replay' = Replay(replay, Entry("TRD", "B", p, size))
    /\ UNCHANGED <<venue, unwritten, sessions, deep, blind>>

TapeNext ==
    \/ \E s \in Sides, p \in Prices : SnapshotRow(s, p) \/ LevelChanges(s, p)
    \/ \E p \in Prices, size \in TradeSizes : TradePrints(p, size)
    \/ Reconnects \/ Restarts

TapeSpec == TapeInit /\ [][TapeNext]_tapeVars

-----------------------------------------------------------------------------
(* The label of a row is the move to the row `horizon` later.              *)
LabelWindow(i, horizon) == i .. (i + horizon)

-----------------------------------------------------------------------------
(* walk_forward_splits, rows counted from 0; minTrain in percent.          *)

PurgeEnd(trainEnd, embargo) == trainEnd - embargo

Splits(n, folds, minTrain, embargo) ==
    LET start == (n * minTrain) \div 100
        step  == Max({1, (n - start) \div folds})
        trainEnd(k) == start + k * step
        split(k) == [train |-> 0 .. PurgeEnd(trainEnd(k), embargo) - 1,
                     test  |-> trainEnd(k) + embargo
                               .. Min({n, trainEnd(k) + embargo + step}) - 1]
    IN  {s \in {split(k) : k \in 0 .. folds - 1} : s.train # {} /\ s.test # {}}

(* walk_forward_predict: the rows with a prediction.                       *)
Predicted(n, folds, minTrain, embargo) ==
    UNION {s.test : s \in Splits(n, folds, minTrain, embargo)}

(* net_backtest: of the predicted rows, every horizon-th is traded.        *)
Counted(rows, horizon) ==
    {i \in rows : Cardinality({j \in rows : j < i}) % horizon = 0}

-----------------------------------------------------------------------------
(* From its first whole snapshot on, what is replayed is the book of the   *)
(* venue, size by size, across changes, reconnections and restarts of the  *)
(* recorder, but for a side deeper than the cap and for a restart right    *)
(* after the first snapshot of a recorder (lob.py build_panel).            *)
ReplayIsTheBook == (unwritten = {} /\ ~deep /\ ~blind) => replay.book = venue

(* Every trade made once the book has had a mid is in the flow of exactly  *)
(* one feature row, or still in that of the row to come (lob.py            *)
(* build_panel).                                                           *)
FlowIsCountedOnce ==
    SumFunction([i \in DOMAIN replay.rows |-> replay.rows[i].flow]) + replay.flow = traded

(* What is replayed from a recorded tape is what happened on it.           *)
TapesAreReplayed == TapeTypeOK /\ ReplayIsTheBook /\ FlowIsCountedOnce

(* No label a model is trained on reaches a row it is tested on, or any    *)
(* label it is tested against; no two returns the backtest adds up share a *)
(* move.                                                                   *)
LabelsDoNotOverlap(n, folds, minTrain, horizon) ==
    /\ \A s \in Splits(n, folds, minTrain, horizon) : \A i \in s.train, j \in s.test :
          LabelWindow(i, horizon) \cap LabelWindow(j, horizon) = {}
    /\ \A i, j \in Counted(Predicted(n, folds, minTrain, horizon), horizon) :
          i < j => i + horizon =< j
=============================================================================
