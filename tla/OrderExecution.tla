--------------------------- MODULE OrderExecution ---------------------------
(***************************************************************************)
(* Order execution end to end: OrderService's operations, MatchingService  *)
(* with its in-memory book, and FillRecorder, over the transactions of     *)
(* OrderStore, in several backend replicas that share the database only.   *)
(*                                                                         *)
(* Three atomicity domains meet here.  The book is changed under the book  *)
(* lock, at once and for good.  Fills are published later, one thread at a *)
(* time under the publish lock: a fill met while routing joins the open    *)
(* transaction of the route, a fill met by the liquidity provider is a     *)
(* transaction of its own, with retries.  The route's transaction commits  *)
(* after the publish lock is released.                                     *)
(*                                                                         *)
(* One instrument at one price: every order crosses every order of the     *)
(* other side, so the book is a queue of one side (DeskBook has prices).   *)
(***************************************************************************)
EXTENDS OrderStore, SequencesExt

CONSTANTS
  Replicas,        \* backend processes
  ReplicaOf,       \* ReplicaOf[t]: the process thread t belongs to
  Makers,          \* the scheduler threads that post liquidity
  NoOrder,         \* the owner of liquidity
  RfqOrders,       \* orders negotiated off-book
  MarketOrders,    \* orders of type MARKET
  MAX_ATTEMPTS,    \* FillRecorder's attempts per fill
  SIZE,            \* quantity of one liquidity order
  MaxOps,          \* bound: operations begun (creations not counted)
  MaxRestarts,     \* bound: restarts of a replica
  MaxFailures      \* bound: transactions that fail for another cause

ASSUME ExecutionAssumption ==
  /\ ReplicaOf \in [Threads -> Replicas] /\ Makers \subseteq Threads
  /\ IsFiniteSet(Orders) /\ IsFiniteSet(Threads)
  /\ NoOrder \notin Orders
  /\ RfqOrders \subseteq Orders
  /\ MarketOrders \subseteq Orders
  /\ MAX_ATTEMPTS \in Nat \ {0} /\ SIZE \in Nat \ {0}
  /\ MaxOps \in Nat /\ MaxRestarts \in Nat /\ MaxFailures \in Nat

VARIABLES
  book,        \* book[b]: resting orders of replica b, oldest first
  deskRef,     \* deskRef[b][o]: deskRefToEngineId, 0 if o has no engine id
  idSeq,       \* idSeq[b]: last engine id
  publisher,   \* publisher[b]: the holder of the publish lock, as a set
  task,        \* task[t]: what thread t is doing
  traded,      \* traded[o]: quantity of o the engines have matched (history)
  used         \* how much of each bound is used up

execVars == <<book, deskRef, idSeq, publisher, task, traded, used>>
vars == <<storeVars, execVars>>

Owner   == Orders \cup {NoOrder}
Resting == [id : Nat, owner : Owner, side : {"BUY", "SELL"}, qty : Nat \ {0}]
Fill    == UNION {[order : {o}, qty : 1 .. Qty[o]] : o \in Orders}
Task    == [op : {"none", "stage", "route", "cancel", "rfq", "post"}, order : Owner,
            pc : {"idle", "pull", "submit", "lock", "publish", "settle", "commit"},
            todo : Seq(Fill), attempt : 1 .. MAX_ATTEMPTS]
NoTask  == [op |-> "none", order |-> NoOrder, pc |-> "idle", todo |-> <<>>, attempt |-> 1]

ExecTypeOK ==
  /\ StoreTypeOK
  /\ book \in [Replicas -> Seq(Resting)]
  /\ deskRef \in [Replicas -> [Orders -> Nat]] /\ idSeq \in [Replicas -> Nat]
  /\ publisher \in [Replicas -> SUBSET Threads]
  /\ task \in [Threads -> Task]
  /\ traded \in [Orders -> Nat]
  /\ used \in [ops : 0 .. MaxOps, restarts : 0 .. MaxRestarts, failures : 0 .. MaxFailures]

ExecInit ==
  /\ book = [b \in Replicas |-> <<>>]
  /\ deskRef = [b \in Replicas |-> [o \in Orders |-> 0]]
  /\ idSeq = [b \in Replicas |-> 0]
  /\ publisher = [b \in Replicas |-> {}]
  /\ task = [t \in Threads |-> NoTask]
  /\ traded = [o \in Orders |-> 0]
  /\ used = [ops |-> 0, restarts |-> 0, failures |-> 0]

Init == StoreInit /\ ExecInit

-----------------------------------------------------------------------------
(***************************************************************************)
(* The engine.  An incoming quantity takes the queue from its head.        *)
(***************************************************************************)
\* Quantity resting ahead of the k-th order of queue q.
Ahead(q, k) == SumFunctionOnSet([i \in 1 .. Len(q) |-> q[i].qty], 1 .. k - 1)

\* What the k-th order of q gives to an incoming quantity n.
Taken(q, n, k) ==
  LET left == n - Ahead(q, k)
  IN  IF left <= 0 THEN 0 ELSE IF left <= q[k].qty THEN left ELSE q[k].qty

Hit(q, n) == {k \in 1 .. Len(q) : Taken(q, n, k) > 0}

Filled(q, n) == SumFunction([k \in 1 .. Len(q) |-> Taken(q, n, k)])

\* The queue after n has been taken from it: without the orders taken whole.
Reduced(q, n) ==
  LET gone == Cardinality({k \in 1 .. Len(q) : Taken(q, n, k) = q[k].qty})
  IN  [k \in 1 .. Len(q) - gone |-> [q[k + gone] EXCEPT !.qty = @ - Taken(q, n, k + gone)]]

Opposes(q, side) == q # <<>> /\ q[1].side # side

\* The desk fills of the trades, each trade's buyer before its seller.
DeskFills(owner, side, q, n) ==
  LET own(k)  == IF owner = NoOrder THEN <<>> ELSE <<[order |-> owner, qty |-> Taken(q, n, k)]>>
      their(k) == IF q[k].owner = NoOrder THEN <<>>
                  ELSE <<[order |-> q[k].owner, qty |-> Taken(q, n, k)]>>
      both(k) == IF side = "BUY" THEN own(k) \o their(k) ELSE their(k) \o own(k)
  IN  FlattenSeq([k \in 1 .. Cardinality(Hit(q, n)) |-> both(k)])

\* The quantity of order o in a list of fills.
FillsOf(fills, o) ==
  SumFunction([k \in DOMAIN fills |-> IF fills[k].order = o THEN fills[k].qty ELSE 0])

(***************************************************************************)
(* OrderBook.submit under the book lock, with route()'s deskRef entry for  *)
(* what rests; a LIMIT remainder rests, a MARKET remainder dies.           *)
(***************************************************************************)
Submit(t, owner, side, n) ==
  LET b      == ReplicaOf[t]
      q      == IF Opposes(book[b], side) THEN book[b] ELSE <<>>
      id     == idSeq[b] + 1
      rest   == n - Filled(q, n)
      rests  == rest > 0 /\ owner \notin MarketOrders
      fills  == DeskFills(owner, side, q, n)
      kept   == IF q = <<>> THEN book[b] ELSE Reduced(q, n)
  IN
  /\ idSeq' = [idSeq EXCEPT ![b] = id]
  /\ book' = [book EXCEPT ![b] =
       IF rests THEN Append(kept, [id |-> id, owner |-> owner, side |-> side, qty |-> rest])
                ELSE kept]
  /\ deskRef' = IF rests /\ owner # NoOrder THEN [deskRef EXCEPT ![b][owner] = id] ELSE deskRef
  /\ traded' = [o \in Orders |-> traded[o] + FillsOf(fills, o)]
  /\ task' = [task EXCEPT ![t].todo = fills, ![t].pc = "lock"]

\* OrderBook.cancel: the order with this engine id leaves the queue.
Without(q, id) ==
  LET at == {k \in 1 .. Len(q) : q[k].id = id}
  IN  IF at = {} THEN q ELSE RemoveAt(q, CHOOSE k \in at : TRUE)

-----------------------------------------------------------------------------
(***************************************************************************)
(* Operations begin.                                                       *)
(***************************************************************************)
Begin(t, op, o, pc) ==
  /\ task[t].op = "none"
  /\ used.ops < MaxOps
  /\ used' = [used EXCEPT !.ops = @ + 1]
  /\ task' = [task EXCEPT ![t] = [NoTask EXCEPT !.op = op, !.order = o, !.pc = pc]]

NewOrder(o) == o \notin RfqOrders /\ Create(o) /\ UNCHANGED execVars

StartStage(t, o) ==
  /\ Transition(t, o, "STAGED")
  /\ Begin(t, "stage", o, "commit")
  /\ UNCHANGED <<book, deskRef, idSeq, publisher, traded>>

StartRoute(t, o) ==
  /\ Transition(t, o, "ROUTED")
  /\ Begin(t, "route", o, "submit")
  /\ UNCHANGED <<book, deskRef, idSeq, publisher, traded>>

StartCancel(t, o) ==
  /\ Transition(t, o, "CANCELLED")
  /\ Begin(t, "cancel", o, "pull")
  /\ UNCHANGED <<book, deskRef, idSeq, publisher, traded>>

StartRfq(t, o) ==
  /\ o \in RfqOrders
  /\ OpenRfq(t, o)
  /\ Begin(t, "rfq", o, "commit")
  /\ UNCHANGED <<book, deskRef, idSeq, publisher, traded>>

\* LiquidityProvider.refresh: pull a quote of the previous round.
PullQuote(t) ==
  /\ task[t].op = "none"
  /\ LET b == ReplicaOf[t] IN
     \E k \in 1 .. Len(book[b]) :
       /\ book[b][k].owner = NoOrder
       /\ book' = [book EXCEPT ![b] = Without(@, book[b][k].id)]
  /\ UNCHANGED <<storeVars, deskRef, idSeq, publisher, task, traded, used>>

StartPost(t) ==
  /\ Begin(t, "post", NoOrder, "submit")
  /\ UNCHANGED <<storeVars, book, deskRef, idSeq, publisher, traded>>

-----------------------------------------------------------------------------
(***************************************************************************)
(* The engine's part of an operation.                                      *)
(***************************************************************************)
SubmitOrder(t) ==
  /\ task[t].pc = "submit" /\ task[t].op = "route"
  /\ LET o == task[t].order IN Submit(t, o, Side[o], Qty[o] - OrderSeen(t, o).filled)
  /\ UNCHANGED <<storeVars, publisher, used>>

PostLiquidity(t) ==
  /\ task[t].pc = "submit" /\ task[t].op = "post"
  /\ \E side \in {"BUY", "SELL"} : Submit(t, NoOrder, side, SIZE)
  /\ UNCHANGED <<storeVars, publisher, used>>

\* matching.cancel, before the transaction commits.
PullFromBook(t) ==
  /\ task[t].pc = "pull"
  /\ LET b == ReplicaOf[t]
         o == task[t].order
     IN
     /\ deskRef' = [deskRef EXCEPT ![b][o] = 0]
     /\ book' = [book EXCEPT ![b] = Without(@, deskRef[b][o])]
  /\ task' = [task EXCEPT ![t].pc = "commit"]
  /\ UNCHANGED <<storeVars, idSeq, publisher, traded, used>>

-----------------------------------------------------------------------------
(***************************************************************************)
(* Publishing the fills.                                                   *)
(***************************************************************************)
TakePublishLock(t) ==
  /\ task[t].pc = "lock"
  /\ publisher[ReplicaOf[t]] = {}
  /\ publisher' = [publisher EXCEPT ![ReplicaOf[t]] = {t}]
  /\ task' = [task EXCEPT ![t].pc = "publish"]
  /\ UNCHANGED <<storeVars, book, deskRef, idSeq, traded, used>>

Publishing(t, op) == task[t].pc = "publish" /\ task[t].op = op /\ task[t].todo # <<>>
NextFill(t) == Head(task[t].todo)

\* recordFill of the next fill.
RecordNext(t) ==
  \E o \in Orders : \E q \in 1 .. Qty[o] :
    NextFill(t) = [order |-> o, qty |-> q] /\ RecordFill(t, o, q)

\* This fill is done with, whatever became of it.
FillDone(t) ==
  task' = [task EXCEPT ![t].todo = Tail(@), ![t].attempt = 1, ![t].pc = "publish"]

\* route(): the fill joins the open transaction.
PublishJoined(t) ==
  /\ Publishing(t, "route")
  /\ RecordNext(t)
  /\ FillDone(t)
  /\ UNCHANGED <<book, deskRef, idSeq, publisher, traded, used>>

\* route(): recordFill throws; FillRecorder swallows it, the transaction is doomed.
RefuseJoined(t) ==
  /\ Publishing(t, "route")
  /\ ~Recordable(t, NextFill(t).order, NextFill(t).qty)
  /\ DoomTx(t)
  /\ FillDone(t)
  /\ UNCHANGED <<book, deskRef, idSeq, publisher, traded, used>>

\* postLiquidity(): the fill opens a transaction of its own.
PublishAlone(t) ==
  /\ Publishing(t, "post")
  /\ RecordNext(t)
  /\ task' = [task EXCEPT ![t].pc = "settle"]
  /\ UNCHANGED <<book, deskRef, idSeq, publisher, traded, used>>

\* InvalidStateTransitionException: the fill is skipped with a debug message.
SkipFill(t) ==
  /\ Publishing(t, "post")
  /\ ~Recordable(t, NextFill(t).order, NextFill(t).qty)
  /\ FillDone(t)
  /\ UNCHANGED <<storeVars, book, deskRef, idSeq, publisher, traded, used>>

SettleFill(t) ==
  /\ task[t].pc = "settle"
  /\ CommitTx(t)
  /\ FillDone(t)
  /\ UNCHANGED <<book, deskRef, idSeq, publisher, traded, used>>

\* The first fill of a position collided with another one: a duplicate key.
DuplicateKey(t) == \E k \in ctx[t].held : ctx[t].prow[k].version = 0 /\ pos[k].version > 0

Conflict(t) == ~OrdersCurrent(t) \/ ~PositionsCurrent(t)

\* Mutant: one attempt fewer.
BugLastAttempt(t) == task[t].attempt + 1 >= MAX_ATTEMPTS

LastAttempt(t) == task[t].attempt = MAX_ATTEMPTS

\* Mutant: the retry goes on in the session that failed.
BugRetryFill(t) ==
  /\ task[t].pc = "settle" /\ Conflict(t) /\ ~DuplicateKey(t)
  /\ ~LastAttempt(t)
  /\ orders' = [o \in Orders |-> IF o \in ctx[t].loaded
                  THEN [ctx[t].row[o] EXCEPT !.version = orders[o].version + 1] ELSE orders[o]]
  /\ ctx' = [ctx EXCEPT ![t] = Closed]
  /\ UNCHANGED pos
  /\ task' = [task EXCEPT ![t].pc = "publish", ![t].attempt = @ + 1]
  /\ UNCHANGED <<book, deskRef, idSeq, publisher, traded, used>>

\* An optimistic-lock conflict: reload and retry.
RetryFill(t) ==
  /\ task[t].pc = "settle" /\ Conflict(t) /\ ~DuplicateKey(t)
  /\ ~LastAttempt(t)
  /\ RollbackTx(t)
  /\ task' = [task EXCEPT ![t].pc = "publish", ![t].attempt = @ + 1]
  /\ UNCHANGED <<book, deskRef, idSeq, publisher, traded, used>>

\* The conflict of the last attempt, or a failure that is not retried: the fill is lost.
LoseFill(t) ==
  /\ task[t].pc = "settle"
  /\ \/ /\ Conflict(t) /\ (LastAttempt(t) \/ DuplicateKey(t))
        /\ UNCHANGED used
     \/ /\ used.failures < MaxFailures
        /\ used' = [used EXCEPT !.failures = @ + 1]
  /\ RollbackTx(t)
  /\ FillDone(t)
  /\ UNCHANGED <<book, deskRef, idSeq, publisher, traded>>

\* Mutant: a route releases the lock only when its commit succeeds, and forgets it.
BugReleasePublishLock(t) ==
  /\ task[t].pc = "publish" /\ task[t].todo = <<>>
  /\ publisher' = IF ctx[t].doomed THEN publisher
                                   ELSE [publisher EXCEPT ![ReplicaOf[t]] = {}]
  /\ task' = [task EXCEPT ![t] = IF @.op = "route" THEN [@ EXCEPT !.pc = "commit"] ELSE NoTask]
  /\ UNCHANGED <<storeVars, book, deskRef, idSeq, traded, used>>

ReleasePublishLock(t) ==
  /\ task[t].pc = "publish" /\ task[t].todo = <<>>
  /\ publisher' = [publisher EXCEPT ![ReplicaOf[t]] = {}]
  /\ task' = [task EXCEPT ![t] = IF @.op = "route" THEN [@ EXCEPT !.pc = "commit"] ELSE NoTask]
  /\ UNCHANGED <<storeVars, book, deskRef, idSeq, traded, used>>

-----------------------------------------------------------------------------
(***************************************************************************)
(* Operations end, and processes die.                                      *)
(***************************************************************************)
FinishOp(t) ==
  /\ task[t].pc = "commit"
  /\ CommitTx(t)
  /\ task' = [task EXCEPT ![t] = NoTask]
  /\ UNCHANGED <<book, deskRef, idSeq, publisher, traded, used>>

\* A conflict, rollback-only, or any other failure of the commit: an error response.
FailOp(t) ==
  /\ task[t].pc = "commit"
  /\ \/ (Conflict(t) \/ ctx[t].doomed) /\ UNCHANGED used
     \/ used.failures < MaxFailures /\ used' = [used EXCEPT !.failures = @ + 1]
  /\ RollbackTx(t)
  /\ task' = [task EXCEPT ![t] = NoTask]
  /\ UNCHANGED <<book, deskRef, idSeq, publisher, traded>>

\* The process of replica b restarts: books, locks and open transactions are gone.
Restart(b) ==
  /\ used.restarts < MaxRestarts
  /\ used' = [used EXCEPT !.restarts = @ + 1]
  /\ CrashTx({t \in Threads : ReplicaOf[t] = b})
  /\ task' = [t \in Threads |-> IF ReplicaOf[t] = b THEN NoTask ELSE task[t]]
  /\ book' = [book EXCEPT ![b] = <<>>]
  /\ deskRef' = [deskRef EXCEPT ![b] = [o \in Orders |-> 0]]
  /\ idSeq' = [idSeq EXCEPT ![b] = 0]
  /\ publisher' = [publisher EXCEPT ![b] = {}]
  /\ UNCHANGED traded

ClientStep(t) ==
  \/ \E o \in Orders : StartStage(t, o) \/ StartRoute(t, o) \/ StartCancel(t, o) \/ StartRfq(t, o)
  \/ SubmitOrder(t) \/ PullFromBook(t)
  \/ PublishJoined(t) \/ RefuseJoined(t)
  \/ FinishOp(t) \/ FailOp(t)

MakerStep(t) ==
  \/ PullQuote(t) \/ StartPost(t) \/ PostLiquidity(t)
  \/ PublishAlone(t) \/ SkipFill(t) \/ SettleFill(t) \/ RetryFill(t) \/ LoseFill(t)

Next ==
  \/ \E o \in Orders : NewOrder(o)
  \/ \E t \in Threads \ Makers : ClientStep(t)
  \/ \E t \in Makers : MakerStep(t)
  \/ \E t \in Threads : TakePublishLock(t) \/ ReleasePublishLock(t)
  \/ \E b \in Replicas : Restart(b)

Spec == Init /\ [][Next]_vars

(***************************************************************************)
(* Fairness: an operation that has begun goes on.  Nobody has to begin     *)
(* one, and the publish lock is granted only to a thread that finds it     *)
(* free for good: a monitor promises no more.                              *)
(***************************************************************************)
GoOn(t) ==
  \/ SubmitOrder(t) \/ PullFromBook(t) \/ PublishJoined(t) \/ RefuseJoined(t)
  \/ FinishOp(t) \/ FailOp(t)
  \/ PostLiquidity(t) \/ PublishAlone(t) \/ SkipFill(t) \/ SettleFill(t) \/ RetryFill(t)
  \/ LoseFill(t) \/ ReleasePublishLock(t) \/ TakePublishLock(t)

FairSpec == Spec /\ \A t \in Threads : WF_vars(GoOn(t))

-----------------------------------------------------------------------------
OrdersOf(k) == {o \in Orders : KeyOf[o] = k}

(***************************************************************************)
(* A position is the signed sum of the fills of its orders: no fill is     *)
(* booked on the order and not on the position, or lost to a concurrent    *)
(* write of the same position.  (recordFill: "the portfolio position is    *)
(* updated atomically".)                                                   *)
(***************************************************************************)
PositionIsSumOfFills ==
  \A k \in Keys :
    pos[k].net = SumFunctionOnSet([o \in Orders |-> Signed(o, orders[o].filled)], OrdersOf(k))

(***************************************************************************)
(* Tables, books and positions add up, in memory and on disk (recordFill). *)
(***************************************************************************)
PositionsAddUp == ExecTypeOK /\ PositionIsSumOfFills

(***************************************************************************)
(* No trade is booked twice: retries, rollbacks, re-routes and restarts    *)
(* never leave an order with more fills than the engines matched for it.   *)
(***************************************************************************)
FilledWithinTraded ==
  \A o \in Orders \ RfqOrders : orders[o].filled <= traded[o]

(***************************************************************************)
(* Whatever the engine, the threads and the restarts do, the tables only   *)
(* change by the transactions of OrderStore: what is proved of StoreSpec   *)
(* holds of the OMS.                                                       *)
(***************************************************************************)
UsesStore == StoreSpec

(***************************************************************************)
(* Fewer than MAX_ATTEMPTS other writers cannot make a fill of the         *)
(* liquidity provider's thread be lost, unless it is the first fill of its *)
(* position and collides with another INSERT of it.  (FillRecorder: "an    *)
(* optimistic-lock conflict with a concurrent write is retried".)          *)
(***************************************************************************)
OnlyFirstInsertLost == [][\A t \in Makers : LoseFill(t) => DuplicateKey(t)]_vars

(***************************************************************************)
(* No operation hangs: whatever it finds, conflict, rollback or refused    *)
(* fill, it comes to its end and lets go of the publish lock.              *)
(***************************************************************************)
OperationsEnd == \A t \in Threads : task[t].op # "none" ~> task[t].op = "none"
=============================================================================
