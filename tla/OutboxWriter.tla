---------------------------- MODULE OutboxWriter ----------------------------
(***************************************************************************)
(* The write side of the transactional outbox.  Every lifecycle operation  *)
(* of OrderService is one database transaction: it loads the order (and    *)
(* its @Version), moves it one or more lifecycle steps, and for every step *)
(* inserts one outbox_event row in the same transaction.  The row's        *)
(* identity column is drawn at the INSERT, before the commit, so ids are   *)
(* handed out in insertion order and not in commit order.                  *)
(*                                                                         *)
(* A lifecycle step is abstracted to its number: version[o] counts the     *)
(* steps committed for order o, and the row of step n carries seq = n.     *)
(***************************************************************************)
EXTENDS Naturals

CONSTANTS
  Orders,    \* order references (Kafka message keys)
  NoOrder,   \* the order of a row that was never inserted
  Writers,   \* request threads running OrderService transactions
  MaxRows    \* bound: identity values the run may hand out

ASSUME WriterAssumption ==
  /\ NoOrder \notin Orders
  /\ MaxRows \in Nat

Ids == 1 .. MaxRows

VARIABLES
  version,   \* version[o]: committed lifecycle steps of order o (orders table)
  tx,        \* tx[w]: the open transaction of writer w
  rows,      \* rows[i]: the outbox_event row with id i
  nextId     \* next value of the identity column

writerVars == <<version, tx, rows, nextId>>

(***************************************************************************)
(* A row is absent until inserted, invisible to others until its writer    *)
(* commits, then pending (published_at and dead_lettered_at both NULL)     *)
(* until the relay stamps one of the two; purged rows have been deleted.   *)
(***************************************************************************)
Committed == {"pending", "published", "dead", "purged"}
RowState  == {"absent", "inserted", "void"} \cup Committed

Row   == [order : Orders \cup {NoOrder}, seq : Nat, st : RowState, attempts : Nat]
NoRow == [order |-> NoOrder, seq |-> 0, st |-> "absent", attempts |-> 0]

Tx   == [loaded : SUBSET Orders, read : [Orders -> Nat], cur : [Orders -> Nat],
         ids : SUBSET Ids]
NoTx == [loaded |-> {}, read |-> [o \in Orders |-> 0], cur |-> [o \in Orders |-> 0],
         ids |-> {}]

WriterTypeOK ==
  /\ version \in [Orders -> Nat]
  /\ tx \in [Writers -> Tx]
  /\ rows \in [Ids -> Row]
  /\ nextId \in 1 .. MaxRows + 1

WriterInit ==
  /\ version = [o \in Orders |-> 0]
  /\ tx = [w \in Writers |-> NoTx]
  /\ rows = [i \in Ids |-> NoRow]
  /\ nextId = 1

(***************************************************************************)
(* OrderService.get (and the construction of a new order in create): the   *)
(* order enters the persistence context with the version it has now.  A    *)
(* fresh UUID is known to the creating thread alone.                       *)
(***************************************************************************)
Load(w, o) ==
  /\ o \notin tx[w].loaded
  /\ version[o] = 0 => \A v \in Writers : o \notin tx[v].loaded
  /\ tx' = [tx EXCEPT ![w] = [loaded |-> @.loaded \cup {o},
                              read   |-> [@.read EXCEPT ![o] = version[o]],
                              cur    |-> [@.cur EXCEPT ![o] = version[o]],
                              ids    |-> @.ids]]
  /\ UNCHANGED <<version, rows, nextId>>

(***************************************************************************)
(* One lifecycle step of a loaded order: orders.save(order), then          *)
(* publish(...), which inserts the row; the identity value is drawn now.   *)
(***************************************************************************)
Publish(w, o) ==
  /\ o \in tx[w].loaded
  /\ nextId \in Ids
  /\ rows' = [rows EXCEPT ![nextId] = [order |-> o, seq |-> tx[w].cur[o] + 1,
                                       st |-> "inserted", attempts |-> 0]]
  /\ tx' = [tx EXCEPT ![w] = [loaded |-> @.loaded,
                              read   |-> @.read,
                              cur    |-> [@.cur EXCEPT ![o] = tx[w].cur[o] + 1],
                              ids    |-> @.ids \cup {nextId}]]
  /\ nextId' = nextId + 1
  /\ UNCHANGED version

Changed(w) == {o \in tx[w].loaded : tx[w].cur[o] # tx[w].read[o]}

\* Mutant: no @Version on the order.
BugNoVersionCheck(w) == TRUE

\* The @Version check of every order this transaction has changed.
VersionsCurrent(w) == \A o \in Changed(w) : version[o] = tx[w].read[o]

(***************************************************************************)
(* Commit: the UPDATE of each changed order finds the version it read, and *)
(* order and rows become visible together.                                 *)
(***************************************************************************)
CommitTx(w) ==
  /\ tx[w].loaded # {}
  /\ VersionsCurrent(w)
  /\ version' = [o \in Orders |-> IF o \in Changed(w) THEN tx[w].cur[o] ELSE version[o]]
  /\ rows' = [i \in Ids |-> IF i \in tx[w].ids THEN [rows[i] EXCEPT !.st = "pending"]
                                               ELSE rows[i]]
  /\ tx' = [tx EXCEPT ![w] = NoTx]
  /\ UNCHANGED nextId

\* Mutant: the rows were inserted in a transaction of their own.
BugRowsSurviveRollback(w) ==
  /\ tx[w].loaded # {}
  /\ rows' = [i \in Ids |-> IF i \in tx[w].ids THEN [rows[i] EXCEPT !.st = "pending"]
                                               ELSE rows[i]]
  /\ tx' = [tx EXCEPT ![w] = NoTx]
  /\ UNCHANGED <<version, nextId>>

(***************************************************************************)
(* Any exception, a failed version check or a crash of the thread's        *)
(* process: nothing of the transaction remains, its identity values do.    *)
(***************************************************************************)
RollbackTx(w) ==
  /\ tx[w].loaded # {}
  /\ rows' = [i \in Ids |-> IF i \in tx[w].ids THEN [rows[i] EXCEPT !.st = "void"]
                                               ELSE rows[i]]
  /\ tx' = [tx EXCEPT ![w] = NoTx]
  /\ UNCHANGED <<version, nextId>>

WriterNext ==
  \E w \in Writers :
    \/ \E o \in Orders : Load(w, o) \/ Publish(w, o)
    \/ CommitTx(w)
    \/ RollbackTx(w)

WriterSpec == WriterInit /\ [][WriterNext]_writerVars

-----------------------------------------------------------------------------
CommittedRows(o) == {i \in Ids : rows[i].order = o /\ rows[i].st \in Committed}

(***************************************************************************)
(* The outbox holds exactly the committed history of every order: a row of *)
(* step n exists iff step n of the order was committed, and only once.     *)
(* (OutboxOrderEventPublisher: "the outbox row is atomic with the order    *)
(* write".)                                                                *)
(***************************************************************************)
OutboxMatchesOrders ==
  \A o \in Orders :
    /\ {rows[i].seq : i \in CommittedRows(o)} = 1 .. version[o]
    /\ \A i, j \in CommittedRows(o) : rows[i].seq = rows[j].seq => i = j

(***************************************************************************)
(* Reading the outbox in id order, as the relay does, meets the steps of   *)
(* one order in lifecycle order, although ids are drawn before the commit  *)
(* and transactions interleave.                                            *)
(***************************************************************************)
IdsFollowLifecycle ==
  \A o \in Orders : \A i, j \in CommittedRows(o) :
    i < j => rows[i].seq < rows[j].seq
=============================================================================
