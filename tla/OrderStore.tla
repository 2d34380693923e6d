----------------------------- MODULE OrderStore -----------------------------
(***************************************************************************)
(* The database side of the OMS: the orders and positions tables, both     *)
(* with an @Version column, and the transactions OrderService runs on      *)
(* them.  A transaction works on copies of the rows it has loaded (the     *)
(* persistence context); its commit succeeds only if every one of those    *)
(* rows still has the version it was loaded with, and then all of them     *)
(* become visible at once.  When a row is flushed and locked before the    *)
(* commit is not modelled: whoever of two writers goes first, the other    *)
(* one fails, and the model lets either go first.                          *)
(***************************************************************************)
EXTENDS Integers

CONSTANTS
  Orders,    \* order references
  Threads,   \* request and scheduler threads, of every replica
  Keys,      \* (portfolio, cusip): the key of a position
  KeyOf,     \* KeyOf[o]: the position order o books into
  Side,      \* Side[o]: "BUY" or "SELL"
  Qty        \* Qty[o]: quantity of order o

ASSUME StoreAssumption ==
  /\ KeyOf \in [Orders -> Keys]
  /\ Side \in [Orders -> {"BUY", "SELL"}]
  /\ Qty \in [Orders -> Nat \ {0}]

VARIABLES
  orders,    \* orders[o]: the committed row of order o
  pos,       \* pos[k]: the committed row of position k, version 0 if there is none
  ctx        \* ctx[t]: the persistence context of the transaction of thread t

storeVars == <<orders, pos, ctx>>

Working == {"ROUTED", "PARTIALLY_FILLED"}
Status  == {"none", "NEW", "STAGED", "FILLED", "CANCELLED", "REJECTED"} \cup Working

OrderRow == [status : Status, filled : Nat, version : Nat]
PosRow   == [net : Int, version : Nat]
NoOrderRow == [status |-> "none", filled |-> 0, version |-> 0]
NoPosRow   == [net |-> 0, version |-> 0]

Context == [open : BOOLEAN, doomed : BOOLEAN,
            loaded : SUBSET Orders, row : [Orders -> OrderRow],
            held : SUBSET Keys, prow : [Keys -> PosRow]]
Closed == [open |-> FALSE, doomed |-> FALSE,
           loaded |-> {}, row |-> [o \in Orders |-> NoOrderRow],
           held |-> {}, prow |-> [k \in Keys |-> NoPosRow]]

StoreTypeOK ==
  /\ orders \in [Orders -> OrderRow]
  /\ pos \in [Keys -> PosRow]
  /\ ctx \in [Threads -> Context]

StoreInit ==
  /\ orders = [o \in Orders |-> NoOrderRow]
  /\ pos = [k \in Keys |-> NoPosRow]
  /\ ctx = [t \in Threads |-> Closed]

-----------------------------------------------------------------------------
\* OrderStatus.allowedTransitions.
Allowed(s) ==
  CASE s = "NEW" -> {"STAGED", "CANCELLED", "REJECTED"}
    [] s = "STAGED" -> {"ROUTED", "CANCELLED"}
    [] s = "ROUTED" -> {"PARTIALLY_FILLED", "FILLED", "CANCELLED"}
    [] s = "PARTIALLY_FILLED" -> {"FILLED", "CANCELLED"}
    [] OTHER -> {}

\* A row as thread t sees it: its own copy, or else the committed row.
OrderSeen(t, o) == IF o \in ctx[t].loaded THEN ctx[t].row[o] ELSE orders[o]
PosSeen(t, k)   == IF k \in ctx[t].held THEN ctx[t].prow[k] ELSE pos[k]

\* An order reference is a fresh UUID: nobody else knows it before the commit.
Fresh(o) == orders[o].status = "none" /\ \A t \in Threads : o \notin ctx[t].loaded

Signed(o, q) == IF Side[o] = "BUY" THEN q ELSE -q

\* create(): compliance and the risk guard accept the order or reject it.
Create(o) ==
  /\ Fresh(o)
  /\ \E s \in {"NEW", "REJECTED"} :
       orders' = [orders EXCEPT ![o] = [status |-> s, filled |-> 0, version |-> 1]]
  /\ UNCHANGED <<pos, ctx>>

(***************************************************************************)
(* stage, route and cancel load the order and transitionTo(target); an     *)
(* illegal transition throws before anything is written.                   *)
(***************************************************************************)
Transition(t, o, target) ==
  /\ ~ctx[t].open
  /\ target \in Allowed(orders[o].status)
  /\ ctx' = [ctx EXCEPT ![t] =
       [open |-> TRUE, doomed |-> FALSE, loaded |-> {o},
        row |-> [Closed.row EXCEPT ![o] = [status |-> target,
                                           filled |-> orders[o].filled,
                                           version |-> orders[o].version]],
        held |-> {}, prow |-> Closed.prow]]
  /\ UNCHANGED <<orders, pos>>

\* executeRfqFill: a new order, filled in full at the dealer's price.
OpenRfq(t, o) ==
  /\ ~ctx[t].open
  /\ Fresh(o)
  /\ LET k == KeyOf[o] IN
     ctx' = [ctx EXCEPT ![t] =
       [open |-> TRUE, doomed |-> FALSE, loaded |-> {o},
        row |-> [Closed.row EXCEPT ![o] = [status |-> "FILLED", filled |-> Qty[o],
                                           version |-> 0]],
        held |-> {k},
        prow |-> [Closed.prow EXCEPT ![k] = [net |-> pos[k].net + Signed(o, Qty[o]),
                                             version |-> pos[k].version]]]]
  /\ UNCHANGED <<orders, pos>>

\* The part of a fill of q that recordFill applies.
Applied(t, o, q) ==
  LET remaining == Qty[o] - OrderSeen(t, o).filled
  IN  IF q <= remaining THEN q ELSE remaining

\* Mutant: the comparison of isFullyFilled is strict.
BugFillTarget(t, o, q) ==
  IF OrderSeen(t, o).filled + Applied(t, o, q) > Qty[o] THEN "FILLED"
                                                        ELSE "PARTIALLY_FILLED"

FillTarget(t, o, q) ==
  IF OrderSeen(t, o).filled + Applied(t, o, q) >= Qty[o] THEN "FILLED"
                                                         ELSE "PARTIALLY_FILLED"

\* Neither of recordFill's two state checks throws.
Recordable(t, o, q) ==
  /\ OrderSeen(t, o).status \in Working
  /\ FillTarget(t, o, q) \in Allowed(OrderSeen(t, o).status)

(***************************************************************************)
(* recordFill(o, q), in the transaction t has open or else in one of its   *)
(* own: the order takes the fill and positions.applyFill moves the net     *)
(* quantity of its position.                                               *)
(***************************************************************************)
RecordFill(t, o, q) ==
  /\ Recordable(t, o, q)
  /\ LET k == KeyOf[o]
         a == Applied(t, o, q)
     IN
     ctx' = [ctx EXCEPT ![t] =
       [open |-> TRUE, doomed |-> ctx[t].doomed, loaded |-> ctx[t].loaded \cup {o},
        row |-> [ctx[t].row EXCEPT ![o] = [status |-> FillTarget(t, o, q),
                                           filled |-> OrderSeen(t, o).filled + a,
                                           version |-> OrderSeen(t, o).version]],
        held |-> ctx[t].held \cup {k},
        prow |-> [ctx[t].prow EXCEPT ![k] = [net |-> PosSeen(t, k).net + Signed(o, a),
                                             version |-> PosSeen(t, k).version]]]]
  /\ UNCHANGED <<orders, pos>>

\* A fill that throws inside an open transaction marks it rollback-only.
DoomTx(t) ==
  /\ ctx[t].open
  /\ ctx' = [ctx EXCEPT ![t].doomed = TRUE]
  /\ UNCHANGED <<orders, pos>>

\* Mutants: no @Version on the order, none on the position.
BugOrdersCurrent(t)    == TRUE
BugPositionsCurrent(t) == TRUE

\* The version checks of a commit.
OrdersCurrent(t)    == \A o \in ctx[t].loaded : orders[o].version = ctx[t].row[o].version
PositionsCurrent(t) == \A k \in ctx[t].held : pos[k].version = ctx[t].prow[k].version

CommitTx(t) ==
  /\ ctx[t].open /\ ~ctx[t].doomed
  /\ OrdersCurrent(t) /\ PositionsCurrent(t)
  /\ orders' = [o \in Orders |->
       IF o \in ctx[t].loaded THEN [ctx[t].row[o] EXCEPT !.version = ctx[t].row[o].version + 1]
                              ELSE orders[o]]
  /\ pos' = [k \in Keys |->
       IF k \in ctx[t].held THEN [ctx[t].prow[k] EXCEPT !.version = ctx[t].prow[k].version + 1]
                            ELSE pos[k]]
  /\ ctx' = [ctx EXCEPT ![t] = Closed]

\* Any failure, a stale version, rollback-only or a crash: nothing is written.
RollbackTx(t) ==
  /\ ctx[t].open
  /\ ctx' = [ctx EXCEPT ![t] = Closed]
  /\ UNCHANGED <<orders, pos>>

\* The processes of the threads in S die: the database rolls them all back.
CrashTx(S) ==
  /\ ctx' = [t \in Threads |-> IF t \in S THEN Closed ELSE ctx[t]]
  /\ UNCHANGED <<orders, pos>>

StoreNext ==
  \/ \E o \in Orders : Create(o)
  \/ \E t \in Threads :
       \/ \E o \in Orders, target \in {"STAGED", "ROUTED", "CANCELLED"} :
            Transition(t, o, target)
       \/ \E o \in Orders : OpenRfq(t, o) \/ \E q \in 1 .. Qty[o] : RecordFill(t, o, q)
       \/ DoomTx(t) \/ CommitTx(t) \/ RollbackTx(t)
  \/ \E S \in SUBSET Threads : CrashTx(S)

StoreSpec == StoreInit /\ [][StoreNext]_storeVars

-----------------------------------------------------------------------------
(***************************************************************************)
(* What the order row says adds up: nothing is filled beyond the quantity, *)
(* FILLED means all of it, PARTIALLY_FILLED some but not all, the states   *)
(* before execution nothing, and a cancelled order was not complete.       *)
(***************************************************************************)
FillsMatchStatus ==
  \A o \in Orders : LET r == orders[o] IN
    /\ r.filled <= Qty[o]
    /\ r.status = "FILLED" <=> r.filled = Qty[o]
    /\ r.status = "PARTIALLY_FILLED" => r.filled > 0
    /\ r.status \in {"none", "NEW", "STAGED", "ROUTED", "REJECTED"} => r.filled = 0

Life(o) == INSTANCE OrderLifecycle WITH
             Quantity <- Qty[o], status <- orders[o].status, filled <- orders[o].filled

(***************************************************************************)
(* Every order follows OrderLifecycle: concurrent transactions, stale      *)
(* copies and several fills in one transaction never move it off the       *)
(* documented workflow, undo a fill or reopen a terminal order.            *)
(***************************************************************************)
FollowsLifecycle ==
  /\ \A o \in Orders : Life(o)!LifecycleInit
  /\ [][\A o \in Orders :
         [Life(o)!LifecycleNext]_<<orders[o].status, orders[o].filled>>]_orders
=============================================================================
