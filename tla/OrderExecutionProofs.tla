------------------------ MODULE OrderExecutionProofs ------------------------
(***************************************************************************)
(* Proofs about the OMS: the tables by themselves (OrderStore) first, then *)
(* the running system (OrderExecution), for any constants their            *)
(* assumptions allow.                                                      *)
(*                                                                         *)
(* - What an order row says adds up (FillsMatchStatus), and every order    *)
(*   follows OrderLifecycle (FollowsLifecycle).  Neither is inductive: a   *)
(*   commit writes rows that were computed long before.  The strengthening *)
(*   says of every copy in a persistence context that it adds up, that it  *)
(*   is not newer than the committed row, and that IF the committed row    *)
(*   still has the version the copy was loaded with, THEN the copy is one  *)
(*   legal step away from it.  The version check of the commit is exactly  *)
(*   that IF.                                                              *)
(* - Whatever the engines, the publishers, the retries and the restarts    *)
(*   do, they reach the tables by the transactions of OrderStore only, so  *)
(*   what is proved of OrderStore holds of the OMS (OmsUsesStore).         *)
(* - Positions are the sums of the fills of their orders (PositionsAddUp). *)
(*   The strengthening is about open transactions: as long as everything   *)
(*   one has loaded is current, what it sees adds up.                      *)
(* - No order has more fills than were traded (FilledWithinTraded).  The   *)
(*   strengthening counts, per thread, what may still be added: the fills  *)
(*   it has to publish, and those of its open transaction while its copy   *)
(*   of the order is current.                                              *)
(***************************************************************************)
EXTENDS OrderExecution, TLAPS, SequenceTheorems, FoldTheorems

\* One row of order o adds up.
RowOK(o, r) ==
  /\ r.filled <= Qty[o]
  /\ r.status = "FILLED" <=> r.filled = Qty[o]
  /\ r.status = "PARTIALLY_FILLED" => r.filled > 0
  /\ r.status \in {"none", "NEW", "STAGED", "ROUTED", "REJECTED"} => r.filled = 0

\* Row s is one step of OrderLifecycle away from row r.
LegalStep(o, r, s) ==
  \/ r.status = "none" /\ s.status = "FILLED" /\ s.filled = Qty[o]
  \/ r.status = "NEW" /\ s.status = "STAGED" /\ s.filled = r.filled
  \/ r.status = "STAGED" /\ s.status = "ROUTED" /\ s.filled = r.filled
  \/ /\ r.status \in {"NEW", "STAGED", "ROUTED", "PARTIALLY_FILLED"}
     /\ s.status = "CANCELLED" /\ s.filled = r.filled
  \/ /\ r.status \in {"STAGED", "ROUTED", "PARTIALLY_FILLED"}
     /\ r.filled < s.filled /\ s.filled <= Qty[o]
     /\ \/ s.filled = Qty[o] /\ s.status = "FILLED"
        \/ s.filled < Qty[o] /\ r.status # "PARTIALLY_FILLED" /\ s.status = "PARTIALLY_FILLED"

\* A copy of the row of order o agrees with the committed row.
CopyOK(o, s) ==
  /\ RowOK(o, s)
  /\ s.version <= orders[o].version
  /\ s.version = orders[o].version => LegalStep(o, orders[o], s)

CopiesOK == \A t \in Threads : \A o \in ctx[t].loaded : CopyOK(o, ctx[t].row[o])

StoreInv == StoreTypeOK /\ FillsMatchStatus /\ CopiesOK

LEMMA FillsMatchStatusRows == FillsMatchStatus <=> \A o \in Orders : RowOK(o, orders[o])
  BY DEF FillsMatchStatus, RowOK

LEMMA ClosedType == Closed \in Context
  BY DEF Closed, Context, NoOrderRow, NoPosRow, OrderRow, PosRow, Status, Working

LEMMA StoreInvInit == StoreInit => StoreInv
<1> SUFFICES ASSUME StoreInit PROVE StoreInv  OBVIOUS
<1>1. StoreTypeOK
  BY ClosedType DEF StoreInit, StoreTypeOK, NoOrderRow, NoPosRow, OrderRow, PosRow, Status, Working
<1>2. FillsMatchStatus
  <2> SUFFICES ASSUME NEW o \in Orders PROVE RowOK(o, orders[o])
    BY FillsMatchStatusRows
  <2>1. orders[o] = NoOrderRow /\ Qty[o] \in Nat \ {0}
    BY StoreAssumption DEF StoreInit
  <2> QED  BY <2>1 DEF RowOK, NoOrderRow
<1>3. CopiesOK
  BY DEF StoreInit, CopiesOK, Closed
<1> QED  BY <1>1, <1>2, <1>3 DEF StoreInv

\* A step that writes no row keeps the copies it does not touch.
LEMMA CreateInv ==
  ASSUME StoreInv, NEW o \in Orders, Create(o) PROVE StoreInv'
<1>1. PICK s \in {"NEW", "REJECTED"} :
        orders' = [orders EXCEPT ![o] = [status |-> s, filled |-> 0, version |-> 1]]
  BY DEF Create
<1>2. pos' = pos /\ ctx' = ctx /\ \A t \in Threads : o \notin ctx[t].loaded
  BY DEF Create, Fresh
<1>3. [status |-> s, filled |-> 0, version |-> 1] \in OrderRow
  BY DEF OrderRow, Status
<1>4. StoreTypeOK'
  BY <1>1, <1>2, <1>3 DEF StoreInv, StoreTypeOK
<1>5. ASSUME NEW p \in Orders PROVE RowOK(p, orders'[p])
  <2>1. orders'[p] = IF p = o THEN [status |-> s, filled |-> 0, version |-> 1] ELSE orders[p]
    BY <1>1 DEF StoreInv, StoreTypeOK
  <2>2. RowOK(p, orders[p])
    BY FillsMatchStatusRows DEF StoreInv
  <2>3. RowOK(p, [status |-> s, filled |-> 0, version |-> 1])
    BY StoreAssumption DEF RowOK
  <2> QED  BY <2>1, <2>2, <2>3
<1>6. FillsMatchStatus'
  BY <1>5 DEF FillsMatchStatus, RowOK
<1>7. CopiesOK'
  <2> SUFFICES ASSUME NEW t \in Threads, NEW p \in ctx'[t].loaded PROVE CopyOK(p, ctx[t].row[p])'
    BY DEF CopiesOK
  <2>1. p # o /\ p \in ctx[t].loaded /\ p \in Orders
    BY <1>2 DEF StoreInv, StoreTypeOK, Context
  <2>2. orders'[p] = orders[p]
    BY <1>1, <2>1 DEF StoreInv, StoreTypeOK
  <2> QED  BY <1>2, <2>1, <2>2 DEF StoreInv, CopiesOK, CopyOK, RowOK, LegalStep
<1> QED  BY <1>4, <1>6, <1>7 DEF StoreInv

(***************************************************************************)
(* A thread that replaces its context by one whose copies agree with the   *)
(* committed rows keeps the invariant.                                     *)
(***************************************************************************)
LEMMA NewContextInv ==
  ASSUME StoreInv, NEW t \in Threads, NEW c \in Context,
         ctx' = [ctx EXCEPT ![t] = c], orders' = orders, pos' = pos,
         \A o \in c.loaded : CopyOK(o, c.row[o])
  PROVE  StoreInv'
<1>1. StoreTypeOK'
  BY DEF StoreInv, StoreTypeOK
<1>2. FillsMatchStatus'
  BY DEF StoreInv, FillsMatchStatus
<1>3. CopiesOK'
  <2> SUFFICES ASSUME NEW u \in Threads, NEW p \in ctx'[u].loaded PROVE CopyOK(p, ctx[u].row[p])'
    BY DEF CopiesOK
  <2>1. ctx'[u] = IF u = t THEN c ELSE ctx[u]
    BY DEF StoreInv, StoreTypeOK
  <2>2. CopyOK(p, ctx'[u].row[p])
    BY <2>1 DEF StoreInv, CopiesOK
  <2> QED  BY <2>2 DEF CopyOK, RowOK, LegalStep
<1> QED  BY <1>1, <1>2, <1>3 DEF StoreInv

LEMMA TransitionInv ==
  ASSUME StoreInv, NEW t \in Threads, NEW o \in Orders,
         NEW target \in {"STAGED", "ROUTED", "CANCELLED"}, Transition(t, o, target)
  PROVE  StoreInv'
<1> DEFINE r == [status |-> target, filled |-> orders[o].filled, version |-> orders[o].version]
           c == [open |-> TRUE, doomed |-> FALSE, loaded |-> {o},
                 row |-> [Closed.row EXCEPT ![o] = r], held |-> {}, prow |-> Closed.prow]
<1>1. orders[o] \in OrderRow /\ RowOK(o, orders[o])
  BY FillsMatchStatusRows DEF StoreInv, StoreTypeOK
<1>2. r \in OrderRow /\ r.status = target /\ r.filled = orders[o].filled
                     /\ r.version = orders[o].version
  BY <1>1 DEF OrderRow, Status, Working
<1>3. c \in Context /\ c.loaded = {o} /\ c.row[o] = r
  BY <1>2, ClosedType DEF Context, Closed
<1>4. ctx' = [ctx EXCEPT ![t] = c] /\ orders' = orders /\ pos' = pos
  BY DEF Transition
<1>5. LegalStep(o, orders[o], r)
  BY <1>2 DEF Transition, Allowed, LegalStep
<1>6. RowOK(o, r)
  BY <1>1, <1>2, StoreAssumption DEF Transition, Allowed, RowOK, OrderRow, Status, Working
<1>7. r.version <= orders[o].version
  BY <1>1, <1>2 DEF OrderRow
<1>8. CopyOK(o, r)
  BY <1>5, <1>6, <1>7 DEF CopyOK
<1> HIDE DEF r, c
<1> QED  BY <1>3, <1>4, <1>8, NewContextInv

LEMMA OpenRfqInv ==
  ASSUME StoreInv, NEW t \in Threads, NEW o \in Orders, OpenRfq(t, o)
  PROVE  StoreInv'
<1> DEFINE k == KeyOf[o]
           r == [status |-> "FILLED", filled |-> Qty[o], version |-> 0]
           p == [net |-> pos[k].net + Signed(o, Qty[o]), version |-> pos[k].version]
           c == [open |-> TRUE, doomed |-> FALSE, loaded |-> {o},
                 row |-> [Closed.row EXCEPT ![o] = r],
                 held |-> {k}, prow |-> [Closed.prow EXCEPT ![k] = p]]
<1>1. k \in Keys /\ Qty[o] \in Nat \ {0} /\ Signed(o, Qty[o]) \in Int
  BY StoreAssumption DEF Signed
<1>2. orders[o] \in OrderRow /\ orders[o].status = "none" /\ pos[k] \in PosRow
  BY <1>1 DEF OpenRfq, Fresh, StoreInv, StoreTypeOK
<1>3. r \in OrderRow /\ p \in PosRow
  BY <1>1, <1>2 DEF OrderRow, PosRow, Status
<1>4. c \in Context /\ c.loaded = {o} /\ c.row[o] = r
  BY <1>1, <1>3, ClosedType DEF Context, Closed
<1>5. ctx' = [ctx EXCEPT ![t] = c] /\ orders' = orders /\ pos' = pos
  BY DEF OpenRfq
<1>6. RowOK(o, r) /\ LegalStep(o, orders[o], r) /\ r.version <= orders[o].version
  BY <1>1, <1>2 DEF RowOK, LegalStep, OrderRow
<1>7. CopyOK(o, r)
  BY <1>6 DEF CopyOK
<1> HIDE DEF k, r, p, c
<1> QED  BY <1>4, <1>5, <1>7, NewContextInv

\* What a thread sees of an order adds up, and is a committed row or an agreeing copy.
LEMMA SeenOK ==
  ASSUME StoreInv, NEW t \in Threads, NEW o \in Orders
  PROVE  LET s == OrderSeen(t, o) IN
         /\ s \in OrderRow /\ RowOK(o, s) /\ s.version <= orders[o].version
         /\ s.version = orders[o].version => s = orders[o] \/ LegalStep(o, orders[o], s)
<1>1. orders[o] \in OrderRow /\ RowOK(o, orders[o])
  BY FillsMatchStatusRows DEF StoreInv, StoreTypeOK
<1>2. ctx[t].row[o] \in OrderRow
  BY DEF StoreInv, StoreTypeOK, Context
<1>3. CASE o \in ctx[t].loaded
  <2>1. CopyOK(o, ctx[t].row[o])
    BY <1>3 DEF StoreInv, CopiesOK
  <2> QED  BY <1>2, <1>3, <2>1 DEF OrderSeen, CopyOK
<1>4. CASE o \notin ctx[t].loaded
  BY <1>1, <1>4 DEF OrderSeen, OrderRow
<1> QED  BY <1>3, <1>4

\* recordFill on row s: what is filled afterwards.
LEMMA FillOK ==
  ASSUME StoreInv, NEW t \in Threads, NEW o \in Orders, NEW q \in 1 .. Qty[o],
         Recordable(t, o, q)
  PROVE  LET s == OrderSeen(t, o)
             a == Applied(t, o, q)
             r == [status |-> FillTarget(t, o, q), filled |-> s.filled + a, version |-> s.version]
         IN  a \in Nat /\ r \in OrderRow /\ CopyOK(o, r)
<1> DEFINE s == OrderSeen(t, o)
           a == Applied(t, o, q)
           target == FillTarget(t, o, q)
           r == [status |-> target, filled |-> s.filled + a, version |-> s.version]
<1>1. /\ s \in OrderRow /\ RowOK(o, s) /\ s.version <= orders[o].version
      /\ s.version = orders[o].version => s = orders[o] \/ LegalStep(o, orders[o], s)
  BY SeenOK
<1>2. orders[o] \in OrderRow /\ RowOK(o, orders[o]) /\ Qty[o] \in Nat \ {0}
  BY StoreAssumption, FillsMatchStatusRows DEF StoreInv, StoreTypeOK
<1>3. s.status \in Working /\ s.filled \in Nat /\ s.filled < Qty[o]
  BY <1>1, <1>2 DEF Recordable, RowOK, OrderRow, Working
<1>4. a \in Nat /\ a > 0 /\ s.filled + a <= Qty[o]
  BY <1>2, <1>3 DEF Applied
<1>5. target = IF s.filled + a = Qty[o] THEN "FILLED" ELSE "PARTIALLY_FILLED"
  BY <1>2, <1>3, <1>4 DEF FillTarget
<1>6. s.status = "PARTIALLY_FILLED" => target = "FILLED"
  BY <1>5 DEF Recordable, Allowed
<1>7. r \in OrderRow /\ r.status = target /\ r.filled = s.filled + a /\ r.version = s.version
  BY <1>1, <1>3, <1>4, <1>5 DEF OrderRow, Status, Working
<1> HIDE DEF r, a, target, s
<1>8. RowOK(o, r)
  BY <1>2, <1>3, <1>4, <1>5, <1>7 DEF RowOK
<1>9. ASSUME s.version = orders[o].version PROVE LegalStep(o, orders[o], r)
  <2>1. CASE s = orders[o]
    BY <1>2, <1>3, <1>4, <1>5, <1>6, <1>7, <2>1 DEF LegalStep, Working
  <2>2. CASE LegalStep(o, orders[o], s)
    <3>1. orders[o].filled \in Nat /\ orders[o].filled <= s.filled
      BY <1>2, <1>3, <2>2 DEF LegalStep, OrderRow
    <3>2. orders[o].status \in {"STAGED", "ROUTED"}
      BY <1>3, <2>2 DEF LegalStep, Working
    <3> QED  BY <1>2, <1>3, <1>4, <1>5, <1>7, <3>1, <3>2 DEF LegalStep
  <2> QED  BY <1>1, <1>9, <2>1, <2>2
<1>10. CopyOK(o, r)
  BY <1>1, <1>7, <1>8, <1>9 DEF CopyOK
<1> QED  BY <1>4, <1>7, <1>10 DEF r, a, target, s

LEMMA RecordFillInv ==
  ASSUME StoreInv, NEW t \in Threads, NEW o \in Orders, NEW q \in 1 .. Qty[o],
         RecordFill(t, o, q)
  PROVE  StoreInv'
<1> DEFINE k == KeyOf[o]
           a == Applied(t, o, q)
           r == [status |-> FillTarget(t, o, q), filled |-> OrderSeen(t, o).filled + a,
                 version |-> OrderSeen(t, o).version]
           p == [net |-> PosSeen(t, k).net + Signed(o, a), version |-> PosSeen(t, k).version]
           c == [open |-> TRUE, doomed |-> ctx[t].doomed, loaded |-> ctx[t].loaded \cup {o},
                 row |-> [ctx[t].row EXCEPT ![o] = r],
                 held |-> ctx[t].held \cup {k}, prow |-> [ctx[t].prow EXCEPT ![k] = p]]
<1>1. a \in Nat /\ r \in OrderRow /\ CopyOK(o, r)
  BY FillOK DEF RecordFill
<1>2. ctx[t] \in Context /\ pos \in [Keys -> PosRow] /\ k \in Keys
  BY StoreAssumption DEF StoreInv, StoreTypeOK
<1>3. Signed(o, a) \in Int
  BY <1>1 DEF Signed
<1>4. PosSeen(t, k) \in PosRow
  BY <1>2 DEF PosSeen, Context
<1>5. ctx' = [ctx EXCEPT ![t] = c] /\ orders' = orders /\ pos' = pos
  BY DEF RecordFill
<1> HIDE DEF r, a, k
<1>6. p \in PosRow
  BY <1>3, <1>4 DEF PosRow
<1> HIDE DEF p
<1>7. c \in Context
  BY <1>1, <1>2, <1>6 DEF Context
<1>8. ASSUME NEW x \in c.loaded PROVE CopyOK(x, c.row[x])
  <2>1. CASE x = o
    BY <1>1, <1>2, <2>1 DEF Context
  <2>2. CASE x # o
    <3>1. x \in ctx[t].loaded /\ x \in Orders
      BY <1>2, <1>8, <2>2 DEF Context
    <3>2. c.row[x] = ctx[t].row[x]
      BY <1>2, <2>2, <3>1 DEF Context
    <3> QED  BY <3>1, <3>2 DEF StoreInv, CopiesOK
  <2> QED  BY <2>1, <2>2
<1> HIDE DEF c
<1> QED  BY <1>5, <1>7, <1>8, NewContextInv

LEMMA DoomInv ==
  ASSUME StoreInv, NEW t \in Threads, DoomTx(t) PROVE StoreInv'
<1> DEFINE c == [ctx[t] EXCEPT !.doomed = TRUE]
<1>1. ctx[t] \in Context
  BY DEF StoreInv, StoreTypeOK
<1>2. c \in Context /\ c.loaded = ctx[t].loaded /\ c.row = ctx[t].row
  BY <1>1 DEF Context
<1>3. ctx' = [ctx EXCEPT ![t] = c] /\ orders' = orders /\ pos' = pos
  BY DEF DoomTx
<1>4. \A o \in c.loaded : CopyOK(o, c.row[o])
  BY <1>2 DEF StoreInv, CopiesOK
<1> HIDE DEF c
<1> QED  BY <1>2, <1>3, <1>4, NewContextInv

LEMMA RollbackInv ==
  ASSUME StoreInv, NEW t \in Threads, RollbackTx(t) PROVE StoreInv'
<1>1. Closed.loaded = {} /\ Closed \in Context
  BY ClosedType DEF Closed
<1> QED  BY <1>1, NewContextInv DEF RollbackTx

LEMMA CrashInv ==
  ASSUME StoreInv, NEW S \in SUBSET Threads, CrashTx(S) PROVE StoreInv'
<1>1. \A t \in Threads : ctx'[t] = IF t \in S THEN Closed ELSE ctx[t]
  BY DEF CrashTx
<1>2. orders' = orders /\ pos' = pos
  BY DEF CrashTx
<1>3. StoreTypeOK'
  BY <1>2, ClosedType DEF CrashTx, StoreInv, StoreTypeOK
<1>4. FillsMatchStatus'
  BY <1>2 DEF StoreInv, FillsMatchStatus
<1>5. CopiesOK'
  <2> SUFFICES ASSUME NEW u \in Threads, NEW p \in ctx'[u].loaded PROVE CopyOK(p, ctx[u].row[p])'
    BY DEF CopiesOK
  <2>1. u \notin S /\ ctx'[u] = ctx[u]
    BY <1>1 DEF Closed
  <2>2. CopyOK(p, ctx'[u].row[p])
    BY <2>1 DEF StoreInv, CopiesOK
  <2> QED  BY <1>2, <2>2 DEF CopyOK, RowOK, LegalStep
<1> QED  BY <1>3, <1>4, <1>5 DEF StoreInv

(***************************************************************************)
(* What a commit does to one order: it writes a copy whose version was     *)
(* still the committed one, hence a legal step, and raises the version, so *)
(* that every other copy of the row becomes stale.                         *)
(***************************************************************************)
LEMMA CommitRow ==
  ASSUME StoreInv, NEW t \in Threads, CommitTx(t), NEW o \in Orders
  PROVE  /\ orders'[o] \in OrderRow /\ RowOK(o, orders'[o])
         /\ \/ orders'[o] = orders[o] /\ o \notin ctx[t].loaded
            \/ /\ LegalStep(o, orders[o], orders'[o])
               /\ orders'[o].version = orders[o].version + 1
<1>1. orders[o] \in OrderRow /\ RowOK(o, orders[o]) /\ ctx[t] \in Context
  BY FillsMatchStatusRows DEF StoreInv, StoreTypeOK
<1>2. CASE o \notin ctx[t].loaded
  BY <1>1, <1>2 DEF CommitTx
<1>3. CASE o \in ctx[t].loaded
  <2> DEFINE s == ctx[t].row[o]
  <2>1. s \in OrderRow /\ CopyOK(o, s) /\ s.version = orders[o].version
    BY <1>1, <1>3 DEF StoreInv, CopiesOK, CommitTx, OrdersCurrent, Context
  <2>2. orders'[o] = [s EXCEPT !.version = s.version + 1]
    BY <1>3 DEF CommitTx
  <2> HIDE DEF s
  <2>3. /\ orders'[o] \in OrderRow /\ orders'[o].status = s.status
        /\ orders'[o].filled = s.filled /\ orders'[o].version = s.version + 1
    BY <2>1, <2>2 DEF OrderRow
  <2> QED  BY <2>1, <2>3 DEF CopyOK, RowOK, LegalStep
<1> QED  BY <1>2, <1>3

LEMMA CommitInv ==
  ASSUME StoreInv, NEW t \in Threads, CommitTx(t) PROVE StoreInv'
<1>1. \A o \in Orders :
        /\ orders'[o] \in OrderRow /\ RowOK(o, orders'[o])
        /\ \/ orders'[o] = orders[o] /\ o \notin ctx[t].loaded
           \/ /\ LegalStep(o, orders[o], orders'[o])
              /\ orders'[o].version = orders[o].version + 1
  BY CommitRow
<1>2. StoreTypeOK'
  <2>1. orders' \in [Orders -> OrderRow]
    BY <1>1 DEF CommitTx
  <2>2. ctx' \in [Threads -> Context]
    BY ClosedType DEF CommitTx, StoreInv, StoreTypeOK
  <2>3. ASSUME NEW k \in Keys PROVE pos'[k] \in PosRow
    <3>1. pos[k] \in PosRow /\ ctx[t].prow[k] \in PosRow
      BY DEF StoreInv, StoreTypeOK, Context
    <3>2. [ctx[t].prow[k] EXCEPT !.version = ctx[t].prow[k].version + 1] \in PosRow
      BY <3>1 DEF PosRow
    <3> QED  BY <3>1, <3>2 DEF CommitTx
  <2>4. pos' \in [Keys -> PosRow]
    BY <2>3 DEF CommitTx
  <2> QED  BY <2>1, <2>2, <2>4 DEF StoreTypeOK
<1>3. FillsMatchStatus'
  BY <1>1 DEF FillsMatchStatus, RowOK
<1>4. CopiesOK'
  <2> SUFFICES ASSUME NEW u \in Threads, NEW p \in ctx'[u].loaded PROVE CopyOK(p, ctx[u].row[p])'
    BY DEF CopiesOK
  <2>1. ctx' = [ctx EXCEPT ![t] = Closed]
    BY DEF CommitTx
  <2>2. u # t /\ ctx'[u] = ctx[u]
    BY <2>1 DEF Closed, StoreInv, StoreTypeOK
  <2>3. ctx[u] \in Context /\ p \in ctx[u].loaded /\ p \in Orders
    BY <2>2 DEF StoreInv, StoreTypeOK, Context
  <2>4. CopyOK(p, ctx[u].row[p]) /\ ctx[u].row[p] \in OrderRow /\ orders[p] \in OrderRow
    BY <2>3 DEF StoreInv, StoreTypeOK, CopiesOK, Context
  <2>5. CASE orders'[p] = orders[p]
    BY <2>2, <2>4, <2>5 DEF CopyOK, RowOK, LegalStep
  <2>6. CASE orders'[p].version = orders[p].version + 1
    <3>1. ctx[u].row[p].version < orders'[p].version
      BY <2>4, <2>6 DEF CopyOK, OrderRow
    <3>2. ctx[u].row[p].version <= orders'[p].version /\ ctx[u].row[p].version # orders'[p].version
      BY <2>4, <2>6, <3>1 DEF OrderRow
    <3> QED  BY <2>2, <2>4, <3>2 DEF CopyOK, RowOK
  <2> QED  BY <1>1, <2>3, <2>5, <2>6
<1> QED  BY <1>2, <1>3, <1>4 DEF StoreInv

LEMMA StoreInvNext == StoreInv /\ [StoreNext]_storeVars => StoreInv'
<1> SUFFICES ASSUME StoreInv, [StoreNext]_storeVars PROVE StoreInv'
  OBVIOUS
<1>1. CASE UNCHANGED storeVars
  <2>1. orders' = orders /\ pos' = pos /\ ctx' = ctx
    BY <1>1 DEF storeVars
  <2> QED  BY <2>1 DEF StoreInv, StoreTypeOK, FillsMatchStatus, CopiesOK, CopyOK, RowOK, LegalStep
<1>2. CASE \E o \in Orders : Create(o)
  BY <1>2, CreateInv
<1>3. CASE \E t \in Threads : \E o \in Orders, target \in {"STAGED", "ROUTED", "CANCELLED"} :
             Transition(t, o, target)
  BY <1>3, TransitionInv
<1>4. CASE \E t \in Threads : \E o \in Orders : OpenRfq(t, o)
  BY <1>4, OpenRfqInv
<1>5. CASE \E t \in Threads : \E o \in Orders : \E q \in 1 .. Qty[o] : RecordFill(t, o, q)
  BY <1>5, RecordFillInv
<1>6. CASE \E t \in Threads : DoomTx(t)
  BY <1>6, DoomInv
<1>7. CASE \E t \in Threads : CommitTx(t)
  BY <1>7, CommitInv
<1>8. CASE \E t \in Threads : RollbackTx(t)
  BY <1>8, RollbackInv
<1>9. CASE \E S \in SUBSET Threads : CrashTx(S)
  BY <1>9, CrashInv
<1> QED  BY <1>1, <1>2, <1>3, <1>4, <1>5, <1>6, <1>7, <1>8, <1>9 DEF StoreNext

LEMMA StoreInvariant == StoreSpec => []StoreInv
  BY StoreInvInit, StoreInvNext, PTL DEF StoreSpec

(***************************************************************************)
(* For any orders, threads and quantities, and any interleaving of their   *)
(* transactions, what a committed order row says adds up: it is never      *)
(* filled beyond its quantity, and its status tells how far it is filled.  *)
(***************************************************************************)
THEOREM FillsAlwaysMatchStatus == StoreSpec => []FillsMatchStatus
<1>1. StoreInv => FillsMatchStatus
  BY DEF StoreInv
<1> QED  BY <1>1, StoreInvariant, PTL

\* One step of the store is a lifecycle step, or nothing, for every order.
LEMMA StepFollowsLifecycle ==
  ASSUME StoreInv, [StoreNext]_storeVars, NEW o \in Orders
  PROVE  [Life(o)!LifecycleNext]_<<orders[o].status, orders[o].filled>>
<1>1. CASE orders' = orders
  BY <1>1
<1>2. CASE \E p \in Orders : Create(p)
  <2>1. PICK p \in Orders : Create(p)
    BY <1>2
  <2>2. PICK s \in {"NEW", "REJECTED"} :
          orders' = [orders EXCEPT ![p] = [status |-> s, filled |-> 0, version |-> 1]]
    BY <2>1 DEF Create
  <2>3. orders[p].status = "none" /\ RowOK(p, orders[p])
    BY <2>1, FillsMatchStatusRows DEF Create, Fresh, StoreInv
  <2>4. CASE o = p
    BY <2>2, <2>3, <2>4 DEF Life!LifecycleNext, Life!Enter, RowOK, StoreInv, StoreTypeOK
  <2>5. CASE o # p
    BY <2>2, <2>5 DEF StoreInv, StoreTypeOK
  <2> QED  BY <2>4, <2>5
<1>3. CASE \E t \in Threads : CommitTx(t)
  <2>1. \/ orders'[o] = orders[o]
        \/ LegalStep(o, orders[o], orders'[o])
    BY <1>3, CommitRow
  <2>2. LegalStep(o, orders[o], orders'[o]) => Life(o)!LifecycleNext
    BY DEF LegalStep, Life!LifecycleNext, Life!Enter, Life!Stage, Life!Route, Life!Cancel, Life!Fill
  <2> QED  BY <2>1, <2>2
<1> QED
  BY <1>1, <1>2, <1>3
  DEF StoreNext, storeVars, Transition, OpenRfq, RecordFill, DoomTx, RollbackTx, CrashTx

(***************************************************************************)
(* For any orders, threads and quantities every order follows the          *)
(* documented workflow: concurrent transactions on stale copies, several   *)
(* fills in one transaction, rollbacks and crashes never undo a fill,      *)
(* reopen a terminal order or skip a state.                                *)
(***************************************************************************)
THEOREM OrdersFollowLifecycle == StoreSpec => FollowsLifecycle
<1>1. StoreInit => \A o \in Orders : Life(o)!LifecycleInit
  <2> SUFFICES ASSUME StoreInit, NEW o \in Orders PROVE Life(o)!LifecycleInit
    OBVIOUS
  <2>1. orders[o].status = "none" /\ orders[o].filled = 0
    BY DEF StoreInit, NoOrderRow
  <2> QED  BY <2>1 DEF Life!LifecycleInit
<1>2. StoreInv /\ [StoreNext]_storeVars =>
        [\A o \in Orders :
           [Life(o)!LifecycleNext]_<<orders[o].status, orders[o].filled>>]_orders
  BY StepFollowsLifecycle
<1> QED  BY <1>1, <1>2, StoreInvariant, PTL DEF StoreSpec, FollowsLifecycle

----------------------------------------------------------------------------
(* The running system. *)

\* Operations begin with a store transaction, or leave the store alone.
LEMMA BeginUsesStore ==
  ASSUME NEW t \in Threads, NEW o \in Orders,
         StartStage(t, o) \/ StartRoute(t, o) \/ StartCancel(t, o) \/ StartRfq(t, o)
  PROVE  StoreNext
  BY DEF StoreNext, StartStage, StartRoute, StartCancel, StartRfq

\* The engine works in memory.
LEMMA EngineKeepsStore ==
  ASSUME NEW t \in Threads,
         \/ SubmitOrder(t) \/ PullFromBook(t)
         \/ PullQuote(t) \/ StartPost(t) \/ PostLiquidity(t)
         \/ TakePublishLock(t) \/ SkipFill(t) \/ ReleasePublishLock(t)
  PROVE  UNCHANGED storeVars
  BY DEF SubmitOrder, PullFromBook, PullQuote, StartPost, PostLiquidity,
         TakePublishLock, SkipFill, ReleasePublishLock

\* A fill is recorded by recordFill, or dooms the transaction it is part of.
LEMMA PublishUsesStore ==
  ASSUME NEW t \in Threads, PublishJoined(t) \/ RefuseJoined(t) \/ PublishAlone(t)
  PROVE  StoreNext
<1>1. CASE RefuseJoined(t)
  BY <1>1 DEF StoreNext, RefuseJoined
<1>2. CASE PublishJoined(t) \/ PublishAlone(t)
  <2>1. PICK o \in Orders : \E q \in 1 .. Qty[o] : RecordFill(t, o, q)
    BY <1>2 DEF PublishJoined, PublishAlone, RecordNext
  <2> QED  BY <2>1 DEF StoreNext
<1> QED  BY <1>1, <1>2

\* Whatever ends a transaction commits it or rolls it back.
LEMMA EndUsesStore ==
  ASSUME NEW t \in Threads,
         \/ FinishOp(t) \/ FailOp(t)
         \/ SettleFill(t) \/ RetryFill(t) \/ LoseFill(t)
  PROVE  StoreNext
  BY DEF StoreNext, FinishOp, FailOp, SettleFill, RetryFill, LoseFill

LEMMA StepUsesStore == [Next]_vars => [StoreNext]_storeVars
<1> SUFFICES ASSUME [Next]_vars PROVE StoreNext \/ UNCHANGED storeVars
  OBVIOUS
<1>1. CASE \E o \in Orders : NewOrder(o)
  BY <1>1 DEF NewOrder, StoreNext
<1>2. ASSUME NEW t \in Threads, ClientStep(t)
      PROVE  StoreNext \/ UNCHANGED storeVars
  BY <1>2, BeginUsesStore, EngineKeepsStore, PublishUsesStore, EndUsesStore DEF ClientStep
<1>3. ASSUME NEW t \in Threads, MakerStep(t)
      PROVE  StoreNext \/ UNCHANGED storeVars
  BY <1>3, EngineKeepsStore, PublishUsesStore, EndUsesStore DEF MakerStep
<1>4. CASE \E t \in Threads : TakePublishLock(t) \/ ReleasePublishLock(t)
  BY <1>4, EngineKeepsStore
<1>5. CASE \E b \in Replicas : Restart(b)
  <2>1. PICK b \in Replicas : CrashTx({t \in Threads : ReplicaOf[t] = b})
    BY <1>5 DEF Restart
  <2>2. {t \in Threads : ReplicaOf[t] = b} \in SUBSET Threads
    OBVIOUS
  <2> QED  BY <2>1, <2>2 DEF StoreNext
<1>6. CASE UNCHANGED vars
  BY <1>6 DEF vars
<1> QED
  BY <1>1, <1>2, <1>3, <1>4, <1>5, <1>6, ExecutionAssumption DEF Next, ExecutionAssumption

(***************************************************************************)
(* For any constants, the OMS changes the orders and positions tables only *)
(* by the transactions of OrderStore: matching under its locks, the fills  *)
(* that join a route's transaction and those that are retried in their     *)
(* own, the failures and the restarts included.                            *)
(***************************************************************************)
THEOREM OmsUsesStore == Spec => UsesStore
<1>1. Init => StoreInit
  BY DEF Init
<1> QED  BY <1>1, StepUsesStore, PTL DEF Spec, UsesStore, StoreSpec

(***************************************************************************)
(* Hence, for any constants, no order row of the running OMS is filled     *)
(* beyond its quantity, and its status tells how far it is filled.         *)
(***************************************************************************)
THEOREM OmsFillsMatchStatus == Spec => []FillsMatchStatus
  BY OmsUsesStore, FillsAlwaysMatchStatus, PTL DEF UsesStore

(***************************************************************************)
(* And every order of the running OMS follows OrderLifecycle.              *)
(***************************************************************************)
THEOREM OmsFollowsLifecycle == Spec => FollowsLifecycle
  BY OmsUsesStore, OrdersFollowLifecycle, PTL DEF UsesStore

-----------------------------------------------------------------------------

(***************************************************************************)
(* Positions.  What a transaction sees adds up as long as everything it    *)
(* has loaded is current: its own copies of orders and positions together  *)
(* with the committed rows it has not touched.  R and P are the committed  *)
(* tables, c is a persistence context.                                     *)
(***************************************************************************)
BookedOn(v, k) == SumFunctionOnSet([o \in Orders |-> Signed(o, v[o])], OrdersOf(k))

FilledSeen(c, R) ==
  [o \in Orders |-> IF o \in c.loaded THEN c.row[o].filled ELSE R[o].filled]

NetSeen(c, P, k) == IF k \in c.held THEN c.prow[k].net ELSE P[k].net

Current(c, R, P) ==
  /\ \A o \in c.loaded : R[o].version = c.row[o].version
  /\ \A k \in c.held : P[k].version = c.prow[k].version

AddsUp(c, R, P) ==
  /\ \A k \in c.held : c.prow[k].version <= P[k].version
  /\ Current(c, R, P) =>
       /\ \A k \in Keys : NetSeen(c, P, k) = BookedOn(FilledSeen(c, R), k)
       /\ \A o \in c.loaded : KeyOf[o] \notin c.held => c.row[o].filled = R[o].filled

Committed(R) == [o \in Orders |-> R[o].filled]

TablesAddUp(R, P) == \A k \in Keys : P[k].net = BookedOn(Committed(R), k)

PositionInv ==
  /\ StoreInv
  /\ TablesAddUp(orders, pos)
  /\ \A t \in Threads : AddsUp(ctx[t], orders, pos)

\* A position depends on the fills of its own orders.
LEMMA BookedSame ==
  ASSUME NEW k, NEW v \in [Orders -> Nat], NEW w \in [Orders -> Nat],
         \A o \in OrdersOf(k) : w[o] = v[o]
  PROVE  BookedOn(w, k) = BookedOn(v, k)
<1> DEFINE f == [o \in Orders |-> Signed(o, v[o])]
           g == [o \in Orders |-> Signed(o, w[o])]
<1>1. IsFiniteSet(OrdersOf(k)) /\ OrdersOf(k) \subseteq Orders
  BY ExecutionAssumption, FS_Subset DEF OrdersOf, ExecutionAssumption
<1>2. \A o \in OrdersOf(k) : f[o] \in Int /\ g[o] = f[o]
  BY <1>1 DEF Signed
<1> HIDE DEF f, g
<1>3. SumFunctionOnSet(g, OrdersOf(k)) = SumFunctionOnSet(f, OrdersOf(k))
  BY <1>1, <1>2, SumSame
<1> QED  BY <1>3 DEF BookedOn, f, g

\* Signed quantities.
LEMMA SignedType == \A o, q : q \in Nat => Signed(o, q) \in Int
  BY DEF Signed

\* Signed quantities add up,
LEMMA SignedAdds == \A o : \A q, a \in Nat : Signed(o, q + a) = Signed(o, q) + Signed(o, a)
  BY DEF Signed

\* from zero.
LEMMA SignedZero == \A o : Signed(o, 0) = 0
  BY SignedAdds, SignedType

\* A fill of one order moves its own position by as much, and no other.
LEMMA BookedMoves ==
  ASSUME NEW o \in Orders, NEW v \in [Orders -> Nat], NEW w \in [Orders -> Nat],
         NEW a \in Nat, w[o] = v[o] + a, \A x \in Orders \ {o} : w[x] = v[x]
  PROVE  /\ BookedOn(w, KeyOf[o]) = BookedOn(v, KeyOf[o]) + Signed(o, a)
         /\ \A k \in Keys \ {KeyOf[o]} : BookedOn(w, k) = BookedOn(v, k)
<1> DEFINE k == KeyOf[o]
           f == [x \in Orders |-> Signed(x, v[x])]
           g == [x \in Orders |-> Signed(x, w[x])]
<1>1. IsFiniteSet(OrdersOf(k)) /\ OrdersOf(k) \subseteq Orders /\ o \in OrdersOf(k)
  BY ExecutionAssumption, FS_Subset DEF OrdersOf, ExecutionAssumption
<1>2. /\ \A x \in OrdersOf(k) : f[x] \in Int
      /\ \A x \in OrdersOf(k) : g[x] \in Int
      /\ \A x \in OrdersOf(k) \ {o} : g[x] = f[x]
  <2>1. \A x \in Orders : f[x] = Signed(x, v[x]) /\ g[x] = Signed(x, w[x])  OBVIOUS
  <2>2. ASSUME NEW x \in Orders PROVE f[x] \in Int /\ g[x] \in Int
    <3>1. Signed(x, v[x]) \in Int  BY SignedType
    <3>2. Signed(x, w[x]) \in Int  BY SignedType
    <3> HIDE DEF f, g
    <3> QED  BY <2>1, <3>1, <3>2
  <2>3. \A x \in Orders \ {o} : w[x] = v[x]  OBVIOUS
  <2> HIDE DEF f, g, k
  <2> QED  BY <1>1, <2>1, <2>2, <2>3
<1>3. g[o] = f[o] + Signed(o, a) /\ Signed(o, a) \in Int
  <2>1. f[o] = Signed(o, v[o]) /\ g[o] = Signed(o, w[o])  OBVIOUS
  <2>2. Signed(o, w[o]) = Signed(o, v[o]) + Signed(o, a)  BY SignedAdds
  <2> QED  BY <2>1, <2>2, SignedType
<1> HIDE DEF f, g, k
<1>4. SumFunctionOnSet(g, OrdersOf(k)) = SumFunctionOnSet(f, OrdersOf(k)) - f[o] + g[o]
  <2>1. g[o] \in Int  BY <1>1, <1>2
  <2> QED  BY <1>1, <1>2, <2>1, SumChange
<1>5. SumFunctionOnSet(f, OrdersOf(k)) \in Int
  BY <1>1, <1>2, SumType
<1>6. BookedOn(w, k) = BookedOn(v, k) + Signed(o, a)
  <2>1. f[o] \in Int /\ g[o] \in Int  BY <1>1, <1>2
  <2>2. SumFunctionOnSet(g, OrdersOf(k)) = SumFunctionOnSet(f, OrdersOf(k)) + Signed(o, a)
    BY <1>3, <1>4, <1>5, <2>1
  <2> QED  BY <2>2 DEF BookedOn, f, g
<1>7. ASSUME NEW l \in Keys \ {k} PROVE BookedOn(w, l) = BookedOn(v, l)
  <2>1. \A x \in OrdersOf(l) : w[x] = v[x]  BY <1>7 DEF OrdersOf, k
  <2> QED  BY <2>1, BookedSame
<1> QED  BY <1>6, <1>7 DEF k

\* The fills a transaction sees.
LEMMA SeenType ==
  ASSUME StoreInv, NEW t \in Threads
  PROVE  /\ FilledSeen(ctx[t], orders) \in [Orders -> Nat]
         /\ Committed(orders) \in [Orders -> Nat]
BY DEF StoreInv, StoreTypeOK, Context, OrderRow, FilledSeen, Committed

\* Who has loaded nothing sees the committed tables.
LEMMA ClosedAddsUp ==
  ASSUME NEW R, NEW P, TablesAddUp(R, P), NEW c, c.loaded = {}, c.held = {}
  PROVE  AddsUp(c, R, P)
<1>1. FilledSeen(c, R) = Committed(R)  BY DEF FilledSeen, Committed
<1> QED  BY <1>1 DEF AddsUp, TablesAddUp, NetSeen

\* A closed context has nothing loaded.
LEMMA ClosedEmpty == Closed.loaded = {} /\ Closed.held = {}
  BY DEF Closed

\* The empty tables add up.
LEMMA PositionInvInit == StoreInit => PositionInv
<1> SUFFICES ASSUME StoreInit PROVE PositionInv  OBVIOUS
<1>1. StoreInv  BY StoreInvInit
<1>2. ASSUME NEW k \in Keys PROVE pos[k].net = BookedOn(Committed(orders), k)
  <2> DEFINE f == [o \in Orders |-> Signed(o, Committed(orders)[o])]
             z == [T \in SUBSET OrdersOf(k) |-> 0]
  <2>1. IsFiniteSet(OrdersOf(k)) /\ OrdersOf(k) \subseteq Orders
    BY ExecutionAssumption, FS_Subset DEF OrdersOf, ExecutionAssumption
  <2>2. \A o \in OrdersOf(k) : f[o] = 0
    <3>1. \A o \in Orders : Committed(orders)[o] = 0  BY DEF StoreInit, Committed, NoOrderRow
    <3> QED  BY <2>1, <3>1, SignedZero
  <2> HIDE DEF f
  <2>3. Sums(z, f, OrdersOf(k))  BY <2>2 DEF Sums
  <2>4. z[OrdersOf(k)] = 0  OBVIOUS
  <2> HIDE DEF z
  <2>5. SumFunctionOnSet(f, OrdersOf(k)) = 0  BY <2>1, <2>3, <2>4, SumIs
  <2> QED  BY <2>5 DEF BookedOn, StoreInit, NoPosRow, f
<1>3. TablesAddUp(orders, pos)  BY <1>2 DEF TablesAddUp
<1>4. ASSUME NEW t \in Threads PROVE AddsUp(ctx[t], orders, pos)
  <2>1. ctx[t] = Closed  BY DEF StoreInit
  <2> QED  BY <1>3, <2>1, ClosedEmpty, ClosedAddsUp
<1> QED  BY <1>1, <1>3, <1>4 DEF PositionInv

\* create() adds an order without fills.
LEMMA CreatePosition ==
  ASSUME PositionInv, NEW o \in Orders, Create(o) PROVE TablesAddUp(orders, pos)' /\ \A t \in Threads : AddsUp(ctx[t], orders, pos)'
<1>1. PICK s \in {"NEW", "REJECTED"} :
        orders' = [orders EXCEPT ![o] = [status |-> s, filled |-> 0, version |-> 1]]
  BY DEF Create
<1>2. pos' = pos /\ ctx' = ctx /\ \A t \in Threads : o \notin ctx[t].loaded
  BY DEF Create, Fresh
<1>3. orders[o].filled = 0
  <2>1. orders[o].status = "none"  BY DEF Create, Fresh
  <2> QED  BY <2>1 DEF PositionInv, StoreInv, FillsMatchStatus
<1>4. \A x \in Orders : /\ orders'[x].filled = orders[x].filled
                        /\ x # o => orders'[x] = orders[x]
  BY <1>1, <1>3 DEF PositionInv, StoreInv, StoreTypeOK
<1>5. Committed(orders') = Committed(orders)  BY <1>4 DEF Committed
<1>6. ASSUME NEW t \in Threads PROVE AddsUp(ctx[t], orders', pos)
  <2>1. FilledSeen(ctx[t], orders') = FilledSeen(ctx[t], orders)  BY <1>4 DEF FilledSeen
  <2>2. \A x \in ctx[t].loaded : x \in Orders /\ orders'[x] = orders[x]
    BY <1>2, <1>4 DEF PositionInv, StoreInv, StoreTypeOK, Context
  <2>3. Current(ctx[t], orders', pos) = Current(ctx[t], orders, pos)  BY <2>2 DEF Current
  <2> QED  BY <2>1, <2>2, <2>3 DEF PositionInv, AddsUp
<1> QED  BY <1>2, <1>5, <1>6 DEF PositionInv, TablesAddUp

\* A thread that replaces its context leaves the others alone.
LEMMA NewContextPosition ==
  ASSUME PositionInv, NEW t \in Threads, NEW c, ctx' = [ctx EXCEPT ![t] = c],
         orders' = orders, pos' = pos, AddsUp(c, orders, pos)
  PROVE  TablesAddUp(orders, pos)' /\ \A u \in Threads : AddsUp(ctx[u], orders, pos)'
<1>1. \A u \in Threads : ctx'[u] = IF u = t THEN c ELSE ctx[u]
  BY DEF PositionInv, StoreInv, StoreTypeOK
<1>2. \A u \in Threads : AddsUp(ctx'[u], orders, pos)  BY <1>1 DEF PositionInv
<1> QED  BY <1>2 DEF PositionInv

\* A transition copies the fills of its order.
LEMMA TransitionPosition ==
  ASSUME PositionInv, NEW t \in Threads, NEW o \in Orders, NEW target, Transition(t, o, target)
  PROVE  TablesAddUp(orders, pos)' /\ \A u \in Threads : AddsUp(ctx[u], orders, pos)'
<1> DEFINE r == [status |-> target, filled |-> orders[o].filled, version |-> orders[o].version]
           c == [open |-> TRUE, doomed |-> FALSE, loaded |-> {o},
                 row |-> [Closed.row EXCEPT ![o] = r], held |-> {}, prow |-> Closed.prow]
<1>1. ctx' = [ctx EXCEPT ![t] = c] /\ orders' = orders /\ pos' = pos  BY DEF Transition
<1>2. c.loaded = {o} /\ c.held = {} /\ c.row[o].filled = orders[o].filled
  BY DEF Closed
<1> HIDE DEF c
<1>3. FilledSeen(c, orders) = Committed(orders)  BY <1>2 DEF FilledSeen, Committed
<1>4. AddsUp(c, orders, pos)
  BY <1>2, <1>3 DEF AddsUp, PositionInv, TablesAddUp, NetSeen
<1> QED  BY <1>1, <1>4, NewContextPosition

\* executeRfqFill books a whole order on its position.
LEMMA OpenRfqPosition ==
  ASSUME PositionInv, NEW t \in Threads, NEW o \in Orders, OpenRfq(t, o)
  PROVE  TablesAddUp(orders, pos)' /\ \A u \in Threads : AddsUp(ctx[u], orders, pos)'
<1> DEFINE k == KeyOf[o]
           r == [status |-> "FILLED", filled |-> Qty[o], version |-> 0]
           p == [net |-> pos[k].net + Signed(o, Qty[o]), version |-> pos[k].version]
           c == [open |-> TRUE, doomed |-> FALSE, loaded |-> {o},
                 row |-> [Closed.row EXCEPT ![o] = r],
                 held |-> {k}, prow |-> [Closed.prow EXCEPT ![k] = p]]
<1>1. k \in Keys /\ Qty[o] \in Nat /\ orders \in [Orders -> OrderRow] /\ pos \in [Keys -> PosRow]
  BY StoreAssumption DEF PositionInv, StoreInv, StoreTypeOK
<1>2. ctx' = [ctx EXCEPT ![t] = c] /\ orders' = orders /\ pos' = pos  BY DEF OpenRfq
<1>3. /\ c.loaded = {o} /\ c.held = {k} /\ c.row[o].filled = Qty[o]
      /\ c.prow[k].net = pos[k].net + Signed(o, Qty[o]) /\ c.prow[k].version = pos[k].version
  BY <1>1 DEF Closed
<1>4. orders[o].filled = 0
  <2>1. orders[o].status = "none"  BY DEF OpenRfq, Fresh
  <2> QED  BY <2>1 DEF PositionInv, StoreInv, FillsMatchStatus
<1> DEFINE w == FilledSeen(c, orders)
           v == Committed(orders)
<1> HIDE DEF c, k
<1>5. w \in [Orders -> Nat] /\ v \in [Orders -> Nat]
  BY <1>1, <1>3 DEF FilledSeen, Committed, OrderRow
<1>6. w[o] = v[o] + Qty[o] /\ \A x \in Orders \ {o} : w[x] = v[x]
  BY <1>1, <1>3, <1>4 DEF FilledSeen, Committed
<1>7. /\ BookedOn(w, k) = BookedOn(v, k) + Signed(o, Qty[o])
      /\ \A l \in Keys \ {k} : BookedOn(w, l) = BookedOn(v, l)
  <2> HIDE DEF w, v
  <2> QED  BY <1>1, <1>5, <1>6, BookedMoves DEF k
<1>8. \A l \in Keys : pos[l].net = BookedOn(v, l)  BY DEF PositionInv, TablesAddUp
<1>9. \A l \in Keys : NetSeen(c, pos, l) = BookedOn(w, l)
  <2> HIDE DEF w, v
  <2> QED  BY <1>3, <1>7, <1>8 DEF NetSeen
<1>10. c.prow[k].version <= pos[k].version  BY <1>1, <1>3 DEF PosRow
<1>11. AddsUp(c, orders, pos)  BY <1>3, <1>9, <1>10 DEF AddsUp, k
<1> QED  BY <1>2, <1>11, NewContextPosition

\* recordFill books the same quantity on the order and on the position.
LEMMA RecordPosition ==
  ASSUME PositionInv, NEW t \in Threads, NEW o \in Orders, NEW q \in 1 .. Qty[o],
         RecordFill(t, o, q)
  PROVE  TablesAddUp(orders, pos)' /\ \A u \in Threads : AddsUp(ctx[u], orders, pos)'
<1> DEFINE k == KeyOf[o]
           a == Applied(t, o, q)
           r == [status |-> FillTarget(t, o, q), filled |-> OrderSeen(t, o).filled + a,
                 version |-> OrderSeen(t, o).version]
           p == [net |-> PosSeen(t, k).net + Signed(o, a), version |-> PosSeen(t, k).version]
           c == [open |-> TRUE, doomed |-> ctx[t].doomed, loaded |-> ctx[t].loaded \cup {o},
                 row |-> [ctx[t].row EXCEPT ![o] = r],
                 held |-> ctx[t].held \cup {k}, prow |-> [ctx[t].prow EXCEPT ![k] = p]]
           b == ctx[t]
<1>1. a \in Nat /\ r \in OrderRow  BY FillOK DEF RecordFill, PositionInv
<1>2. /\ b \in Context /\ k \in Keys
      /\ orders \in [Orders -> OrderRow] /\ pos \in [Keys -> PosRow]
  BY StoreAssumption DEF PositionInv, StoreInv, StoreTypeOK
<1>3. ctx' = [ctx EXCEPT ![t] = c] /\ orders' = orders /\ pos' = pos  BY DEF RecordFill
<1>4. /\ r.filled = OrderSeen(t, o).filled + a /\ r.version = OrderSeen(t, o).version
      /\ p.net = PosSeen(t, k).net + Signed(o, a) /\ p.version = PosSeen(t, k).version
  OBVIOUS
<1>5. /\ c.loaded = b.loaded \cup {o} /\ c.held = b.held \cup {k}
      /\ c.row[o] = r /\ \A x \in Orders \ {o} : c.row[x] = b.row[x]
      /\ c.prow[k] = p /\ \A l \in Keys \ {k} : c.prow[l] = b.prow[l]
  <2> HIDE DEF r, p, k
  <2> QED  BY <1>2 DEF Context
<1> HIDE DEF c, r, p, a
<1>6. /\ OrderSeen(t, o) = IF o \in b.loaded THEN b.row[o] ELSE orders[o]
      /\ PosSeen(t, k) = IF k \in b.held THEN b.prow[k] ELSE pos[k]
  BY DEF OrderSeen, PosSeen
<1>7. \A x \in b.loaded : x \in Orders  BY <1>2 DEF Context
<1>8. \A l \in b.held : l \in Keys  BY <1>2 DEF Context
<1> HIDE DEF b
<1>9. AddsUp(b, orders, pos)  BY DEF PositionInv, b
<1> DEFINE v == FilledSeen(b, orders)
           w == FilledSeen(c, orders)
<1>10. v \in [Orders -> Nat] /\ w \in [Orders -> Nat]
  <2>1. \A x \in Orders : c.row[x].filled \in Nat /\ b.row[x].filled \in Nat /\ orders[x].filled \in Nat
    BY <1>1, <1>2, <1>5 DEF Context, OrderRow
  <2> QED  BY <2>1 DEF FilledSeen
<1>11. w[o] = v[o] + a /\ \A x \in Orders \ {o} : w[x] = v[x]
  BY <1>4, <1>5, <1>6 DEF FilledSeen
<1> HIDE DEF v, w
<1>12. ASSUME Current(c, orders, pos) PROVE Current(b, orders, pos)
  <2>1. ASSUME NEW x \in b.loaded PROVE orders[x].version = b.row[x].version
    <3>1. orders[x].version = c.row[x].version  BY <1>5, <1>12 DEF Current
    <3> QED  BY <1>4, <1>5, <1>6, <1>7, <3>1
  <2>2. ASSUME NEW l \in b.held PROVE pos[l].version = b.prow[l].version
    <3>1. pos[l].version = c.prow[l].version  BY <1>5, <1>12 DEF Current
    <3> QED  BY <1>4, <1>5, <1>6, <1>8, <3>1
  <2> QED  BY <2>1, <2>2 DEF Current
<1>13. \A l \in c.held : c.prow[l].version <= pos[l].version
  <2>1. \A l \in b.held : b.prow[l].version <= pos[l].version  BY <1>9 DEF AddsUp
  <2>2. pos[k].version \in Nat  BY <1>2 DEF PosRow
  <2>3. p.version <= pos[k].version  BY <1>4, <1>6, <2>1, <2>2
  <2> QED  BY <1>5, <1>8, <2>1, <2>3
<1>14. /\ BookedOn(w, k) = BookedOn(v, k) + Signed(o, a)
       /\ \A l \in Keys \ {k} : BookedOn(w, l) = BookedOn(v, l)
  BY <1>1, <1>10, <1>11, BookedMoves DEF k
<1>15. ASSUME Current(c, orders, pos), NEW l \in Keys PROVE NetSeen(c, pos, l) = BookedOn(w, l)
  <2>1. NetSeen(b, pos, l) = BookedOn(v, l)  BY <1>9, <1>12, <1>15 DEF AddsUp, v
  <2>2. CASE l = k  BY <1>4, <1>5, <1>6, <1>14, <2>1, <2>2 DEF NetSeen
  <2>3. CASE l # k  BY <1>5, <1>14, <2>1, <2>3 DEF NetSeen
  <2> QED  BY <2>2, <2>3
<1>16. ASSUME Current(c, orders, pos), NEW x \in c.loaded, KeyOf[x] \notin c.held
       PROVE  c.row[x].filled = orders[x].filled
  <2>1. x # o /\ x \in b.loaded /\ KeyOf[x] \notin b.held  BY <1>5, <1>16 DEF k
  <2>2. b.row[x].filled = orders[x].filled  BY <1>9, <1>12, <1>16, <2>1 DEF AddsUp
  <2> QED  BY <1>5, <1>7, <2>1, <2>2
<1>17. AddsUp(c, orders, pos)  BY <1>13, <1>15, <1>16 DEF AddsUp, w
<1> QED  BY <1>3, <1>17, NewContextPosition

\* Rollback-only changes no row.
LEMMA DoomPosition ==
  ASSUME PositionInv, NEW t \in Threads, DoomTx(t)
  PROVE  TablesAddUp(orders, pos)' /\ \A u \in Threads : AddsUp(ctx[u], orders, pos)'
<1> DEFINE c == [ctx[t] EXCEPT !.doomed = TRUE]
<1>1. ctx' = [ctx EXCEPT ![t] = c] /\ orders' = orders /\ pos' = pos  BY DEF DoomTx
<1>2. ctx[t] \in Context  BY DEF PositionInv, StoreInv, StoreTypeOK
<1>3. /\ c.loaded = ctx[t].loaded /\ c.row = ctx[t].row
      /\ c.held = ctx[t].held /\ c.prow = ctx[t].prow
  BY <1>2 DEF Context
<1> HIDE DEF c
<1>4. FilledSeen(c, orders) = FilledSeen(ctx[t], orders)  BY <1>3 DEF FilledSeen
<1>5. AddsUp(ctx[t], orders, pos)  BY DEF PositionInv
<1>6. AddsUp(c, orders, pos)  BY <1>3, <1>4, <1>5 DEF AddsUp, Current, NetSeen
<1> QED  BY <1>1, <1>6, NewContextPosition

\* A rollback forgets the copies.
LEMMA RollbackPosition ==
  ASSUME PositionInv, NEW t \in Threads, RollbackTx(t)
  PROVE  TablesAddUp(orders, pos)' /\ \A u \in Threads : AddsUp(ctx[u], orders, pos)'
BY ClosedEmpty, ClosedAddsUp, NewContextPosition DEF RollbackTx, PositionInv

\* So does a crash.
LEMMA CrashPosition ==
  ASSUME PositionInv, NEW S \in SUBSET Threads, CrashTx(S)
  PROVE  TablesAddUp(orders, pos)' /\ \A u \in Threads : AddsUp(ctx[u], orders, pos)'
<1>1. orders' = orders /\ pos' = pos /\ \A u \in Threads : ctx'[u] = IF u \in S THEN Closed ELSE ctx[u]
  BY DEF CrashTx
<1>2. AddsUp(Closed, orders, pos)  BY ClosedEmpty, ClosedAddsUp DEF PositionInv
<1>3. \A u \in Threads : AddsUp(ctx'[u], orders, pos)  BY <1>1, <1>2 DEF PositionInv
<1> QED  BY <1>1, <1>3 DEF PositionInv

\* A commit makes what its transaction saw the committed tables; whoever has a row of it loaded is not current any more.
LEMMA CommitPosition ==
  ASSUME PositionInv, NEW t \in Threads, CommitTx(t)
  PROVE  TablesAddUp(orders, pos)' /\ \A u \in Threads : AddsUp(ctx[u], orders, pos)'
<1> DEFINE c == ctx[t]
<1>1. c \in Context /\ orders \in [Orders -> OrderRow] /\ pos \in [Keys -> PosRow]
  BY DEF PositionInv, StoreInv, StoreTypeOK
<1>2. Current(c, orders, pos)  BY DEF CommitTx, OrdersCurrent, PositionsCurrent, Current
<1>3. AddsUp(c, orders, pos)  BY DEF PositionInv
<1>4. ASSUME NEW o \in Orders
      PROVE  /\ o \in c.loaded => /\ orders'[o].filled = c.row[o].filled
                                   /\ orders'[o].version = orders[o].version + 1
             /\ o \notin c.loaded => orders'[o] = orders[o]
  <2>1. c.row[o] \in OrderRow  BY <1>1 DEF Context
  <2>2. o \in c.loaded => orders'[o] = [c.row[o] EXCEPT !.version = c.row[o].version + 1]
    BY DEF CommitTx
  <2>3. o \in c.loaded => orders[o].version = c.row[o].version  BY <1>2 DEF Current
  <2>4. o \notin c.loaded => orders'[o] = orders[o]  BY DEF CommitTx
  <2> HIDE DEF c
  <2> QED  BY <2>1, <2>2, <2>3, <2>4 DEF OrderRow
<1>5. ASSUME NEW k \in Keys
      PROVE  /\ k \in c.held => /\ pos'[k].net = c.prow[k].net
                                 /\ pos'[k].version = pos[k].version + 1
             /\ k \notin c.held => pos'[k] = pos[k]
  <2>1. c.prow[k] \in PosRow  BY <1>1 DEF Context
  <2>2. k \in c.held => pos'[k] = [c.prow[k] EXCEPT !.version = c.prow[k].version + 1]
    BY DEF CommitTx
  <2>3. k \in c.held => pos[k].version = c.prow[k].version  BY <1>2 DEF Current
  <2>4. k \notin c.held => pos'[k] = pos[k]  BY DEF CommitTx
  <2> HIDE DEF c
  <2> QED  BY <2>1, <2>2, <2>3, <2>4 DEF PosRow
<1>6. \A u \in Threads : ctx'[u] = IF u = t THEN Closed ELSE ctx[u]
  BY DEF CommitTx, PositionInv, StoreInv, StoreTypeOK
<1> HIDE DEF c
<1>7. Committed(orders') = FilledSeen(c, orders)  BY <1>4 DEF Committed, FilledSeen
<1>8. \A k \in Keys : pos'[k].net = NetSeen(c, pos, k)  BY <1>5 DEF NetSeen
<1>9. TablesAddUp(orders', pos')  BY <1>2, <1>3, <1>7, <1>8 DEF TablesAddUp, AddsUp
<1>10. AddsUp(Closed, orders', pos')  BY <1>9, ClosedEmpty, ClosedAddsUp
<1>11. ASSUME NEW u \in Threads, u # t PROVE AddsUp(ctx[u], orders', pos')
  <2> DEFINE d == ctx[u]
  <2>1. d \in Context /\ AddsUp(d, orders, pos)  BY DEF PositionInv, StoreInv, StoreTypeOK
  <2>2. \A x \in d.loaded : x \in Orders /\ d.row[x].version <= orders[x].version
                            /\ d.row[x].version \in Nat /\ orders[x].version \in Nat
    <3>1. \A x \in d.loaded : CopyOK(x, d.row[x])  BY DEF PositionInv, StoreInv, CopiesOK
    <3> QED  BY <1>1, <2>1, <3>1 DEF CopyOK, Context, OrderRow
  <2>3. \A k \in d.held : k \in Keys /\ d.prow[k].version <= pos[k].version
                          /\ d.prow[k].version \in Nat /\ pos[k].version \in Nat
    BY <1>1, <2>1 DEF AddsUp, Context, PosRow
  <2>4. \A k \in d.held : d.prow[k].version <= pos'[k].version
    BY <1>5, <2>3
  <2> HIDE DEF d
  <2>5. ASSUME Current(d, orders', pos')
        PROVE  /\ \A x \in d.loaded : orders'[x] = orders[x]
               /\ \A k \in d.held : pos'[k] = pos[k]
    <3>1. ASSUME NEW x \in d.loaded PROVE orders'[x] = orders[x]
      <4>1. orders'[x].version = d.row[x].version  BY <2>5 DEF Current
      <4> QED  BY <1>4, <2>2, <4>1
    <3>2. ASSUME NEW k \in d.held PROVE pos'[k] = pos[k]
      <4>1. pos'[k].version = d.prow[k].version  BY <2>5 DEF Current
      <4> QED  BY <1>5, <2>3, <4>1
    <3> QED  BY <3>1, <3>2
  <2>6. ASSUME Current(d, orders', pos') PROVE Current(d, orders, pos)
    BY <2>5, <2>6 DEF Current
  <2>7. ASSUME Current(d, orders', pos'), NEW x \in d.loaded, KeyOf[x] \notin d.held
        PROVE  d.row[x].filled = orders'[x].filled
    BY <2>1, <2>5, <2>6, <2>7 DEF AddsUp
  <2>8. FilledSeen(d, orders) \in [Orders -> Nat] /\ FilledSeen(d, orders') \in [Orders -> Nat]
        /\ Committed(orders') \in [Orders -> Nat]
    <3>1. \A x \in Orders : d.row[x].filled \in Nat /\ orders[x].filled \in Nat /\ c.row[x].filled \in Nat
      BY <1>1, <2>1 DEF Context, OrderRow
    <3>2. \A x \in Orders : orders'[x].filled \in Nat  BY <1>4, <3>1
    <3> QED  BY <3>1, <3>2 DEF FilledSeen, Committed
  <2>9. ASSUME Current(d, orders', pos'), NEW k \in Keys
        PROVE  NetSeen(d, pos', k) = BookedOn(FilledSeen(d, orders'), k)
    <3>1. CASE k \in d.held
      <4>1. NetSeen(d, pos', k) = BookedOn(FilledSeen(d, orders), k)
        BY <2>1, <2>6, <2>9, <3>1 DEF AddsUp, NetSeen
      <4>2. k \notin c.held
        <5>1. pos'[k] = pos[k] /\ pos[k].version \in Nat  BY <2>3, <2>5, <2>9, <3>1
        <5> QED  BY <1>5, <5>1
      <4>3. ASSUME NEW x \in OrdersOf(k) PROVE FilledSeen(d, orders')[x] = FilledSeen(d, orders)[x]
        <5>1. x \in Orders /\ KeyOf[x] = k  BY DEF OrdersOf
        <5>2. orders'[x].filled = orders[x].filled  BY <1>2, <1>3, <1>4, <4>2, <5>1 DEF AddsUp
        <5> QED  BY <5>1, <5>2 DEF FilledSeen
      <4> QED  BY <2>8, <4>1, <4>3, BookedSame
    <3>2. CASE k \notin d.held
      <4>1. NetSeen(d, pos', k) = BookedOn(Committed(orders'), k)
        BY <1>9, <3>2 DEF NetSeen, TablesAddUp
      <4>2. ASSUME NEW x \in OrdersOf(k) PROVE FilledSeen(d, orders')[x] = Committed(orders')[x]
        <5>1. x \in Orders /\ KeyOf[x] = k  BY DEF OrdersOf
        <5> QED  BY <2>7, <2>9, <3>2, <5>1 DEF FilledSeen, Committed
      <4> QED  BY <2>8, <4>1, <4>2, BookedSame
    <3> QED  BY <3>1, <3>2
  <2>10. AddsUp(d, orders', pos')  BY <2>4, <2>7, <2>9 DEF AddsUp
  <2> QED  BY <2>10 DEF d
<1>12. \A u \in Threads : AddsUp(ctx'[u], orders', pos')  BY <1>6, <1>10, <1>11
<1> QED  BY <1>9, <1>12

\* Every transaction of OrderStore keeps the tables adding up.
LEMMA PositionInvNext == PositionInv /\ [StoreNext]_storeVars => PositionInv'
<1> SUFFICES ASSUME PositionInv, [StoreNext]_storeVars PROVE PositionInv'
  OBVIOUS
<1>1. StoreInv'  BY StoreInvNext DEF PositionInv
<1>2. CASE UNCHANGED storeVars
  <2>1. orders' = orders /\ pos' = pos /\ ctx' = ctx  BY <1>2 DEF storeVars
  <2> QED  BY <1>1, <2>1 DEF PositionInv
<1>3. CASE StoreNext
  <2>1. TablesAddUp(orders, pos)' /\ \A u \in Threads : AddsUp(ctx[u], orders, pos)'
    <3>1. CASE \E o \in Orders : Create(o)  BY <3>1, CreatePosition
    <3>2. ASSUME NEW t \in Threads,
                 \E o \in Orders, target \in {"STAGED", "ROUTED", "CANCELLED"} : Transition(t, o, target)
          PROVE  TablesAddUp(orders, pos)' /\ \A u \in Threads : AddsUp(ctx[u], orders, pos)'
      BY <3>2, TransitionPosition
    <3>3. ASSUME NEW t \in Threads, NEW o \in Orders, OpenRfq(t, o) \/ \E q \in 1 .. Qty[o] : RecordFill(t, o, q)
          PROVE  TablesAddUp(orders, pos)' /\ \A u \in Threads : AddsUp(ctx[u], orders, pos)'
      BY <3>3, OpenRfqPosition, RecordPosition
    <3>4. ASSUME NEW t \in Threads, DoomTx(t) \/ CommitTx(t) \/ RollbackTx(t)
          PROVE  TablesAddUp(orders, pos)' /\ \A u \in Threads : AddsUp(ctx[u], orders, pos)'
      BY <3>4, DoomPosition, CommitPosition, RollbackPosition
    <3>5. CASE \E S \in SUBSET Threads : CrashTx(S)  BY <3>5, CrashPosition
    <3> QED  BY <1>3, <3>1, <3>2, <3>3, <3>4, <3>5 DEF StoreNext
  <2> QED  BY <1>1, <2>1 DEF PositionInv
<1> QED  BY <1>2, <1>3

\* Which is the invariant of the runs.
LEMMA PositionInvGivesSums == PositionInv => PositionIsSumOfFills
<1> SUFFICES ASSUME PositionInv, NEW k \in Keys
             PROVE pos[k].net = SumFunctionOnSet([o \in Orders |-> Signed(o, orders[o].filled)], OrdersOf(k))
  BY DEF PositionIsSumOfFills
<1>1. [o \in Orders |-> Signed(o, Committed(orders)[o])] = [o \in Orders |-> Signed(o, orders[o].filled)]
  BY DEF Committed
<1> QED  BY <1>1 DEF PositionInv, TablesAddUp, BookedOn

-----------------------------------------------------------------------------

(***************************************************************************)
(* The engine on a queue q of resting orders.                              *)
(***************************************************************************)
LEMMA QueueType ==
  ASSUME NEW q \in Seq(Resting), NEW k \in 1 .. Len(q)
  PROVE  /\ q[k] \in Resting /\ q[k].qty \in Nat \ {0} /\ q[k].owner \in Owner
         /\ Ahead(q, k) \in Nat
<1>1. q[k] \in Resting  BY ElementOfSeq
<1> DEFINE f == [i \in 1 .. Len(q) |-> q[i].qty]
<1>2. \A i \in 1 .. k - 1 : f[i] \in Nat
  <2>1. \A i \in 1 .. k - 1 : i \in 1 .. Len(q)  BY LenProperties
  <2>2. ASSUME NEW i \in 1 .. Len(q) PROVE q[i].qty \in Nat
    <3>1. q[i] \in Resting  BY ElementOfSeq
    <3> QED  BY <3>1 DEF Resting
  <2> QED  BY <2>1, <2>2
<1>3. IsFiniteSet(1 .. k - 1)  BY FS_Interval
<1> HIDE DEF f
<1>4. SumFunctionOnSet(f, 1 .. k - 1) \in Nat  BY <1>2, <1>3, SumNat
<1> QED  BY <1>1, <1>4 DEF Resting, Ahead, f

\* The orders ahead of one include those ahead of an earlier one, and that one.
LEMMA AheadGrows ==
  ASSUME NEW q \in Seq(Resting), NEW k \in 1 .. Len(q), NEW j \in 1 .. Len(q), j < k
  PROVE  Ahead(q, j) + q[j].qty <= Ahead(q, k)
<1> DEFINE f == [i \in 1 .. Len(q) |-> q[i].qty]
<1>1. ASSUME NEW i \in 1 .. Len(q) PROVE f[i] \in Nat
  <2>1. q[i] \in Resting  BY ElementOfSeq
  <2> QED  BY <2>1 DEF Resting
<1>2. f[j] = q[j].qty  OBVIOUS
<1>3. \A i \in 1 .. k - 1 : i \in 1 .. Len(q)  BY LenProperties
<1>4. /\ IsFiniteSet(1 .. k - 1) /\ IsFiniteSet(1 .. j - 1) /\ IsFiniteSet(1 .. j)
      /\ 1 .. j \in SUBSET (1 .. k - 1) /\ 1 .. j = (1 .. j - 1) \cup {j} /\ j \notin 1 .. j - 1
  <2>1. Len(q) \in Nat  BY LenProperties
  <2>2. k \in Int /\ j \in Int /\ k - 1 \in Int /\ j - 1 \in Int /\ 1 <= j /\ j < k  BY <2>1
  <2>3. IsFiniteSet(1 .. k - 1) /\ IsFiniteSet(1 .. j - 1) /\ IsFiniteSet(1 .. j)
    <3>1. \A x \in Int : IsFiniteSet(1 .. x)  BY FS_Interval
    <3> QED  BY <2>2, <3>1
  <2>4. 1 .. j \in SUBSET (1 .. k - 1) /\ 1 .. j = (1 .. j - 1) \cup {j} /\ j \notin 1 .. j - 1
    BY <2>2
  <2> QED  BY <2>3, <2>4
<1> HIDE DEF f
<1>5. SumFunctionOnSet(f, 1 .. j) <= SumFunctionOnSet(f, 1 .. k - 1)
  <2>1. \A i \in 1 .. k - 1 : f[i] \in Nat  BY <1>1, <1>3
  <2> DEFINE A == 1 .. j
             B == 1 .. k - 1
  <2>2. IsFiniteSet(B) /\ A \in SUBSET B /\ \A i \in B : f[i] \in Nat  BY <1>4, <2>1
  <2> HIDE DEF A, B
  <2>3. SumFunctionOnSet(f, A) <= SumFunctionOnSet(f, B)  BY <2>2, SumSubset
  <2> QED  BY <2>3 DEF A, B
<1>6. SumFunctionOnSet(f, 1 .. j) = SumFunctionOnSet(f, 1 .. j - 1) + f[j]
  <2>1. \A i \in (1 .. j - 1) \cup {j} : f[i] \in Int  BY <1>1, <1>3, <1>4
  <2>2. SumFunctionOnSet(f, (1 .. j - 1) \cup {j}) = SumFunctionOnSet(f, 1 .. j - 1) + f[j]
    BY <1>4, <2>1, SumAdd
  <2> QED  BY <1>4, <2>2
<1> QED  BY <1>2, <1>5, <1>6 DEF Ahead, f

\* An order gives no more than it has, and no more than comes in.
LEMMA TakenType ==
  ASSUME NEW q \in Seq(Resting), NEW n \in Nat, NEW k \in 1 .. Len(q)
  PROVE  Taken(q, n, k) \in Nat /\ Taken(q, n, k) <= q[k].qty /\ Taken(q, n, k) <= n
  BY QueueType DEF Taken

\* The orders that are hit are the first ones of the queue.
LEMMA HitIsHead ==
  ASSUME NEW q \in Seq(Resting), NEW n \in Nat
  PROVE  /\ Cardinality(Hit(q, n)) \in 0 .. Len(q)
         /\ Hit(q, n) = 1 .. Cardinality(Hit(q, n))
<1>1. Hit(q, n) \in SUBSET (1 .. Len(q))  BY DEF Hit
<1>2. ASSUME NEW k \in Hit(q, n), NEW j \in 1 .. Len(q), j < k PROVE j \in Hit(q, n)
  <2>1. k \in 1 .. Len(q) /\ Taken(q, n, k) > 0  BY DEF Hit
  <2>2. Ahead(q, j) + q[j].qty <= Ahead(q, k)  BY <1>2, <2>1, AheadGrows
  <2>3. Taken(q, n, j) > 0  BY <2>1, <2>2, QueueType DEF Taken
  <2> QED  BY <2>3 DEF Hit
<1>3. Len(q) \in Nat  BY LenProperties
<1> QED  BY <1>1, <1>2, <1>3, InitialSegment

\* So are the orders that are taken whole.
LEMMA GoneIsHead ==
  ASSUME NEW q \in Seq(Resting), NEW n \in Nat, NEW T,
         T = {k \in 1 .. Len(q) : Taken(q, n, k) = q[k].qty}
  PROVE  Cardinality(T) \in 0 .. Len(q) /\ T = 1 .. Cardinality(T)
<1>1. T \in SUBSET (1 .. Len(q))  OBVIOUS
<1>2. ASSUME NEW k \in T, NEW j \in 1 .. Len(q), j < k PROVE j \in T
  <2>1. k \in 1 .. Len(q) /\ Taken(q, n, k) = q[k].qty  OBVIOUS
  <2>2. Ahead(q, j) + q[j].qty <= Ahead(q, k)  BY <1>2, <2>1, AheadGrows
  <2>3. Taken(q, n, j) = q[j].qty  BY <2>1, <2>2, QueueType DEF Taken
  <2> QED  BY <2>3
<1>3. Len(q) \in Nat  BY LenProperties
<1> QED  BY <1>1, <1>2, <1>3, InitialSegment

\* A resting order is no larger than the client order it is of.
BookRow == {r \in Resting : r.owner \in Orders => r.qty <= Qty[r.owner]}

\* A book is a queue of resting orders.
LEMMA BookRowIsResting == \A q : q \in Seq(BookRow) => q \in Seq(Resting)
<1>1. BookRow \subseteq Resting  BY DEF BookRow
<1> QED  BY <1>1, SeqMonotonic

\* What a queue gives to an incoming quantity.
LEMMA FilledType ==
  ASSUME NEW q \in Seq(Resting), NEW n \in Nat
  PROVE  Filled(q, n) \in Nat
<1> DEFINE f == [k \in 1 .. Len(q) |-> Taken(q, n, k)]
           A == 1 .. Len(q)
<1>1. \A k \in A : f[k] \in Nat  BY TakenType
<1>2. IsFiniteSet(A)
  <2>1. \A x \in Int : IsFiniteSet(1 .. x)  BY FS_Interval
  <2>2. Len(q) \in Nat  BY LenProperties
  <2> QED  BY <2>1, <2>2
<1>3. DOMAIN f = A  OBVIOUS
<1> HIDE DEF f, A
<1>4. SumFunctionOnSet(f, A) \in Nat  BY <1>1, <1>2, SumNat
<1> QED  BY <1>3, <1>4 DEF Filled, f, SumFunction

\* What is left of a book is a book.
LEMMA ReducedType ==
  ASSUME NEW q \in Seq(BookRow), NEW n \in Nat
  PROVE  Reduced(q, n) \in Seq(BookRow)
<1> DEFINE T == {k \in 1 .. Len(q) : Taken(q, n, k) = q[k].qty}
           gone == Cardinality(T)
           e(k) == [q[k + gone] EXCEPT !.qty = q[k + gone].qty - Taken(q, n, k + gone)]
<1>1. q \in Seq(Resting)  BY BookRowIsResting
<1>2. Len(q) \in Nat  BY <1>1, LenProperties
<1>3. gone \in 0 .. Len(q) /\ T = 1 .. gone
  <2> HIDE DEF T
  <2> QED  BY <1>1, GoneIsHead DEF T
<1> HIDE DEF gone
<1>4. ASSUME NEW k \in 1 .. Len(q) - gone PROVE e(k) \in BookRow
  <2> DEFINE j == k + gone
  <2>1. j \in 1 .. Len(q) /\ j \notin 1 .. gone  BY <1>2, <1>3
  <2>2. Taken(q, n, j) # q[j].qty  BY <1>3, <2>1
  <2>3. q[j] \in BookRow  BY <2>1, ElementOfSeq
  <2>4. Taken(q, n, j) \in Nat /\ Taken(q, n, j) <= q[j].qty  BY <1>1, <2>1, TakenType
  <2>5. q[j].qty \in Nat  BY <2>3 DEF BookRow, Resting
  <2> DEFINE m == q[j].qty - Taken(q, n, j)
  <2>6. m \in Nat \ {0} /\ m <= q[j].qty  BY <2>2, <2>4, <2>5
  <2> HIDE DEF j
  <2>7. [q[j] EXCEPT !.qty = m] \in BookRow
    <3> HIDE DEF m
    <3>1. q[j] \in Resting /\ (q[j].owner \in Orders => q[j].qty <= Qty[q[j].owner])  BY <2>3 DEF BookRow
    <3>2. [q[j] EXCEPT !.qty = m] \in Resting  BY <2>6, <3>1 DEF Resting
    <3>3. [q[j] EXCEPT !.qty = m].owner = q[j].owner /\ [q[j] EXCEPT !.qty = m].qty = m  BY <3>1 DEF Resting
    <3>4. q[j].owner \in Orders => m <= Qty[q[j].owner]
      <4>1. \A o \in Orders : Qty[o] \in Nat  BY StoreAssumption
      <4> QED  BY <2>5, <2>6, <3>1, <4>1
    <3> DEFINE r == [q[j] EXCEPT !.qty = m]
    <3> HIDE DEF r
    <3>5. r \in Resting /\ (r.owner \in Orders => r.qty <= Qty[r.owner])  BY <3>2, <3>3, <3>4 DEF r
    <3>6. r \in BookRow  BY <3>5 DEF BookRow
    <3> QED  BY <3>6 DEF r
  <2> QED  BY <2>7 DEF j
<1>5. Len(q) - gone \in Nat  BY <1>2, <1>3
<1>6. [k \in 1 .. Len(q) - gone |-> e(k)] \in Seq(BookRow)
  <2> HIDE DEF e
  <2> QED  BY <1>4, <1>5, IsASeq
<1>7. Reduced(q, n) = [k \in 1 .. Len(q) - gone |-> e(k)]  BY DEF Reduced, gone
<1> QED  BY <1>6, <1>7

\* A fill is of an order, and no larger than the order.
LEMMA OneFill ==
  ASSUME NEW o \in Orders, NEW m \in Nat, m > 0, m <= Qty[o]
  PROVE  <<[order |-> o, qty |-> m]>> \in Seq(Fill)
<1>1. m \in 1 .. Qty[o]  BY StoreAssumption
<1>2. [order |-> o, qty |-> m] \in Fill  BY <1>1 DEF Fill
<1> QED  BY <1>2

\* So are all fills of a match.
LEMMA DeskFillsType ==
  ASSUME NEW q \in Seq(BookRow), NEW n \in Nat, NEW owner \in Owner, NEW side,
         owner \in Orders => n <= Qty[owner]
  PROVE  DeskFills(owner, side, q, n) \in Seq(Fill)
<1> DEFINE own(k)  == IF owner = NoOrder THEN <<>> ELSE <<[order |-> owner, qty |-> Taken(q, n, k)]>>
           their(k) == IF q[k].owner = NoOrder THEN <<>>
                       ELSE <<[order |-> q[k].owner, qty |-> Taken(q, n, k)]>>
           both(k) == IF side = "BUY" THEN own(k) \o their(k) ELSE their(k) \o own(k)
           h == Cardinality(Hit(q, n))
<1>1. q \in Seq(Resting)  BY BookRowIsResting
<1>2. h \in Nat /\ \A k \in 1 .. h : k \in 1 .. Len(q) /\ Taken(q, n, k) > 0
  <2>1. h \in 0 .. Len(q) /\ Hit(q, n) = 1 .. h  BY <1>1, HitIsHead
  <2>2. Len(q) \in Nat  BY <1>1, LenProperties
  <2>3. \A k \in Hit(q, n) : k \in 1 .. Len(q) /\ Taken(q, n, k) > 0  BY DEF Hit
  <2> HIDE DEF h
  <2> QED  BY <2>1, <2>2, <2>3
<1>3. ASSUME NEW k \in 1 .. h PROVE both(k) \in Seq(Fill)
  <2> DEFINE m == Taken(q, n, k)
  <2>1. m \in Nat /\ m > 0 /\ m <= q[k].qty /\ m <= n  BY <1>1, <1>2, TakenType
  <2>2. q[k] \in BookRow  BY <1>2, ElementOfSeq
  <2>3. q[k].qty \in Nat /\ q[k].owner \in Owner /\ (q[k].owner \in Orders => q[k].qty <= Qty[q[k].owner])
    BY <2>2 DEF BookRow, Resting
  <2>4. \A o \in Orders : Qty[o] \in Nat  BY StoreAssumption
  <2> HIDE DEF m
  <2>5. own(k) \in Seq(Fill)
    <3>1. CASE owner = NoOrder  BY <3>1, EmptySeq
    <3>2. CASE owner # NoOrder
      <4>1. owner \in Orders  BY <3>2 DEF Owner
      <4>2. m <= Qty[owner]  BY <2>1, <2>4, <4>1
      <4>3. <<[order |-> owner, qty |-> m]>> \in Seq(Fill)  BY <2>1, <4>1, <4>2, OneFill
      <4> QED  BY <3>2, <4>3 DEF m
    <3> QED  BY <3>1, <3>2
  <2>6. their(k) \in Seq(Fill)
    <3>1. CASE q[k].owner = NoOrder  BY <3>1, EmptySeq
    <3>2. CASE q[k].owner # NoOrder
      <4>1. q[k].owner \in Orders  BY <2>3, <3>2 DEF Owner
      <4>2. m <= Qty[q[k].owner]  BY <2>1, <2>3, <2>4, <4>1
      <4>3. <<[order |-> q[k].owner, qty |-> m]>> \in Seq(Fill)  BY <2>1, <4>1, <4>2, OneFill
      <4> QED  BY <3>2, <4>3 DEF m
    <3> QED  BY <3>1, <3>2
  <2> HIDE DEF own, their
  <2> QED  BY <2>5, <2>6, ConcatProperties
<1> HIDE DEF h, both
<1>4. [k \in 1 .. h |-> both(k)] \in [1 .. h -> Seq(Fill)]  BY <1>3
<1>5. FlattenSeq([k \in 1 .. h |-> both(k)]) \in Seq(Fill)  BY <1>2, <1>4, FlattenType
<1> QED  BY <1>5 DEF DeskFills, h, both

\* The fills of one order in a list.
LEMMA FillsOfType ==
  ASSUME NEW s \in Seq(Fill), NEW o PROVE FillsOf(s, o) \in Nat
<1> DEFINE f == [k \in DOMAIN s |-> IF s[k].order = o THEN s[k].qty ELSE 0]
           A == 1 .. Len(s)
<1>1. \A k \in A : f[k] \in Nat
  <2> SUFFICES ASSUME NEW k \in A PROVE f[k] \in Nat  OBVIOUS
  <2>1. s[k] \in Fill /\ k \in DOMAIN s  BY ElementOfSeq, LenProperties
  <2>2. s[k].qty \in Nat  BY <2>1, StoreAssumption DEF Fill
  <2> QED  BY <2>1, <2>2
<1>2. IsFiniteSet(A)
  <2>1. \A x \in Int : IsFiniteSet(1 .. x)  BY FS_Interval
  <2>2. Len(s) \in Nat  BY LenProperties
  <2> QED  BY <2>1, <2>2
<1>3. DOMAIN f = A  BY LenProperties
<1> HIDE DEF f, A
<1>4. SumFunctionOnSet(f, A) \in Nat  BY <1>1, <1>2, SumNat
<1> QED  BY <1>3, <1>4 DEF FillsOf, f, SumFunction

\* A book without an order is a book.
LEMMA WithoutType ==
  ASSUME NEW q \in Seq(BookRow), NEW id PROVE Without(q, id) \in Seq(BookRow)
<1> DEFINE at == {k \in 1 .. Len(q) : q[k].id = id}
<1>1. CASE at = {}  BY <1>1 DEF Without
<1>2. CASE at # {}
  <2> DEFINE i == CHOOSE k \in at : TRUE
  <2>1. i \in 1 .. Len(q)  BY <1>2
  <2>2. Len(q) \in Nat /\ \A k \in 1 .. Len(q) : q[k] \in BookRow  BY LenProperties, ElementOfSeq
  <2> HIDE DEF i
  <2>3. SubSeq(q, 1, i - 1) \in Seq(BookRow)
    <3>1. \A k \in 1 .. i - 1 : q[k] \in BookRow  BY <2>1, <2>2
    <3>2. i - 1 \in Int  BY <2>1
    <3> QED  BY <3>1, <3>2, SubSeqProperties
  <2>4. SubSeq(q, i + 1, Len(q)) \in Seq(BookRow)
    <3>1. \A k \in i + 1 .. Len(q) : q[k] \in BookRow  BY <2>1, <2>2
    <3>2. i + 1 \in Int /\ Len(q) \in Int  BY <2>1, <2>2
    <3> QED  BY <3>1, <3>2, SubSeqProperties
  <2>5. RemoveAt(q, i) \in Seq(BookRow)  BY <2>3, <2>4, ConcatProperties DEF RemoveAt
  <2> QED  BY <1>2, <2>5 DEF Without, i
<1> QED  BY <1>1, <1>2

-----------------------------------------------------------------------------

\* What a thread's task says of where it is.
TaskOK(x) ==
  /\ x.op \in {"route", "cancel"} => x.order \in Orders
  /\ x.pc = "pull" => x.op = "cancel"
  /\ x.pc \in {"submit", "lock", "publish"} => x.op \in {"route", "post"}
  /\ x.pc = "settle" => x.op = "post" /\ x.todo # <<>>

TasksOK == task \in [Threads -> Task] /\ \A t \in Threads : TaskOK(task[t])
BooksOK ==
  /\ book \in [Replicas -> Seq(BookRow)]
  /\ deskRef \in [Replicas -> [Orders -> Nat]] /\ idSeq \in [Replicas -> Nat]
LocksOK == publisher \in [Replicas -> SUBSET Threads]
BoundsOK == used \in [ops : 0 .. MaxOps, restarts : 0 .. MaxRestarts, failures : 0 .. MaxFailures]
TradesOK == traded \in [Orders -> Nat]

MemoryOK == TasksOK /\ BooksOK /\ LocksOK /\ BoundsOK /\ TradesOK

\* A thread that has nothing to do.
LEMMA NoTaskOK == NoTask \in Task /\ TaskOK(NoTask)
<1>1. 1 \in 1 .. MAX_ATTEMPTS  BY ExecutionAssumption DEF ExecutionAssumption
<1>2. <<>> \in Seq(Fill)  BY EmptySeq
<1> QED  BY <1>1, <1>2 DEF NoTask, Task, TaskOK, Owner

\* A thread gets another task.
LEMMA NewTask ==
  ASSUME TasksOK, NEW t \in Threads, NEW x \in Task, TaskOK(x), task' = [task EXCEPT ![t] = x]
  PROVE  TasksOK'
<1>1. \A u \in Threads : task'[u] = IF u = t THEN x ELSE task[u]  BY DEF TasksOK
<1> QED  BY <1>1 DEF TasksOK

\* A thread goes on to another place of its operation, its fills as they are.
LEMMA NewPlace ==
  ASSUME TasksOK, NEW t \in Threads,
         NEW pc \in {"idle", "pull", "submit", "lock", "publish", "settle", "commit"},
         task' = [task EXCEPT ![t].pc = pc],
         TaskOK([task[t] EXCEPT !.pc = pc])
  PROVE  TasksOK'
<1> DEFINE x == [task[t] EXCEPT !.pc = pc]
<1>1. task[t] \in Task  BY DEF TasksOK
<1>2. x \in Task  BY <1>1 DEF Task
<1> QED  BY <1>2, NewTask

\* Before the first operation.
LEMMA MemoryInit == Init => MemoryOK
<1> SUFFICES ASSUME Init PROVE MemoryOK  OBVIOUS
<1>1. TasksOK  BY NoTaskOK DEF Init, ExecInit, TasksOK
<1>2. BooksOK  BY EmptySeq DEF Init, ExecInit, BooksOK
<1>3. LocksOK /\ TradesOK  BY DEF Init, ExecInit, LocksOK, TradesOK
<1>4. BoundsOK  BY ExecutionAssumption DEF Init, ExecInit, BoundsOK, ExecutionAssumption
<1> QED  BY <1>1, <1>2, <1>3, <1>4 DEF MemoryOK

\* An operation begins.
LEMMA BeginMemory ==
  ASSUME MemoryOK, NEW t \in Threads, NEW o \in Owner,
         NEW op \in {"stage", "route", "cancel", "rfq", "post"},
         NEW pc \in {"pull", "submit", "commit"}, Begin(t, op, o, pc),
         op \in {"route", "cancel"} => o \in Orders,
         pc = "pull" => op = "cancel", pc = "submit" => op \in {"route", "post"}
  PROVE  TasksOK' /\ BoundsOK'
<1> DEFINE x == [NoTask EXCEPT !.op = op, !.order = o, !.pc = pc]
<1>1. task' = [task EXCEPT ![t] = x]  BY DEF Begin
<1>2. x \in Task /\ TaskOK(x)  BY NoTaskOK DEF NoTask, Task, TaskOK
<1> HIDE DEF x
<1>3. TasksOK'  BY <1>1, <1>2, NewTask DEF MemoryOK
<1>4. BoundsOK'
  <2>1. used.ops + 1 \in 0 .. MaxOps
    BY ExecutionAssumption DEF Begin, MemoryOK, BoundsOK, ExecutionAssumption
  <2>2. used' = [used EXCEPT !.ops = used.ops + 1]  BY DEF Begin
  <2> QED  BY <2>1, <2>2 DEF MemoryOK, BoundsOK
<1> QED  BY <1>3, <1>4

\* stage, route, cancel and executeRfqFill begin.
LEMMA StartMemory ==
  ASSUME MemoryOK, NEW t \in Threads, NEW o \in Orders,
         StartStage(t, o) \/ StartRoute(t, o) \/ StartCancel(t, o) \/ StartRfq(t, o)
  PROVE  MemoryOK'
<1>1. o \in Owner  BY DEF Owner
<1>2. TasksOK' /\ BoundsOK'
  <2>1. CASE StartStage(t, o)  BY <1>1, <2>1, BeginMemory DEF StartStage
  <2>2. CASE StartRoute(t, o)  BY <1>1, <2>2, BeginMemory DEF StartRoute
  <2>3. CASE StartCancel(t, o)  BY <1>1, <2>3, BeginMemory DEF StartCancel
  <2>4. CASE StartRfq(t, o)  BY <1>1, <2>4, BeginMemory DEF StartRfq
  <2> QED  BY <2>1, <2>2, <2>3, <2>4
<1>3. UNCHANGED <<book, deskRef, idSeq, publisher, traded>>
  BY DEF StartStage, StartRoute, StartCancel, StartRfq
<1> QED  BY <1>2, <1>3 DEF MemoryOK, BooksOK, LocksOK, TradesOK

\* postLiquidity begins.
LEMMA StartPostMemory ==
  ASSUME MemoryOK, NEW t \in Threads, StartPost(t) PROVE MemoryOK'
<1>1. NoOrder \in Owner  BY DEF Owner
<1>2. TasksOK' /\ BoundsOK'  BY <1>1, BeginMemory DEF StartPost
<1> QED  BY <1>2 DEF StartPost, MemoryOK, BooksOK, LocksOK, TradesOK

\* One book changes, with at most one entry of deskRef.
LEMMA NewBook ==
  ASSUME BooksOK, NEW b \in Replicas, NEW q \in Seq(BookRow), book' = [book EXCEPT ![b] = q],
         deskRef' = deskRef \/ \E o \in Orders, id \in Nat : deskRef' = [deskRef EXCEPT ![b][o] = id],
         idSeq' \in [Replicas -> Nat]
  PROVE  BooksOK'
<1>1. book' \in [Replicas -> Seq(BookRow)]  BY DEF BooksOK
<1>2. deskRef' \in [Replicas -> [Orders -> Nat]]
  <2>1. CASE deskRef' = deskRef  BY <2>1 DEF BooksOK
  <2>2. CASE deskRef' # deskRef
    <3> PICK o \in Orders, id \in Nat : deskRef' = [deskRef EXCEPT ![b][o] = id]  BY <2>2
    <3>1. [deskRef[b] EXCEPT ![o] = id] \in [Orders -> Nat]  BY DEF BooksOK
    <3> QED  BY <3>1 DEF BooksOK
  <2> QED  BY <2>1, <2>2
<1> QED  BY <1>1, <1>2 DEF BooksOK

\* A quote is pulled.
LEMMA PullQuoteMemory ==
  ASSUME MemoryOK, NEW t \in Threads, PullQuote(t) PROVE MemoryOK'
<1> DEFINE b == ReplicaOf[t]
<1>1. b \in Replicas  BY ExecutionAssumption DEF ExecutionAssumption
<1>2. PICK k \in 1 .. Len(book[b]) : book' = [book EXCEPT ![b] = Without(book[b], book[b][k].id)]
  BY DEF PullQuote
<1>3. Without(book[b], book[b][k].id) \in Seq(BookRow)
  BY <1>1, WithoutType DEF MemoryOK, BooksOK
<1>4. UNCHANGED <<deskRef, idSeq, publisher, task, traded, used>>  BY DEF PullQuote
<1> HIDE DEF b
<1>5. BooksOK'  BY <1>1, <1>2, <1>3, <1>4, NewBook DEF MemoryOK, BooksOK
<1> QED  BY <1>4, <1>5 DEF MemoryOK, TasksOK, LocksOK, BoundsOK, TradesOK

\* A cancelled order is pulled.
LEMMA PullFromBookMemory ==
  ASSUME MemoryOK, NEW t \in Threads, PullFromBook(t) PROVE MemoryOK'
<1> DEFINE b == ReplicaOf[t]
           o == task[t].order
<1>1. b \in Replicas  BY ExecutionAssumption DEF ExecutionAssumption
<1>2. task[t] \in Task /\ TaskOK(task[t]) /\ task[t].pc = "pull"
  BY DEF MemoryOK, TasksOK, PullFromBook
<1>3. o \in Orders  BY <1>2 DEF TaskOK
<1>4. Without(book[b], deskRef[b][o]) \in Seq(BookRow)
  BY <1>1, WithoutType DEF MemoryOK, BooksOK
<1>5. /\ book' = [book EXCEPT ![b] = Without(book[b], deskRef[b][o])]
      /\ deskRef' = [deskRef EXCEPT ![b][o] = 0]
      /\ task' = [task EXCEPT ![t].pc = "commit"]
      /\ UNCHANGED <<idSeq, publisher, traded, used>>
  BY DEF PullFromBook
<1> HIDE DEF b, o
<1>6. BooksOK'
  <2>1. \E x \in Orders, id \in Nat : deskRef' = [deskRef EXCEPT ![b][x] = id]  BY <1>3, <1>5
  <2> QED  BY <1>1, <1>4, <1>5, <2>1, NewBook DEF MemoryOK, BooksOK
<1>7. TasksOK'
  <2>1. TaskOK([task[t] EXCEPT !.pc = "commit"])  BY <1>2 DEF TaskOK, Task
  <2> QED  BY <1>5, <2>1, NewPlace DEF MemoryOK
<1> QED  BY <1>5, <1>6, <1>7 DEF MemoryOK, LocksOK, BoundsOK, TradesOK

\* OrderBook.submit keeps the books well formed and its fills within their orders.
LEMMA SubmitMemory ==
  ASSUME MemoryOK, NEW t \in Threads, NEW owner \in Owner, NEW side \in {"BUY", "SELL"},
         NEW n \in Nat, owner \in Orders => n <= Qty[owner], Submit(t, owner, side, n),
         task[t].pc = "submit", UNCHANGED <<publisher, used>>
  PROVE  MemoryOK'
<1> DEFINE b     == ReplicaOf[t]
           q     == IF Opposes(book[b], side) THEN book[b] ELSE <<>>
           id    == idSeq[b] + 1
           rest  == n - Filled(q, n)
           rests == rest > 0 /\ owner \notin MarketOrders
           fills == DeskFills(owner, side, q, n)
           kept  == IF q = <<>> THEN book[b] ELSE Reduced(q, n)
           row   == [id |-> id, owner |-> owner, side |-> side, qty |-> rest]
           new   == IF rests THEN Append(kept, row) ELSE kept
<1>1. b \in Replicas  BY ExecutionAssumption DEF ExecutionAssumption
<1>2. book[b] \in Seq(BookRow) /\ q \in Seq(BookRow)  BY <1>1, EmptySeq DEF MemoryOK, BooksOK
<1>3. id \in Nat  BY <1>1 DEF MemoryOK, BooksOK
<1>4. /\ book' = [book EXCEPT ![b] = new] /\ idSeq' = [idSeq EXCEPT ![b] = id]
      /\ deskRef' = IF rests /\ owner # NoOrder THEN [deskRef EXCEPT ![b][owner] = id] ELSE deskRef
      /\ traded' = [o \in Orders |-> traded[o] + FillsOf(fills, o)]
      /\ task' = [task EXCEPT ![t].todo = fills, ![t].pc = "lock"]
  BY DEF Submit
<1> HIDE DEF b, q, id
<1>5. fills \in Seq(Fill)  BY <1>2, DeskFillsType
<1>6. kept \in Seq(BookRow)  BY <1>2, ReducedType
<1>7. rest \in Int /\ rest <= n
  <2>1. Filled(q, n) \in Nat  BY <1>2, BookRowIsResting, FilledType
  <2> QED  BY <2>1
<1> HIDE DEF rest, fills, kept
<1>8. ASSUME rests PROVE row \in BookRow
  <2>1. rest \in Nat \ {0}  BY <1>7, <1>8
  <2>2. row \in Resting  BY <1>3, <2>1 DEF Resting
  <2>3. row.owner = owner /\ row.qty = rest  OBVIOUS
  <2>4. owner \in Orders => rest <= Qty[owner]
    <3>1. \A o \in Orders : Qty[o] \in Nat  BY StoreAssumption
    <3> QED  BY <1>7, <3>1
  <2> HIDE DEF row
  <2>5. row \in Resting /\ (row.owner \in Orders => row.qty <= Qty[row.owner])  BY <2>2, <2>3, <2>4
  <2> QED  BY <2>5 DEF BookRow
<1> HIDE DEF row
<1>9. new \in Seq(BookRow)  BY <1>6, <1>8, AppendProperties
<1> HIDE DEF new, rests
<1>10. BooksOK'
  <2>1. deskRef' = deskRef \/ \E x \in Orders, i \in Nat : deskRef' = [deskRef EXCEPT ![b][x] = i]
    <3>1. owner # NoOrder => owner \in Orders  BY DEF Owner
    <3> QED  BY <1>3, <1>4, <3>1
  <2>2. idSeq' \in [Replicas -> Nat]  BY <1>3, <1>4 DEF MemoryOK, BooksOK
  <2> QED  BY <1>1, <1>4, <1>9, <2>1, <2>2, NewBook DEF MemoryOK
<1>11. TasksOK'
  <2> DEFINE x == [task[t] EXCEPT !.todo = fills, !.pc = "lock"]
  <2>1. task[t] \in Task /\ TaskOK(task[t])  BY DEF MemoryOK, TasksOK
  <2>2. x \in Task  BY <1>5, <2>1 DEF Task
  <2>3. x.op = task[t].op /\ x.order = task[t].order /\ x.pc = "lock"  BY <2>1 DEF Task
  <2>4. task' = [task EXCEPT ![t] = x]  BY <1>4 DEF MemoryOK, TasksOK
  <2> HIDE DEF x
  <2>5. TaskOK(x)  BY <2>1, <2>3 DEF TaskOK
  <2> QED  BY <2>2, <2>4, <2>5, NewTask DEF MemoryOK
<1>12. TradesOK'
  <2>1. \A o \in Orders : FillsOf(fills, o) \in Nat  BY <1>5, FillsOfType
  <2> QED  BY <1>4, <2>1 DEF MemoryOK, TradesOK
<1> QED  BY <1>10, <1>11, <1>12 DEF MemoryOK, LocksOK, BoundsOK

\* route() submits what remains of its order.
LEMMA SubmitOrderMemory ==
  ASSUME StoreInv, MemoryOK, NEW t \in Threads, SubmitOrder(t) PROVE MemoryOK'
<1> DEFINE o == task[t].order
           n == Qty[o] - OrderSeen(t, o).filled
<1>1. task[t].pc = "submit" /\ task[t].op = "route" /\ TaskOK(task[t])
  BY DEF SubmitOrder, MemoryOK, TasksOK
<1>2. o \in Orders  BY <1>1 DEF TaskOK
<1>3. n \in Nat /\ n <= Qty[o]
  <2>1. OrderSeen(t, o).filled \in Nat /\ OrderSeen(t, o).filled <= Qty[o]
    BY <1>2, SeenOK DEF RowOK, OrderRow
  <2>2. Qty[o] \in Nat  BY <1>2, StoreAssumption
  <2> QED  BY <2>1, <2>2
<1>4. o \in Owner /\ Side[o] \in {"BUY", "SELL"}  BY <1>2, StoreAssumption DEF Owner
<1>5. Submit(t, o, Side[o], n) /\ UNCHANGED <<publisher, used>>  BY DEF SubmitOrder
<1> HIDE DEF n, o
<1> QED  BY <1>1, <1>3, <1>4, <1>5, SubmitMemory

\* postLiquidity() submits its quote.
LEMMA PostLiquidityMemory ==
  ASSUME MemoryOK, NEW t \in Threads, PostLiquidity(t) PROVE MemoryOK'
<1>1. PICK side \in {"BUY", "SELL"} : Submit(t, NoOrder, side, SIZE)  BY DEF PostLiquidity
<1>2. NoOrder \in Owner /\ NoOrder \notin Orders /\ SIZE \in Nat
  BY ExecutionAssumption DEF Owner, ExecutionAssumption
<1>3. task[t].pc = "submit" /\ UNCHANGED <<publisher, used>>  BY DEF PostLiquidity
<1> QED  BY <1>1, <1>2, <1>3, SubmitMemory

\* The publish lock is taken.
LEMMA TakePublishLockMemory ==
  ASSUME MemoryOK, NEW t \in Threads, TakePublishLock(t) PROVE MemoryOK'
<1>1. task[t] \in Task /\ TaskOK(task[t]) /\ task[t].pc = "lock"
  BY DEF MemoryOK, TasksOK, TakePublishLock
<1>2. TaskOK([task[t] EXCEPT !.pc = "publish"])  BY <1>1 DEF TaskOK, Task
<1>3. TasksOK'  BY <1>2, NewPlace DEF MemoryOK, TakePublishLock
<1>4. LocksOK'
  BY ExecutionAssumption DEF TakePublishLock, MemoryOK, LocksOK, ExecutionAssumption
<1>5. UNCHANGED <<book, deskRef, idSeq, traded, used>>  BY DEF TakePublishLock
<1> QED  BY <1>3, <1>4, <1>5 DEF MemoryOK, BooksOK, BoundsOK, TradesOK

\* A fill is done with: the rest of the list remains.
LEMMA FillDoneTask ==
  ASSUME TasksOK, NEW t \in Threads, task[t].todo # <<>>, task[t].pc \in {"publish", "settle"},
         FillDone(t)
  PROVE  TasksOK'
<1> DEFINE x == [task[t] EXCEPT !.todo = Tail(task[t].todo), !.attempt = 1, !.pc = "publish"]
<1>1. task[t] \in Task /\ TaskOK(task[t])  BY DEF TasksOK
<1>2. Tail(task[t].todo) \in Seq(Fill)  BY <1>1, HeadTailProperties DEF Task
<1>3. 1 \in 1 .. MAX_ATTEMPTS  BY ExecutionAssumption DEF ExecutionAssumption
<1>4. x \in Task  BY <1>1, <1>2, <1>3 DEF Task
<1>5. x.op = task[t].op /\ x.order = task[t].order /\ x.pc = "publish"  BY <1>1 DEF Task
<1>6. task' = [task EXCEPT ![t] = x]  BY DEF FillDone, TasksOK
<1> HIDE DEF x
<1>7. TaskOK(x)  BY <1>1, <1>5 DEF TaskOK
<1> QED  BY <1>4, <1>6, <1>7, NewTask

\* A fill is recorded, refused, skipped or settled.
LEMMA FillMemory ==
  ASSUME MemoryOK, NEW t \in Threads,
         PublishJoined(t) \/ RefuseJoined(t) \/ SkipFill(t) \/ SettleFill(t)
  PROVE  MemoryOK'
<1>1. FillDone(t) /\ UNCHANGED <<book, deskRef, idSeq, publisher, traded, used>>
  BY DEF PublishJoined, RefuseJoined, SkipFill, SettleFill
<1>2. task[t].todo # <<>> /\ task[t].pc \in {"publish", "settle"}
  <2>1. TaskOK(task[t])  BY DEF MemoryOK, TasksOK
  <2> QED  BY <2>1 DEF TaskOK, PublishJoined, RefuseJoined, SkipFill, SettleFill, Publishing
<1>3. TasksOK'  BY <1>1, <1>2, FillDoneTask DEF MemoryOK
<1> QED  BY <1>1, <1>3 DEF MemoryOK, BooksOK, LocksOK, BoundsOK, TradesOK

\* A fill opens a transaction of its own.
LEMMA PublishAloneMemory ==
  ASSUME MemoryOK, NEW t \in Threads, PublishAlone(t) PROVE MemoryOK'
<1>1. task[t] \in Task /\ TaskOK(task[t]) /\ task[t].op = "post" /\ task[t].todo # <<>>
  BY DEF MemoryOK, TasksOK, PublishAlone, Publishing
<1>2. TaskOK([task[t] EXCEPT !.pc = "settle"])  BY <1>1 DEF TaskOK, Task
<1>3. TasksOK'  BY <1>2, NewPlace DEF MemoryOK, PublishAlone
<1>4. UNCHANGED <<book, deskRef, idSeq, publisher, traded, used>>  BY DEF PublishAlone
<1> QED  BY <1>3, <1>4 DEF MemoryOK, BooksOK, LocksOK, BoundsOK, TradesOK

\* Another attempt is made.
LEMMA RetryMemory ==
  ASSUME MemoryOK, NEW t \in Threads, RetryFill(t) PROVE MemoryOK'
<1> DEFINE x == [task[t] EXCEPT !.pc = "publish", !.attempt = task[t].attempt + 1]
<1>1. task[t] \in Task /\ TaskOK(task[t]) /\ task[t].pc = "settle"
  BY DEF MemoryOK, TasksOK, RetryFill
<1>2. task[t].attempt + 1 \in 1 .. MAX_ATTEMPTS
  BY <1>1, ExecutionAssumption DEF RetryFill, LastAttempt, Task, ExecutionAssumption
<1>3. x \in Task  BY <1>1, <1>2 DEF Task
<1>4. x.op = task[t].op /\ x.order = task[t].order /\ x.pc = "publish"  BY <1>1 DEF Task
<1>5. task' = [task EXCEPT ![t] = x]  BY DEF RetryFill, MemoryOK, TasksOK
<1> HIDE DEF x
<1>6. TaskOK(x)  BY <1>1, <1>4 DEF TaskOK
<1>7. TasksOK'  BY <1>3, <1>5, <1>6, NewTask DEF MemoryOK
<1>8. UNCHANGED <<book, deskRef, idSeq, publisher, traded, used>>  BY DEF RetryFill
<1> QED  BY <1>7, <1>8 DEF MemoryOK, BooksOK, LocksOK, BoundsOK, TradesOK

\* Another failure is counted.
LEMMA FailureCounts ==
  ASSUME BoundsOK,
         \/ UNCHANGED used
         \/ used.failures < MaxFailures /\ used' = [used EXCEPT !.failures = @ + 1]
  PROVE  BoundsOK'
<1>1. CASE UNCHANGED used  BY <1>1 DEF BoundsOK
<1>2. CASE ~ UNCHANGED used
  <2>1. used.failures + 1 \in 0 .. MaxFailures  BY <1>2, ExecutionAssumption DEF BoundsOK, ExecutionAssumption
  <2>2. used' = [used EXCEPT !.failures = used.failures + 1]  BY <1>2
  <2> QED  BY <2>1, <2>2 DEF BoundsOK
<1> QED  BY <1>1, <1>2

\* A fill is given up.
LEMMA LoseMemory ==
  ASSUME MemoryOK, NEW t \in Threads, LoseFill(t) PROVE MemoryOK'
<1>1. TaskOK(task[t]) /\ task[t].pc = "settle"  BY DEF MemoryOK, TasksOK, LoseFill
<1>2. TasksOK'  BY <1>1, FillDoneTask DEF MemoryOK, LoseFill, TaskOK
<1>3. BoundsOK'  BY FailureCounts DEF MemoryOK, LoseFill
<1>4. UNCHANGED <<book, deskRef, idSeq, publisher, traded>>  BY DEF LoseFill
<1> QED  BY <1>2, <1>3, <1>4 DEF MemoryOK, BooksOK, LocksOK, TradesOK

\* The publish lock is released.
LEMMA ReleaseMemory ==
  ASSUME MemoryOK, NEW t \in Threads, ReleasePublishLock(t) PROVE MemoryOK'
<1> DEFINE x == IF task[t].op = "route" THEN [task[t] EXCEPT !.pc = "commit"] ELSE NoTask
<1>1. task[t] \in Task /\ TaskOK(task[t])  BY DEF MemoryOK, TasksOK
<1>2. x \in Task /\ TaskOK(x)
  <2>1. CASE task[t].op = "route"  BY <1>1, <2>1 DEF Task, TaskOK
  <2>2. CASE task[t].op # "route"  BY <2>2, NoTaskOK
  <2> QED  BY <2>1, <2>2
<1>3. task' = [task EXCEPT ![t] = x]  BY DEF ReleasePublishLock, MemoryOK, TasksOK
<1> HIDE DEF x
<1>4. TasksOK'  BY <1>2, <1>3, NewTask DEF MemoryOK
<1>5. LocksOK'
  BY ExecutionAssumption DEF ReleasePublishLock, MemoryOK, LocksOK, ExecutionAssumption
<1>6. UNCHANGED <<book, deskRef, idSeq, traded, used>>  BY DEF ReleasePublishLock
<1> QED  BY <1>4, <1>5, <1>6 DEF MemoryOK, BooksOK, BoundsOK, TradesOK

\* An operation ends.
LEMMA EndMemory ==
  ASSUME MemoryOK, NEW t \in Threads, FinishOp(t) \/ FailOp(t) PROVE MemoryOK'
<1>1. task' = [task EXCEPT ![t] = NoTask] /\ UNCHANGED <<book, deskRef, idSeq, publisher, traded>>
  BY DEF FinishOp, FailOp
<1>2. TasksOK'  BY <1>1, NoTaskOK, NewTask DEF MemoryOK
<1>3. BoundsOK'  BY FailureCounts DEF MemoryOK, FinishOp, FailOp
<1> QED  BY <1>1, <1>2, <1>3 DEF MemoryOK, BooksOK, LocksOK, TradesOK

\* A replica restarts.
LEMMA RestartMemory ==
  ASSUME MemoryOK, NEW b \in Replicas, Restart(b) PROVE MemoryOK'
<1>1. TasksOK'
  <2>1. task' = [t \in Threads |-> IF ReplicaOf[t] = b THEN NoTask ELSE task[t]]  BY DEF Restart
  <2>2. \A t \in Threads : task[t] \in Task /\ TaskOK(task[t])  BY DEF MemoryOK, TasksOK
  <2>3. \A t \in Threads : task'[t] \in Task /\ TaskOK(task'[t])
    <3> SUFFICES ASSUME NEW t \in Threads PROVE task'[t] \in Task /\ TaskOK(task'[t])  OBVIOUS
    <3>1. task'[t] = NoTask \/ task'[t] = task[t]  BY <2>1
    <3> QED  BY <2>2, <3>1, NoTaskOK
  <2>4. task' \in [Threads -> Task]  BY <2>1, <2>3
  <2> QED  BY <2>3, <2>4 DEF TasksOK
<1>2. BooksOK'
  <2>1. book' = [book EXCEPT ![b] = <<>>] /\ deskRef' = [deskRef EXCEPT ![b] = [o \in Orders |-> 0]]
        /\ idSeq' = [idSeq EXCEPT ![b] = 0]
    BY DEF Restart
  <2> QED  BY <2>1, EmptySeq DEF MemoryOK, BooksOK
<1>3. BoundsOK'
  <2>1. used.restarts + 1 \in 0 .. MaxRestarts /\ used' = [used EXCEPT !.restarts = used.restarts + 1]
    BY ExecutionAssumption DEF Restart, MemoryOK, BoundsOK, ExecutionAssumption
  <2> QED  BY <2>1 DEF MemoryOK, BoundsOK
<1>4. LocksOK' /\ TradesOK'
  <2>1. publisher' = [publisher EXCEPT ![b] = {}] /\ traded' = traded  BY DEF Restart
  <2> QED  BY <2>1 DEF MemoryOK, LocksOK, TradesOK
<1> QED  BY <1>1, <1>2, <1>3, <1>4 DEF MemoryOK

\* Every step of the OMS keeps what is in memory well formed.
LEMMA MemoryNext == StoreInv /\ MemoryOK /\ [Next]_vars => MemoryOK'
<1> SUFFICES ASSUME StoreInv, MemoryOK, [Next]_vars PROVE MemoryOK'
  OBVIOUS
<1>1. CASE UNCHANGED vars
  BY <1>1 DEF vars, execVars, MemoryOK, TasksOK, BooksOK, LocksOK, BoundsOK, TradesOK
<1>2. CASE \E o \in Orders : NewOrder(o)
  BY <1>2 DEF NewOrder, execVars, MemoryOK, TasksOK, BooksOK, LocksOK, BoundsOK, TradesOK
<1>3. ASSUME NEW t \in Threads, ClientStep(t) PROVE MemoryOK'
  BY <1>3, StartMemory, SubmitOrderMemory, PullFromBookMemory, FillMemory, EndMemory DEF ClientStep
<1>4. ASSUME NEW t \in Threads, MakerStep(t) PROVE MemoryOK'
  BY <1>4, PullQuoteMemory, StartPostMemory, PostLiquidityMemory, PublishAloneMemory, FillMemory,
     RetryMemory, LoseMemory DEF MakerStep
<1>5. CASE \E t \in Threads : TakePublishLock(t) \/ ReleasePublishLock(t)
  BY <1>5, TakePublishLockMemory, ReleaseMemory
<1>6. CASE \E b \in Replicas : Restart(b)  BY <1>6, RestartMemory
<1> QED
  BY <1>1, <1>2, <1>3, <1>4, <1>5, <1>6, ExecutionAssumption DEF Next, ExecutionAssumption

\* Hence the type invariant.
LEMMA MemoryGivesTypes == StoreInv /\ MemoryOK => ExecTypeOK
<1> SUFFICES ASSUME StoreInv, MemoryOK PROVE ExecTypeOK  OBVIOUS
<1>1. book \in [Replicas -> Seq(Resting)]
  <2>1. \A b \in Replicas : book[b] \in Seq(Resting)
    BY BookRowIsResting DEF MemoryOK, BooksOK
  <2> QED  BY <2>1 DEF MemoryOK, BooksOK
<1> QED  BY <1>1 DEF ExecTypeOK, StoreInv, MemoryOK, TasksOK, BooksOK, LocksOK, BoundsOK, TradesOK

(***************************************************************************)
(* For any constants: tables, books, tasks and locks keep their types, and *)
(* every position is the signed sum of the fills of its orders, whatever   *)
(* two transactions write at a time and whichever of them is retried, is   *)
(* rolled back or dies.                                                    *)
(***************************************************************************)
THEOREM PositionsAlwaysAddUp == Spec => []PositionsAddUp
<1> DEFINE Inv == PositionInv /\ MemoryOK
<1>1. Init => Inv
  BY PositionInvInit, MemoryInit DEF Init
<1>2. Inv /\ [Next]_vars => Inv'
  BY StepUsesStore, PositionInvNext, MemoryNext DEF PositionInv
<1>3. Inv => PositionsAddUp
  BY PositionInvGivesSums, MemoryGivesTypes DEF PositionInv, PositionsAddUp
<1> QED  BY <1>1, <1>2, <1>3, PTL DEF Spec

-----------------------------------------------------------------------------

(***************************************************************************)
(* Fills and trades.                                                       *)
(***************************************************************************)
\* What the open transaction c has added to order o, while its copy is current.
Uncommitted(c, R, o) ==
  IF o \in c.loaded /\ c.row[o].version = R[o].version THEN c.row[o].filled - R[o].filled ELSE 0

\* What a thread may still add to the committed fills of order o.
Claim(x, c, R, o) == FillsOf(x.todo, o) + (IF x.pc = "settle" THEN 0 ELSE Uncommitted(c, R, o))

HeadOf(s, o) == IF Head(s).order = o THEN Head(s).qty ELSE 0

SettleOK(x, c, R) ==
  /\ x.pc = "settle" => \A o \in Orders : Uncommitted(c, R, o) <= HeadOf(x.todo, o)
  /\ (x.op = "none" \/ (x.op = "post" /\ x.pc # "settle")) => c.loaded = {}

Claims(o) == SumFunctionOnSet([t \in Threads |-> Claim(task[t], ctx[t], orders, o)], Threads)

ClaimsInv ==
  /\ \A t \in Threads : SettleOK(task[t], ctx[t], orders)
  /\ \A o \in Orders \ RfqOrders : orders[o].filled + Claims(o) <= traded[o]

\* An empty list has no fills.
LEMMA FillsOfNone == \A o : FillsOf(<<>>, o) = 0
<1> SUFFICES ASSUME NEW o PROVE FillsOf(<<>>, o) = 0  OBVIOUS
<1> DEFINE f == [k \in DOMAIN <<>> |-> IF <<>>[k].order = o THEN <<>>[k].qty ELSE 0]
<1>1. DOMAIN f = {}  OBVIOUS
<1> HIDE DEF f
<1>2. SumFunctionOnSet(f, DOMAIN f) = 0  BY <1>1, SumEmpty
<1> QED  BY <1>2 DEF FillsOf, SumFunction, f

\* The fields of a fill.
LEMMA FillFields == \A x \in Fill : x.order \in Orders /\ x.qty \in Nat
  BY StoreAssumption DEF Fill

\* The fills of a list are those of its head and of its tail.
LEMMA FillsOfTail ==
  ASSUME NEW s \in Seq(Fill), s # <<>>, NEW o
  PROVE  /\ FillsOf(s, o) = HeadOf(s, o) + FillsOf(Tail(s), o)
         /\ HeadOf(s, o) \in Nat /\ FillsOf(Tail(s), o) \in Nat
<1> DEFINE f == [k \in DOMAIN s |-> IF s[k].order = o THEN s[k].qty ELSE 0]
           g == [k \in DOMAIN Tail(s) |-> IF Tail(s)[k].order = o THEN Tail(s)[k].qty ELSE 0]
           n == Len(s) - 1
<1>1. n \in Nat /\ Len(s) = n + 1  BY EmptySeq
<1>2. /\ Tail(s) \in Seq(Fill) /\ Len(Tail(s)) = n
      /\ \A k \in 1 .. n : Tail(s)[k] = s[k + 1]
  BY HeadTailProperties
<1>3. DOMAIN s = 1 .. n + 1 /\ DOMAIN Tail(s) = 1 .. n  BY <1>1, <1>2, LenProperties
<1>4. \A k \in 1 .. n + 1 : s[k].qty \in Nat
  <2> SUFFICES ASSUME NEW k \in 1 .. n + 1 PROVE s[k].qty \in Nat  OBVIOUS
  <2>1. s[k] \in Fill  BY <1>1, ElementOfSeq
  <2> QED  BY <2>1, FillFields
<1>5. Head(s) = s[1]  OBVIOUS
<1> HIDE DEF n
<1>6. \A k \in 1 .. n + 1 : f[k] \in Int  BY <1>3, <1>4
<1>7. \A k \in 1 .. n : g[k] = f[k + 1]
  <2> SUFFICES ASSUME NEW k \in 1 .. n PROVE g[k] = f[k + 1]  OBVIOUS
  <2>1. k + 1 \in 1 .. n + 1  BY <1>1
  <2>2. Tail(s)[k] = s[k + 1]  BY <1>2
  <2> QED  BY <1>3, <2>1, <2>2
<1>8. f[1] = HeadOf(s, o) /\ HeadOf(s, o) \in Nat
  <2>1. 1 \in 1 .. n + 1  BY <1>1
  <2> QED  BY <1>3, <1>4, <1>5, <2>1 DEF HeadOf
<1>9. DOMAIN f = 1 .. n + 1 /\ DOMAIN g = 1 .. n  BY <1>3
<1> HIDE DEF f, g
<1>10. SumFunctionOnSet(f, 1 .. n + 1) = f[1] + SumFunctionOnSet(g, 1 .. n)
  BY <1>1, <1>6, <1>7, SumShift
<1>11. FillsOf(s, o) = SumFunctionOnSet(f, 1 .. n + 1) /\ FillsOf(Tail(s), o) = SumFunctionOnSet(g, 1 .. n)
  BY <1>9 DEF FillsOf, SumFunction, f, g
<1>12. FillsOf(Tail(s), o) \in Nat  BY <1>2, FillsOfType
<1> QED  BY <1>8, <1>10, <1>11, <1>12

\* A step of OrderLifecycle takes no fill away.
LEMMA LegalFilled ==
  ASSUME NEW o \in Orders, NEW r \in OrderRow, NEW s \in OrderRow, RowOK(o, r), RowOK(o, s), LegalStep(o, r, s)
  PROVE  r.filled <= s.filled
  BY StoreAssumption DEF OrderRow, RowOK, LegalStep

\* A current copy has no fewer fills than the committed row,
LEMMA UncommittedType ==
  ASSUME StoreInv, NEW t \in Threads, NEW o \in Orders
  PROVE  Uncommitted(ctx[t], orders, o) \in Nat
<1>1. orders[o] \in OrderRow /\ RowOK(o, orders[o]) /\ ctx[t].row[o] \in OrderRow
  BY FillsMatchStatusRows DEF StoreInv, StoreTypeOK, Context
<1>2. CASE o \in ctx[t].loaded /\ ctx[t].row[o].version = orders[o].version
  <2>1. RowOK(o, ctx[t].row[o]) /\ LegalStep(o, orders[o], ctx[t].row[o])
    BY <1>2 DEF StoreInv, CopiesOK, CopyOK
  <2>2. orders[o].filled <= ctx[t].row[o].filled  BY <1>1, <2>1, LegalFilled
  <2> QED  BY <1>1, <1>2, <2>2 DEF Uncommitted, OrderRow
<1>3. CASE ~(o \in ctx[t].loaded /\ ctx[t].row[o].version = orders[o].version)
  BY <1>3 DEF Uncommitted
<1> QED  BY <1>2, <1>3

\* and so it is after a step.
LEMMA UncommittedTypeNext ==
  ASSUME StoreInv', NEW t \in Threads, NEW o \in Orders
  PROVE  Uncommitted(ctx'[t], orders', o) \in Nat
<1>1. orders'[o] \in OrderRow /\ RowOK(o, orders'[o]) /\ ctx'[t].row[o] \in OrderRow
  <2>1. RowOK(o, orders'[o])  BY DEF StoreInv, FillsMatchStatus, RowOK
  <2> QED  BY <2>1 DEF StoreInv, StoreTypeOK, Context
<1>2. CASE o \in ctx'[t].loaded /\ ctx'[t].row[o].version = orders'[o].version
  <2>1. RowOK(o, ctx'[t].row[o]) /\ LegalStep(o, orders'[o], ctx'[t].row[o])
    BY <1>2 DEF StoreInv, CopiesOK, CopyOK
  <2>2. orders'[o].filled <= ctx'[t].row[o].filled  BY <1>1, <2>1, LegalFilled
  <2> QED  BY <1>1, <1>2, <2>2 DEF Uncommitted, OrderRow
<1>3. CASE ~(o \in ctx'[t].loaded /\ ctx'[t].row[o].version = orders'[o].version)
  BY <1>3 DEF Uncommitted
<1> QED  BY <1>2, <1>3

\* Claims are natural numbers.
LEMMA ClaimType ==
  ASSUME NEW x \in Task, NEW c, NEW R, NEW o, Uncommitted(c, R, o) \in Nat
  PROVE  Claim(x, c, R, o) \in Nat
<1>1. FillsOf(x.todo, o) \in Nat  BY FillsOfType DEF Task
<1> QED  BY <1>1 DEF Claim

(***************************************************************************)
(* A step of thread t gives what it adds to the claims and the fills of an *)
(* order back in trades, and leaves the other threads no more than before. *)
(***************************************************************************)
ThreadStep(t) ==
  /\ SettleOK(task'[t], ctx'[t], orders')
  /\ \A o \in Orders \ RfqOrders :
       orders'[o].filled + Claim(task'[t], ctx'[t], orders', o) + traded[o]
         <= orders[o].filled + Claim(task[t], ctx[t], orders, o) + traded'[o]
  /\ \A u \in Threads \ {t} :
       /\ task'[u] = task[u] /\ ctx'[u] = ctx[u]
       /\ \A o \in Orders : Uncommitted(ctx[u], orders', o) <= Uncommitted(ctx[u], orders, o)

\* The other threads claim no more after a step of one.
LEMMA OthersClaim ==
  ASSUME StoreInv, StoreInv', TasksOK, NEW t \in Threads, NEW u \in Threads \ {t}, ThreadStep(t), ClaimsInv
  PROVE  /\ SettleOK(task'[u], ctx'[u], orders')
         /\ \A o \in Orders : Claim(task'[u], ctx'[u], orders', o) <= Claim(task[u], ctx[u], orders, o)
<1>1. task'[u] = task[u] /\ ctx'[u] = ctx[u]
      /\ \A o \in Orders : Uncommitted(ctx[u], orders', o) <= Uncommitted(ctx[u], orders, o)
  BY DEF ThreadStep
<1>2. SettleOK(task[u], ctx[u], orders)  BY DEF ClaimsInv
<1>3. \A o \in Orders : Uncommitted(ctx[u], orders, o) \in Nat /\ Uncommitted(ctx[u], orders', o) \in Nat
  <2> SUFFICES ASSUME NEW o \in Orders
               PROVE Uncommitted(ctx[u], orders, o) \in Nat /\ Uncommitted(ctx[u], orders', o) \in Nat
    OBVIOUS
  <2>1. Uncommitted(ctx'[u], orders', o) \in Nat  BY UncommittedTypeNext
  <2> QED  BY <1>1, <2>1, UncommittedType
<1>4. task[u] \in Task /\ TaskOK(task[u])  BY DEF TasksOK
<1>5. SettleOK(task[u], ctx[u], orders')
  <2>1. ASSUME task[u].pc = "settle", NEW o \in Orders
        PROVE  Uncommitted(ctx[u], orders', o) <= HeadOf(task[u].todo, o)
    <3>1. Uncommitted(ctx[u], orders, o) <= HeadOf(task[u].todo, o)  BY <1>2, <2>1 DEF SettleOK
    <3>2. HeadOf(task[u].todo, o) \in Nat
      BY <1>4, <2>1, FillsOfTail DEF Task, TaskOK
    <3> QED  BY <1>1, <1>3, <3>1, <3>2
  <2> QED  BY <1>2, <2>1 DEF SettleOK
<1>6. ASSUME NEW o \in Orders PROVE Claim(task[u], ctx[u], orders', o) <= Claim(task[u], ctx[u], orders, o)
  <2>1. FillsOf(task[u].todo, o) \in Nat  BY <1>4, FillsOfType DEF Task
  <2> QED  BY <1>1, <1>3, <2>1 DEF Claim
<1> QED  BY <1>1, <1>5, <1>6

\* Such a step keeps claims and fills within what is traded.
LEMMA ThreadStepKeepsClaims ==
  ASSUME StoreInv, StoreInv', MemoryOK, MemoryOK', ClaimsInv, NEW t \in Threads, ThreadStep(t)
  PROVE  ClaimsInv'
<1>1. TasksOK /\ TasksOK'  BY DEF MemoryOK
<1>2. \A u \in Threads : SettleOK(task'[u], ctx'[u], orders')
  BY <1>1, OthersClaim DEF ThreadStep
<1>3. ASSUME NEW o \in Orders \ RfqOrders
      PROVE  orders'[o].filled + SumFunctionOnSet([u \in Threads |-> Claim(task'[u], ctx'[u], orders', o)], Threads)
               <= traded'[o]
  <2> DEFINE f == [u \in Threads |-> Claim(task[u], ctx[u], orders, o)]
             g == [u \in Threads |-> Claim(task'[u], ctx'[u], orders', o)]
  <2>1. IsFiniteSet(Threads)  BY ExecutionAssumption DEF ExecutionAssumption
  <2>2. ASSUME NEW u \in Threads PROVE f[u] \in Int /\ g[u] \in Int
    <3>1. task[u] \in Task /\ task'[u] \in Task  BY <1>1 DEF TasksOK
    <3>2. Claim(task[u], ctx[u], orders, o) \in Nat  BY <3>1, UncommittedType, ClaimType
    <3>3. Claim(task'[u], ctx'[u], orders', o) \in Nat  BY <3>1, UncommittedTypeNext, ClaimType
    <3> QED  BY <3>2, <3>3
  <2>3. \A u \in Threads \ {t} : g[u] <= f[u]  BY <1>1, OthersClaim
  <2>4. /\ orders[o].filled \in Int /\ orders'[o].filled \in Int
        /\ traded[o] \in Int /\ traded'[o] \in Int
    BY DEF StoreInv, StoreTypeOK, OrderRow, MemoryOK, TradesOK
  <2> DEFINE d == orders[o].filled - orders'[o].filled + traded'[o] - traded[o]
  <2>5. d \in Int  BY <2>4
  <2>6. g[t] <= f[t] + d
    <3>1. orders'[o].filled + g[t] + traded[o] <= orders[o].filled + f[t] + traded'[o]  BY DEF ThreadStep
    <3>2. f[t] \in Int /\ g[t] \in Int  BY <2>2
    <3> HIDE DEF f, g
    <3> QED  BY <2>4, <3>1, <3>2
  <2>7. orders[o].filled + SumFunctionOnSet(f, Threads) <= traded[o]  BY DEF ClaimsInv, Claims
  <2> HIDE DEF f, g
  <2>8. SumFunctionOnSet(g, Threads) <= SumFunctionOnSet(f, Threads) + d
    <3> HIDE DEF d
    <3> QED  BY <2>1, <2>2, <2>3, <2>5, <2>6, SumMoves
  <2>9. SumFunctionOnSet(f, Threads) \in Int /\ SumFunctionOnSet(g, Threads) \in Int
    BY <2>1, <2>2, SumType
  <2>10. orders'[o].filled + SumFunctionOnSet(g, Threads) <= traded'[o]
    BY <2>4, <2>7, <2>8, <2>9
  <2> QED  BY <2>10 DEF g
<1> QED  BY <1>2, <1>3 DEF ClaimsInv, Claims

OthersRest(t) == \A u \in Threads \ {t} : task'[u] = task[u] /\ ctx'[u] = ctx[u]

\* The committed rows stay: the thread's claims grow by what is traded.
LEMMA OwnStep ==
  ASSUME StoreInv, MemoryOK, NEW t \in Threads, orders' = orders, OthersRest(t),
         SettleOK(task'[t], ctx'[t], orders),
         \A o \in Orders \ RfqOrders : traded'[o] \in Nat,
         \A o \in Orders \ RfqOrders :
           Claim(task'[t], ctx'[t], orders, o) \in Nat /\
           Claim(task'[t], ctx'[t], orders, o) + traded[o] <= Claim(task[t], ctx[t], orders, o) + traded'[o]
  PROVE  ThreadStep(t)
<1>1. ASSUME NEW o \in Orders \ RfqOrders
      PROVE orders'[o].filled + Claim(task'[t], ctx'[t], orders', o) + traded[o]
              <= orders[o].filled + Claim(task[t], ctx[t], orders, o) + traded'[o]
  <2>1. Claim(task[t], ctx[t], orders, o) \in Nat
    BY UncommittedType, ClaimType DEF MemoryOK, TasksOK
  <2>2. orders[o].filled \in Nat /\ traded[o] \in Nat /\ traded'[o] \in Nat
    BY DEF StoreInv, StoreTypeOK, OrderRow, MemoryOK, TradesOK
  <2> QED  BY <2>1, <2>2
<1>2. ASSUME NEW u \in Threads \ {t}, NEW o \in Orders
      PROVE  Uncommitted(ctx[u], orders', o) <= Uncommitted(ctx[u], orders, o)
  BY UncommittedType
<1> QED  BY <1>1, <1>2 DEF ThreadStep, OthersRest

\* The same, without a trade.
LEMMA QuietStep ==
  ASSUME StoreInv, StoreInv', MemoryOK, MemoryOK', NEW t \in Threads, orders' = orders, traded' = traded,
         OthersRest(t), SettleOK(task'[t], ctx'[t], orders),
         \A o \in Orders \ RfqOrders :
           Claim(task'[t], ctx'[t], orders, o) <= Claim(task[t], ctx[t], orders, o)
  PROVE  ThreadStep(t)
<1>1. ASSUME NEW o \in Orders \ RfqOrders
      PROVE  /\ Claim(task'[t], ctx'[t], orders, o) \in Nat
             /\ Claim(task'[t], ctx'[t], orders, o) + traded[o] <= Claim(task[t], ctx[t], orders, o) + traded'[o]
  <2>1. Claim(task[t], ctx[t], orders, o) \in Nat
    BY UncommittedType, ClaimType DEF MemoryOK, TasksOK
  <2>2. Claim(task'[t], ctx'[t], orders', o) \in Nat
    BY UncommittedTypeNext, ClaimType DEF MemoryOK, TasksOK
  <2>3. traded[o] \in Nat  BY DEF MemoryOK, TradesOK
  <2> QED  BY <2>1, <2>2, <2>3
<1>2. \A o \in Orders \ RfqOrders : traded'[o] \in Nat  BY DEF MemoryOK, TradesOK
<1> QED  BY <1>1, <1>2, OwnStep

\* A thread that sets its task only.
LEMMA TaskRest ==
  ASSUME MemoryOK, NEW t \in Threads, NEW x, task' = [task EXCEPT ![t] = x]
  PROVE  task'[t] = x /\ \A u \in Threads \ {t} : task'[u] = task[u]
  BY DEF MemoryOK, TasksOK

\* A thread that sets its persistence context only.
LEMMA CtxRest ==
  ASSUME StoreInv, NEW t \in Threads, NEW c, ctx' = [ctx EXCEPT ![t] = c]
  PROVE  ctx'[t] = c /\ \A u \in Threads \ {t} : ctx'[u] = ctx[u]
  BY DEF StoreInv, StoreTypeOK

\* The fields of NoTask.
LEMMA NoTaskFields == NoTask.op = "none" /\ NoTask.pc = "idle" /\ NoTask.todo = <<>>
  BY DEF NoTask

\* Who has nothing loaded has nothing uncommitted.
LEMMA NothingLoaded ==
  ASSUME NEW c, c.loaded = {}, NEW R, NEW o PROVE Uncommitted(c, R, o) = 0
  BY DEF Uncommitted

\* Without fills to publish, and nothing uncommitted, there is no claim.
LEMMA NoClaim ==
  ASSUME NEW x, x.todo = <<>>, NEW c, NEW R, NEW o, Uncommitted(c, R, o) = 0
  PROVE  Claim(x, c, R, o) = 0
  BY FillsOfNone DEF Claim

\* Every claim of a reachable state is a natural number.
LEMMA ClaimNat ==
  ASSUME StoreInv, MemoryOK, NEW t \in Threads, NEW o \in Orders
  PROVE  Claim(task[t], ctx[t], orders, o) \in Nat
  BY UncommittedType, ClaimType DEF MemoryOK, TasksOK

\* An operation begins: its copy of the order has the committed fills.
LEMMA StartClaims ==
  ASSUME StoreInv, StoreInv', MemoryOK, MemoryOK', NEW t \in Threads, NEW o \in Orders,
         StartStage(t, o) \/ StartRoute(t, o) \/ StartCancel(t, o) \/ StartRfq(t, o)
  PROVE  ThreadStep(t)
<1>1. PICK op \in {"stage", "route", "cancel", "rfq"}, pc \in {"commit", "submit", "pull"} :
         task' = [task EXCEPT ![t] = [NoTask EXCEPT !.op = op, !.order = o, !.pc = pc]]
  BY DEF StartStage, StartRoute, StartCancel, StartRfq, Begin
<1> DEFINE x == [NoTask EXCEPT !.op = op, !.order = o, !.pc = pc]
<1>2. x.op = op /\ x.pc = pc /\ x.todo = <<>>  BY DEF NoTask
<1> HIDE DEF x
<1>3. task'[t] = x /\ \A u \in Threads \ {t} : task'[u] = task[u]  BY <1>1, TaskRest DEF x
<1>4. /\ orders' = orders /\ traded' = traded
      /\ \A u \in Threads \ {t} : ctx'[u] = ctx[u]
      /\ \A y \in Orders \ RfqOrders : Uncommitted(ctx'[t], orders, y) = 0
  <2>1. ASSUME NEW target, Transition(t, o, target), traded' = traded
        PROVE  /\ orders' = orders /\ traded' = traded
               /\ \A u \in Threads \ {t} : ctx'[u] = ctx[u]
               /\ \A y \in Orders \ RfqOrders : Uncommitted(ctx'[t], orders, y) = 0
    <3> DEFINE r == [status |-> target, filled |-> orders[o].filled, version |-> orders[o].version]
               c == [open |-> TRUE, doomed |-> FALSE, loaded |-> {o},
                     row |-> [Closed.row EXCEPT ![o] = r], held |-> {}, prow |-> Closed.prow]
    <3>1. ctx' = [ctx EXCEPT ![t] = c] /\ orders' = orders  BY <2>1 DEF Transition
    <3>2. c.loaded = {o} /\ c.row[o].filled = orders[o].filled  BY DEF Closed
    <3>3. orders[o].filled \in Nat  BY DEF StoreInv, StoreTypeOK, OrderRow
    <3> HIDE DEF c
    <3>4. ctx'[t] = c /\ \A u \in Threads \ {t} : ctx'[u] = ctx[u]  BY <3>1, CtxRest
    <3>5. \A y \in Orders : Uncommitted(c, orders, y) = 0  BY <3>2, <3>3 DEF Uncommitted
    <3> QED  BY <2>1, <3>1, <3>4, <3>5
  <2>2. ASSUME StartRfq(t, o)
        PROVE  /\ orders' = orders /\ traded' = traded
               /\ \A u \in Threads \ {t} : ctx'[u] = ctx[u]
               /\ \A y \in Orders \ RfqOrders : Uncommitted(ctx'[t], orders, y) = 0
    <3>1. PICK c : c.loaded = {o} /\ ctx' = [ctx EXCEPT ![t] = c]
      BY <2>2 DEF StartRfq, OpenRfq
    <3>2. ctx'[t] = c /\ \A u \in Threads \ {t} : ctx'[u] = ctx[u]  BY <3>1, CtxRest
    <3>3. o \in RfqOrders /\ orders' = orders /\ traded' = traded  BY <2>2 DEF StartRfq, OpenRfq
    <3>4. \A y \in Orders \ RfqOrders : Uncommitted(c, orders, y) = 0  BY <3>1, <3>3 DEF Uncommitted
    <3> QED  BY <3>2, <3>3, <3>4
  <2> QED  BY <2>1, <2>2 DEF StartStage, StartRoute, StartCancel
<1>5. SettleOK(task'[t], ctx'[t], orders)  BY <1>2, <1>3 DEF SettleOK
<1>6. ASSUME NEW y \in Orders \ RfqOrders
      PROVE  Claim(task'[t], ctx'[t], orders, y) <= Claim(task[t], ctx[t], orders, y)
  <2>1. Claim(task'[t], ctx'[t], orders, y) = 0  BY <1>2, <1>3, <1>4, NoClaim
  <2> QED  BY <2>1, ClaimNat
<1> QED  BY <1>3, <1>4, <1>5, <1>6, QuietStep DEF OthersRest

\* postLiquidity begins with nothing loaded.
LEMMA StartPostClaims ==
  ASSUME StoreInv, StoreInv', MemoryOK, MemoryOK', ClaimsInv, NEW t \in Threads, StartPost(t)
  PROVE  ThreadStep(t)
<1> DEFINE x == [NoTask EXCEPT !.op = "post", !.order = NoOrder, !.pc = "submit"]
<1>1. task' = [task EXCEPT ![t] = x] /\ UNCHANGED <<storeVars, traded>> /\ task[t].op = "none"
  BY DEF StartPost, Begin
<1>2. x.op = "post" /\ x.pc = "submit" /\ x.todo = <<>>  BY DEF NoTask
<1> HIDE DEF x
<1>3. task'[t] = x /\ \A u \in Threads \ {t} : task'[u] = task[u]  BY <1>1, TaskRest
<1>4. orders' = orders /\ ctx' = ctx /\ traded' = traded  BY <1>1 DEF storeVars
<1>5. ctx[t].loaded = {}  BY <1>1 DEF ClaimsInv, SettleOK
<1>6. SettleOK(task'[t], ctx'[t], orders)  BY <1>2, <1>3, <1>4, <1>5 DEF SettleOK
<1>7. ASSUME NEW y \in Orders \ RfqOrders
      PROVE  Claim(task'[t], ctx'[t], orders, y) <= Claim(task[t], ctx[t], orders, y)
  <2>1. Claim(task'[t], ctx'[t], orders, y) = 0  BY <1>2, <1>3, <1>4, <1>5, NothingLoaded, NoClaim
  <2> QED  BY <2>1, ClaimNat
<1> QED  BY <1>3, <1>4, <1>6, <1>7, QuietStep DEF OthersRest

\* A thread goes on, the store and its fills as they are, not from or to the settling of a fill.
LEMMA MoveClaims ==
  ASSUME StoreInv, StoreInv', MemoryOK, MemoryOK', ClaimsInv, NEW t \in Threads,
         UNCHANGED <<storeVars, traded>>, NEW x, task' = [task EXCEPT ![t] = x],
         x.todo = task[t].todo, x.pc # "settle", task[t].pc # "settle",
         x.op \in {"none", "post"} => task[t].op \in {"none", "post"}
  PROVE  ThreadStep(t)
<1>1. task'[t] = x /\ \A u \in Threads \ {t} : task'[u] = task[u]  BY TaskRest
<1>2. orders' = orders /\ ctx' = ctx /\ traded' = traded  BY DEF storeVars
<1>3. SettleOK(task'[t], ctx'[t], orders)  BY <1>1, <1>2 DEF ClaimsInv, SettleOK
<1>4. ASSUME NEW y \in Orders \ RfqOrders
      PROVE  Claim(task'[t], ctx'[t], orders, y) <= Claim(task[t], ctx[t], orders, y)
  <2>1. Claim(task'[t], ctx'[t], orders, y) = Claim(task[t], ctx[t], orders, y)
    BY <1>1, <1>2 DEF Claim
  <2> QED  BY <2>1, ClaimNat
<1> QED  BY <1>1, <1>2, <1>3, <1>4, QuietStep DEF OthersRest

\* A cancel, and the publish lock.
LEMMA PlaceClaims ==
  ASSUME StoreInv, StoreInv', MemoryOK, MemoryOK', ClaimsInv, NEW t \in Threads,
         PullFromBook(t) \/ TakePublishLock(t) \/ ReleasePublishLock(t)
  PROVE  ThreadStep(t)
<1>1. task[t] \in Task /\ TaskOK(task[t])  BY DEF MemoryOK, TasksOK
<1>2. UNCHANGED <<storeVars, traded>> /\ task[t].pc \in {"pull", "lock", "publish"}
  BY DEF PullFromBook, TakePublishLock, ReleasePublishLock
<1>3. ASSUME NEW pc \in {"commit", "publish"}, task' = [task EXCEPT ![t].pc = pc]
      PROVE  ThreadStep(t)
  <2> DEFINE x == [task[t] EXCEPT !.pc = pc]
  <2>1. x.op = task[t].op /\ x.pc = pc /\ x.todo = task[t].todo  BY <1>1 DEF Task
  <2>2. task' = [task EXCEPT ![t] = x]  BY <1>3
  <2> HIDE DEF x
  <2> QED  BY <1>2, <2>1, <2>2, MoveClaims
<1>4. CASE PullFromBook(t) \/ TakePublishLock(t)
  BY <1>3, <1>4 DEF PullFromBook, TakePublishLock
<1>5. CASE ReleasePublishLock(t)
  <2>1. CASE task[t].op = "route"
    <3>1. task' = [task EXCEPT ![t].pc = "commit"]  BY <1>5, <2>1 DEF ReleasePublishLock
    <3> QED  BY <1>3, <3>1
  <2>2. CASE task[t].op # "route"
    <3>1. task' = [task EXCEPT ![t] = NoTask] /\ task[t].todo = <<>>
      BY <1>5, <2>2 DEF ReleasePublishLock
    <3>2. task[t].op = "post"  BY <1>1, <1>5, <2>2 DEF TaskOK, ReleasePublishLock
    <3> QED  BY <1>2, <3>1, <3>2, NoTaskFields, MoveClaims
  <2> QED  BY <2>1, <2>2
<1> QED  BY <1>4, <1>5

\* What the engine matches is traded, and claimed by the thread that publishes it.
LEMMA SubmitClaims ==
  ASSUME StoreInv, MemoryOK, MemoryOK', ClaimsInv, NEW t \in Threads, NEW owner, NEW side, NEW n,
         Submit(t, owner, side, n), task[t].pc = "submit", UNCHANGED storeVars
  PROVE  ThreadStep(t)
<1> DEFINE b     == ReplicaOf[t]
           q     == IF Opposes(book[b], side) THEN book[b] ELSE <<>>
           fills == DeskFills(owner, side, q, n)
           x     == [task[t] EXCEPT !.todo = fills, !.pc = "lock"]
<1>1. /\ traded' = [o \in Orders |-> traded[o] + FillsOf(fills, o)]
      /\ task' = [task EXCEPT ![t].todo = fills, ![t].pc = "lock"]
  BY DEF Submit
<1> HIDE DEF q, fills
<1>2. task[t] \in Task  BY DEF MemoryOK, TasksOK
<1>3. x.op = task[t].op /\ x.pc = "lock" /\ x.todo = fills  BY <1>2 DEF Task
<1>4. task' = [task EXCEPT ![t] = x]  BY <1>1 DEF MemoryOK, TasksOK
<1> HIDE DEF x
<1>5. task'[t] = x /\ \A u \in Threads \ {t} : task'[u] = task[u]  BY <1>4, TaskRest
<1>6. orders' = orders /\ ctx' = ctx  BY DEF storeVars
<1>7. SettleOK(task'[t], ctx'[t], orders)  BY <1>3, <1>5, <1>6 DEF ClaimsInv, SettleOK
<1>8. ASSUME NEW o \in Orders \ RfqOrders
      PROVE  /\ Claim(task'[t], ctx'[t], orders, o) \in Nat
             /\ Claim(task'[t], ctx'[t], orders, o) + traded[o] <= Claim(task[t], ctx[t], orders, o) + traded'[o]
             /\ traded'[o] \in Nat
  <2>1. x \in Task  BY <1>5 DEF MemoryOK, TasksOK
  <2>2. FillsOf(fills, o) \in Nat  BY <1>3, <2>1, FillsOfType DEF Task
  <2>3. FillsOf(task[t].todo, o) \in Nat  BY <1>2, FillsOfType DEF Task
  <2>4. traded[o] \in Nat /\ traded'[o] = traded[o] + FillsOf(fills, o)  BY <1>1 DEF MemoryOK, TradesOK
  <2>5. Uncommitted(ctx[t], orders, o) \in Nat  BY UncommittedType
  <2>6. Claim(task'[t], ctx'[t], orders, o) = FillsOf(fills, o) + Uncommitted(ctx[t], orders, o)
    BY <1>3, <1>5, <1>6 DEF Claim
  <2>7. Claim(task[t], ctx[t], orders, o) = FillsOf(task[t].todo, o) + Uncommitted(ctx[t], orders, o)
    BY DEF Claim
  <2> QED  BY <2>2, <2>3, <2>4, <2>5, <2>6, <2>7
<1> QED  BY <1>5, <1>6, <1>7, <1>8, OwnStep DEF OthersRest

\* Both callers of submit.
LEMMA EngineClaims ==
  ASSUME StoreInv, MemoryOK, MemoryOK', ClaimsInv, NEW t \in Threads, SubmitOrder(t) \/ PostLiquidity(t)
  PROVE  ThreadStep(t)
<1>1. PICK owner, side, n : Submit(t, owner, side, n)
  <2>1. CASE SubmitOrder(t)  BY <2>1 DEF SubmitOrder
  <2>2. CASE PostLiquidity(t)  BY <2>2 DEF PostLiquidity
  <2> QED  BY <2>1, <2>2
<1>2. task[t].pc = "submit" /\ UNCHANGED storeVars  BY DEF SubmitOrder, PostLiquidity
<1> QED  BY <1>1, <1>2, SubmitClaims

\* recordFill adds no more than the fill to what is uncommitted.
LEMMA RecordUncommitted ==
  ASSUME StoreInv, NEW t \in Threads, NEW o \in Orders, NEW q \in 1 .. Qty[o], RecordFill(t, o, q)
  PROVE  /\ orders' = orders /\ \A u \in Threads \ {t} : ctx'[u] = ctx[u]
         /\ \A x \in Orders :
              Uncommitted(ctx'[t], orders, x) <= Uncommitted(ctx[t], orders, x) + (IF x = o THEN q ELSE 0)
<1> DEFINE k == KeyOf[o]
           a == Applied(t, o, q)
           b == ctx[t]
           r == [status |-> FillTarget(t, o, q), filled |-> OrderSeen(t, o).filled + a,
                 version |-> OrderSeen(t, o).version]
           p == [net |-> PosSeen(t, k).net + Signed(o, a), version |-> PosSeen(t, k).version]
           c == [open |-> TRUE, doomed |-> b.doomed, loaded |-> b.loaded \cup {o},
                 row |-> [b.row EXCEPT ![o] = r],
                 held |-> b.held \cup {k}, prow |-> [b.prow EXCEPT ![k] = p]]
<1>1. ctx' = [ctx EXCEPT ![t] = c] /\ orders' = orders  BY DEF RecordFill
<1>2. a \in Nat /\ a <= q
  <2>1. a \in Nat  BY FillOK DEF RecordFill
  <2>2. Qty[o] \in Nat /\ OrderSeen(t, o).filled \in Nat  BY StoreAssumption, SeenOK DEF OrderRow
  <2>3. q \in Int  OBVIOUS
  <2> QED  BY <2>1, <2>2, <2>3 DEF Applied
<1>3. b \in Context /\ orders \in [Orders -> OrderRow]  BY DEF StoreInv, StoreTypeOK
<1>4. r.filled = OrderSeen(t, o).filled + a /\ r.version = OrderSeen(t, o).version  OBVIOUS
<1>5. /\ c.loaded = b.loaded \cup {o}
      /\ c.row[o] = r /\ \A x \in Orders \ {o} : c.row[x] = b.row[x]
  <2> HIDE DEF r, p, k
  <2> QED  BY <1>3 DEF Context
<1>6. OrderSeen(t, o) = IF o \in b.loaded THEN b.row[o] ELSE orders[o]  BY DEF OrderSeen
<1> HIDE DEF c, r, p, a
<1>7. ctx'[t] = c /\ \A u \in Threads \ {t} : ctx'[u] = ctx[u]  BY <1>1, CtxRest
<1>8. ASSUME NEW x \in Orders
      PROVE  Uncommitted(c, orders, x) <= Uncommitted(b, orders, x) + (IF x = o THEN q ELSE 0)
  <2>1. Uncommitted(b, orders, x) \in Nat  BY UncommittedType
  <2> HIDE DEF b
  <2>2. CASE x # o
    <3>1. Uncommitted(c, orders, x) = Uncommitted(b, orders, x)  BY <1>5, <2>2 DEF Uncommitted
    <3> QED  BY <2>1, <2>2, <3>1
  <2>3. CASE x = o
    <3>1. orders[o].filled \in Nat /\ b.row[o].filled \in Nat /\ q \in Nat
      BY <1>3 DEF Context, OrderRow
    <3>2. CASE o \in b.loaded /\ b.row[o].version = orders[o].version
      <4>1. Uncommitted(b, orders, o) = b.row[o].filled - orders[o].filled  BY <3>2 DEF Uncommitted
      <4>2. o \in c.loaded /\ c.row[o].version = orders[o].version /\ c.row[o].filled = b.row[o].filled + a
        BY <1>4, <1>5, <1>6, <3>2
      <4>3. Uncommitted(c, orders, o) = b.row[o].filled + a - orders[o].filled
        <5>1. Uncommitted(c, orders, o) = c.row[o].filled - orders[o].filled  BY <4>2 DEF Uncommitted
        <5> QED  BY <1>2, <3>1, <4>2, <5>1
      <4> QED  BY <1>2, <2>3, <3>1, <4>1, <4>3
    <3>3. CASE o \in b.loaded /\ b.row[o].version # orders[o].version
      <4>1. Uncommitted(c, orders, o) = 0  BY <1>4, <1>5, <1>6, <3>3 DEF Uncommitted
      <4> QED  BY <2>1, <2>3, <3>1, <4>1
    <3>4. CASE o \notin b.loaded
      <4>1. o \in c.loaded /\ c.row[o].version = orders[o].version /\ c.row[o].filled = orders[o].filled + a
        BY <1>4, <1>5, <1>6, <3>4
      <4>2. Uncommitted(c, orders, o) = a
        <5>1. Uncommitted(c, orders, o) = c.row[o].filled - orders[o].filled  BY <4>1 DEF Uncommitted
        <5> QED  BY <1>2, <3>1, <4>1, <5>1
      <4> QED  BY <1>2, <2>1, <2>3, <3>1, <4>2
    <3> QED  BY <3>2, <3>3, <3>4
  <2> QED  BY <2>2, <2>3
<1> QED  BY <1>1, <1>7, <1>8

\* The task of a thread that is done with its first fill.
LEMMA FillDoneFields ==
  ASSUME MemoryOK, NEW t \in Threads, task[t].todo # <<>>, FillDone(t)
  PROVE  /\ task'[t].op = task[t].op /\ task'[t].pc = "publish" /\ task'[t].todo = Tail(task[t].todo)
         /\ \A u \in Threads \ {t} : task'[u] = task[u]
<1> DEFINE x == [task[t] EXCEPT !.todo = Tail(task[t].todo), !.attempt = 1, !.pc = "publish"]
<1>1. task[t] \in Task  BY DEF MemoryOK, TasksOK
<1>2. x.op = task[t].op /\ x.pc = "publish" /\ x.todo = Tail(task[t].todo)  BY <1>1 DEF Task
<1>3. task' = [task EXCEPT ![t] = x]  BY DEF FillDone, MemoryOK, TasksOK
<1> HIDE DEF x
<1> QED  BY <1>2, <1>3, TaskRest

\* A fill of a route goes from the list to the open transaction.
LEMMA PublishJoinedClaims ==
  ASSUME StoreInv, StoreInv', MemoryOK, MemoryOK', ClaimsInv, NEW t \in Threads, PublishJoined(t)
  PROVE  ThreadStep(t)
<1>1. /\ task[t].pc = "publish" /\ task[t].op = "route" /\ task[t].todo # <<>>
      /\ task[t].todo \in Seq(Fill) /\ traded' = traded /\ FillDone(t)
  BY DEF MemoryOK, TasksOK, Task, PublishJoined, Publishing
<1> PICK o \in Orders :
       \E q \in 1 .. Qty[o] : NextFill(t) = [order |-> o, qty |-> q] /\ RecordFill(t, o, q)
  BY DEF PublishJoined, RecordNext
<1> PICK q \in 1 .. Qty[o] : NextFill(t) = [order |-> o, qty |-> q] /\ RecordFill(t, o, q)
  OBVIOUS
<1>2. /\ orders' = orders /\ \A u \in Threads \ {t} : ctx'[u] = ctx[u]
      /\ \A x \in Orders :
           Uncommitted(ctx'[t], orders, x) <= Uncommitted(ctx[t], orders, x) + (IF x = o THEN q ELSE 0)
  BY RecordUncommitted
<1>3. \A x \in Orders : HeadOf(task[t].todo, x) = IF x = o THEN q ELSE 0  BY DEF HeadOf, NextFill
<1>4. /\ task'[t].op = task[t].op /\ task'[t].pc = "publish" /\ task'[t].todo = Tail(task[t].todo)
      /\ \A u \in Threads \ {t} : task'[u] = task[u]
  BY <1>1, FillDoneFields
<1>5. SettleOK(task'[t], ctx'[t], orders)  BY <1>1, <1>4 DEF SettleOK
<1>6. ASSUME NEW x \in Orders \ RfqOrders
      PROVE  Claim(task'[t], ctx'[t], orders, x) <= Claim(task[t], ctx[t], orders, x)
  <2>1. /\ FillsOf(task[t].todo, x) = HeadOf(task[t].todo, x) + FillsOf(Tail(task[t].todo), x)
        /\ HeadOf(task[t].todo, x) \in Nat /\ FillsOf(Tail(task[t].todo), x) \in Nat
    BY <1>1, FillsOfTail
  <2>2. Uncommitted(ctx'[t], orders, x) <= Uncommitted(ctx[t], orders, x) + HeadOf(task[t].todo, x)
    BY <1>2, <1>3
  <2>3. Uncommitted(ctx[t], orders, x) \in Nat /\ Uncommitted(ctx'[t], orders, x) \in Nat
    BY <1>2, UncommittedType, UncommittedTypeNext
  <2>4. Claim(task'[t], ctx'[t], orders, x) = FillsOf(Tail(task[t].todo), x) + Uncommitted(ctx'[t], orders, x)
    BY <1>4 DEF Claim
  <2>5. Claim(task[t], ctx[t], orders, x) = FillsOf(task[t].todo, x) + Uncommitted(ctx[t], orders, x)
    BY <1>1 DEF Claim
  <2> QED  BY <2>1, <2>2, <2>3, <2>4, <2>5
<1> QED  BY <1>1, <1>2, <1>4, <1>5, <1>6, QuietStep DEF OthersRest

\* A fill of the liquidity provider stays claimed until it is settled.
LEMMA PublishAloneClaims ==
  ASSUME StoreInv, StoreInv', MemoryOK, MemoryOK', ClaimsInv, NEW t \in Threads, PublishAlone(t)
  PROVE  ThreadStep(t)
<1> DEFINE x == [task[t] EXCEPT !.pc = "settle"]
<1>1. /\ task[t].pc = "publish" /\ task[t].op = "post" /\ task[t].todo # <<>> /\ task[t] \in Task
      /\ traded' = traded /\ task' = [task EXCEPT ![t] = x]
  BY DEF MemoryOK, TasksOK, PublishAlone, Publishing
<1>2. x.op = "post" /\ x.pc = "settle" /\ x.todo = task[t].todo  BY <1>1 DEF Task
<1> HIDE DEF x
<1> PICK o \in Orders :
       \E q \in 1 .. Qty[o] : NextFill(t) = [order |-> o, qty |-> q] /\ RecordFill(t, o, q)
  BY DEF PublishAlone, RecordNext
<1> PICK q \in 1 .. Qty[o] : NextFill(t) = [order |-> o, qty |-> q] /\ RecordFill(t, o, q)
  OBVIOUS
<1>3. /\ orders' = orders /\ \A u \in Threads \ {t} : ctx'[u] = ctx[u]
      /\ \A y \in Orders :
           Uncommitted(ctx'[t], orders, y) <= Uncommitted(ctx[t], orders, y) + (IF y = o THEN q ELSE 0)
  BY RecordUncommitted
<1>4. \A y \in Orders : HeadOf(task[t].todo, y) = IF y = o THEN q ELSE 0  BY DEF HeadOf, NextFill
<1>5. task'[t] = x /\ \A u \in Threads \ {t} : task'[u] = task[u]  BY <1>1, TaskRest
<1>6. \A y \in Orders : Uncommitted(ctx[t], orders, y) = 0
  <2>1. ctx[t].loaded = {}  BY <1>1 DEF ClaimsInv, SettleOK
  <2> QED  BY <2>1, NothingLoaded
<1>7. SettleOK(task'[t], ctx'[t], orders)
  <2>1. ASSUME NEW y \in Orders PROVE Uncommitted(ctx'[t], orders, y) <= HeadOf(task[t].todo, y)
    <3>1. Uncommitted(ctx'[t], orders, y) \in Nat  BY <1>3, UncommittedTypeNext
    <3>2. HeadOf(task[t].todo, y) \in Nat  BY <1>1, FillsOfTail DEF Task
    <3>3. Uncommitted(ctx'[t], orders, y) <= 0 + HeadOf(task[t].todo, y)  BY <1>3, <1>4, <1>6
    <3> QED  BY <3>1, <3>2, <3>3
  <2> QED  BY <1>2, <1>5, <2>1 DEF SettleOK
<1>8. ASSUME NEW y \in Orders \ RfqOrders
      PROVE  Claim(task'[t], ctx'[t], orders, y) <= Claim(task[t], ctx[t], orders, y)
  <2>1. FillsOf(task[t].todo, y) \in Nat  BY <1>1, FillsOfType DEF Task
  <2>2. Claim(task'[t], ctx'[t], orders, y) = FillsOf(task[t].todo, y) + 0  BY <1>2, <1>5 DEF Claim
  <2>3. Claim(task[t], ctx[t], orders, y) = FillsOf(task[t].todo, y) + 0  BY <1>1, <1>6 DEF Claim
  <2> QED  BY <2>1, <2>2, <2>3
<1> QED  BY <1>1, <1>3, <1>5, <1>7, <1>8, QuietStep DEF OthersRest

\* A fill that is refused or given up is claimed no more.
LEMMA DroppedClaims ==
  ASSUME StoreInv, StoreInv', MemoryOK, MemoryOK', ClaimsInv, NEW t \in Threads,
         RefuseJoined(t) \/ SkipFill(t) \/ LoseFill(t)
  PROVE  ThreadStep(t)
<1>1. task[t] \in Task /\ TaskOK(task[t]) /\ FillDone(t) /\ traded' = traded
  BY DEF MemoryOK, TasksOK, RefuseJoined, SkipFill, LoseFill
<1>2. task[t].todo # <<>> /\ task[t].todo \in Seq(Fill)
  BY <1>1 DEF Task, TaskOK, RefuseJoined, SkipFill, LoseFill, Publishing
<1>3. /\ task'[t].op = task[t].op /\ task'[t].pc = "publish" /\ task'[t].todo = Tail(task[t].todo)
      /\ \A u \in Threads \ {t} : task'[u] = task[u]
  BY <1>1, <1>2, FillDoneFields
<1>4. /\ orders' = orders /\ \A u \in Threads \ {t} : ctx'[u] = ctx[u]
      /\ \/ ctx'[t].loaded = {}
         \/ /\ ctx'[t].loaded = ctx[t].loaded /\ ctx'[t].row = ctx[t].row
            /\ task[t].pc = "publish"
  <2>1. CASE RefuseJoined(t)
    <3> DEFINE c == [ctx[t] EXCEPT !.doomed = TRUE]
    <3>1. ctx' = [ctx EXCEPT ![t] = c] /\ orders' = orders  BY <2>1 DEF RefuseJoined, DoomTx
    <3>2. c.loaded = ctx[t].loaded /\ c.row = ctx[t].row  BY DEF StoreInv, StoreTypeOK, Context
    <3> HIDE DEF c
    <3> QED  BY <2>1, <3>1, <3>2, CtxRest DEF RefuseJoined, Publishing
  <2>2. CASE SkipFill(t)  BY <2>2 DEF SkipFill, storeVars, Publishing
  <2>3. CASE LoseFill(t)
    <3>1. ctx' = [ctx EXCEPT ![t] = Closed] /\ orders' = orders  BY <2>3 DEF LoseFill, RollbackTx
    <3> QED  BY <3>1, CtxRest, ClosedEmpty
  <2> QED  BY <2>1, <2>2, <2>3
<1>5. SettleOK(task'[t], ctx'[t], orders)
  <2>1. task'[t].op \in {"none", "post"} => ctx'[t].loaded = {}
    <3>1. SettleOK(task[t], ctx[t], orders)  BY DEF ClaimsInv
    <3> QED  BY <1>3, <1>4, <3>1 DEF SettleOK
  <2> QED  BY <1>3, <2>1 DEF SettleOK
<1>6. ASSUME NEW x \in Orders \ RfqOrders
      PROVE  Claim(task'[t], ctx'[t], orders, x) <= Claim(task[t], ctx[t], orders, x)
  <2>1. /\ FillsOf(task[t].todo, x) = HeadOf(task[t].todo, x) + FillsOf(Tail(task[t].todo), x)
        /\ HeadOf(task[t].todo, x) \in Nat /\ FillsOf(Tail(task[t].todo), x) \in Nat
    BY <1>2, FillsOfTail
  <2>2. Claim(task'[t], ctx'[t], orders, x) = FillsOf(Tail(task[t].todo), x) + Uncommitted(ctx'[t], orders, x)
    BY <1>3 DEF Claim
  <2>3. CASE ctx'[t].loaded = {}
    <3>1. Uncommitted(ctx'[t], orders, x) = 0  BY <2>3, NothingLoaded
    <3>2. Uncommitted(ctx[t], orders, x) \in Nat  BY UncommittedType
    <3> QED  BY <2>1, <2>2, <3>1, <3>2 DEF Claim
  <2>4. CASE ctx'[t].loaded = ctx[t].loaded /\ ctx'[t].row = ctx[t].row /\ task[t].pc = "publish"
    <3>1. Uncommitted(ctx'[t], orders, x) = Uncommitted(ctx[t], orders, x)  BY <2>4 DEF Uncommitted
    <3>2. Uncommitted(ctx[t], orders, x) \in Nat  BY UncommittedType
    <3>3. Claim(task[t], ctx[t], orders, x) = FillsOf(task[t].todo, x) + Uncommitted(ctx[t], orders, x)
      BY <2>4 DEF Claim
    <3> QED  BY <2>1, <2>2, <3>1, <3>2, <3>3
  <2> QED  BY <1>4, <2>3, <2>4
<1> QED  BY <1>1, <1>3, <1>4, <1>5, <1>6, QuietStep DEF OthersRest

\* A retry claims the fill that was rolled back, and no other.
LEMMA RetryClaims ==
  ASSUME StoreInv, StoreInv', MemoryOK, MemoryOK', ClaimsInv, NEW t \in Threads, RetryFill(t)
  PROVE  ThreadStep(t)
<1> DEFINE x == [task[t] EXCEPT !.pc = "publish", !.attempt = task[t].attempt + 1]
<1>1. /\ task[t] \in Task /\ task[t].pc = "settle" /\ traded' = traded
      /\ task' = [task EXCEPT ![t] = x]
      /\ orders' = orders /\ ctx' = [ctx EXCEPT ![t] = Closed]
  BY DEF MemoryOK, TasksOK, RetryFill, RollbackTx
<1>2. x.op = task[t].op /\ x.pc = "publish" /\ x.todo = task[t].todo  BY <1>1 DEF Task
<1> HIDE DEF x
<1>3. /\ task'[t] = x /\ \A u \in Threads \ {t} : task'[u] = task[u] 
      /\ ctx'[t] = Closed /\ \A u \in Threads \ {t} : ctx'[u] = ctx[u]
  BY <1>1, TaskRest, CtxRest
<1>4. SettleOK(task'[t], ctx'[t], orders)  BY <1>2, <1>3, ClosedEmpty DEF SettleOK
<1>5. ASSUME NEW y \in Orders \ RfqOrders
      PROVE  Claim(task'[t], ctx'[t], orders, y) <= Claim(task[t], ctx[t], orders, y)
  <2>1. Uncommitted(ctx'[t], orders, y) = 0  BY <1>3, ClosedEmpty, NothingLoaded
  <2>2. FillsOf(task[t].todo, y) \in Nat  BY <1>1, FillsOfType DEF Task
  <2>3. Claim(task'[t], ctx'[t], orders, y) = FillsOf(task[t].todo, y) + 0  BY <1>2, <1>3, <2>1 DEF Claim
  <2>4. Claim(task[t], ctx[t], orders, y) = FillsOf(task[t].todo, y) + 0  BY <1>1 DEF Claim
  <2> QED  BY <2>2, <2>3, <2>4
<1> QED  BY <1>1, <1>3, <1>4, <1>5, QuietStep DEF OthersRest

\* A failed operation claims nothing.
LEMMA FailClaims ==
  ASSUME StoreInv, StoreInv', MemoryOK, MemoryOK', NEW t \in Threads, FailOp(t)
  PROVE  ThreadStep(t)
<1>1. /\ traded' = traded /\ task' = [task EXCEPT ![t] = NoTask]
      /\ orders' = orders /\ ctx' = [ctx EXCEPT ![t] = Closed]
  BY DEF FailOp, RollbackTx
<1>2. /\ task'[t] = NoTask /\ \A u \in Threads \ {t} : task'[u] = task[u] 
      /\ ctx'[t] = Closed /\ \A u \in Threads \ {t} : ctx'[u] = ctx[u]
  BY <1>1, TaskRest, CtxRest
<1>3. SettleOK(task'[t], ctx'[t], orders)  BY <1>2, NoTaskFields, ClosedEmpty DEF SettleOK
<1>4. ASSUME NEW y \in Orders \ RfqOrders
      PROVE  Claim(task'[t], ctx'[t], orders, y) <= Claim(task[t], ctx[t], orders, y)
  <2>1. Claim(task'[t], ctx'[t], orders, y) = 0  BY <1>2, NoTaskFields, ClosedEmpty, NothingLoaded, NoClaim
  <2> QED  BY <2>1, ClaimNat
<1> QED  BY <1>1, <1>2, <1>3, <1>4, QuietStep DEF OthersRest

\* A commit turns what is uncommitted into fills, and leaves the copies of others stale.
LEMMA CommitClaims ==
  ASSUME StoreInv, NEW t \in Threads, CommitTx(t), NEW o \in Orders
  PROVE  /\ orders'[o].filled = orders[o].filled + Uncommitted(ctx[t], orders, o)
         /\ \A u \in Threads : Uncommitted(ctx[u], orders', o) <= Uncommitted(ctx[u], orders, o)
<1>1. /\ orders[o] \in OrderRow /\ ctx[t].row[o] \in OrderRow
      /\ \A u \in Threads : ctx[u].row[o] \in OrderRow
  BY DEF StoreInv, StoreTypeOK, Context
<1>2. CASE o \in ctx[t].loaded
  <2>1. orders[o].version = ctx[t].row[o].version  BY <1>2 DEF CommitTx, OrdersCurrent
  <2>2. orders'[o] = [ctx[t].row[o] EXCEPT !.version = ctx[t].row[o].version + 1]
    BY <1>2 DEF CommitTx
  <2>3. orders'[o].filled = ctx[t].row[o].filled /\ orders'[o].version = orders[o].version + 1
    BY <1>1, <2>1, <2>2 DEF OrderRow
  <2>4. orders[o].filled \in Nat /\ ctx[t].row[o].filled \in Nat /\ orders[o].version \in Nat
    BY <1>1 DEF OrderRow
  <2>5. orders'[o].filled = orders[o].filled + Uncommitted(ctx[t], orders, o)
    <3>1. Uncommitted(ctx[t], orders, o) = ctx[t].row[o].filled - orders[o].filled
      BY <1>2, <2>1 DEF Uncommitted
    <3> QED  BY <2>3, <2>4, <3>1
  <2>6. ASSUME NEW u \in Threads
        PROVE  Uncommitted(ctx[u], orders', o) <= Uncommitted(ctx[u], orders, o)
    <3>1. Uncommitted(ctx[u], orders, o) \in Nat  BY UncommittedType
    <3>2. o \in ctx[u].loaded => ctx[u].row[o].version # orders'[o].version
      <4>1. o \in ctx[u].loaded => ctx[u].row[o].version <= orders[o].version
        BY DEF StoreInv, CopiesOK, CopyOK
      <4>2. ctx[u].row[o].version \in Nat  BY <1>1 DEF OrderRow
      <4> QED  BY <2>3, <2>4, <4>1, <4>2
    <3>3. Uncommitted(ctx[u], orders', o) = 0  BY <3>2 DEF Uncommitted
    <3> QED  BY <3>1, <3>3
  <2> QED  BY <2>5, <2>6
<1>3. CASE o \notin ctx[t].loaded
  <2>1. orders'[o] = orders[o]  BY <1>3 DEF CommitTx
  <2>2. Uncommitted(ctx[t], orders, o) = 0  BY <1>3 DEF Uncommitted
  <2>3. orders[o].filled \in Nat  BY <1>1 DEF OrderRow
  <2>4. ASSUME NEW u \in Threads
        PROVE  Uncommitted(ctx[u], orders', o) <= Uncommitted(ctx[u], orders, o)
    <3>1. Uncommitted(ctx[u], orders', o) = Uncommitted(ctx[u], orders, o)  BY <2>1 DEF Uncommitted
    <3> QED  BY <3>1, UncommittedType
  <2> QED  BY <2>1, <2>2, <2>3, <2>4
<1> QED  BY <1>2, <1>3

\* The two commits.
LEMMA EndClaims ==
  ASSUME StoreInv, MemoryOK, ClaimsInv, NEW t \in Threads, SettleFill(t) \/ FinishOp(t)
  PROVE  ThreadStep(t)
<1>1. CommitTx(t) /\ traded' = traded /\ ctx' = [ctx EXCEPT ![t] = Closed]
  BY DEF SettleFill, FinishOp, CommitTx
<1>2. ctx'[t] = Closed /\ \A u \in Threads \ {t} : ctx'[u] = ctx[u]  BY <1>1, CtxRest
<1>3. task[t] \in Task /\ TaskOK(task[t]) /\ SettleOK(task[t], ctx[t], orders)
  BY DEF MemoryOK, TasksOK, ClaimsInv
<1>4. \A u \in Threads \ {t} : task'[u] = task[u]
  <2>1. CASE SettleFill(t)  BY <1>3, <2>1, FillDoneFields DEF SettleFill, TaskOK
  <2>2. CASE FinishOp(t)  BY <2>2, TaskRest DEF FinishOp
  <2> QED  BY <2>1, <2>2
<1>5. SettleOK(task'[t], ctx'[t], orders')
  <2>1. task'[t].pc # "settle"
    <3>1. CASE SettleFill(t)  BY <1>3, <3>1, FillDoneFields DEF SettleFill, TaskOK
    <3>2. CASE FinishOp(t)  BY <3>2, TaskRest, NoTaskFields DEF FinishOp
    <3> QED  BY <3>1, <3>2
  <2> QED  BY <1>2, <2>1, ClosedEmpty DEF SettleOK
<1>6. ASSUME NEW o \in Orders \ RfqOrders
      PROVE orders'[o].filled + Claim(task'[t], ctx'[t], orders', o) + traded[o]
              <= orders[o].filled + Claim(task[t], ctx[t], orders, o) + traded'[o]
  <2>1. orders'[o].filled = orders[o].filled + Uncommitted(ctx[t], orders, o)  BY <1>1, CommitClaims
  <2>2. Uncommitted(ctx'[t], orders', o) = 0  BY <1>2, ClosedEmpty, NothingLoaded
  <2>3. /\ orders[o].filled \in Nat /\ traded[o] \in Nat /\ traded'[o] = traded[o]
        /\ Uncommitted(ctx[t], orders, o) \in Nat
    BY <1>1, UncommittedType DEF StoreInv, StoreTypeOK, OrderRow, MemoryOK, TradesOK
  <2>4. CASE SettleFill(t)
    <3>1. task[t].pc = "settle" /\ task[t].todo # <<>> /\ task[t].todo \in Seq(Fill)
      BY <1>3, <2>4 DEF SettleFill, TaskOK, Task
    <3>2. task'[t].pc = "publish" /\ task'[t].todo = Tail(task[t].todo)
      BY <2>4, <3>1, FillDoneFields DEF SettleFill
    <3>3. /\ FillsOf(task[t].todo, o) = HeadOf(task[t].todo, o) + FillsOf(Tail(task[t].todo), o)
          /\ HeadOf(task[t].todo, o) \in Nat /\ FillsOf(Tail(task[t].todo), o) \in Nat
      BY <3>1, FillsOfTail
    <3>4. Uncommitted(ctx[t], orders, o) <= HeadOf(task[t].todo, o)  BY <1>3, <3>1 DEF SettleOK
    <3>5. Claim(task'[t], ctx'[t], orders', o) = FillsOf(Tail(task[t].todo), o) + 0
      BY <2>2, <3>2 DEF Claim
    <3>6. Claim(task[t], ctx[t], orders, o) = FillsOf(task[t].todo, o) + 0  BY <3>1 DEF Claim
    <3> QED  BY <2>1, <2>3, <3>3, <3>4, <3>5, <3>6
  <2>5. CASE FinishOp(t)
    <3>1. task[t].pc = "commit" /\ task'[t] = NoTask  BY <2>5, TaskRest DEF FinishOp
    <3>2. Claim(task'[t], ctx'[t], orders', o) = 0  BY <2>2, <3>1, NoTaskFields, NoClaim
    <3>3. FillsOf(task[t].todo, o) \in Nat  BY <1>3, FillsOfType DEF Task
    <3>4. Claim(task[t], ctx[t], orders, o) = FillsOf(task[t].todo, o) + Uncommitted(ctx[t], orders, o)
      BY <3>1 DEF Claim
    <3> QED  BY <2>1, <2>3, <3>2, <3>3, <3>4
  <2> QED  BY <2>4, <2>5
<1>7. ASSUME NEW u \in Threads \ {t}, NEW o \in Orders
      PROVE  Uncommitted(ctx[u], orders', o) <= Uncommitted(ctx[u], orders, o)
  BY <1>1, CommitClaims
<1> QED  BY <1>2, <1>4, <1>5, <1>6, <1>7 DEF ThreadStep

\* Steps that leave every thread and every order with no more than before.
LEMMA LessClaims ==
  ASSUME StoreInv, StoreInv', MemoryOK, MemoryOK', ClaimsInv, traded' = traded,
         \A o \in Orders : orders'[o].filled = orders[o].filled,
         \A t \in Threads : SettleOK(task'[t], ctx'[t], orders'),
         \A t \in Threads, o \in Orders :
           Claim(task'[t], ctx'[t], orders', o) <= Claim(task[t], ctx[t], orders, o)
  PROVE  ClaimsInv'
<1>1. ASSUME NEW o \in Orders \ RfqOrders
      PROVE  orders'[o].filled + SumFunctionOnSet([u \in Threads |-> Claim(task'[u], ctx'[u], orders', o)], Threads)
               <= traded'[o]
  <2> DEFINE f == [u \in Threads |-> Claim(task[u], ctx[u], orders, o)]
             g == [u \in Threads |-> Claim(task'[u], ctx'[u], orders', o)]
  <2>1. IsFiniteSet(Threads)  BY ExecutionAssumption DEF ExecutionAssumption
  <2>2. ASSUME NEW u \in Threads PROVE f[u] \in Int /\ g[u] \in Int
    <3>1. task[u] \in Task /\ task'[u] \in Task  BY DEF MemoryOK, TasksOK
    <3>2. Claim(task[u], ctx[u], orders, o) \in Nat  BY <3>1, UncommittedType, ClaimType
    <3>3. Claim(task'[u], ctx'[u], orders', o) \in Nat  BY <3>1, UncommittedTypeNext, ClaimType
    <3> QED  BY <3>2, <3>3
  <2>3. \A u \in Threads : g[u] <= f[u]  OBVIOUS
  <2>4. orders[o].filled + SumFunctionOnSet(f, Threads) <= traded[o]  BY DEF ClaimsInv, Claims
  <2> HIDE DEF f, g
  <2>5. SumFunctionOnSet(g, Threads) <= SumFunctionOnSet(f, Threads)  BY <2>1, <2>2, <2>3, SumMono
  <2>6. SumFunctionOnSet(f, Threads) \in Int /\ SumFunctionOnSet(g, Threads) \in Int
    BY <2>1, <2>2, SumType
  <2>7. orders[o].filled \in Int /\ traded[o] \in Int /\ orders'[o].filled = orders[o].filled /\ traded'[o] = traded[o]
    BY DEF StoreInv, StoreTypeOK, OrderRow, MemoryOK, TradesOK
  <2>8. orders'[o].filled + SumFunctionOnSet(g, Threads) <= traded'[o]
    BY <2>4, <2>5, <2>6, <2>7
  <2> QED  BY <2>8 DEF g
<1> QED  BY <1>1 DEF ClaimsInv, Claims

\* A new order is claimed by nobody.
LEMMA CreateClaims ==
  ASSUME StoreInv, StoreInv', MemoryOK, MemoryOK', ClaimsInv, NEW o \in Orders, NewOrder(o)
  PROVE  ClaimsInv'
<1>1. task' = task /\ traded' = traded /\ ctx' = ctx  BY DEF NewOrder, execVars, Create
<1>2. PICK s : orders' = [orders EXCEPT ![o] = [status |-> s, filled |-> 0, version |-> 1]]
  BY DEF NewOrder, Create
<1>3. orders[o].status = "none" /\ \A t \in Threads : o \notin ctx[t].loaded
  BY DEF NewOrder, Create, Fresh
<1>4. orders[o].filled = 0  BY <1>3 DEF StoreInv, FillsMatchStatus
<1>5. \A x \in Orders : orders'[x].filled = orders[x].filled /\ (x # o => orders'[x] = orders[x])
  BY <1>2, <1>4 DEF StoreInv, StoreTypeOK
<1>6. ASSUME NEW t \in Threads, NEW x \in Orders
      PROVE  Uncommitted(ctx[t], orders', x) = Uncommitted(ctx[t], orders, x)
  BY <1>3, <1>5 DEF Uncommitted
<1>7. \A t \in Threads : SettleOK(task[t], ctx[t], orders')
  BY <1>6 DEF ClaimsInv, SettleOK
<1>8. ASSUME NEW t \in Threads, NEW x \in Orders
      PROVE  Claim(task[t], ctx[t], orders', x) <= Claim(task[t], ctx[t], orders, x)
  <2>1. Claim(task[t], ctx[t], orders', x) = Claim(task[t], ctx[t], orders, x)
    BY <1>6 DEF Claim
  <2> QED  BY <2>1, ClaimNat
<1> QED  BY <1>1, <1>5, <1>7, <1>8, LessClaims

\* A restart only drops claims.
LEMMA RestartClaims ==
  ASSUME StoreInv, StoreInv', MemoryOK, MemoryOK', ClaimsInv, NEW b \in Replicas, Restart(b)
  PROVE  ClaimsInv'
<1>1. orders' = orders /\ traded' = traded  BY DEF Restart, CrashTx
<1>2. ASSUME NEW t \in Threads
      PROVE  \/ task'[t] = NoTask /\ ctx'[t] = Closed
             \/ task'[t] = task[t] /\ ctx'[t] = ctx[t]
  BY DEF Restart, CrashTx
<1>3. ASSUME NEW t \in Threads PROVE SettleOK(task'[t], ctx'[t], orders')
  <2>1. SettleOK(task[t], ctx[t], orders)  BY DEF ClaimsInv
  <2>2. SettleOK(NoTask, Closed, orders)  BY NoTaskFields, ClosedEmpty DEF SettleOK
  <2> QED  BY <1>1, <1>2, <2>1, <2>2
<1>4. ASSUME NEW t \in Threads, NEW o \in Orders
      PROVE  Claim(task'[t], ctx'[t], orders', o) <= Claim(task[t], ctx[t], orders, o)
  <2>1. Claim(NoTask, Closed, orders, o) = 0  BY NoTaskFields, ClosedEmpty, NothingLoaded, NoClaim
  <2>2. Claim(task[t], ctx[t], orders, o) \in Nat  BY ClaimNat
  <2> QED  BY <1>1, <1>2, <2>1, <2>2
<1> QED  BY <1>1, <1>3, <1>4, LessClaims

\* Nothing of it changes.
LEMMA StutterClaims ==
  ASSUME StoreInv, StoreInv', MemoryOK, MemoryOK', ClaimsInv, UNCHANGED <<storeVars, task, traded>>
  PROVE  ClaimsInv'
<1>1. orders' = orders /\ ctx' = ctx /\ task' = task /\ traded' = traded  BY DEF storeVars
<1>2. \A t \in Threads : SettleOK(task'[t], ctx'[t], orders')  BY <1>1 DEF ClaimsInv
<1>3. ASSUME NEW t \in Threads, NEW o \in Orders
      PROVE  Claim(task'[t], ctx'[t], orders', o) <= Claim(task[t], ctx[t], orders, o)
  BY <1>1, ClaimNat
<1> QED  BY <1>1, <1>2, <1>3, LessClaims

\* In the beginning nothing is claimed.
LEMMA ClaimsInit == Init => ClaimsInv
<1> SUFFICES ASSUME Init PROVE ClaimsInv  OBVIOUS
<1>1. \A t \in Threads : task[t] = NoTask /\ ctx[t] = Closed  BY DEF Init, ExecInit, StoreInit
<1>2. \A t \in Threads : SettleOK(task[t], ctx[t], orders)
  BY <1>1, NoTaskFields, ClosedEmpty DEF SettleOK
<1>3. ASSUME NEW o \in Orders \ RfqOrders PROVE orders[o].filled + Claims(o) <= traded[o]
  <2> DEFINE f == [t \in Threads |-> Claim(task[t], ctx[t], orders, o)]
             z == [t \in Threads |-> 0]
  <2>1. \A t \in Threads : f[t] = 0
    BY <1>1, NoTaskFields, ClosedEmpty, NothingLoaded, NoClaim
  <2>2. \A t \in Threads : z[t] = 0  OBVIOUS
  <2>3. IsFiniteSet(Threads)  BY ExecutionAssumption DEF ExecutionAssumption
  <2>4. orders[o].filled = 0 /\ traded[o] = 0  BY DEF Init, ExecInit, StoreInit, NoOrderRow
  <2> HIDE DEF f, z
  <2>5. SumFunctionOnSet(f, Threads) = 0  BY <2>1, <2>3, SumZero
  <2> QED  BY <2>4, <2>5 DEF Claims, f
<1> QED  BY <1>2, <1>3 DEF ClaimsInv

\* Every step of the OMS keeps claims and fills within what is traded.
LEMMA ClaimsNext ==
  StoreInv /\ StoreInv' /\ MemoryOK /\ MemoryOK' /\ ClaimsInv /\ [Next]_vars => ClaimsInv'
<1> SUFFICES ASSUME StoreInv, StoreInv', MemoryOK, MemoryOK', ClaimsInv, [Next]_vars PROVE ClaimsInv'
  OBVIOUS
<1>1. CASE UNCHANGED vars  BY <1>1, StutterClaims DEF vars, execVars
<1>2. CASE \E o \in Orders : NewOrder(o)  BY <1>2, CreateClaims
<1>3. ASSUME NEW t \in Threads, ClientStep(t) PROVE ThreadStep(t)
  BY <1>3, StartClaims, EngineClaims, PlaceClaims, PublishJoinedClaims, DroppedClaims, EndClaims, FailClaims
  DEF ClientStep
<1>4. ASSUME NEW t \in Threads, MakerStep(t) PROVE ThreadStep(t) \/ PullQuote(t)
  BY <1>4, StartPostClaims, EngineClaims, PublishAloneClaims, DroppedClaims, EndClaims, RetryClaims
  DEF MakerStep
<1>5. ASSUME NEW t \in Threads, PullQuote(t) PROVE ClaimsInv'
  BY <1>5, StutterClaims DEF PullQuote
<1>6. ASSUME NEW t \in Threads, TakePublishLock(t) \/ ReleasePublishLock(t) PROVE ThreadStep(t)
  BY <1>6, PlaceClaims
<1>7. CASE \E b \in Replicas : Restart(b)  BY <1>7, RestartClaims
<1>8. ASSUME NEW t \in Threads, ThreadStep(t) PROVE ClaimsInv'  BY <1>8, ThreadStepKeepsClaims
<1> QED
  BY <1>1, <1>2, <1>3, <1>4, <1>5, <1>6, <1>7, <1>8, ExecutionAssumption DEF Next, ExecutionAssumption

(***************************************************************************)
(* For any constants, no trade is booked twice: recordFill, the retries of *)
(* FillRecorder, rollbacks, re-routes and restarts leave no order with     *)
(* more fills than the engines have matched for it.                        *)
(***************************************************************************)
THEOREM FillsWithinTrades == Spec => []FilledWithinTraded
<1> DEFINE Inv == StoreInv /\ MemoryOK /\ ClaimsInv
<1>1. Init => Inv
  BY StoreInvInit, MemoryInit, ClaimsInit DEF Init
<1>2. Inv /\ [Next]_vars => Inv'
  BY StepUsesStore, StoreInvNext, MemoryNext, ClaimsNext
<1>3. Inv => FilledWithinTraded
  <2> SUFFICES ASSUME Inv, NEW o \in Orders \ RfqOrders PROVE orders[o].filled <= traded[o]
    BY DEF FilledWithinTraded
  <2>1. orders[o].filled + Claims(o) <= traded[o]  BY DEF ClaimsInv
  <2>2. orders[o].filled \in Nat /\ traded[o] \in Nat
    BY DEF StoreInv, StoreTypeOK, OrderRow, MemoryOK, TradesOK
  <2>3. Claims(o) \in Nat
    <3> DEFINE f == [t \in Threads |-> Claim(task[t], ctx[t], orders, o)]
    <3>1. \A t \in Threads : f[t] \in Nat  BY ClaimNat
    <3>2. IsFiniteSet(Threads)  BY ExecutionAssumption DEF ExecutionAssumption
    <3> HIDE DEF f
    <3>3. SumFunctionOnSet(f, Threads) \in Nat  BY <3>1, <3>2, SumNat
    <3> QED  BY <3>3 DEF Claims, f
  <2> QED  BY <2>1, <2>2, <2>3
<1> QED  BY <1>1, <1>2, <1>3, PTL DEF Spec
=============================================================================
