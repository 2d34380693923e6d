---------------------------- MODULE PipelineProofs ----------------------------
(***************************************************************************)
(* For any number of orders, writers, rows and replicas, and any crashes,  *)
(* timeouts and failed sends: the outbox is the committed history of the   *)
(* orders and its id order is the lifecycle order; nothing else reaches    *)
(* the topic, no row is stamped or given up without its cause, and the     *)
(* outbox implements the at-least-once feed.  The risk view at the other   *)
(* end of the topic only shows committed states, and while one replica     *)
(* alone drains the outbox it shows the newest one as soon as all is       *)
(* quiet; the run v_two_relays shows that this needs its assumption.       *)
(***************************************************************************)
EXTENDS RiskView, SequenceTheorems, FiniteSetTheorems, TLAPS

(***************************************************************************)
(* The inductive invariant of the writers.  It follows each row through    *)
(* its transaction: an open transaction owns exactly the rows of the steps *)
(* it has taken since it read the order, and as long as its read is still  *)
(* current they are younger than every committed row of that order.        *)
(***************************************************************************)
IdentityUsed ==
  \A i \in Ids : rows[i].st # "absent" => i < nextId /\ rows[i].order \in Orders

OwnsItsRows ==
  /\ \A w \in Writers : \A i \in tx[w].ids :
       /\ rows[i].st = "inserted"
       /\ rows[i].order \in tx[w].loaded
       /\ tx[w].read[rows[i].order] < rows[i].seq
       /\ rows[i].seq <= tx[w].cur[rows[i].order]
  /\ \A v, w \in Writers : v # w => tx[v].ids \cap tx[w].ids = {}

ReadsAreOld ==
  \A w \in Writers : \A o \in tx[w].loaded :
    tx[w].read[o] <= tx[w].cur[o] /\ tx[w].read[o] <= version[o]

StepsHaveRows ==
  /\ \A w \in Writers : \A o \in tx[w].loaded :
       \A n \in tx[w].read[o] + 1 .. tx[w].cur[o] :
         \E i \in tx[w].ids : rows[i].order = o /\ rows[i].seq = n
  /\ \A o \in Orders : \A n \in 1 .. version[o] :
       \E i \in CommittedRows(o) : rows[i].seq = n

RowsAreSteps ==
  \A o \in Orders : \A i \in CommittedRows(o) : 1 <= rows[i].seq /\ rows[i].seq <= version[o]

TxRowsAscend ==
  \A w \in Writers : \A i, j \in tx[w].ids :
    i < j /\ rows[i].order = rows[j].order => rows[i].seq < rows[j].seq

CurrentTxIsYounger ==
  \A w \in Writers : \A o \in tx[w].loaded : version[o] = tx[w].read[o] =>
    \A i \in CommittedRows(o) : \A j \in tx[w].ids : rows[j].order = o => i < j

WriterInv ==
  /\ WriterTypeOK
  /\ IdentityUsed /\ OwnsItsRows /\ ReadsAreOld
  /\ StepsHaveRows /\ RowsAreSteps /\ TxRowsAscend
  /\ CurrentTxIsYounger /\ IdsFollowLifecycle

-----------------------------------------------------------------------------
\* The initial state satisfies the invariant: there is no transaction and no row.
LEMMA WriterInvInit == WriterInit => WriterInv
<1> SUFFICES ASSUME WriterInit PROVE WriterInv
  OBVIOUS
<1> USE WriterAssumption DEF WriterInit
<1>1. \A i \in Ids : rows[i].st = "absent" /\ rows[i].order = NoOrder
  BY DEF NoRow
<1>2. \A w \in Writers : tx[w].ids = {} /\ tx[w].loaded = {}
  BY DEF NoTx
<1>3. \A o \in Orders : CommittedRows(o) = {}
  BY <1>1 DEF CommittedRows, Committed
<1>4. WriterTypeOK
  <2>1. NoRow \in Row
    BY DEF NoRow, Row, RowState
  <2>2. NoTx \in Tx
    BY DEF NoTx, Tx
  <2>3. QED
    BY <2>1, <2>2 DEF WriterTypeOK
<1>5. IdentityUsed
  BY <1>1 DEF IdentityUsed
<1>6. OwnsItsRows /\ ReadsAreOld /\ TxRowsAscend /\ CurrentTxIsYounger
  BY <1>2 DEF OwnsItsRows, ReadsAreOld, TxRowsAscend, CurrentTxIsYounger
<1>7. StepsHaveRows /\ RowsAreSteps /\ IdsFollowLifecycle
  BY <1>2, <1>3 DEF StepsHaveRows, RowsAreSteps, IdsFollowLifecycle
<1> QED
  BY <1>4, <1>5, <1>6, <1>7 DEF WriterInv

(***************************************************************************)
(* Load: one order enters one persistence context with its current         *)
(* version; the rows do not change.                                        *)
(***************************************************************************)
LEMMA LoadInv ==
  ASSUME WriterInv, NEW w \in Writers, NEW o \in Orders, Load(w, o)
  PROVE  WriterInv'
<1> USE DEF WriterInv
<1>1. /\ o \notin tx[w].loaded
      /\ UNCHANGED <<version, rows, nextId>>
  BY DEF Load
<1>2. /\ tx[w] \in Tx /\ version[o] \in Nat
      /\ version \in [Orders -> Nat] /\ tx \in [Writers -> Tx] /\ rows \in [Ids -> Row]
  BY DEF WriterTypeOK
<1>3. /\ tx'[w].ids = tx[w].ids
      /\ tx'[w].loaded = tx[w].loaded \cup {o}
      /\ tx'[w].read[o] = version[o] /\ tx'[w].cur[o] = version[o]
      /\ \A p \in Orders \ {o} : tx'[w].read[p] = tx[w].read[p] /\ tx'[w].cur[p] = tx[w].cur[p]
  BY <1>2 DEF Load, Tx
<1>4. \A v \in Writers \ {w} : tx'[v] = tx[v]
  BY <1>2 DEF Load
<1>5. \A p \in Orders : CommittedRows(p)' = CommittedRows(p)
  BY <1>1 DEF CommittedRows
<1>6. WriterTypeOK'
  BY <1>1, <1>2 DEF Load, WriterTypeOK, Tx
<1>7. \A i \in tx[w].ids : rows[i].order # o /\ rows[i].order \in tx[w].loaded
  BY <1>1 DEF OwnsItsRows
<1>8. IdentityUsed'
  BY <1>1 DEF IdentityUsed
<1>9. OwnsItsRows'
  <2>1. ASSUME NEW v \in Writers, NEW i \in tx'[v].ids
        PROVE  /\ rows'[i].st = "inserted"
               /\ rows'[i].order \in tx'[v].loaded
               /\ tx'[v].read[rows'[i].order] < rows'[i].seq
               /\ rows'[i].seq <= tx'[v].cur[rows'[i].order]
    <3>1. CASE v = w
      <4>1. i \in tx[w].ids /\ i \in Ids
        BY <3>1, <1>2, <1>3 DEF Tx
      <4>2. rows[i].order \in Orders \ {o}
        BY <4>1, <1>2, <1>7 DEF Tx
      <4>3. QED
        BY <3>1, <4>1, <4>2, <1>1, <1>3 DEF OwnsItsRows
    <3>2. CASE v # w
      BY <3>2, <1>1, <1>4 DEF OwnsItsRows
    <3> QED
      BY <3>1, <3>2
  <2>2. \A v \in Writers : tx'[v].ids = tx[v].ids
    BY <1>3, <1>4
  <2> QED
    BY <2>1, <2>2 DEF OwnsItsRows
<1>10. ReadsAreOld'
  <2>1. ASSUME NEW v \in Writers, NEW p \in tx'[v].loaded
        PROVE  tx'[v].read[p] <= tx'[v].cur[p] /\ tx'[v].read[p] <= version'[p]
    <3>1. CASE v = w /\ p = o
      BY <3>1, <1>1, <1>2, <1>3
    <3>2. CASE v = w /\ p # o
      <4>1. p \in tx[w].loaded /\ p \in Orders \ {o}
        BY <3>2, <1>2, <1>3 DEF Tx
      <4> QED
        BY <3>2, <4>1, <1>1, <1>3 DEF ReadsAreOld
    <3>3. CASE v # w
      BY <3>3, <1>1, <1>4 DEF ReadsAreOld
    <3> QED
      BY <3>1, <3>2, <3>3
  <2> QED
    BY <2>1 DEF ReadsAreOld
<1>11. StepsHaveRows'
  <2>1. ASSUME NEW v \in Writers, NEW p \in tx'[v].loaded,
               NEW n \in tx'[v].read[p] + 1 .. tx'[v].cur[p]
        PROVE  \E i \in tx'[v].ids : rows'[i].order = p /\ rows'[i].seq = n
    <3>1. CASE v = w /\ p = o
      BY <3>1, <1>2, <1>3
    <3>2. CASE v = w /\ p # o
      <4>1. p \in tx[w].loaded /\ p \in Orders \ {o}
        BY <3>2, <1>2, <1>3 DEF Tx
      <4> QED
        BY <3>2, <4>1, <1>1, <1>3 DEF StepsHaveRows
    <3>3. CASE v # w
      BY <3>3, <1>1, <1>4 DEF StepsHaveRows
    <3> QED
      BY <3>1, <3>2, <3>3
  <2> QED
    BY <2>1, <1>1, <1>5 DEF StepsHaveRows
<1>12. RowsAreSteps' /\ IdsFollowLifecycle'
  BY <1>1, <1>5 DEF RowsAreSteps, IdsFollowLifecycle
<1>13. \A v \in Writers : tx'[v].ids = tx[v].ids
  BY <1>3, <1>4
<1>14. TxRowsAscend'
  BY <1>1, <1>13 DEF TxRowsAscend
<1>15. CurrentTxIsYounger'
  <2>1. ASSUME NEW v \in Writers, NEW p \in tx'[v].loaded, version'[p] = tx'[v].read[p],
               NEW i \in CommittedRows(p)', NEW j \in tx'[v].ids, rows'[j].order = p
        PROVE  i < j
    <3>1. CASE v = w /\ p = o
      BY <2>1, <3>1, <1>1, <1>7, <1>13
    <3>2. CASE v = w /\ p # o
      <4>1. p \in tx[w].loaded /\ p \in Orders \ {o}
        BY <3>2, <1>2, <1>3 DEF Tx
      <4> QED
        BY <2>1, <3>2, <4>1, <1>1, <1>3, <1>5 DEF CurrentTxIsYounger
    <3>3. CASE v # w
      <4>1. p \in Orders
        BY <3>3, <1>2, <1>4 DEF Tx
      <4> QED
        BY <2>1, <3>3, <4>1, <1>1, <1>4, <1>5 DEF CurrentTxIsYounger
    <3> QED
      BY <3>1, <3>2, <3>3
  <2> QED
    BY <2>1 DEF CurrentTxIsYounger
<1> QED
  BY <1>6, <1>8, <1>9, <1>10, <1>11, <1>12, <1>14, <1>15 DEF WriterInv

(***************************************************************************)
(* Publish: the new row has the largest id so far, belongs to no other     *)
(* transaction, and carries the step after the last one of its order.      *)
(***************************************************************************)
LEMMA PublishInv ==
  ASSUME WriterInv, NEW w \in Writers, NEW o \in Orders, Publish(w, o)
  PROVE  WriterInv'
<1> USE DEF WriterInv
<1> DEFINE n == nextId
           new == [order |-> o, seq |-> tx[w].cur[o] + 1, st |-> "inserted", attempts |-> 0]
<1>1. /\ o \in tx[w].loaded /\ n \in Ids /\ nextId' = n + 1 /\ version' = version
  BY DEF Publish
<1>2. /\ tx[w] \in Tx /\ tx[w].cur[o] \in Nat /\ n \in Nat
      /\ version \in [Orders -> Nat] /\ tx \in [Writers -> Tx] /\ rows \in [Ids -> Row]
      /\ Ids \subseteq Nat
  BY DEF WriterTypeOK, Tx, Ids
<1>3. rows'[n] = new /\ \A i \in Ids \ {n} : rows'[i] = rows[i]
  BY <1>1, <1>2 DEF Publish
<1>4. /\ tx'[w].loaded = tx[w].loaded /\ tx'[w].read = tx[w].read
      /\ tx'[w].ids = tx[w].ids \cup {n}
      /\ tx'[w].cur[o] = tx[w].cur[o] + 1
      /\ \A p \in Orders \ {o} : tx'[w].cur[p] = tx[w].cur[p]
  BY <1>2 DEF Publish, Tx
<1>5. \A v \in Writers \ {w} : tx'[v] = tx[v]
  BY <1>2 DEF Publish
<1>6. \A v \in Writers : n \notin tx[v].ids /\ tx[v].ids \subseteq Ids /\ tx[v].loaded \subseteq Orders
  <2>1. rows[n].st = "absent"
    BY <1>1, <1>2 DEF IdentityUsed
  <2> QED
    BY <2>1, <1>2 DEF OwnsItsRows, Tx
<1>7. \A p \in Orders : CommittedRows(p)' = CommittedRows(p)
  <2>1. rows[n].st = "absent"
    BY <1>1, <1>2 DEF IdentityUsed
  <2> QED
    BY <2>1, <1>3 DEF CommittedRows, Committed
<1>8. \A p \in Orders : \A i \in CommittedRows(p) : i \in Ids /\ rows'[i] = rows[i] /\ i < n
  <2>1. rows[n].st = "absent"
    BY <1>1, <1>2 DEF IdentityUsed
  <2> QED
    BY <2>1, <1>3 DEF CommittedRows, Committed, IdentityUsed
<1>9. \A v \in Writers : \A i \in tx[v].ids :
        rows'[i] = rows[i] /\ i < n /\ rows[i].order \in Orders /\ rows[i].seq \in Nat
  BY <1>2, <1>3, <1>6 DEF OwnsItsRows, IdentityUsed, Row
<1>10. WriterTypeOK'
  <2>1. new \in Row
    BY <1>2 DEF Row, RowState
  <2>2. rows' \in [Ids -> Row]
    BY <2>1, <1>1, <1>2 DEF Publish
  <2>3. tx' \in [Writers -> Tx]
    BY <1>1, <1>2 DEF Publish, Tx
  <2>4. nextId' \in 1 .. MaxRows + 1
    BY <1>1, WriterAssumption DEF Ids
  <2> QED
    BY <2>2, <2>3, <2>4, <1>1, <1>2 DEF WriterTypeOK
<1>11. IdentityUsed'
  <2> SUFFICES ASSUME NEW i \in Ids, rows'[i].st # "absent"
               PROVE  i < n + 1 /\ rows'[i].order \in Orders
    BY <1>1 DEF IdentityUsed
  <2>1. CASE i = n
    BY <2>1, <1>2, <1>3
  <2>2. CASE i # n
    <3>1. i < n /\ rows[i].order \in Orders
      BY <2>2, <1>3 DEF IdentityUsed
    <3> QED
      BY <2>2, <3>1, <1>2, <1>3
  <2> QED
    BY <2>1, <2>2
<1>12. OwnsItsRows'
  <2>1. ASSUME NEW v \in Writers, NEW i \in tx'[v].ids
        PROVE  /\ rows'[i].st = "inserted"
               /\ rows'[i].order \in tx'[v].loaded
               /\ tx'[v].read[rows'[i].order] < rows'[i].seq
               /\ rows'[i].seq <= tx'[v].cur[rows'[i].order]
    <3>1. CASE v = w /\ i = n
      <4>1. tx[w].read[o] \in Nat /\ tx[w].read[o] <= tx[w].cur[o]
        BY <1>1, <1>2 DEF ReadsAreOld, Tx
      <4> QED
        BY <3>1, <4>1, <1>1, <1>2, <1>3, <1>4
    <3>2. CASE v = w /\ i # n
      <4>1. i \in tx[w].ids
        BY <3>2, <1>4
      <4>2. rows[i].seq <= tx[w].cur[rows[i].order] /\ tx[w].cur[rows[i].order] \in Nat
        BY <4>1, <1>2, <1>9 DEF OwnsItsRows, Tx
      <4>3. tx[w].cur[rows[i].order] <= tx'[w].cur[rows[i].order]
        BY <4>1, <4>2, <1>2, <1>4, <1>9
      <4>4. rows[i].seq <= tx'[w].cur[rows[i].order]
        BY <4>1, <4>2, <4>3, <1>2, <1>4, <1>9
      <4> QED
        BY <3>2, <4>1, <4>4, <1>4, <1>9 DEF OwnsItsRows
    <3>3. CASE v # w
      BY <3>3, <1>5, <1>9 DEF OwnsItsRows
    <3> QED
      BY <3>1, <3>2, <3>3
  <2>2. ASSUME NEW u \in Writers, NEW v \in Writers, u # v
        PROVE  tx'[u].ids \cap tx'[v].ids = {}
    BY <2>2, <1>4, <1>5, <1>6 DEF OwnsItsRows
  <2> QED
    BY <2>1, <2>2 DEF OwnsItsRows
<1>13. ReadsAreOld'
  <2>1. ASSUME NEW v \in Writers, NEW p \in tx'[v].loaded
        PROVE  tx'[v].read[p] <= tx'[v].cur[p] /\ tx'[v].read[p] <= version'[p]
    <3>1. CASE v = w
      <4>1. p \in tx[w].loaded /\ p \in Orders
        BY <3>1, <1>4, <1>6
      <4>2. tx[w].read[p] \in Nat /\ tx[w].cur[p] \in Nat
            /\ tx[w].read[p] <= tx[w].cur[p] /\ tx[w].read[p] <= version[p]
        BY <4>1, <1>2 DEF ReadsAreOld, Tx
      <4> QED
        BY <3>1, <4>1, <4>2, <1>1, <1>4
    <3>2. CASE v # w
      BY <3>2, <1>1, <1>5 DEF ReadsAreOld
    <3> QED
      BY <3>1, <3>2
  <2> QED
    BY <2>1 DEF ReadsAreOld
<1>14. StepsHaveRows'
  <2>1. ASSUME NEW v \in Writers, NEW p \in tx'[v].loaded,
               NEW k \in tx'[v].read[p] + 1 .. tx'[v].cur[p]
        PROVE  \E i \in tx'[v].ids : rows'[i].order = p /\ rows'[i].seq = k
    <3>1. CASE v = w /\ p = o /\ k = tx[w].cur[o] + 1
      BY <3>1, <1>3, <1>4
    <3>2. CASE v = w /\ ~(p = o /\ k = tx[w].cur[o] + 1)
      <4>1. p \in tx[w].loaded /\ p \in Orders /\ tx[w].read[p] \in Nat /\ tx[w].cur[p] \in Nat
        BY <3>2, <1>2, <1>4, <1>6 DEF Tx
      <4>2. k \in tx[w].read[p] + 1 .. tx[w].cur[p]
        BY <3>2, <4>1, <1>4
      <4>3. PICK i \in tx[w].ids : rows[i].order = p /\ rows[i].seq = k
        BY <4>1, <4>2 DEF StepsHaveRows
      <4> QED
        BY <3>2, <4>3, <1>4, <1>9
    <3>3. CASE v # w
      <4>1. PICK i \in tx[v].ids : rows[i].order = p /\ rows[i].seq = k
        BY <3>3, <1>5 DEF StepsHaveRows
      <4> QED
        BY <3>3, <4>1, <1>5, <1>9
    <3> QED
      BY <3>1, <3>2, <3>3
  <2>2. ASSUME NEW p \in Orders, NEW k \in 1 .. version'[p]
        PROVE  \E i \in CommittedRows(p)' : rows'[i].seq = k
    <3>1. PICK i \in CommittedRows(p) : rows[i].seq = k
      BY <2>2, <1>1 DEF StepsHaveRows
    <3> QED
      BY <3>1, <1>7, <1>8
  <2> QED
    BY <2>1, <2>2 DEF StepsHaveRows
<1>15. RowsAreSteps'
  BY <1>1, <1>7, <1>8 DEF RowsAreSteps
<1>16. IdsFollowLifecycle'
  BY <1>7, <1>8 DEF IdsFollowLifecycle
<1>17. TxRowsAscend'
  <2>1. ASSUME NEW v \in Writers, NEW i \in tx'[v].ids, NEW j \in tx'[v].ids,
               i < j, rows'[i].order = rows'[j].order
        PROVE  rows'[i].seq < rows'[j].seq
    <3>1. CASE v = w /\ j = n
      <4>1. i \in tx[w].ids /\ rows'[i] = rows[i] /\ rows[i].order = o
        BY <2>1, <3>1, <1>2, <1>3, <1>4, <1>9
      <4>2. rows[i].seq <= tx[w].cur[o] /\ rows[i].seq \in Nat
        BY <4>1, <1>9 DEF OwnsItsRows
      <4> QED
        BY <3>1, <4>1, <4>2, <1>2, <1>3
    <3>2. CASE v = w /\ j # n
      <4>1. i \in tx[w].ids /\ j \in tx[w].ids
        <5>1. j \in tx[w].ids /\ j < n /\ j \in Nat
          BY <3>2, <1>2, <1>4, <1>6, <1>9
        <5>2. i # n
          BY <5>1, <2>1, <1>2
        <5> QED
          BY <5>1, <5>2, <3>2, <1>4
      <4> QED
        BY <2>1, <4>1, <1>9 DEF TxRowsAscend
    <3>3. CASE v # w
      BY <2>1, <3>3, <1>5, <1>9 DEF TxRowsAscend
    <3> QED
      BY <3>1, <3>2, <3>3
  <2> QED
    BY <2>1 DEF TxRowsAscend
<1>18. CurrentTxIsYounger'
  <2>1. ASSUME NEW v \in Writers, NEW p \in tx'[v].loaded, version'[p] = tx'[v].read[p],
               NEW i \in CommittedRows(p)', NEW j \in tx'[v].ids, rows'[j].order = p
        PROVE  i < j
    <3>1. p \in Orders /\ p \in tx[v].loaded /\ version[p] = tx[v].read[p]
      BY <2>1, <1>1, <1>4, <1>5, <1>6
    <3>2. i \in CommittedRows(p) /\ i < n
      BY <3>1, <1>7, <1>8
    <3>3. CASE j = n
      BY <3>2, <3>3
    <3>4. CASE j # n
      <4>1. j \in tx[v].ids /\ rows[j].order = p
        BY <2>1, <3>4, <1>4, <1>5, <1>9
      <4> QED
        BY <3>1, <3>2, <4>1 DEF CurrentTxIsYounger
    <3> QED
      BY <3>3, <3>4
  <2> QED
    BY <2>1 DEF CurrentTxIsYounger
<1> QED
  BY <1>10, <1>11, <1>12, <1>13, <1>14, <1>15, <1>16, <1>17, <1>18 DEF WriterInv

(***************************************************************************)
(* Commit: the rows of the transaction join the committed ones.  Every     *)
(* order they belong to still has the version that was read, so they are   *)
(* younger than its committed rows and carry the steps that follow.        *)
(***************************************************************************)
LEMMA CommitInv ==
  ASSUME WriterInv, NEW w \in Writers, CommitTx(w)
  PROVE  WriterInv'
<1> USE DEF WriterInv
<1> DEFINE S == tx[w].ids
           C == Changed(w)
<1>1. /\ tx \in [Writers -> Tx] /\ tx[w] \in Tx /\ version \in [Orders -> Nat]
      /\ rows \in [Ids -> Row] /\ Ids \subseteq Nat /\ nextId \in 1 .. MaxRows + 1
  BY DEF WriterTypeOK, Ids
<1>2. tx'[w].ids = {} /\ tx'[w].loaded = {} /\ NoTx \in Tx
  BY <1>1 DEF CommitTx, NoTx, Tx
<1>3. /\ tx' = [tx EXCEPT ![w] = NoTx] /\ nextId' = nextId
      /\ \A v \in Writers \ {w} : tx'[v] = tx[v]
  BY <1>1 DEF CommitTx
<1>4. \A v \in Writers : tx[v].ids \subseteq Ids /\ tx[v].loaded \subseteq Orders
  BY <1>1 DEF Tx
<1>5. \A p \in Orders : version[p] \in Nat /\ tx[w].read[p] \in Nat /\ tx[w].cur[p] \in Nat
  BY <1>1 DEF Tx
<1>6. /\ \A i \in S : rows'[i] = [rows[i] EXCEPT !.st = "pending"]
      /\ \A i \in Ids \ S : rows'[i] = rows[i]
      /\ rows' = [i \in Ids |-> rows'[i]]
  BY <1>4 DEF CommitTx
<1>7. \A i \in Ids : /\ rows'[i].order = rows[i].order /\ rows'[i].seq = rows[i].seq
                    /\ rows[i].seq \in Nat
                    /\ rows'[i].st = IF i \in S THEN "pending" ELSE rows[i].st
  <2> SUFFICES ASSUME NEW i \in Ids
               PROVE  /\ rows'[i].order = rows[i].order /\ rows'[i].seq = rows[i].seq
                      /\ rows[i].seq \in Nat
                      /\ rows'[i].st = IF i \in S THEN "pending" ELSE rows[i].st
    OBVIOUS
  <2>1. rows[i] \in Row
    BY <1>1
  <2> QED
    BY <2>1, <1>6 DEF Row
<1>8. /\ \A p \in C : /\ p \in Orders /\ version'[p] = tx[w].cur[p]
                      /\ version[p] = tx[w].read[p] /\ version[p] < version'[p]
      /\ \A p \in Orders \ C : version'[p] = version[p]
      /\ version' \in [Orders -> Nat]
  <2>1. \A p \in C : p \in Orders /\ tx[w].read[p] <= tx[w].cur[p] /\ tx[w].cur[p] # tx[w].read[p]
    BY <1>4 DEF Changed, ReadsAreOld
  <2>2. \A p \in C : version[p] = tx[w].read[p]
    BY DEF CommitTx, VersionsCurrent
  <2>3. version' = [p \in Orders |-> IF p \in C THEN tx[w].cur[p] ELSE version[p]]
    BY DEF CommitTx
  <2> HIDE DEF C
  <2> QED
    BY <2>1, <2>2, <2>3, <1>5
<1>9. \A p \in Orders : version'[p] \in Nat /\ version[p] <= version'[p]
  BY <1>5, <1>8
<1>10. \A i \in S : /\ i \in Ids /\ rows[i].st = "inserted" /\ rows[i].order \in C
                    /\ tx[w].read[rows[i].order] < rows[i].seq
                    /\ rows[i].seq <= tx[w].cur[rows[i].order]
  <2> SUFFICES ASSUME NEW i \in S
               PROVE  /\ i \in Ids /\ rows[i].st = "inserted" /\ rows[i].order \in C
                      /\ tx[w].read[rows[i].order] < rows[i].seq
                      /\ rows[i].seq <= tx[w].cur[rows[i].order]
    OBVIOUS
  <2>1. /\ i \in Ids /\ rows[i].st = "inserted" /\ rows[i].order \in tx[w].loaded
        /\ tx[w].read[rows[i].order] < rows[i].seq
        /\ rows[i].seq <= tx[w].cur[rows[i].order]
    BY <1>4 DEF OwnsItsRows
  <2>2. tx[w].cur[rows[i].order] # tx[w].read[rows[i].order]
    BY <2>1, <1>4, <1>5, <1>7
  <2> QED
    BY <2>1, <2>2 DEF Changed
<1>11. \A v \in Writers \ {w} : \A i \in tx[v].ids : i \in Ids /\ i \notin S /\ rows'[i] = rows[i]
  BY <1>4, <1>6 DEF OwnsItsRows
<1> HIDE DEF S, C
<1>12. \A p \in Orders : CommittedRows(p)' = CommittedRows(p) \cup {i \in S : rows[i].order = p}
  <2> SUFFICES ASSUME NEW p \in Orders, NEW i \in Ids
               PROVE  (rows'[i].order = p /\ rows'[i].st \in Committed)
                      <=> \/ rows[i].order = p /\ rows[i].st \in Committed
                          \/ i \in S /\ rows[i].order = p
    BY <1>10 DEF CommittedRows
  <2>1. "pending" \in Committed /\ "inserted" \notin Committed
    BY DEF Committed
  <2> QED
    BY <2>1, <1>7, <1>10
<1>13. \A p \in Orders : \A i \in CommittedRows(p) :
         i \in Ids /\ i \notin S /\ rows[i].order = p /\ rows'[i].seq = rows[i].seq
  BY <1>7, <1>10 DEF CommittedRows, Committed
<1>14. WriterTypeOK'
  <2>1. ASSUME NEW i \in Ids PROVE rows'[i] \in Row
    <3>1. rows[i] \in Row
      BY <1>1
    <3>2. [rows[i] EXCEPT !.st = "pending"] \in Row
      BY <3>1 DEF Row, RowState, Committed
    <3> QED
      BY <3>1, <3>2, <1>6
  <2> QED
    BY <2>1, <1>1, <1>2, <1>3, <1>6, <1>8 DEF WriterTypeOK
<1>15. IdentityUsed'
  BY <1>3, <1>7, <1>10 DEF IdentityUsed
<1>16. OwnsItsRows'
  BY <1>2, <1>3, <1>11 DEF OwnsItsRows
<1>17. ReadsAreOld'
  <2>1. ASSUME NEW v \in Writers, NEW p \in tx'[v].loaded
        PROVE  tx'[v].read[p] <= tx'[v].cur[p] /\ tx'[v].read[p] <= version'[p]
    <3>1. v # w /\ tx'[v] = tx[v] /\ p \in Orders /\ p \in tx[v].loaded
      BY <1>2, <1>3, <1>4
    <3>2. tx[v].read[p] \in Nat /\ tx[v].read[p] <= tx[v].cur[p] /\ tx[v].read[p] <= version[p]
      BY <3>1, <1>1 DEF ReadsAreOld, Tx
    <3> QED
      BY <3>1, <3>2, <1>5, <1>9
  <2> QED
    BY <2>1 DEF ReadsAreOld
<1>18. StepsHaveRows'
  <2>1. ASSUME NEW v \in Writers, NEW p \in tx'[v].loaded,
               NEW k \in tx'[v].read[p] + 1 .. tx'[v].cur[p]
        PROVE  \E i \in tx'[v].ids : rows'[i].order = p /\ rows'[i].seq = k
    <3>1. v \in Writers \ {w} /\ tx'[v] = tx[v]
      BY <1>2, <1>3
    <3>2. PICK i \in tx[v].ids : rows[i].order = p /\ rows[i].seq = k
      BY <3>1 DEF StepsHaveRows
    <3> QED
      BY <3>1, <3>2, <1>11
  <2>2. ASSUME NEW p \in Orders, NEW k \in 1 .. version'[p]
        PROVE  \E i \in CommittedRows(p)' : rows'[i].seq = k
    <3>1. CASE k <= version[p]
      <4>1. k \in 1 .. version[p]
        BY <3>1, <1>5, <1>9
      <4>2. PICK i \in CommittedRows(p) : rows[i].seq = k
        BY <4>1 DEF StepsHaveRows
      <4> QED
        BY <4>2, <1>12, <1>13
    <3>2. CASE ~(k <= version[p])
      <4>1. p \in C
        BY <3>2, <1>5, <1>8
      <4>2. k \in tx[w].read[p] + 1 .. tx[w].cur[p] /\ p \in tx[w].loaded
        BY <3>2, <4>1, <1>5, <1>8 DEF C, Changed
      <4>3. PICK i \in tx[w].ids : rows[i].order = p /\ rows[i].seq = k
        BY <4>2 DEF StepsHaveRows
      <4> QED
        BY <4>3, <1>7, <1>10, <1>12 DEF S
    <3> QED
      BY <3>1, <3>2
  <2> QED
    BY <2>1, <2>2 DEF StepsHaveRows
<1>19. RowsAreSteps'
  <2>1. ASSUME NEW p \in Orders, NEW i \in CommittedRows(p)'
        PROVE  1 <= rows'[i].seq /\ rows'[i].seq <= version'[p]
    <3>1. CASE i \in CommittedRows(p)
      <4>1. rows[i].seq \in Nat /\ 1 <= rows[i].seq /\ rows[i].seq <= version[p]
        BY <3>1, <1>7, <1>13 DEF RowsAreSteps
      <4> QED
        BY <3>1, <4>1, <1>5, <1>9, <1>13
    <3>2. CASE i \in S /\ rows[i].order = p
      <4>1. tx[w].read[p] \in Nat /\ tx[w].cur[p] \in Nat
        BY <1>5
      <4> QED
        BY <3>2, <4>1, <1>7, <1>8, <1>10
    <3> QED
      BY <3>1, <3>2, <1>12
  <2> QED
    BY <2>1 DEF RowsAreSteps
<1>20. IdsFollowLifecycle'
  <2>1. ASSUME NEW p \in Orders, NEW i \in CommittedRows(p)', NEW j \in CommittedRows(p)', i < j
        PROVE  rows'[i].seq < rows'[j].seq
    <3>1. i \in Ids /\ j \in Ids /\ i \in Nat /\ j \in Nat
      BY <2>1, <1>1 DEF CommittedRows
    <3>2. CASE i \in CommittedRows(p) /\ j \in CommittedRows(p)
      BY <2>1, <3>1, <3>2, <1>7 DEF IdsFollowLifecycle
    <3>3. CASE i \in CommittedRows(p) /\ j \in S /\ rows[j].order = p
      <4>1. rows[i].seq <= version[p] /\ version[p] = tx[w].read[p] /\ tx[w].read[p] < rows[j].seq
        BY <3>3, <1>8, <1>10 DEF RowsAreSteps
      <4> QED
        BY <3>1, <4>1, <1>5, <1>7
    <3>4. CASE i \in S /\ rows[i].order = p /\ j \in CommittedRows(p)
      <4>1. p \in tx[w].loaded /\ version[p] = tx[w].read[p]
        BY <3>4, <1>8, <1>10 DEF C, Changed
      <4>2. j < i
        BY <3>4, <4>1 DEF CurrentTxIsYounger, S
      <4> QED
        BY <2>1, <3>1, <4>2
    <3>5. CASE i \in S /\ rows[i].order = p /\ j \in S /\ rows[j].order = p
      BY <2>1, <3>1, <3>5, <1>7 DEF TxRowsAscend, S
    <3> QED
      BY <3>2, <3>3, <3>4, <3>5, <1>12
  <2> QED
    BY <2>1 DEF IdsFollowLifecycle
<1>21. TxRowsAscend'
  <2>1. ASSUME NEW v \in Writers, NEW i \in tx'[v].ids, NEW j \in tx'[v].ids,
               i < j, rows'[i].order = rows'[j].order
        PROVE  rows'[i].seq < rows'[j].seq
    <3>1. v \in Writers \ {w} /\ tx'[v] = tx[v]
      BY <1>2, <1>3
    <3> QED
      BY <2>1, <3>1, <1>11 DEF TxRowsAscend
  <2> QED
    BY <2>1 DEF TxRowsAscend
<1>22. CurrentTxIsYounger'
  <2>1. ASSUME NEW v \in Writers, NEW p \in tx'[v].loaded, version'[p] = tx'[v].read[p],
               NEW i \in CommittedRows(p)', NEW j \in tx'[v].ids, rows'[j].order = p
        PROVE  i < j
    <3>1. v \in Writers \ {w} /\ tx'[v] = tx[v] /\ p \in Orders /\ p \in tx[v].loaded
      BY <1>2, <1>3, <1>4
    <3>2. tx[v].read[p] \in Nat /\ tx[v].read[p] <= version[p]
      BY <3>1, <1>1 DEF ReadsAreOld, Tx
    <3>3. p \notin C
      BY <2>1, <3>1, <3>2, <1>5, <1>8, <1>9
    <3>4. version[p] = tx[v].read[p] /\ i \in CommittedRows(p)
      BY <2>1, <3>1, <3>3, <1>8, <1>10, <1>12
    <3> QED
      BY <2>1, <3>1, <3>4, <1>11 DEF CurrentTxIsYounger
  <2> QED
    BY <2>1 DEF CurrentTxIsYounger
<1> QED
  BY <1>14, <1>15, <1>16, <1>17, <1>18, <1>19, <1>20, <1>21, <1>22 DEF WriterInv

(***************************************************************************)
(* Rollback: the rows of the transaction become void, nothing else moves.  *)
(***************************************************************************)
LEMMA RollbackInv ==
  ASSUME WriterInv, NEW w \in Writers, RollbackTx(w)
  PROVE  WriterInv'
<1> USE DEF WriterInv
<1> DEFINE S == tx[w].ids
<1>1. /\ tx \in [Writers -> Tx] /\ tx[w] \in Tx /\ version \in [Orders -> Nat]
      /\ rows \in [Ids -> Row] /\ nextId \in 1 .. MaxRows + 1
  BY DEF WriterTypeOK
<1>2. tx'[w].ids = {} /\ tx'[w].loaded = {} /\ NoTx \in Tx
  BY <1>1 DEF RollbackTx, NoTx, Tx
<1>3. /\ tx' = [tx EXCEPT ![w] = NoTx] /\ nextId' = nextId /\ version' = version
      /\ \A v \in Writers \ {w} : tx'[v] = tx[v]
  BY <1>1 DEF RollbackTx
<1>4. \A v \in Writers : tx[v].ids \subseteq Ids /\ tx[v].loaded \subseteq Orders
  BY <1>1 DEF Tx
<1>5. /\ \A i \in S : rows'[i] = [rows[i] EXCEPT !.st = "void"]
      /\ \A i \in Ids \ S : rows'[i] = rows[i]
      /\ rows' = [i \in Ids |-> rows'[i]]
  BY <1>4 DEF RollbackTx
<1>6. \A i \in Ids : /\ rows'[i].order = rows[i].order /\ rows'[i].seq = rows[i].seq
                    /\ rows'[i].st = IF i \in S THEN "void" ELSE rows[i].st
  <2> SUFFICES ASSUME NEW i \in Ids
               PROVE  /\ rows'[i].order = rows[i].order /\ rows'[i].seq = rows[i].seq
                      /\ rows'[i].st = IF i \in S THEN "void" ELSE rows[i].st
    OBVIOUS
  <2>1. rows[i] \in Row
    BY <1>1
  <2> QED
    BY <2>1, <1>5 DEF Row
<1>7. \A i \in S : i \in Ids /\ rows[i].st = "inserted"
  BY <1>4 DEF OwnsItsRows
<1>8. \A v \in Writers \ {w} : \A i \in tx[v].ids : i \in Ids /\ i \notin S /\ rows'[i] = rows[i]
  BY <1>4, <1>5 DEF OwnsItsRows
<1> HIDE DEF S
<1>9. \A p \in Orders : CommittedRows(p)' = CommittedRows(p)
  <2>1. "void" \notin Committed /\ "inserted" \notin Committed
    BY DEF Committed
  <2> QED
    BY <2>1, <1>6, <1>7 DEF CommittedRows
<1>10. \A p \in Orders : \A i \in CommittedRows(p) : i \in Ids /\ rows'[i].seq = rows[i].seq
  BY <1>6 DEF CommittedRows
<1>11. WriterTypeOK'
  <2>1. ASSUME NEW i \in Ids PROVE rows'[i] \in Row
    <3>1. rows[i] \in Row
      BY <1>1
    <3>2. [rows[i] EXCEPT !.st = "void"] \in Row
      BY <3>1 DEF Row, RowState
    <3> QED
      BY <3>1, <3>2, <1>5
  <2> QED
    BY <2>1, <1>1, <1>2, <1>3, <1>5 DEF WriterTypeOK
<1>12. IdentityUsed'
  BY <1>3, <1>6, <1>7 DEF IdentityUsed
<1>13. OwnsItsRows'
  BY <1>2, <1>3, <1>8 DEF OwnsItsRows
<1>14. ReadsAreOld'
  BY <1>2, <1>3 DEF ReadsAreOld
<1>15. StepsHaveRows'
  <2>1. ASSUME NEW v \in Writers, NEW p \in tx'[v].loaded,
               NEW k \in tx'[v].read[p] + 1 .. tx'[v].cur[p]
        PROVE  \E i \in tx'[v].ids : rows'[i].order = p /\ rows'[i].seq = k
    <3>1. v \in Writers \ {w} /\ tx'[v] = tx[v]
      BY <1>2, <1>3
    <3>2. PICK i \in tx[v].ids : rows[i].order = p /\ rows[i].seq = k
      BY <3>1 DEF StepsHaveRows
    <3> QED
      BY <3>1, <3>2, <1>8
  <2>2. \A p \in Orders : \A k \in 1 .. version'[p] : \E i \in CommittedRows(p)' : rows'[i].seq = k
    BY <1>3, <1>9, <1>10 DEF StepsHaveRows
  <2> QED
    BY <2>1, <2>2 DEF StepsHaveRows
<1>16. RowsAreSteps' /\ IdsFollowLifecycle'
  BY <1>3, <1>9, <1>10 DEF RowsAreSteps, IdsFollowLifecycle
<1>17. TxRowsAscend'
  BY <1>2, <1>3, <1>8 DEF TxRowsAscend
<1>18. CurrentTxIsYounger'
  <2>1. ASSUME NEW v \in Writers, NEW p \in tx'[v].loaded, version'[p] = tx'[v].read[p],
               NEW i \in CommittedRows(p)', NEW j \in tx'[v].ids, rows'[j].order = p
        PROVE  i < j
    <3>1. v \in Writers \ {w} /\ tx'[v] = tx[v] /\ p \in Orders /\ p \in tx[v].loaded
      BY <1>2, <1>3, <1>4
    <3> QED
      BY <2>1, <3>1, <1>3, <1>8, <1>9 DEF CurrentTxIsYounger
  <2> QED
    BY <2>1 DEF CurrentTxIsYounger
<1> QED
  BY <1>11, <1>12, <1>13, <1>14, <1>15, <1>16, <1>17, <1>18 DEF WriterInv

\* Every step of the write side preserves the invariant.
LEMMA WriterInvNext == WriterInv /\ [WriterNext]_writerVars => WriterInv'
<1> SUFFICES ASSUME WriterInv, [WriterNext]_writerVars PROVE WriterInv'
  OBVIOUS
<1>1. ASSUME NEW w \in Writers, NEW o \in Orders, Load(w, o) PROVE WriterInv'
  BY <1>1, LoadInv
<1>2. ASSUME NEW w \in Writers, NEW o \in Orders, Publish(w, o) PROVE WriterInv'
  BY <1>2, PublishInv
<1>3. ASSUME NEW w \in Writers, CommitTx(w) PROVE WriterInv'
  BY <1>3, CommitInv
<1>4. ASSUME NEW w \in Writers, RollbackTx(w) PROVE WriterInv'
  BY <1>4, RollbackInv
<1>5. CASE UNCHANGED writerVars
  BY <1>5 DEF writerVars, WriterInv, WriterTypeOK, IdentityUsed, OwnsItsRows, ReadsAreOld,
       StepsHaveRows, RowsAreSteps, TxRowsAscend, CurrentTxIsYounger, IdsFollowLifecycle,
       CommittedRows
<1> QED
  BY <1>1, <1>2, <1>3, <1>4, <1>5 DEF WriterNext

\* The rows of an order carry different steps, because ids order them.
LEMMA WriterInvGivesHistory == WriterInv => OutboxMatchesOrders
<1> SUFFICES ASSUME WriterInv, NEW o \in Orders
             PROVE  /\ {rows[i].seq : i \in CommittedRows(o)} = 1 .. version[o]
                    /\ \A i, j \in CommittedRows(o) : rows[i].seq = rows[j].seq => i = j
  BY DEF OutboxMatchesOrders
<1>1. \A i \in CommittedRows(o) : i \in Nat /\ rows[i].seq \in Nat
  BY DEF WriterInv, WriterTypeOK, CommittedRows, Row, Ids
<1>2. version[o] \in Nat
  BY DEF WriterInv, WriterTypeOK
<1>3. {rows[i].seq : i \in CommittedRows(o)} = 1 .. version[o]
  <2>1. \A i \in CommittedRows(o) : rows[i].seq \in 1 .. version[o]
    BY <1>1, <1>2 DEF WriterInv, RowsAreSteps
  <2>2. \A n \in 1 .. version[o] : \E i \in CommittedRows(o) : rows[i].seq = n
    BY DEF WriterInv, StepsHaveRows
  <2> QED
    BY <2>1, <2>2
<1>4. \A i, j \in CommittedRows(o) : rows[i].seq = rows[j].seq => i = j
  <2>1. \A i, j \in CommittedRows(o) : i < j => rows[i].seq < rows[j].seq
    BY DEF WriterInv, IdsFollowLifecycle
  <2> QED
    BY <2>1, <1>1
<1> QED
  BY <1>3, <1>4

(***************************************************************************)
(* The outbox holds exactly the committed history of every order, one row  *)
(* per step (OrderService's @Transactional methods publish inside their    *)
(* own transaction), however transactions interleave and roll back.        *)
(***************************************************************************)
THEOREM OutboxIsHistory == WriterSpec => [](WriterTypeOK /\ OutboxMatchesOrders)
<1>1. WriterInv => WriterTypeOK /\ OutboxMatchesOrders
  BY WriterInvGivesHistory DEF WriterInv
<1> QED
  BY <1>1, WriterInvInit, WriterInvNext, PTL DEF WriterSpec

(***************************************************************************)
(* The relay's ORDER BY id meets the steps of one order in lifecycle       *)
(* order: the optimistic lock on the order keeps ids drawn before the      *)
(* commit in the order of the commits.                                     *)
(***************************************************************************)
THEOREM IdOrderIsLifecycleOrder == WriterSpec => []IdsFollowLifecycle
<1>1. WriterInv => IdsFollowLifecycle
  BY DEF WriterInv
<1> QED
  BY <1>1, WriterInvInit, WriterInvNext, PTL DEF WriterSpec

-----------------------------------------------------------------------------
(***************************************************************************)
(* The inductive invariant of the relays.  It holds the drains to the same *)
(* truth as the table they will be written back to: two relays overwrite   *)
(* each other's rows, so a stamp has to be true already in the session's   *)
(* copy.  Its parts are predicates of one row, drain, wire or partition,   *)
(* of the rows R and of the set T of ids on the topic.                     *)
(***************************************************************************)
RowOK(i, row, T) ==
  /\ row.st \in {"published", "purged"} => i \in T
  /\ row.st = "dead" => i \in Unparseable \/ row.attempts >= MAX_SEND_ATTEMPTS

CopyOK(i, row, R, T) ==
  /\ row \in Row /\ row.st \in {"pending", "published", "dead"}
  /\ row.order = R[i].order /\ row.seq = R[i].seq
  /\ RowOK(i, row, T)

DrainOK(d, R, T) ==
  /\ \A i \in d.batch : R[i].st \in Committed /\ CopyOK(i, d.copy[i], R, T)
  /\ d.toSend \subseteq d.batch /\ d.toAwait \subseteq d.batch
  /\ d.acked \subseteq T

WireOK(s, R) == \A k \in 1 .. Len(s) : R[s[k].id].st \in Committed

PartitionOK(o, s, R) ==
  \A k \in 1 .. Len(s) : R[s[k]].st \in Committed /\ R[s[k]].order = o

RelayInv ==
  /\ WriterInv
  /\ RelayTypeOK
  /\ \A r \in Relays : DrainOK(drain[r], rows, TopicIds) /\ WireOK(wire[r], rows)
  /\ \A o \in Orders : PartitionOK(o, topic[o], rows)
  /\ \A i \in Ids : RowOK(i, rows[i], TopicIds)

\* R2 keeps what R has committed: no committed row disappears or changes its step.
KeepsRows(R, R2) ==
  \A i \in Ids : R[i].st \in Committed =>
    R2[i].st \in Committed /\ R2[i].order = R[i].order /\ R2[i].seq = R[i].seq

-----------------------------------------------------------------------------
LEMMA RelayInvInit == OutboxInit => RelayInv
<1> SUFFICES ASSUME OutboxInit PROVE RelayInv
  OBVIOUS
<1> USE DEF OutboxInit, RelayInit
<1>1. WriterInv
  BY WriterInvInit
<1>2. NoRow \in Row
  BY DEF NoRow, Row, RowState
<1>3. Idle \in Drain
  BY <1>2 DEF Idle, Drain
<1>4. RelayTypeOK
  BY <1>3, RelayAssumption DEF RelayTypeOK
<1>5. \A r \in Relays : DrainOK(drain[r], rows, TopicIds)
  BY DEF DrainOK, Idle
<1>6. \A r \in Relays : WireOK(wire[r], rows)
  BY DEF WireOK
<1>7. \A o \in Orders : PartitionOK(o, topic[o], rows)
  BY DEF PartitionOK
<1>8. \A i \in Ids : RowOK(i, rows[i], TopicIds)
  BY DEF RowOK, WriterInit, NoRow
<1> QED
  BY <1>1, <1>4, <1>5, <1>6, <1>7, <1>8 DEF RelayInv

-----------------------------------------------------------------------------
\* What is true of a drain, a wire and a partition stays true while rows are kept.
LEMMA KeepsAll ==
  ASSUME NEW R, NEW R2, NEW T, NEW T2, KeepsRows(R, R2), T \subseteq T2
  PROVE  /\ \A d \in Drain : DrainOK(d, R, T) => DrainOK(d, R2, T2)
         /\ \A s \in Seq(Record) : WireOK(s, R) => WireOK(s, R2)
         /\ \A o \in Orders : \A s \in Seq(Ids) : PartitionOK(o, s, R) => PartitionOK(o, s, R2)
         /\ \A i \in Ids : \A row : RowOK(i, row, T) => RowOK(i, row, T2)
<1>1. \A i \in Ids : \A row : RowOK(i, row, T) => RowOK(i, row, T2)
  BY DEF RowOK
<1>2. ASSUME NEW d \in Drain, DrainOK(d, R, T)
      PROVE  DrainOK(d, R2, T2)
  <2>1. \A i \in d.batch : i \in Ids
    BY DEF Drain
  <2>2. \A i \in d.batch : CopyOK(i, d.copy[i], R2, T2)
    BY <1>1, <1>2, <2>1 DEF DrainOK, CopyOK, KeepsRows
  <2> QED
    BY <1>2, <2>1, <2>2 DEF DrainOK, KeepsRows
<1>3. ASSUME NEW s \in Seq(Record), NEW k \in 1 .. Len(s)
      PROVE  s[k].id \in Ids
  <2>1. s[k] \in Record
    OBVIOUS
  <2> QED
    BY <2>1 DEF Record
<1>4. \A s \in Seq(Record) : WireOK(s, R) => WireOK(s, R2)
  BY <1>3 DEF WireOK, KeepsRows
<1>5. ASSUME NEW o \in Orders, NEW s \in Seq(Ids), PartitionOK(o, s, R)
      PROVE  PartitionOK(o, s, R2)
  <2>1. \A k \in 1 .. Len(s) : s[k] \in Ids
    OBVIOUS
  <2> QED
    BY <1>5, <2>1 DEF PartitionOK, KeepsRows
<1> QED
  BY <1>1, <1>2, <1>4, <1>5

LEMMA KeepsSame == \A R : KeepsRows(R, R)
  BY DEF KeepsRows

\* Ids on the topic, without the union.
LEMMA OnTopic ==
  \A i : i \in TopicIds <=> \E o \in Orders : \E k \in 1 .. Len(topic[o]) : topic[o][k] = i
  BY DEF TopicIds

\* The write-back of a drain and the purge change nothing a writer looks at.
LEMMA RestampInv ==
  ASSUME WriterInv, UNCHANGED <<version, tx, nextId>>, rows' \in [Ids -> Row],
         KeepsRows(rows, rows'),
         \A i \in Ids : rows[i].st \notin Committed => rows'[i] = rows[i]
  PROVE  WriterInv'
<1> USE DEF WriterInv
<1>1. \A i \in Ids : /\ rows'[i].st \in Committed <=> rows[i].st \in Committed
                     /\ rows'[i].order = rows[i].order /\ rows'[i].seq = rows[i].seq
  BY DEF KeepsRows
<1>2. \A i \in Ids : rows'[i].st = "absent" <=> rows[i].st = "absent"
  BY <1>1 DEF Committed
<1>3. \A o \in Orders : CommittedRows(o)' = CommittedRows(o)
  BY <1>1 DEF CommittedRows
<1>4. \A w \in Writers : tx'[w] = tx[w] /\ tx[w].ids \subseteq Ids /\ tx[w] \in Tx
  BY DEF WriterTypeOK, Tx
<1>5. WriterTypeOK'
  BY DEF WriterTypeOK
<1>6. IdentityUsed'
  BY <1>1, <1>2 DEF IdentityUsed
<1>7. \A w \in Writers : \A i \in tx[w].ids : rows'[i] = rows[i]
  BY <1>4 DEF OwnsItsRows, Committed
<1>8. OwnsItsRows'
  BY <1>7 DEF OwnsItsRows
<1>9. ReadsAreOld'
  BY DEF ReadsAreOld
<1>10. \A o \in Orders : \A i \in CommittedRows(o) : rows'[i].seq = rows[i].seq
  BY <1>1 DEF CommittedRows
<1>11. StepsHaveRows'
  <2>1. ASSUME NEW w \in Writers, NEW o \in tx'[w].loaded,
               NEW n \in tx'[w].read[o] + 1 .. tx'[w].cur[o]
        PROVE  \E i \in tx'[w].ids : rows'[i].order = o /\ rows'[i].seq = n
    BY <1>7 DEF StepsHaveRows
  <2>2. ASSUME NEW o \in Orders, NEW n \in 1 .. version'[o]
        PROVE  \E i \in CommittedRows(o)' : rows'[i].seq = n
    BY <1>3, <1>10 DEF StepsHaveRows
  <2> QED
    BY <2>1, <2>2 DEF StepsHaveRows
<1>12. RowsAreSteps'
  BY <1>3, <1>10 DEF RowsAreSteps
<1>13. TxRowsAscend'
  BY <1>7 DEF TxRowsAscend
<1>14. CurrentTxIsYounger'
  BY <1>3, <1>7, <1>4 DEF CurrentTxIsYounger, Tx
<1>15. IdsFollowLifecycle'
  BY <1>3, <1>10 DEF IdsFollowLifecycle
<1> QED
  BY <1>5, <1>6, <1>8, <1>9, <1>11, <1>12, <1>13, <1>14, <1>15
-----------------------------------------------------------------------------
Faults == [crashes : 0 .. MaxCrashes, timeouts : 0 .. MaxTimeouts,
           failures : 0 .. MaxSendFailures]

\* A step of the relay's memory alone: table and topic stay as they are.
LEMMA MemoryStepInv ==
  ASSUME RelayInv, NEW r \in Relays, NEW d \in Drain,
         drain' = [drain EXCEPT ![r] = d], DrainOK(d, rows, TopicIds),
         wire' \in [Relays -> Seq(Record)], \A q \in Relays : WireOK(wire'[q], rows),
         faults' \in Faults, UNCHANGED <<topic, writerVars>>
  PROVE  RelayInv'
<1>1. WriterInv'
  <2>1. [WriterNext]_writerVars
    OBVIOUS
  <2> QED
    BY <2>1, WriterInvNext DEF RelayInv
<1>2. TopicIds' = TopicIds /\ rows' = rows
  BY DEF TopicIds, writerVars
<1>3. RelayTypeOK'
  BY DEF RelayInv, RelayTypeOK, Faults
<1>4. \A q \in Relays : drain'[q] = IF q = r THEN d ELSE drain[q]
  BY DEF RelayInv, RelayTypeOK
<1>5. \A q \in Relays : DrainOK(drain'[q], rows, TopicIds)
  BY <1>4 DEF RelayInv
<1> QED
  BY <1>1, <1>2, <1>3, <1>5 DEF RelayInv

\* The drain of a relay that holds no batch.
LEMMA IdleOK == Idle \in Drain /\ \A R, T : DrainOK(Idle, R, T)
<1>1. NoRow \in Row
  BY DEF NoRow, Row, RowState
<1> QED
  BY <1>1 DEF Idle, Drain, DrainOK

\* A record keeps its row when nobody awaits it any more.
LEMMA AbandonedOK ==
  ASSUME RelayInv, NEW r \in Relays
  PROVE  Abandoned(r) \in [Relays -> Seq(Record)] /\ \A q \in Relays : WireOK(Abandoned(r)[q], rows)
<1> DEFINE s == [k \in 1 .. Len(wire[r]) |-> [wire[r][k] EXCEPT !.awaited = FALSE]]
<1>1. wire \in [Relays -> Seq(Record)] /\ wire[r] \in Seq(Record) /\ Len(wire[r]) \in Nat
  BY DEF RelayInv, RelayTypeOK
<1>2. \A k \in 1 .. Len(wire[r]) : wire[r][k] \in Record
  BY <1>1
<1>3. \A k \in 1 .. Len(wire[r]) : s[k] \in Record /\ s[k].id = wire[r][k].id
  BY <1>2 DEF Record
<1>4. s \in Seq(Record) /\ Len(s) = Len(wire[r])
  BY <1>1, <1>3
<1>5. Abandoned(r) = [wire EXCEPT ![r] = s]
  BY DEF Abandoned
<1>6. WireOK(s, rows)
  BY <1>3, <1>4 DEF WireOK, RelayInv
<1> HIDE DEF s
<1> QED
  BY <1>1, <1>4, <1>5, <1>6 DEF RelayInv

LEMMA WireType ==
  RelayInv => wire \in [Relays -> Seq(Record)] /\ \A q \in Relays : WireOK(wire[q], rows)
  BY DEF RelayInv, RelayTypeOK

\* Poll: the batch and its copies are the committed rows as they are.
LEMMA PollInv ==
  ASSUME RelayInv, NEW r \in Relays, Poll(r)
  PROVE  RelayInv'
<1>1. PICK d : d = [Idle EXCEPT !.batch = OldestPending, !.toSend = OldestPending,
                                !.copy = Loaded(OldestPending)]
  OBVIOUS
<1>2. rows \in [Ids -> Row] /\ NoRow \in Row
  BY DEF RelayInv, WriterInv, WriterTypeOK, NoRow, Row, RowState
<1>3. \A i \in OldestPending : i \in Ids /\ rows[i].st = "pending"
  BY DEF OldestPending, Pending
<1>4. /\ Loaded(OldestPending) \in [Ids -> Row]
      /\ \A i \in OldestPending : Loaded(OldestPending)[i] = rows[i]
  BY <1>2, <1>3 DEF Loaded
<1>5. /\ d.batch = OldestPending /\ d.toSend = OldestPending /\ d.toAwait = {}
      /\ d.copy = Loaded(OldestPending) /\ d.acked = {} /\ d \in Drain
  BY <1>1, <1>3, <1>4 DEF Idle, Drain
<1>6. \A i \in OldestPending : rows[i].st \in Committed /\ CopyOK(i, rows[i], rows, TopicIds)
  BY <1>2, <1>3 DEF CopyOK, RowOK, Committed
<1>7. DrainOK(d, rows, TopicIds)
  BY <1>4, <1>5, <1>6 DEF DrainOK
<1>8. drain' = [drain EXCEPT ![r] = d] /\ UNCHANGED <<wire, topic, faults, writerVars>>
  BY <1>1 DEF Poll
<1>9. faults' \in Faults
  BY <1>8 DEF RelayInv, RelayTypeOK, Faults
<1> QED
  BY <1>5, <1>7, <1>8, <1>9, WireType, MemoryStepInv

\* A drain that goes on: it may cross row i off and change its copy of it to row.
LEMMA GoOnOK ==
  ASSUME RelayInv, NEW r \in Relays, NEW i \in drain[r].batch, NEW row,
         CopyOK(i, row, rows, TopicIds),
         NEW d, d.batch = drain[r].batch, d.acked = drain[r].acked,
         d.copy = [drain[r].copy EXCEPT ![i] = row],
         d.toSend \subseteq d.batch, d.toAwait \subseteq d.batch
  PROVE  DrainOK(d, rows, TopicIds)
<1>1. drain[r] \in Drain /\ DrainOK(drain[r], rows, TopicIds)
  BY DEF RelayInv, RelayTypeOK
<1>2. \A j \in d.batch : d.copy[j] = IF j = i THEN row ELSE drain[r].copy[j]
  BY <1>1 DEF Drain
<1>3. \A j \in d.batch : rows[j].st \in Committed /\ CopyOK(j, d.copy[j], rows, TopicIds)
  BY <1>1, <1>2 DEF DrainOK
<1> QED
  BY <1>1, <1>3 DEF DrainOK

\* What a relay's drain is known to be, for the steps that change one.
LEMMA DrainFacts ==
  ASSUME RelayInv, NEW r \in Relays
  PROVE  /\ drain \in [Relays -> Drain] /\ drain[r] \in Drain
         /\ DrainOK(drain[r], rows, TopicIds)
         /\ faults \in Faults
         /\ rows \in [Ids -> Row]
         /\ \A i \in drain[r].batch : i \in Ids /\ drain[r].copy[i] \in Row
<1>1. drain[r] \in Drain /\ DrainOK(drain[r], rows, TopicIds)
  BY DEF RelayInv, RelayTypeOK
<1>2. \A i \in drain[r].batch : i \in Ids /\ drain[r].copy[i] \in Row
  BY <1>1 DEF Drain
<1> QED
  BY <1>1, <1>2 DEF RelayInv, RelayTypeOK, Faults, WriterInv, WriterTypeOK

LEMMA ParkUnparseableInv ==
  ASSUME RelayInv, NEW r \in Relays, ParkUnparseable(r)
  PROVE  RelayInv'
<1>1. PICK i \in Unparseable :
        /\ First(i, drain[r].toSend)
        /\ drain' = [drain EXCEPT ![r] = Parked(drain[r], i)]
        /\ UNCHANGED <<wire, topic, faults, writerVars>>
  BY DEF ParkUnparseable
<1>2. i \in drain[r].batch
  BY <1>1, DrainFacts DEF First, DrainOK
<1>3. PICK row : row = [drain[r].copy[i] EXCEPT !.st = "dead"]
  OBVIOUS
<1>4. CopyOK(i, drain[r].copy[i], rows, TopicIds)
  BY <1>2, DrainFacts DEF DrainOK
<1>5. CopyOK(i, row, rows, TopicIds)
  BY <1>1, <1>3, <1>4 DEF CopyOK, RowOK, Row, RowState, Committed
<1>6. PICK c : c = [drain[r].copy EXCEPT ![i] = row]
  OBVIOUS
<1>7. PICK d : d = [drain[r] EXCEPT !.toSend = drain[r].toSend \ {i}, !.copy = c]
  OBVIOUS
<1>8. d = Parked(drain[r], i)
  BY <1>3, <1>6, <1>7 DEF Parked
<1>9. c \in [Ids -> Row]
  BY <1>2, <1>5, <1>6, DrainFacts DEF CopyOK, Drain
<1>10. /\ d \in Drain /\ d.copy = c
       /\ d.batch = drain[r].batch /\ d.acked = drain[r].acked
       /\ d.toSend = drain[r].toSend \ {i} /\ d.toAwait = drain[r].toAwait
  BY <1>7, <1>9, DrainFacts DEF Drain
<1>11. d.toSend \subseteq d.batch /\ d.toAwait \subseteq d.batch
  BY <1>10, DrainFacts DEF DrainOK
<1>12. DrainOK(d, rows, TopicIds)
  BY <1>2, <1>5, <1>6, <1>10, <1>11, GoOnOK
<1> QED
  BY <1>1, <1>8, <1>10, <1>12, DrainFacts, WireType, MemoryStepInv

LEMMA SendInv ==
  ASSUME RelayInv, NEW r \in Relays, Send(r)
  PROVE  RelayInv'
<1>1. PICK i \in Ids \ (Unparseable \cup Unsendable) :
        /\ First(i, drain[r].toSend)
        /\ drain' = [drain EXCEPT ![r].toSend = @ \ {i}, ![r].toAwait = @ \cup {i}]
        /\ wire' = [wire EXCEPT ![r] = Append(@, [id |-> i, awaited |-> TRUE])]
        /\ UNCHANGED <<topic, faults, writerVars>>
  BY DEF Send
<1>2. i \in drain[r].batch /\ rows[i].st \in Committed
  BY <1>1, DrainFacts DEF First, DrainOK
<1>3. PICK d : d = [drain[r] EXCEPT !.toSend = @ \ {i}, !.toAwait = @ \cup {i}]
  OBVIOUS
<1>4. drain' = [drain EXCEPT ![r] = d]
  BY <1>1, <1>3
<1>5. /\ d \in Drain /\ d.batch = drain[r].batch /\ d.copy = drain[r].copy
      /\ d.acked = drain[r].acked
      /\ d.toSend = drain[r].toSend \ {i} /\ d.toAwait = drain[r].toAwait \cup {i}
  BY <1>3, DrainFacts DEF Drain
<1>6. DrainOK(d, rows, TopicIds)
  BY <1>2, <1>5, DrainFacts DEF DrainOK
<1>7. PICK rec : rec = [id |-> i, awaited |-> TRUE]
  OBVIOUS
<1>8. rec \in Record /\ rec.id = i
  BY <1>7 DEF Record
<1>9. wire' = [wire EXCEPT ![r] = Append(@, rec)]
  BY <1>1, <1>7
<1>10. wire[r] \in Seq(Record)
  BY WireType
<1>11. PICK s : s = Append(wire[r], rec)
  OBVIOUS
<1>12. s \in Seq(Record) /\ Len(s) = Len(wire[r]) + 1
  BY <1>8, <1>10, <1>11
<1>13. \A k \in 1 .. Len(s) : s[k] = IF k = Len(s) THEN rec ELSE wire[r][k]
  BY <1>8, <1>10, <1>11, <1>12
<1>14. WireOK(s, rows)
  BY <1>2, <1>8, <1>10, <1>12, <1>13, WireType DEF WireOK
<1>15. wire' = [wire EXCEPT ![r] = s]
  BY <1>9, <1>11
<1>16. wire' \in [Relays -> Seq(Record)] /\ \A q \in Relays : WireOK(wire'[q], rows)
  BY <1>12, <1>14, <1>15, WireType
<1> QED
  BY <1>1, <1>4, <1>5, <1>6, <1>16, DrainFacts, MemoryStepInv

\* A drain that rolls back leaves nothing but its abandoned records.
LEMMA SendThrowsInv ==
  ASSUME RelayInv, NEW r \in Relays, SendThrows(r)
  PROVE  RelayInv'
<1>1. PICK i \in Ids \ Unparseable :
        /\ Throws(i)
        /\ faults' = [faults EXCEPT !.failures = IF i \in Unsendable THEN @ ELSE @ + 1]
        /\ drain' = [drain EXCEPT ![r] = Idle]
        /\ wire' = Abandoned(r)
        /\ UNCHANGED <<topic, writerVars>>
  BY DEF SendThrows
<1>2. faults' \in Faults
  BY <1>1, DrainFacts, RelayAssumption DEF Faults, Throws
<1> QED
  BY <1>1, <1>2, IdleOK, AbandonedOK, MemoryStepInv

LEMMA CrashRelayInv ==
  ASSUME RelayInv, NEW r \in Relays, CrashRelay(r)
  PROVE  RelayInv'
<1>1. /\ faults.crashes < MaxCrashes
      /\ faults' = [faults EXCEPT !.crashes = @ + 1]
      /\ drain' = [drain EXCEPT ![r] = Idle]
      /\ wire' = [wire EXCEPT ![r] = <<>>]
      /\ UNCHANGED <<topic, writerVars>>
  BY DEF CrashRelay
<1>2. faults' \in Faults
  BY <1>1, DrainFacts, RelayAssumption DEF Faults
<1>3. WireOK(<<>>, rows)
  BY DEF WireOK
<1>4. wire' \in [Relays -> Seq(Record)] /\ \A q \in Relays : WireOK(wire'[q], rows)
  BY <1>1, <1>3, WireType
<1> QED
  BY <1>1, <1>2, <1>4, IdleOK, MemoryStepInv

\* Phase 2 crosses row i off and leaves an honest copy of it.
LEMMA MarkedInv ==
  ASSUME RelayInv, NEW r \in Relays, NEW i \in Ids, Awaiting(r, i),
         NEW row, CopyOK(i, row, rows, TopicIds),
         drain' = [drain EXCEPT ![r] = Marked(drain[r], i, row)],
         faults' \in Faults, UNCHANGED <<wire, topic, writerVars>>
  PROVE  RelayInv'
<1>2. i \in drain[r].batch
  BY DrainFacts DEF Awaiting, First, DrainOK
<1>6. PICK c : c = [drain[r].copy EXCEPT ![i] = row]
  OBVIOUS
<1>7. PICK d : d = [drain[r] EXCEPT !.toAwait = drain[r].toAwait \ {i}, !.copy = c]
  OBVIOUS
<1>8. d = Marked(drain[r], i, row)
  BY <1>6, <1>7 DEF Marked
<1>9. c \in [Ids -> Row]
  BY <1>2, <1>6, DrainFacts DEF CopyOK, Drain
<1>10. /\ d \in Drain /\ d.copy = c
       /\ d.batch = drain[r].batch /\ d.acked = drain[r].acked
       /\ d.toAwait = drain[r].toAwait \ {i} /\ d.toSend = drain[r].toSend
  BY <1>7, <1>9, DrainFacts DEF Drain
<1>11. d.toSend \subseteq d.batch /\ d.toAwait \subseteq d.batch
  BY <1>10, DrainFacts DEF DrainOK
<1>12. DrainOK(d, rows, TopicIds)
  BY <1>2, <1>6, <1>10, <1>11, GoOnOK
<1> QED
  BY <1>8, <1>10, <1>12, WireType, MemoryStepInv

\* The copy of the row that phase 2 has reached.
LEMMA AwaitedCopy ==
  ASSUME RelayInv, NEW r \in Relays, NEW i, Awaiting(r, i)
  PROVE  i \in Ids /\ CopyOK(i, drain[r].copy[i], rows, TopicIds)
<1>1. i \in drain[r].batch
  BY DrainFacts DEF Awaiting, First, DrainOK
<1> QED
  BY <1>1, DrainFacts DEF DrainOK

\* A failed attempt leaves the row as it is, or gives it up for a cause.
LEMMA FailedAttemptOK ==
  ASSUME NEW i, NEW row, NEW R, NEW T, CopyOK(i, row, R, T)
  PROVE  CopyOK(i, FailedAttempt(row), R, T)
<1>1. row \in Row /\ row.attempts \in Nat /\ MAX_SEND_ATTEMPTS \in Nat
  BY RelayAssumption DEF CopyOK, Row
<1>2. PICK t : t = FailedAttempt(row)
  OBVIOUS
<1>3. /\ t.order = row.order /\ t.seq = row.seq /\ t.attempts = row.attempts + 1
      /\ t.st = IF row.attempts + 1 >= MAX_SEND_ATTEMPTS THEN "dead" ELSE row.st
  BY <1>1, <1>2 DEF FailedAttempt, Row
<1>4. t.st \in {"pending", "published", "dead"}
  BY <1>3 DEF CopyOK
<1>5. t \in Row
  <2>1. PICK st : st = IF row.attempts + 1 >= MAX_SEND_ATTEMPTS THEN "dead" ELSE row.st
    OBVIOUS
  <2>2. t = [row EXCEPT !.attempts = row.attempts + 1, !.st = st]
    BY <1>2, <2>1 DEF FailedAttempt
  <2>4. row.attempts + 1 \in Nat
    BY <1>1
  <2>3. st \in RowState
    BY <1>3, <1>4, <2>1 DEF RowState, Committed
  <2> QED
    BY <1>1, <2>2, <2>3, <2>4 DEF Row
<1>6. RowOK(i, t, T)
  BY <1>1, <1>3 DEF CopyOK, RowOK
<1>7. CopyOK(i, t, R, T)
  BY <1>3, <1>4, <1>5, <1>6 DEF CopyOK
<1> QED
  BY <1>2, <1>7

LEMMA AwaitAckInv ==
  ASSUME RelayInv, NEW r \in Relays, AwaitAck(r)
  PROVE  RelayInv'
<1>1. PICK i \in drain[r].acked :
        /\ Awaiting(r, i)
        /\ drain' = [drain EXCEPT ![r] = Marked(drain[r], i, Stamped(drain[r].copy[i]))]
        /\ UNCHANGED <<wire, topic, faults, writerVars>>
  BY DEF AwaitAck
<1>2. i \in TopicIds
  BY <1>1, DrainFacts DEF DrainOK
<1>3. CopyOK(i, Stamped(drain[r].copy[i]), rows, TopicIds)
  BY <1>1, <1>2, AwaitedCopy DEF Stamped, CopyOK, RowOK, Row, RowState, Committed
<1> QED
  BY <1>1, <1>3, AwaitedCopy, DrainFacts, MarkedInv

LEMMA AwaitFailureInv ==
  ASSUME RelayInv, NEW r \in Relays, AwaitFailure(r)
  PROVE  RelayInv'
<1>1. PICK i \in drain[r].failed :
        /\ Awaiting(r, i)
        /\ drain' = [drain EXCEPT ![r] = Marked(drain[r], i, FailedAttempt(drain[r].copy[i]))]
        /\ UNCHANGED <<wire, topic, faults, writerVars>>
  BY DEF AwaitFailure
<1> QED
  BY <1>1, AwaitedCopy, FailedAttemptOK, DrainFacts, MarkedInv

LEMMA AwaitTimeoutInv ==
  ASSUME RelayInv, NEW r \in Relays, AwaitTimeout(r)
  PROVE  RelayInv'
<1>1. PICK i \in Ids :
        /\ Awaiting(r, i)
        /\ faults.timeouts < MaxTimeouts
        /\ faults' = [faults EXCEPT !.timeouts = @ + 1]
        /\ drain' = [drain EXCEPT ![r] = Marked(drain[r], i, FailedAttempt(drain[r].copy[i]))]
        /\ UNCHANGED <<wire, topic, writerVars>>
  BY DEF AwaitTimeout
<1>2. faults' \in Faults
  BY <1>1, DrainFacts, RelayAssumption DEF Faults
<1> QED
  BY <1>1, <1>2, AwaitedCopy, FailedAttemptOK, MarkedInv

-----------------------------------------------------------------------------
\* A step that rewrites rows of the table and keeps what is committed.
LEMMA TableStepInv ==
  ASSUME RelayInv, UNCHANGED <<topic, faults, version, tx, nextId>>,
         drain' \in [Relays -> Drain],
         \A q \in Relays : DrainOK(drain'[q], rows, TopicIds),
         wire' \in [Relays -> Seq(Record)], \A q \in Relays : WireOK(wire'[q], rows),
         rows' \in [Ids -> Row], KeepsRows(rows, rows'),
         \A i \in Ids : rows[i].st \notin Committed => rows'[i] = rows[i],
         \A i \in Ids : RowOK(i, rows'[i], TopicIds)
  PROVE  RelayInv'
<1>1. WriterInv'
  BY RestampInv DEF RelayInv
<1>2. TopicIds' = TopicIds
  BY DEF TopicIds
<1>3. RelayTypeOK'
  BY DEF RelayInv, RelayTypeOK
<1>4. \A q \in Relays : drain'[q] \in Drain /\ wire'[q] \in Seq(Record)
  OBVIOUS
<1>5. \A q \in Relays : DrainOK(drain'[q], rows', TopicIds) /\ WireOK(wire'[q], rows')
  BY <1>4, KeepsAll
<1>6. \A o \in Orders : topic[o] \in Seq(Ids)
  BY DEF RelayInv, RelayTypeOK
<1>7. \A o \in Orders : PartitionOK(o, topic'[o], rows')
  BY <1>6, KeepsAll DEF RelayInv
<1> QED
  BY <1>1, <1>2, <1>3, <1>5, <1>7 DEF RelayInv

\* The write-back of a drain, and the purge, keep every committed row.
LEMMA CommitDrainKeeps ==
  ASSUME RelayInv, NEW r \in Relays, CommitDrain(r)
  PROVE  /\ KeepsRows(rows, rows')
         /\ \A i \in Ids : rows[i].st \notin Committed => rows'[i] = rows[i]
<1>1. \A i \in drain[r].batch : rows[i].st \in Committed /\ CopyOK(i, drain[r].copy[i], rows, TopicIds)
  BY DrainFacts DEF DrainOK
<1> QED
  BY <1>1 DEF CommitDrain, KeepsRows, CopyOK, Committed

LEMMA PurgeKeeps ==
  ASSUME RelayInv, NEW i \in Ids, Purge(i)
  PROVE  /\ KeepsRows(rows, rows')
         /\ \A j \in Ids : rows[j].st \notin Committed => rows'[j] = rows[j]
<1>1. rows \in [Ids -> Row] /\ rows[i] \in Row
  BY DEF RelayInv, WriterInv, WriterTypeOK
<1>2. rows[i].st = "published" /\ rows' = [rows EXCEPT ![i].st = "purged"]
  BY DEF Purge
<1> QED
  BY <1>1, <1>2 DEF KeepsRows, Committed, Row

LEMMA CommitDrainInv ==
  ASSUME RelayInv, NEW r \in Relays, CommitDrain(r)
  PROVE  RelayInv'
<1>1. /\ rows' = [i \in Ids |-> IF i \in drain[r].batch THEN drain[r].copy[i] ELSE rows[i]]
      /\ drain' = [drain EXCEPT ![r] = Idle]
      /\ wire' = Abandoned(r)
      /\ UNCHANGED <<topic, faults, version, tx, nextId>>
  BY DEF CommitDrain
<1>2. \A i \in drain[r].batch : rows[i].st \in Committed /\ CopyOK(i, drain[r].copy[i], rows, TopicIds)
  BY DrainFacts DEF DrainOK
<1>3. rows' \in [Ids -> Row]
  BY <1>1, <1>2, DrainFacts DEF CopyOK
<1>5. \A i \in Ids : RowOK(i, rows'[i], TopicIds)
  BY <1>1, <1>2 DEF CopyOK, RelayInv
<1>6. drain' \in [Relays -> Drain] /\ \A q \in Relays : DrainOK(drain'[q], rows, TopicIds)
  BY <1>1, IdleOK, DrainFacts DEF RelayInv
<1> QED
  BY <1>1, <1>3, <1>5, <1>6, CommitDrainKeeps, AbandonedOK, TableStepInv

LEMMA PurgeInv ==
  ASSUME RelayInv, NEW i \in Ids, Purge(i)
  PROVE  RelayInv'
<1>1. PICK row : row = [rows[i] EXCEPT !.st = "purged"]
  OBVIOUS
<1>2. /\ rows[i].st = "published"
      /\ rows' = [rows EXCEPT ![i] = row]
      /\ UNCHANGED <<version, tx, nextId, drain, wire, topic, faults>>
  BY <1>1, Zenon DEF Purge, relayVars
<1>3. rows \in [Ids -> Row] /\ rows[i] \in Row
  BY DEF RelayInv, WriterInv, WriterTypeOK
<1>4. row \in Row /\ row.st = "purged" /\ row.order = rows[i].order /\ row.seq = rows[i].seq
  BY <1>1, <1>3 DEF Row, RowState, Committed
<1>6. \A j \in Ids : RowOK(j, rows[j], TopicIds)
  BY DEF RelayInv
<1>7. RowOK(i, row, TopicIds)
  BY <1>2, <1>4, <1>6 DEF RowOK
<1>8. \A j \in Ids : RowOK(j, rows'[j], TopicIds)
  BY <1>2, <1>3, <1>6, <1>7
<1>9. rows' \in [Ids -> Row]
  BY <1>2, <1>3, <1>4
<1>10. /\ drain' \in [Relays -> Drain] /\ wire' \in [Relays -> Seq(Record)]
       /\ \A q \in Relays : DrainOK(drain'[q], rows, TopicIds) /\ WireOK(wire'[q], rows)
  BY <1>2 DEF RelayInv, RelayTypeOK
<1> QED
  BY <1>2, <1>8, <1>9, <1>10, PurgeKeeps, TableStepInv

-----------------------------------------------------------------------------
\* Taking a record off the wire leaves the others, in their order.
LEMMA UnwiredOK ==
  ASSUME NEW s \in Seq(Record), NEW k \in 1 .. Len(s)
  PROVE  \E t \in Seq(Record) :
           /\ t = SubSeq(s, 1, k - 1) \o SubSeq(s, k + 1, Len(s))
           /\ Len(t) = Len(s) - 1
           /\ \A j \in 1 .. Len(s) - 1 : t[j] = IF j < k THEN s[j] ELSE s[j + 1]
<1>1. Len(s) \in Nat /\ k \in Nat /\ k + 1 \in Int /\ k - 1 \in Int
  OBVIOUS
<1>2. PICK a : a = SubSeq(s, 1, k - 1)
  OBVIOUS
<1>3. a \in Seq(Record) /\ Len(a) = k - 1 /\ \A j \in 1 .. k - 1 : a[j] = s[j]
  BY <1>1, <1>2
<1>4. PICK b : b = SubSeq(s, k + 1, Len(s))
  OBVIOUS
<1>5. b \in Seq(Record) /\ Len(b) = Len(s) - k /\ \A j \in 1 .. Len(s) - k : b[j] = s[k + j]
  BY <1>1, <1>4
<1>6. PICK t : t = a \o b
  OBVIOUS
<1>7. PICK n : n = Len(s)
  OBVIOUS
<1>8. n \in Nat /\ k \in 1 .. n
  BY <1>1, <1>7
<1>9. /\ Len(a) = k - 1 /\ \A j \in 1 .. k - 1 : a[j] = s[j]
      /\ Len(b) = n - k /\ \A j \in 1 .. n - k : b[j] = s[k + j]
  BY <1>3, <1>5, <1>7
<1>10. t \in Seq(Record)
  BY <1>3, <1>5, <1>6, ConcatProperties
<1>11. Len(t) = Len(a) + Len(b)
  BY <1>3, <1>5, <1>6, ConcatProperties
<1>12. Len(t) = n - 1
  BY <1>8, <1>9, <1>11
<1>13. ASSUME NEW j \in 1 .. n - 1
       PROVE  t[j] = IF j < k THEN s[j] ELSE s[j + 1]
  <2>1. j \in 1 .. Len(a) + Len(b)
    BY <1>8, <1>9
  <2>2. t[j] = IF j <= Len(a) THEN a[j] ELSE b[j - Len(a)]
    BY <2>1, <1>3, <1>5, <1>6, ConcatProperties
  <2>3. CASE j < k
    BY <2>2, <2>3, <1>8, <1>9
  <2>4. CASE ~(j < k)
    <3>1. j - (k - 1) \in 1 .. n - k /\ k + (j - (k - 1)) = j + 1
      BY <2>4, <1>8
    <3>2. t[j] = b[j - (k - 1)]
      BY <2>2, <2>4, <1>8, <1>9
    <3> QED
      BY <2>4, <3>1, <3>2, <1>9
  <2> QED
    BY <2>3, <2>4
<1>14. t = SubSeq(s, 1, k - 1) \o SubSeq(s, k + 1, Len(s))
  BY <1>2, <1>4, <1>6
<1>15. Len(t) = Len(s) - 1 /\ \A j \in 1 .. Len(s) - 1 : t[j] = IF j < k THEN s[j] ELSE s[j + 1]
  BY <1>7, <1>12, <1>13
<1> QED
  BY <1>10, <1>14, <1>15, Zenon

LEMMA UnwiredWire ==
  ASSUME RelayInv, NEW r \in Relays, NEW k \in 1 .. Len(wire[r])
  PROVE  /\ wire[r][k].id \in Ids /\ rows[wire[r][k].id].st \in Committed
         /\ rows[wire[r][k].id].order \in Orders
         /\ Unwired(r, k) \in [Relays -> Seq(Record)]
         /\ \A q \in Relays : WireOK(Unwired(r, k)[q], rows)
<1>1. wire[r] \in Seq(Record) /\ wire[r][k] \in Record /\ Len(wire[r]) \in Nat
  BY WireType
<1>2. wire[r][k].id \in Ids /\ rows[wire[r][k].id].st \in Committed
  BY <1>1, WireType DEF WireOK, Record
<1>3. rows[wire[r][k].id].order \in Orders
  BY <1>2 DEF RelayInv, WriterInv, IdentityUsed, Committed
<1>4. PICK t \in Seq(Record) :
        /\ t = SubSeq(wire[r], 1, k - 1) \o SubSeq(wire[r], k + 1, Len(wire[r]))
        /\ Len(t) = Len(wire[r]) - 1
        /\ \A j \in 1 .. Len(wire[r]) - 1 : t[j] = IF j < k THEN wire[r][j] ELSE wire[r][j + 1]
  BY <1>1, UnwiredOK
<1>5. /\ Len(t) = Len(wire[r]) - 1
      /\ \A j \in 1 .. Len(wire[r]) - 1 : t[j] = IF j < k THEN wire[r][j] ELSE wire[r][j + 1]
  BY <1>4
<1>6. \A j \in 1 .. Len(t) : j \in 1 .. Len(wire[r]) /\ j + 1 \in 1 .. Len(wire[r])
  BY <1>1, <1>5
<1>7. WireOK(t, rows)
  BY <1>5, <1>6, WireType DEF WireOK
<1>8. Unwired(r, k) = [wire EXCEPT ![r] = t]
  BY <1>4 DEF Unwired
<1> QED
  BY <1>2, <1>3, <1>7, <1>8, WireType

\* The broker appends a committed row to the partition of its order.
LEMMA AppendedOK ==
  ASSUME RelayInv, NEW i \in Ids, rows[i].st \in Committed, rows[i].order \in Orders,
         topic' = Appended(i)
  PROVE  /\ topic' \in [Orders -> Seq(Ids)]
         /\ TopicIds' = TopicIds \cup {i}
         /\ \A o \in Orders : PartitionOK(o, topic'[o], rows)
<1>1. PICK p : p = rows[i].order
  OBVIOUS
<1>2. p \in Orders /\ rows[i].order = p
  BY <1>1
<1>3. topic \in [Orders -> Seq(Ids)] /\ topic[p] \in Seq(Ids) /\ Len(topic[p]) \in Nat
  BY <1>2 DEF RelayInv, RelayTypeOK
<1>4. PICK s : s = Append(topic[p], i)
  OBVIOUS
<1>5. /\ s \in Seq(Ids) /\ Len(s) = Len(topic[p]) + 1
      /\ \A k \in 1 .. Len(topic[p]) : s[k] = topic[p][k]
      /\ s[Len(topic[p]) + 1] = i
  BY <1>3, <1>4, AppendProperties
<1>6. topic' = [topic EXCEPT ![p] = s]
  BY <1>1, <1>4 DEF Appended
<1>7. \A o \in Orders : topic'[o] = IF o = p THEN s ELSE topic[o]
  BY <1>3, <1>6
<1>8. TopicIds' = TopicIds \cup {i}
  <2>1. ASSUME NEW j, j \in TopicIds \cup {i}
        PROVE  \E o \in Orders : \E k \in 1 .. Len(topic'[o]) : topic'[o][k] = j
    <3>1. CASE j = i
      BY <3>1, <1>2, <1>3, <1>5, <1>7
    <3>2. CASE j # i
      <4>1. PICK o \in Orders : \E k \in 1 .. Len(topic[o]) : topic[o][k] = j
        BY <2>1, <3>2, OnTopic
      <4>4. PICK k \in 1 .. Len(topic[o]) : topic[o][k] = j
        BY <4>1
      <4>2. topic[o] \in Seq(Ids) /\ Len(topic[o]) \in Nat
        BY <1>3
      <4>3. k \in 1 .. Len(topic'[o]) /\ topic'[o][k] = j
        BY <4>4, <4>2, <1>3, <1>5, <1>7
      <4> QED
        BY <4>3
    <3> QED
      BY <3>1, <3>2
  <2>2. ASSUME NEW j, NEW o \in Orders, NEW k \in 1 .. Len(topic'[o]), topic'[o][k] = j
        PROVE  j \in TopicIds \cup {i}
    <3>1. CASE o = p
      <4>1. k \in 1 .. Len(topic[p]) \/ k = Len(topic[p]) + 1
        BY <3>1, <1>3, <1>5, <1>7
      <4> QED
        BY <2>2, <3>1, <4>1, <1>2, <1>5, <1>7, OnTopic
    <3>2. CASE o # p
      BY <2>2, <3>2, <1>7, OnTopic
    <3> QED
      BY <3>1, <3>2
  <2>3. \A j : j \in TopicIds' <=> \E o \in Orders : \E k \in 1 .. Len(topic'[o]) : topic'[o][k] = j
    BY DEF TopicIds
  <2> QED
    BY <2>1, <2>2, <2>3
<1>9. topic' \in [Orders -> Seq(Ids)]
  BY <1>3, <1>5, <1>6
<1>10. PartitionOK(p, s, rows)
  <2>1. PartitionOK(p, topic[p], rows)
    BY <1>2 DEF RelayInv
  <2>2. ASSUME NEW k \in 1 .. Len(s)
        PROVE  rows[s[k]].st \in Committed /\ rows[s[k]].order = p
    <3>1. k \in 1 .. Len(topic[p]) \/ k = Len(topic[p]) + 1
      BY <1>3, <1>5
    <3> QED
      BY <3>1, <2>1, <1>2, <1>5 DEF PartitionOK
  <2> QED
    BY <2>2 DEF PartitionOK
<1>11. \A o \in Orders : PartitionOK(o, topic'[o], rows)
  BY <1>7, <1>10 DEF RelayInv
<1> QED
  BY <1>8, <1>9, <1>11

\* The producer and the broker have dealt with one record of relay r.
LEMMA ResolvedInv ==
  ASSUME RelayInv, NEW r \in Relays, NEW k \in 1 .. Len(wire[r]),
         wire' = Unwired(r, k), UNCHANGED writerVars, faults' \in Faults,
         topic' \in {topic, Appended(wire[r][k].id)},
         drain' \in [Relays -> Drain],
         \A q \in Relays : DrainOK(drain'[q], rows, TopicIds')
  PROVE  RelayInv'
<1>1. WriterInv'
  <2>1. [WriterNext]_writerVars
    OBVIOUS
  <2> QED
    BY <2>1, WriterInvNext DEF RelayInv
<1>2. rows' = rows
  BY DEF writerVars
<1>3. /\ topic' \in [Orders -> Seq(Ids)]
      /\ TopicIds \subseteq TopicIds'
      /\ \A o \in Orders : PartitionOK(o, topic'[o], rows)
  <2>1. CASE topic' = topic
    <3>1. TopicIds' = TopicIds
      BY <2>1 DEF TopicIds
    <3> QED
      BY <2>1, <3>1 DEF RelayInv, RelayTypeOK
  <2>2. CASE topic' = Appended(wire[r][k].id)
    BY <2>2, UnwiredWire, AppendedOK
  <2> QED
    BY <2>1, <2>2
<1>4. wire' \in [Relays -> Seq(Record)] /\ \A q \in Relays : WireOK(wire'[q], rows)
  BY UnwiredWire
<1>5. RelayTypeOK'
  BY <1>3, <1>4 DEF RelayTypeOK, Faults
<1>6. \A i \in Ids : RowOK(i, rows[i], TopicIds')
  BY <1>3, KeepsSame, KeepsAll DEF RelayInv
<1> QED
  BY <1>1, <1>2, <1>3, <1>4, <1>5, <1>6 DEF RelayInv

\* Every drain is still honest when the topic has grown.
LEMMA GrownTopic ==
  ASSUME RelayInv, NEW T, TopicIds \subseteq T
  PROVE  \A q \in Relays : drain[q] \in Drain /\ DrainOK(drain[q], rows, T)
<1>1. \A q \in Relays : drain[q] \in Drain /\ DrainOK(drain[q], rows, TopicIds)
  BY DrainFacts
<1> QED
  BY <1>1, KeepsSame, KeepsAll

LEMMA BrokerAppendInv ==
  ASSUME RelayInv, NEW r \in Relays, BrokerAppend(r)
  PROVE  RelayInv'
<1>1. PICK k \in 1 .. Len(wire[r]) :
        /\ topic' = Appended(wire[r][k].id)
        /\ wire' = Unwired(r, k)
        /\ drain' = IF wire[r][k].awaited
                    THEN [drain EXCEPT ![r].acked = @ \cup {wire[r][k].id}] ELSE drain
        /\ UNCHANGED <<faults, writerVars>>
  BY DEF BrokerAppend
<1>2. PICK i : i = wire[r][k].id
  OBVIOUS
<1>3. i \in Ids /\ TopicIds' = TopicIds \cup {i}
  BY <1>1, <1>2, UnwiredWire, AppendedOK
<1>4. \A q \in Relays : drain[q] \in Drain /\ DrainOK(drain[q], rows, TopicIds')
  BY <1>3, GrownTopic
<1>5. PICK d : d = [drain[r] EXCEPT !.acked = @ \cup {i}]
  OBVIOUS
<1>6. /\ d \in Drain /\ d.batch = drain[r].batch /\ d.copy = drain[r].copy
      /\ d.toSend = drain[r].toSend /\ d.toAwait = drain[r].toAwait
      /\ d.acked = drain[r].acked \cup {i}
  BY <1>3, <1>4, <1>5 DEF Drain
<1>7. DrainOK(d, rows, TopicIds')
  BY <1>3, <1>4, <1>6 DEF DrainOK
<1>8. drain' \in {drain, [drain EXCEPT ![r] = d]}
  BY <1>1, <1>2, <1>5
<1>9. drain' \in [Relays -> Drain] /\ \A q \in Relays : DrainOK(drain'[q], rows, TopicIds')
  BY <1>4, <1>6, <1>7, <1>8, DrainFacts
<1> QED
  BY <1>1, <1>9, DrainFacts, ResolvedInv

LEMMA ProducerFailInv ==
  ASSUME RelayInv, NEW r \in Relays, ProducerFail(r)
  PROVE  RelayInv'
<1>1. PICK k \in 1 .. Len(wire[r]) :
        /\ faults.failures < MaxSendFailures
        /\ faults' = [faults EXCEPT !.failures = @ + 1]
        /\ topic' \in {topic, Appended(wire[r][k].id)}
        /\ wire' = Unwired(r, k)
        /\ drain' = IF wire[r][k].awaited
                    THEN [drain EXCEPT ![r].failed = @ \cup {wire[r][k].id}] ELSE drain
        /\ UNCHANGED writerVars
  BY DEF ProducerFail
<1>2. PICK i : i = wire[r][k].id
  OBVIOUS
<1>3. i \in Ids /\ TopicIds \subseteq TopicIds'
  <2>1. CASE topic' = topic
    BY <2>1, <1>2, UnwiredWire DEF TopicIds
  <2>2. CASE topic' = Appended(wire[r][k].id)
    BY <2>2, <1>2, UnwiredWire, AppendedOK
  <2> QED
    BY <1>1, <2>1, <2>2
<1>4. \A q \in Relays : drain[q] \in Drain /\ DrainOK(drain[q], rows, TopicIds')
  BY <1>3, GrownTopic
<1>5. PICK d : d = [drain[r] EXCEPT !.failed = @ \cup {i}]
  OBVIOUS
<1>6. /\ d \in Drain /\ d.batch = drain[r].batch /\ d.copy = drain[r].copy
      /\ d.toSend = drain[r].toSend /\ d.toAwait = drain[r].toAwait
      /\ d.acked = drain[r].acked
  BY <1>3, <1>4, <1>5 DEF Drain
<1>7. DrainOK(d, rows, TopicIds')
  BY <1>3, <1>4, <1>6 DEF DrainOK
<1>8. drain' \in {drain, [drain EXCEPT ![r] = d]}
  BY <1>1, <1>2, <1>5
<1>9. drain' \in [Relays -> Drain] /\ \A q \in Relays : DrainOK(drain'[q], rows, TopicIds')
  BY <1>4, <1>6, <1>7, <1>8, DrainFacts
<1>10. faults' \in Faults
  BY <1>1, DrainFacts, RelayAssumption DEF Faults
<1> QED
  BY <1>1, <1>9, <1>10, ResolvedInv

-----------------------------------------------------------------------------
(***************************************************************************)
(* A writer's step keeps what is committed, and what it adds is pending:   *)
(* no transaction can reach a row of another one or of the relays.         *)
(***************************************************************************)
LEMMA WriterKeeps ==
  ASSUME WriterInv, WriterNext
  PROVE  \A i \in Ids : \/ rows'[i] = rows[i]
                        \/ /\ rows[i].st \in {"absent", "inserted"}
                           /\ rows'[i].st \in {"inserted", "pending", "void"}
<1> USE DEF WriterInv, WriterTypeOK
<1>1. ASSUME NEW w \in Writers, NEW o \in Orders, Load(w, o)
      PROVE  rows' = rows
  BY <1>1 DEF Load
<1>2. ASSUME NEW w \in Writers, NEW o \in Orders, Publish(w, o), NEW i \in Ids, rows'[i] # rows[i]
      PROVE  rows[i].st = "absent" /\ rows'[i].st = "inserted"
  <2>1. i = nextId /\ rows'[i].st = "inserted"
    BY <1>2 DEF Publish
  <2>2. ~(nextId < nextId)
    BY DEF Ids
  <2> QED
    BY <2>1, <2>2 DEF IdentityUsed
<1>3. ASSUME NEW w \in Writers, CommitTx(w) \/ RollbackTx(w), NEW i \in Ids, rows'[i] # rows[i]
      PROVE  rows[i].st = "inserted" /\ rows'[i].st \in {"pending", "void"}
  <2>1. i \in tx[w].ids
    BY <1>3 DEF CommitTx, RollbackTx
  <2>2. rows[i].st = "inserted"
    BY <2>1 DEF OwnsItsRows
  <2>3. rows'[i] \in {[rows[i] EXCEPT !.st = "pending"], [rows[i] EXCEPT !.st = "void"]}
    BY <1>3, <2>1 DEF CommitTx, RollbackTx
  <2>4. rows[i] \in Row
    OBVIOUS
  <2> QED
    BY <2>2, <2>3, <2>4 DEF Row
<1> QED
  BY <1>1, <1>2, <1>3 DEF WriterNext

LEMMA WriterStepInv ==
  ASSUME RelayInv, [WriterNext]_writerVars, UNCHANGED relayVars
  PROVE  RelayInv'
<1>1. WriterInv'
  BY WriterInvNext DEF RelayInv
<1>2. UNCHANGED <<drain, wire, topic, faults>> /\ TopicIds' = TopicIds
  BY DEF relayVars, TopicIds
<1>3. \A i \in Ids : rows'[i] = rows[i] \/ rows'[i].st \notin {"published", "purged", "dead"}
  BY WriterKeeps DEF RelayInv, writerVars
<1>4. KeepsRows(rows, rows')
  BY WriterKeeps DEF RelayInv, writerVars, KeepsRows, Committed
<1>5. \A q \in Relays : drain[q] \in Drain /\ wire[q] \in Seq(Record)
  BY DEF RelayInv, RelayTypeOK
<1>6. \A q \in Relays : DrainOK(drain[q], rows', TopicIds) /\ WireOK(wire[q], rows')
  BY <1>4, <1>5, KeepsAll DEF RelayInv
<1>7. \A o \in Orders : topic[o] \in Seq(Ids)
  BY DEF RelayInv, RelayTypeOK
<1>8. \A o \in Orders : PartitionOK(o, topic[o], rows')
  BY <1>4, <1>7, KeepsAll DEF RelayInv
<1>9. \A i \in Ids : RowOK(i, rows'[i], TopicIds)
  BY <1>3 DEF RelayInv, RowOK
<1>10. RelayTypeOK'
  BY <1>2 DEF RelayInv, RelayTypeOK
<1> QED
  BY <1>1, <1>2, <1>6, <1>8, <1>9, <1>10 DEF RelayInv

LEMMA RelayInvNext == RelayInv /\ [OutboxNext]_outboxVars => RelayInv'
<1> SUFFICES ASSUME RelayInv, [OutboxNext]_outboxVars PROVE RelayInv'
  OBVIOUS
<1>1. CASE WriterNext /\ UNCHANGED relayVars
  BY <1>1, WriterStepInv
<1>2. CASE UNCHANGED outboxVars
  BY <1>2, WriterStepInv DEF outboxVars
<1>3. ASSUME NEW r \in Relays, RelayStep(r)
      PROVE  RelayInv'
  BY <1>3, PollInv, ParkUnparseableInv, SendInv, SendThrowsInv, AwaitAckInv, AwaitFailureInv,
     AwaitTimeoutInv, CommitDrainInv DEF RelayStep
<1>4. ASSUME NEW r \in Relays, BrokerAppend(r) \/ ProducerFail(r) \/ CrashRelay(r)
      PROVE  RelayInv'
  BY <1>4, BrokerAppendInv, ProducerFailInv, CrashRelayInv
<1>5. ASSUME NEW i \in Ids, Purge(i)
      PROVE  RelayInv'
  BY <1>5, PurgeInv
<1> QED
  BY <1>1, <1>2, <1>3, <1>4, <1>5 DEF OutboxNext, RelayNext

(***************************************************************************)
(* What no step of the outbox ever undoes: a committed row keeps its step  *)
(* and its order, and a partition only grows.                              *)
(***************************************************************************)
LEMMA OutboxKeeps ==
  ASSUME RelayInv, [OutboxNext]_outboxVars
  PROVE  /\ KeepsRows(rows, rows')
         /\ topic' = topic \/ \E i \in Ids : /\ rows[i].st \in Committed
                                            /\ rows[i].order \in Orders
                                            /\ topic' = Appended(i)
<1>1. CASE WriterNext /\ UNCHANGED relayVars
  BY <1>1, WriterKeeps DEF RelayInv, KeepsRows, Committed, relayVars
<1>2. CASE UNCHANGED <<rows, topic>>
  BY <1>2, KeepsSame
<1>3. ASSUME NEW r \in Relays, RelayStep(r)
      PROVE  KeepsRows(rows, rows') /\ topic' = topic
  <2>1. CASE CommitDrain(r)
    BY <2>1, CommitDrainKeeps DEF CommitDrain
  <2>2. CASE ~CommitDrain(r)
    BY <1>3, <2>2, KeepsSame DEF RelayStep, Poll, ParkUnparseable, Send, SendThrows, AwaitAck,
         AwaitFailure, AwaitTimeout, writerVars
  <2> QED
    BY <2>1, <2>2
<1>4. ASSUME NEW r \in Relays, BrokerAppend(r) \/ ProducerFail(r) \/ CrashRelay(r)
      PROVE  KeepsRows(rows, rows')
  BY <1>4, KeepsSame DEF BrokerAppend, ProducerFail, CrashRelay, writerVars
<1>5. ASSUME NEW r \in Relays, BrokerAppend(r) \/ ProducerFail(r)
      PROVE  \E k \in 1 .. Len(wire[r]) : topic' \in {topic, Appended(wire[r][k].id)}
  BY <1>5 DEF BrokerAppend, ProducerFail
<1>6. ASSUME NEW r \in Relays, CrashRelay(r)
      PROVE  UNCHANGED topic
  BY <1>6 DEF CrashRelay
<1>7. ASSUME NEW i \in Ids, Purge(i)
      PROVE  KeepsRows(rows, rows') /\ topic' = topic
  BY <1>7, PurgeKeeps DEF Purge, relayVars
<1>8. CASE UNCHANGED outboxVars
  BY <1>8, <1>2 DEF outboxVars, writerVars, relayVars
<1>9. ASSUME NEW r \in Relays, BrokerAppend(r) \/ ProducerFail(r)
      PROVE  topic' = topic \/ \E i \in Ids : /\ rows[i].st \in Committed
                                             /\ rows[i].order \in Orders
                                             /\ topic' = Appended(i)
  BY <1>5, <1>9, UnwiredWire
<1> QED
  BY <1>1, <1>2, <1>3, <1>4, <1>6, <1>7, <1>8, <1>9 DEF OutboxNext, RelayNext

LEMMA AppendedPartition ==
  ASSUME RelayInv, NEW i \in Ids, topic' = Appended(i), NEW o \in Orders
  PROVE  /\ topic[o] \in Seq(Ids) /\ Len(topic[o]) \in Nat
         /\ o # rows[i].order => topic'[o] = topic[o]
         /\ o = rows[i].order =>
              /\ Len(topic'[o]) = Len(topic[o]) + 1
              /\ topic'[o][Len(topic[o]) + 1] = i
              /\ \A k \in 1 .. Len(topic[o]) : topic'[o][k] = topic[o][k]
<1>1. topic \in [Orders -> Seq(Ids)] /\ topic[o] \in Seq(Ids) /\ Len(topic[o]) \in Nat
  BY DEF RelayInv, RelayTypeOK
<1>2. CASE o # rows[i].order
  BY <1>1, <1>2 DEF Appended
<1>3. CASE o = rows[i].order
  <2>1. topic'[o] = Append(topic[o], i)
    BY <1>1, <1>3 DEF Appended
  <2> QED
    BY <1>1, <1>3, <2>1, AppendProperties
<1> QED
  BY <1>1, <1>2, <1>3

LEMMA RelayInvAlways == OutboxSpec => []RelayInv
  BY RelayInvInit, RelayInvNext, PTL DEF OutboxSpec

LEMMA RelayInvGivesFeed == RelayInv => FeedIsTrue
<1> SUFFICES ASSUME RelayInv PROVE FeedIsTrue
  OBVIOUS
<1>1. RelayTypeOK
  BY DEF RelayInv
<1>2. NoPhantoms
  <2>1. \A i \in WireIds : rows[i].st \in Committed
    BY DEF WireIds, RelayInv, WireOK
  <2> QED
    BY <2>1 DEF NoPhantoms, RelayInv, PartitionOK
<1>3. NoLoss
  BY DEF NoLoss, RelayInv, RowOK
<1>4. DeadLetterHasCause
  BY DEF DeadLetterHasCause, RelayInv, RowOK
<1> QED
  BY <1>1, <1>2, <1>3, <1>4 DEF FeedIsTrue

(***************************************************************************)
(* What the relays put on the topic is the committed history, whatever     *)
(* crashes, times out or fails and however many replicas drain at once     *)
(* (OutboxRelay.drain and purge).                                          *)
(***************************************************************************)
THEOREM TopicIsHistory == OutboxSpec => []FeedIsTrue
  BY RelayInvAlways, RelayInvGivesFeed, PTL

(***************************************************************************)
(* Draining does not spoil what the writers keep: with the relays and the  *)
(* purge running, every order's rows still are its committed steps and     *)
(* their ids still follow the lifecycle.                                   *)
(***************************************************************************)
THEOREM OutboxStaysHistory == OutboxSpec => [](OutboxMatchesOrders /\ IdsFollowLifecycle)
<1>1. RelayInv => OutboxMatchesOrders /\ IdsFollowLifecycle
  BY WriterInvGivesHistory DEF RelayInv, WriterInv
<1> QED
  BY <1>1, RelayInvAlways, PTL

-----------------------------------------------------------------------------
\* What the feed sees of a row.
LEMMA FeedStates ==
  ASSUME NEW row \in Row
  PROVE  /\ row.st \in {"absent", "inserted", "void"} <=> FeedStateOf(row) = "uncommitted"
         /\ row.st = "pending" <=> FeedStateOf(row) = "open"
         /\ row.st \in {"published", "purged"} <=> FeedStateOf(row) = "acked"
         /\ row.st = "dead" <=> FeedStateOf(row) = "parked"
         /\ FeedStateOf(row) \in Feed!FeedState
<1>1. row.st \in {"absent", "inserted", "void", "pending", "published", "purged", "dead"}
  BY DEF Row, RowState, Committed
<1> QED
  BY <1>1 DEF FeedStateOf, Feed!FeedState

\* The feed's state, row by row, before and after a step.
LEMMA FeedTypes ==
  ASSUME RelayInv, RelayInv'
  PROVE  /\ rows \in [Ids -> Row] /\ rows' \in [Ids -> Row]
         /\ \A i \in Ids : FeedStateOf(rows[i]) \in Feed!FeedState
         /\ \A i \in Ids : FeedStateOf(rows'[i]) \in Feed!FeedState
<1>1. rows \in [Ids -> Row] /\ rows' \in [Ids -> Row]
  BY DEF RelayInv, WriterInv, WriterTypeOK
<1> QED
  BY <1>1, FeedStates

\* A writer's step commits events, or is invisible.
LEMMA FeedCommits ==
  ASSUME RelayInv, RelayInv', WriterNext, UNCHANGED relayVars
  PROVE  Feed!CommitEvents
<1>1. TopicIds' = TopicIds
  BY DEF relayVars, TopicIds
<1>2. ASSUME NEW i \in Ids, FeedStateOf(rows'[i]) # FeedStateOf(rows[i])
      PROVE  FeedStateOf(rows[i]) = "uncommitted" /\ FeedStateOf(rows'[i]) = "open"
  <2>1. /\ rows[i].st \in {"absent", "inserted"}
        /\ rows'[i].st \in {"inserted", "pending", "void"}
    BY <1>2, WriterKeeps DEF RelayInv
  <2>2. rows[i] \in Row /\ rows'[i] \in Row
    BY FeedTypes
  <2> QED
    BY <1>2, <2>1, <2>2, FeedStates
<1> QED
  BY <1>1, <1>2, FeedTypes DEF Feed!CommitEvents

\* A rewrite of the table settles events, and the topic bears out every stamp.
LEMMA FeedSettles ==
  ASSUME RelayInv, RelayInv', UNCHANGED topic, KeepsRows(rows, rows'),
         \A i \in Ids : rows[i].st \notin Committed => rows'[i] = rows[i]
  PROVE  Feed!Settle
<1>1. TopicIds' = TopicIds
  BY DEF TopicIds
<1>2. \A i \in Ids : RowOK(i, rows'[i], TopicIds)
  BY <1>1 DEF RelayInv
<1>3. ASSUME NEW i \in Ids
      PROVE  /\ FeedStateOf(rows'[i]) = "uncommitted" <=> FeedStateOf(rows[i]) = "uncommitted"
             /\ FeedStateOf(rows'[i]) = "acked" => i \in TopicIds
  <2>1. rows[i] \in Row /\ rows'[i] \in Row
    BY FeedTypes
  <2>2. \A row \in Row : row.st \in Committed <=> FeedStateOf(row) # "uncommitted"
    BY FeedStates DEF Committed, Row, RowState
  <2>3. rows[i].st \in Committed <=> rows'[i].st \in Committed
    BY DEF KeepsRows
  <2> QED
    BY <2>1, <2>2, <2>3, <1>2, FeedStates DEF RowOK
<1> QED
  BY <1>1, <1>3, FeedTypes DEF Feed!Settle

\* A record that the broker appends delivers a committed event.
LEMMA FeedDelivers ==
  ASSUME RelayInv, NEW r \in Relays, NEW k \in 1 .. Len(wire[r]), UNCHANGED rows,
         topic' = Appended(wire[r][k].id)
  PROVE  Feed!Deliver
<1>1. PICK i \in Ids : i = wire[r][k].id /\ rows[i].st \in Committed /\ rows[i].order \in Orders
  BY UnwiredWire
<1>2. TopicIds' = TopicIds \cup {i}
  BY <1>1, AppendedOK
<1>3. rows[i] \in Row
  BY DrainFacts
<1>4. FeedStateOf(rows[i]) # "uncommitted"
  BY <1>1, <1>3, FeedStates DEF Committed
<1> QED
  BY <1>2, <1>4 DEF Feed!Deliver

FeedView == <<[i \in Ids |-> FeedStateOf(rows[i])], TopicIds>>

LEMMA FeedStep ==
  ASSUME RelayInv, RelayInv', [OutboxNext]_outboxVars
  PROVE  [Feed!FeedNext]_FeedView
<1> USE DEF Feed!FeedNext
<1>1. CASE WriterNext /\ UNCHANGED relayVars
  BY <1>1, FeedCommits
<1>2. CASE UNCHANGED <<rows, topic>>
  BY <1>2 DEF FeedView, TopicIds
<1>3. ASSUME NEW r \in Relays, RelayStep(r)
      PROVE  [Feed!FeedNext]_FeedView
  <2>1. CASE CommitDrain(r)
    BY <2>1, CommitDrainKeeps, FeedSettles DEF CommitDrain
  <2>2. CASE ~CommitDrain(r)
    BY <1>2, <1>3, <2>2 DEF RelayStep, Poll, ParkUnparseable, Send, SendThrows, AwaitAck,
         AwaitFailure, AwaitTimeout, writerVars
  <2> QED
    BY <2>1, <2>2
<1>4. ASSUME NEW r \in Relays, BrokerAppend(r)
      PROVE  Feed!Deliver
  BY <1>4, FeedDelivers DEF BrokerAppend, writerVars
<1>5. ASSUME NEW r \in Relays, ProducerFail(r)
      PROVE  [Feed!FeedNext]_FeedView
  <2>1. PICK k \in 1 .. Len(wire[r]) : topic' \in {topic, Appended(wire[r][k].id)}
    BY <1>5 DEF ProducerFail
  <2>2. UNCHANGED rows
    BY <1>5 DEF ProducerFail, writerVars
  <2> QED
    BY <2>1, <2>2, <1>2, FeedDelivers
<1>6. ASSUME NEW r \in Relays, CrashRelay(r)
      PROVE  UNCHANGED <<rows, topic>>
  BY <1>6 DEF CrashRelay, writerVars
<1>7. ASSUME NEW i \in Ids, Purge(i)
      PROVE  Feed!Settle
  BY <1>7, PurgeKeeps, FeedSettles DEF Purge, relayVars
<1>8. CASE UNCHANGED outboxVars
  BY <1>8, <1>2 DEF outboxVars, writerVars, relayVars
<1> QED
  BY <1>1, <1>2, <1>3, <1>4, <1>5, <1>6, <1>7, <1>8 DEF OutboxNext, RelayNext

LEMMA FeedStarts == OutboxInit => Feed!FeedInit
<1> SUFFICES ASSUME OutboxInit PROVE Feed!FeedInit
  OBVIOUS
<1>1. \A i \in Ids : rows[i] \in Row /\ rows[i].st = "absent"
  BY DEF OutboxInit, WriterInit, NoRow, Row, RowState
<1>2. \A i \in Ids : FeedStateOf(rows[i]) = "uncommitted"
  BY <1>1, FeedStates
<1>3. TopicIds = {}
  BY OnTopic DEF OutboxInit, RelayInit
<1> QED
  BY <1>2, <1>3 DEF Feed!FeedInit

(***************************************************************************)
(* The refinement: transactions commit events, the broker delivers them,   *)
(* and every write-back settles them truthfully; anything else the outbox  *)
(* does is invisible in the feed (OutboxRelay's "at-least-once").          *)
(***************************************************************************)
THEOREM OutboxIsFeed == OutboxSpec => ImplementsFeed
<1>1. RelayInv /\ RelayInv' /\ [OutboxNext]_outboxVars => [Feed!FeedNext]_FeedView
  BY FeedStep
<1> QED
  BY <1>1, FeedStarts, RelayInvAlways, PTL DEF OutboxSpec, ImplementsFeed, Feed!FeedSpec, FeedView

-----------------------------------------------------------------------------

\* One replica alone runs the relay.
OneRelay == \E r : Relays = {r}

(***************************************************************************)
(* The inductive invariant of the view.  Whatever it keeps is a committed  *)
(* row of its order; the offset never passes the position; and having      *)
(* reached the end of an undisturbed partition it keeps the last record.   *)
(***************************************************************************)
LatestOK(o, e, R) == e # NoEvent => R[e].st \in Committed /\ R[e].order = o

ConsumedOK(e, pos, off, part, mishaps) ==
  /\ off <= pos /\ pos <= Len(part)
  /\ mishaps = 0 /\ pos = Len(part) /\ pos > 0 => e = part[pos]

RiskInv ==
  /\ RelayInv
  /\ RiskTypeOK
  /\ \A o \in Orders :
       /\ LatestOK(o, latestByRef[o], rows)
       /\ ConsumedOK(latestByRef[o], position[o], offset[o], topic[o],
                     upsets.restarts + upsets.bad)

(***************************************************************************)
(* The inductive invariant of a single relay.  A drain has its batch to    *)
(* itself, so its rows are still pending.  As long as no send has failed   *)
(* and no acknowledgement has been late, the records of an order reach the *)
(* partition in the order of their ids, except that the rows of a drain    *)
(* that rolled back are sent again, all of them, behind the abandoned      *)
(* records: the record that comes last is never older than a settled row.  *)
(***************************************************************************)
Done == {"published", "purged"}

Calm == faults.timeouts = 0 /\ faults.failures = 0

\* i is not newer than the last record of the partition.
Reached(i, part) == Len(part) > 0 /\ i <= part[Len(part)]

TableOrder(R, tp) ==
  /\ \A i \in Ids : R[i].st \in Done => Reached(i, tp[R[i].order])
  /\ \A i, j \in Ids :
       R[i].st \in Done /\ R[j].st = "pending" /\ R[i].order = R[j].order => i < j

BatchOrder(d, R) ==
  /\ \A i \in d.batch : \A j \in Ids \ d.batch :
       R[j].st = "pending" /\ R[i].order = R[j].order => i < j
  /\ \A i \in d.toSend : \A j \in d.batch \ d.toSend : j < i
  /\ d.acked \subseteq d.batch \ d.toSend /\ d.toAwait \subseteq d.batch \ d.toSend
  /\ d.failed = {}
  /\ \A i \in d.batch \ (d.toSend \cup d.toAwait) :
       d.copy[i].st = "dead" \/ (d.copy[i].st = "published" /\ i \in d.acked)

WireOrder(s, R) ==
  /\ \A k \in 1 .. Len(s) : \A i \in Ids :
       R[i].st \in Done /\ R[i].order = R[s[k].id].order => i < s[k].id
  /\ \A k, l \in 1 .. Len(s) : k < l /\ s[k].awaited =>
       /\ s[l].awaited
       /\ R[s[k].id].order = R[s[l].id].order => s[k].id < s[l].id

AckOrder(d, s, R, tp) ==
  /\ \A k \in 1 .. Len(s) : s[k].awaited => s[k].id \in d.toAwait \ d.acked
  /\ \A i \in d.acked :
       /\ Reached(i, tp[R[i].order])
       /\ \A k \in 1 .. Len(s) :
            R[s[k].id].order = R[i].order => s[k].awaited /\ i < s[k].id

Orderly(d, s, R, tp) ==
  /\ TableOrder(R, tp)
  /\ BatchOrder(d, R)
  /\ WireOrder(s, R)
  /\ AckOrder(d, s, R, tp)

SoleRelayInv ==
  \A r \in Relays :
    /\ \A i \in drain[r].batch : rows[i].st = "pending"
    /\ Calm => Orderly(drain[r], wire[r], rows, topic)

-----------------------------------------------------------------------------
LEMMA RiskInvInit == Init => RiskInv
<1> SUFFICES ASSUME Init PROVE RiskInv
  OBVIOUS
<1> USE RiskAssumption DEF Init, RiskInit
<1>1. RelayInv
  BY RelayInvInit
<1>2. topic = [o \in Orders |-> <<>>]
  BY DEF OutboxInit, RelayInit
<1>3. RiskTypeOK
  BY <1>2 DEF RiskTypeOK
<1>4. \A o \in Orders : LatestOK(o, latestByRef[o], rows)
  BY DEF LatestOK
<1>5. \A o \in Orders : ConsumedOK(latestByRef[o], position[o], offset[o], topic[o],
                                   upsets.restarts + upsets.bad)
  <2>1. \A o \in Orders : position[o] = 0 /\ offset[o] = 0 /\ Len(topic[o]) = 0
    BY <1>2
  <2>2. \A o \in Orders : offset[o] <= position[o] /\ position[o] <= Len(topic[o]) /\ ~(position[o] > 0)
    <3>1. 0 <= 0 /\ ~(0 > 0)
      OBVIOUS
    <3> QED
      BY <2>1, <3>1, Zenon
  <2> QED
    BY <2>2, Zenon DEF ConsumedOK
<1> QED
  BY <1>1, <1>3, <1>4, <1>5 DEF RiskInv

\* What the steps of the view read.
LEMMA RiskFacts ==
  ASSUME RiskInv, NEW o \in Orders
  PROVE  /\ latestByRef \in [Orders -> Ids \cup {NoEvent}]
         /\ position \in [Orders -> Nat] /\ offset \in [Orders -> Nat]
         /\ position[o] \in Nat /\ offset[o] \in Nat /\ Len(topic[o]) \in Nat
         /\ offset[o] <= position[o] /\ position[o] <= Len(topic[o])
         /\ upsets \in [restarts : 0 .. MaxRestarts, rebalances : 0 .. MaxRebalances,
                         bad : 0 .. MaxBadRecords]
         /\ upsets.restarts \in Nat /\ upsets.rebalances \in Nat /\ upsets.bad \in Nat
         /\ topic[o] \in Seq(Ids)
         /\ PartitionOK(o, topic[o], rows)
<1>1. topic[o] \in Seq(Ids)
  BY DEF RiskInv, RelayInv, RelayTypeOK
<1>2. upsets \in [restarts : 0 .. MaxRestarts, rebalances : 0 .. MaxRebalances,
                  bad : 0 .. MaxBadRecords]
  BY DEF RiskInv, RiskTypeOK
<1>3. upsets.restarts \in Nat /\ upsets.rebalances \in Nat /\ upsets.bad \in Nat
  BY <1>2, RiskAssumption
<1>4. /\ latestByRef \in [Orders -> Ids \cup {NoEvent}]
      /\ position \in [Orders -> Nat] /\ offset \in [Orders -> Nat]
  BY DEF RiskInv, RiskTypeOK
<1>5. offset[o] <= position[o] /\ position[o] <= Len(topic[o])
  BY DEF RiskInv, ConsumedOK
<1>6. PartitionOK(o, topic[o], rows)
  BY DEF RiskInv, RelayInv
<1> QED
  BY <1>1, <1>2, <1>3, <1>4, <1>5, <1>6

\* A step of the consumer touches neither the outbox nor the topic.
LEMMA ConsumerStepInv ==
  ASSUME RiskInv, UNCHANGED outboxVars,
         latestByRef' \in [Orders -> Ids \cup {NoEvent}],
         position' \in [Orders -> Nat], offset' \in [Orders -> Nat],
         upsets' \in [restarts : 0 .. MaxRestarts, rebalances : 0 .. MaxRebalances,
                      bad : 0 .. MaxBadRecords],
         \A o \in Orders :
           /\ LatestOK(o, latestByRef'[o], rows)
           /\ ConsumedOK(latestByRef'[o], position'[o], offset'[o], topic[o],
                         upsets'.restarts + upsets'.bad)
  PROVE  RiskInv'
<1>1. RelayInv'
  BY RelayInvNext DEF RiskInv
<1>2. topic' = topic /\ rows' = rows
  BY DEF outboxVars, writerVars, relayVars
<1>3. \A o \in Orders : offset'[o] <= Len(topic[o]) /\ position'[o] <= Len(topic[o])
  <2> TAKE o \in Orders
  <2>1. offset'[o] <= position'[o] /\ position'[o] <= Len(topic[o])
    BY DEF ConsumedOK
  <2> QED
    BY <2>1, RiskFacts
<1>4. RiskTypeOK'
  BY <1>2, <1>3 DEF RiskTypeOK
<1> QED
  BY <1>1, <1>2, <1>4 DEF RiskInv

LEMMA ConsumeInv ==
  ASSUME RiskInv, NEW o \in Orders, Consume(o)
  PROVE  RiskInv'
<1>1. PICK i : i = topic[o][position[o] + 1]
  OBVIOUS
<1>2. /\ position[o] < Len(topic[o])
      /\ latestByRef' = [latestByRef EXCEPT ![o] = i]
      /\ position' = [position EXCEPT ![o] = @ + 1]
      /\ UNCHANGED <<offset, upsets, outboxVars>>
  BY <1>1 DEF Consume
<1>3. position[o] + 1 \in 1 .. Len(topic[o])
  BY <1>2, RiskFacts
<1>4. i \in Ids /\ rows[i].st \in Committed /\ rows[i].order = o
  BY <1>1, <1>3, RiskFacts DEF PartitionOK
<1>5. LatestOK(o, i, rows)
  BY <1>4 DEF LatestOK
<1>6. ConsumedOK(i, position[o] + 1, offset[o], topic[o], upsets.restarts + upsets.bad)
  BY <1>1, <1>3, RiskFacts DEF ConsumedOK
<1>7. \A p \in Orders :
        /\ LatestOK(p, latestByRef'[p], rows)
        /\ ConsumedOK(latestByRef'[p], position'[p], offset'[p], topic[p],
                      upsets'.restarts + upsets'.bad)
  BY <1>2, <1>5, <1>6, RiskFacts DEF RiskInv
<1>8. /\ latestByRef' \in [Orders -> Ids \cup {NoEvent}]
      /\ position' \in [Orders -> Nat]
  BY <1>2, <1>4, RiskFacts
<1> QED
  BY <1>2, <1>7, <1>8, RiskFacts, ConsumerStepInv

LEMMA DeadLetterRecordInv ==
  ASSUME RiskInv, NEW o \in Orders, DeadLetterRecord(o)
  PROVE  RiskInv'
<1>1. /\ position[o] < Len(topic[o]) /\ upsets.bad < MaxBadRecords
      /\ upsets' = [upsets EXCEPT !.bad = @ + 1]
      /\ position' = [position EXCEPT ![o] = @ + 1]
      /\ UNCHANGED <<latestByRef, offset, outboxVars>>
  BY DEF DeadLetterRecord
<1>2. /\ upsets' \in [restarts : 0 .. MaxRestarts, rebalances : 0 .. MaxRebalances,
                       bad : 0 .. MaxBadRecords]
      /\ upsets'.restarts + upsets'.bad # 0
  BY <1>1, RiskFacts, RiskAssumption
<1>3. ASSUME NEW p \in Orders
      PROVE  ConsumedOK(latestByRef[p], position'[p], offset[p], topic[p],
                        upsets'.restarts + upsets'.bad)
  <2>1. offset[p] <= position'[p] /\ position'[p] <= Len(topic[p])
    BY <1>1, RiskFacts
  <2> QED
    BY <1>2, <2>1 DEF ConsumedOK
<1>4. \A p \in Orders :
        /\ LatestOK(p, latestByRef'[p], rows)
        /\ ConsumedOK(latestByRef'[p], position'[p], offset'[p], topic[p],
                      upsets'.restarts + upsets'.bad)
  BY <1>1, <1>2, <1>3 DEF RiskInv, ConsumedOK
<1>5. position' \in [Orders -> Nat]
  BY <1>1, RiskFacts
<1> QED
  BY <1>1, <1>2, <1>4, <1>5, RiskFacts, ConsumerStepInv

\* Offset and position of one partition move towards each other.
LEMMA CommitOffsetInv ==
  ASSUME RiskInv, NEW o \in Orders, CommitOffset(o)
  PROVE  RiskInv'
<1>1. /\ offset' = [offset EXCEPT ![o] = position[o]]
      /\ UNCHANGED <<latestByRef, position, upsets, outboxVars>>
  BY DEF CommitOffset
<1>2. ConsumedOK(latestByRef[o], position[o], position[o], topic[o], upsets.restarts + upsets.bad)
  BY RiskFacts DEF RiskInv, ConsumedOK
<1>3. \A p \in Orders :
        /\ LatestOK(p, latestByRef'[p], rows)
        /\ ConsumedOK(latestByRef'[p], position'[p], offset'[p], topic[p],
                      upsets'.restarts + upsets'.bad)
  BY <1>1, <1>2, RiskFacts DEF RiskInv
<1>4. offset' \in [Orders -> Nat]
  BY <1>1, RiskFacts
<1> QED
  BY <1>1, <1>3, <1>4, RiskFacts, ConsumerStepInv

LEMMA RebalanceInv ==
  ASSUME RiskInv, NEW o \in Orders, Rebalance(o)
  PROVE  RiskInv'
<1>1. /\ offset[o] # position[o] /\ upsets.rebalances < MaxRebalances
      /\ upsets' = [upsets EXCEPT !.rebalances = @ + 1]
      /\ position' = [position EXCEPT ![o] = offset[o]]
      /\ UNCHANGED <<latestByRef, offset, outboxVars>>
  BY DEF Rebalance
<1>2. /\ upsets' \in [restarts : 0 .. MaxRestarts, rebalances : 0 .. MaxRebalances,
                       bad : 0 .. MaxBadRecords]
      /\ upsets'.restarts = upsets.restarts /\ upsets'.bad = upsets.bad
  BY <1>1, RiskFacts, RiskAssumption
<1>3. ConsumedOK(latestByRef[o], offset[o], offset[o], topic[o], upsets.restarts + upsets.bad)
  BY <1>1, RiskFacts DEF ConsumedOK
<1>4. \A p \in Orders :
        /\ LatestOK(p, latestByRef'[p], rows)
        /\ ConsumedOK(latestByRef'[p], position'[p], offset'[p], topic[p],
                      upsets'.restarts + upsets'.bad)
  BY <1>1, <1>2, <1>3, RiskFacts DEF RiskInv
<1>5. position' \in [Orders -> Nat]
  BY <1>1, RiskFacts
<1> QED
  BY <1>1, <1>2, <1>4, <1>5, RiskFacts, ConsumerStepInv

LEMMA RestartRiskInv ==
  ASSUME RiskInv, RestartRisk
  PROVE  RiskInv'
<1>1. /\ upsets.restarts < MaxRestarts
      /\ upsets' = [upsets EXCEPT !.restarts = @ + 1]
      /\ latestByRef' = [o \in Orders |-> NoEvent]
      /\ position' = offset
      /\ UNCHANGED <<offset, outboxVars>>
  BY DEF RestartRisk
<1>2. upsets \in [restarts : 0 .. MaxRestarts, rebalances : 0 .. MaxRebalances,
                  bad : 0 .. MaxBadRecords]
  BY DEF RiskInv, RiskTypeOK
<1>3. /\ upsets' \in [restarts : 0 .. MaxRestarts, rebalances : 0 .. MaxRebalances,
                       bad : 0 .. MaxBadRecords]
      /\ upsets'.restarts + upsets'.bad # 0
  BY <1>1, <1>2, RiskAssumption
<1>4. ASSUME NEW p \in Orders
      PROVE  /\ LatestOK(p, latestByRef'[p], rows)
             /\ ConsumedOK(latestByRef'[p], position'[p], offset'[p], topic[p],
                           upsets'.restarts + upsets'.bad)
  <2>1. offset[p] <= Len(topic[p]) /\ offset[p] \in Nat
    BY RiskFacts
  <2> QED
    BY <2>1, <1>1, <1>3 DEF LatestOK, ConsumedOK
<1>5. offset \in [Orders -> Nat]
  BY DEF RiskInv, RiskTypeOK
<1>6. /\ latestByRef' \in [Orders -> Ids \cup {NoEvent}]
      /\ position' \in [Orders -> Nat] /\ offset' \in [Orders -> Nat]
  BY <1>1, <1>5
<1> QED
  BY <1>1, <1>3, <1>4, <1>6, ConsumerStepInv

\* The outbox goes on under a view that stands still.
LEMMA OutboxStepInv ==
  ASSUME RiskInv, [OutboxNext]_outboxVars, UNCHANGED riskVars
  PROVE  RiskInv'
<1>1. RelayInv'
  BY RelayInvNext DEF RiskInv
<1>2. UNCHANGED <<latestByRef, position, offset, upsets>>
  BY DEF riskVars
<1>3. RelayInv
  BY DEF RiskInv
<1>4. \A o \in Orders : latestByRef[o] # NoEvent => latestByRef[o] \in Ids
  BY DEF RiskInv, RiskTypeOK
<1>5. \A o \in Orders : LatestOK(o, latestByRef[o], rows')
  BY <1>3, <1>4, OutboxKeeps DEF RiskInv, LatestOK, KeepsRows
<1>6. ASSUME NEW o \in Orders
      PROVE  /\ Len(topic[o]) \in Nat
             /\ \/ topic'[o] = topic[o]
                \/ Len(topic'[o]) = Len(topic[o]) + 1
  BY <1>3, OutboxKeeps, AppendedPartition, RiskFacts
<1>7. ASSUME NEW o \in Orders
      PROVE  /\ ConsumedOK(latestByRef[o], position[o], offset[o], topic'[o],
                           upsets.restarts + upsets.bad)
             /\ offset[o] <= Len(topic'[o]) /\ position[o] <= Len(topic'[o])
  <2>1. ConsumedOK(latestByRef[o], position[o], offset[o], topic[o], upsets.restarts + upsets.bad)
    BY DEF RiskInv
  <2>2. CASE topic'[o] = topic[o]
    BY <2>1, <2>2, RiskFacts
  <2>3. CASE Len(topic'[o]) = Len(topic[o]) + 1
    <3>1. /\ offset[o] <= position[o] /\ position[o] <= Len(topic'[o])
          /\ offset[o] <= Len(topic'[o]) /\ position[o] # Len(topic'[o])
      BY <1>6, <2>3, RiskFacts
    <3> QED
      BY <3>1, Zenon DEF ConsumedOK
  <2> QED
    BY <1>6, <2>2, <2>3
<1>8. RiskTypeOK'
  BY <1>2, <1>7 DEF RiskInv, RiskTypeOK
<1> QED
  BY <1>1, <1>2, <1>5, <1>7, <1>8 DEF RiskInv

LEMMA RiskInvNext == RiskInv /\ [Next]_vars => RiskInv'
<1> SUFFICES ASSUME RiskInv, [Next]_vars PROVE RiskInv'
  OBVIOUS
<1>1. CASE OutboxNext /\ UNCHANGED riskVars
  BY <1>1, OutboxStepInv
<1>2. CASE RiskNext
  BY <1>2, ConsumeInv, DeadLetterRecordInv, CommitOffsetInv, RebalanceInv, RestartRiskInv DEF RiskNext
<1>3. CASE UNCHANGED vars
  BY <1>3, OutboxStepInv DEF vars
<1> QED
  BY <1>1, <1>2, <1>3 DEF Next

LEMMA RiskInvAlways == Spec => []RiskInv
  BY RiskInvInit, RiskInvNext, PTL DEF Spec

\* What is kept is a committed step of the order.
LEMMA RiskInvGivesHistory == RiskInv => TypeOK /\ ViewIsCommittedHistory
<1> SUFFICES ASSUME RiskInv PROVE TypeOK /\ ViewIsCommittedHistory
  OBVIOUS
<1>1. TypeOK
  BY DEF TypeOK, RiskInv, RelayInv, WriterInv
<1>2. ASSUME NEW o \in Orders, latestByRef[o] # NoEvent
      PROVE  rows[latestByRef[o]].order = o /\ rows[latestByRef[o]].seq \in 1 .. version[o]
  <2>1. PICK i \in Ids : i = latestByRef[o]
    BY <1>2 DEF RiskInv, RiskTypeOK
  <2>2. rows[i].order = o /\ rows[i].st \in Committed
    BY <1>2, <2>1 DEF RiskInv, LatestOK
  <2>3. i \in CommittedRows(o)
    BY <2>2 DEF CommittedRows
  <2>4. rows[i].seq \in Nat /\ version[o] \in Nat
    BY DEF RiskInv, RelayInv, WriterInv, WriterTypeOK, Row
  <2>5. 1 <= rows[i].seq /\ rows[i].seq <= version[o]
    BY <2>3 DEF RiskInv, RelayInv, WriterInv, RowsAreSteps
  <2> QED
    BY <2>1, <2>2, <2>4, <2>5
<1> QED
  BY <1>1, <1>2 DEF ViewIsCommittedHistory

(***************************************************************************)
(* The risk view never shows anything but a state its order was committed  *)
(* in, through crashes, restarts, rebalances and any number of relays      *)
(* (RiskAggregator.record).                                                *)
(***************************************************************************)
THEOREM ViewShowsHistory == Spec => [](TypeOK /\ ViewIsCommittedHistory)
  BY RiskInvAlways, RiskInvGivesHistory, PTL

-----------------------------------------------------------------------------
LEMMA SoleRelayInit == OutboxInit => SoleRelayInv
<1> SUFFICES ASSUME OutboxInit, NEW r \in Relays
             PROVE  /\ \A i \in drain[r].batch : rows[i].st = "pending"
                    /\ Orderly(drain[r], wire[r], rows, topic)
  BY DEF SoleRelayInv
<1>1. drain[r] = Idle /\ wire[r] = <<>> /\ \A i \in Ids : rows[i].st = "absent"
  BY DEF OutboxInit, RelayInit, WriterInit, NoRow
<1>2. TableOrder(rows, topic)
  BY <1>1 DEF TableOrder, Done
<1>3. BatchOrder(Idle, rows) /\ AckOrder(Idle, <<>>, rows, topic) /\ WireOrder(<<>>, rows)
  BY DEF BatchOrder, AckOrder, WireOrder, Idle
<1> QED
  BY <1>1, <1>2, <1>3 DEF Orderly, Idle

(***************************************************************************)
(* The rows a commit adds are younger than every committed row of their    *)
(* order, because the optimistic lock lets only a current read commit.     *)
(***************************************************************************)
LEMMA NewRowsAreYounger ==
  ASSUME WriterInv, WriterNext, NEW i \in Ids, NEW j \in Ids, rows[i].st \in Committed,
         rows'[j].st = "pending", rows'[j] # rows[j], rows'[j].order = rows[i].order
  PROVE  i < j
<1> USE DEF WriterInv, WriterTypeOK
<1>1. rows[j].st \in {"absent", "inserted"}
  BY WriterKeeps
<1>2. PICK w \in Writers : CommitTx(w)
  <2>1. ASSUME NEW w \in Writers, NEW o \in Orders, Load(w, o) \/ Publish(w, o)
        PROVE  FALSE
    <3>1. rows' = rows \/ (rows' = [rows EXCEPT ![nextId] = [order |-> o, seq |-> tx[w].cur[o] + 1,
                                       st |-> "inserted", attempts |-> 0]] /\ nextId \in Ids)
      BY <2>1 DEF Load, Publish
    <3>2. rows'[j] = rows[j] \/ rows'[j].st = "inserted"
      BY <3>1
    <3> QED
      BY <3>2
  <2>2. ASSUME NEW w \in Writers, RollbackTx(w)
        PROVE  FALSE
    <3>1. rows'[j] = [rows[j] EXCEPT !.st = "void"]
      BY <2>2 DEF RollbackTx
    <3>2. rows[j] \in Row
      OBVIOUS
    <3> QED
      BY <3>1, <3>2 DEF Row
  <2> QED
    BY <2>1, <2>2 DEF WriterNext
<1>3. j \in tx[w].ids /\ rows'[j] = [rows[j] EXCEPT !.st = "pending"]
  BY <1>2 DEF CommitTx
<1>4. PICK o : o = rows[j].order
  OBVIOUS
<1>5. rows[j] \in Row /\ rows'[j].order = o /\ tx[w] \in Tx
  BY <1>3, <1>4 DEF Row
<1>6. /\ o \in tx[w].loaded /\ o \in Orders
      /\ tx[w].read[o] < rows[j].seq /\ rows[j].seq <= tx[w].cur[o]
  BY <1>3, <1>4, <1>5 DEF OwnsItsRows, Tx
<1>7. tx[w].read[o] # tx[w].cur[o]
  BY <1>5, <1>6 DEF Tx, Row
<1>8. version[o] = tx[w].read[o]
  BY <1>2, <1>6, <1>7 DEF CommitTx, VersionsCurrent, Changed
<1>9. i \in CommittedRows(o)
  BY <1>5 DEF CommittedRows
<1> QED
  BY <1>3, <1>4, <1>6, <1>8, <1>9 DEF CurrentTxIsYounger

\* The part of the invariant that reads only the drain and the orders of rows.
LEMMA CalmParts ==
  ASSUME RelayInv, SoleRelayInv, NEW r \in Relays
  PROVE  /\ drain[r] \in Drain /\ DrainOK(drain[r], rows, TopicIds)
         /\ wire[r] \in Seq(Record) /\ Len(wire[r]) \in Nat /\ WireOK(wire[r], rows)
         /\ \A k \in 1 .. Len(wire[r]) : wire[r][k].id \in Ids
         /\ \A i \in drain[r].batch : i \in Ids /\ rows[i].st = "pending"
         /\ Calm => /\ TableOrder(rows, topic) /\ BatchOrder(drain[r], rows)
                    /\ WireOrder(wire[r], rows) /\ AckOrder(drain[r], wire[r], rows, topic)
<1>1. drain[r] \in Drain /\ wire[r] \in Seq(Record)
  BY DrainFacts, WireType
<1>2. \A k \in 1 .. Len(wire[r]) : wire[r][k] \in Record
  BY <1>1
<1>3. \A k \in 1 .. Len(wire[r]) : wire[r][k].id \in Ids
  BY <1>2 DEF Record
<1>4. \A i \in drain[r].batch : i \in Ids
  BY <1>1 DEF Drain
<1> QED
  BY <1>1, <1>3, <1>4, DrainFacts, WireType DEF SoleRelayInv, Orderly

LEMMA SoleWriterStep ==
  ASSUME RelayInv, SoleRelayInv, WriterNext, UNCHANGED relayVars
  PROVE  SoleRelayInv'
<1>1. /\ UNCHANGED <<drain, wire, topic>> /\ (Calm' <=> Calm)
      /\ WriterInv
  BY DEF relayVars, Calm, RelayInv
<1> SUFFICES ASSUME NEW r \in Relays
             PROVE  /\ \A i \in drain[r].batch : rows'[i].st = "pending"
                    /\ Calm => Orderly(drain[r], wire[r], rows', topic)
  BY <1>1 DEF SoleRelayInv
<1>2. \A i \in Ids : rows[i].st \in Committed => rows'[i] = rows[i]
  BY <1>1, WriterKeeps DEF Committed
<1>3. \A i \in Ids : rows'[i].st \in Done => rows'[i] = rows[i]
  BY <1>1, WriterKeeps DEF Done
<1>4. \A i \in drain[r].batch : rows'[i] = rows[i]
  BY <1>2, CalmParts DEF Committed
<1>5. \A i, j \in Ids : rows[i].st \in Committed /\ rows'[j].st = "pending"
                       /\ rows'[j] # rows[j] /\ rows'[j].order = rows[i].order => i < j
  BY <1>1, NewRowsAreYounger
<1>6. ASSUME Calm PROVE TableOrder(rows', topic)
  <2>1. TableOrder(rows, topic)
    BY <1>6, CalmParts
  <2>2. \A i \in Ids : rows'[i].st \in Done => Reached(i, topic[rows'[i].order])
    BY <2>1, <1>3 DEF TableOrder
  <2>3. ASSUME NEW i \in Ids, NEW j \in Ids, rows'[i].st \in Done, rows'[j].st = "pending",
               rows'[i].order = rows'[j].order
        PROVE  i < j
    <3>1. rows'[i] = rows[i] /\ rows[i].st \in Done /\ rows[i].st \in Committed
      BY <2>3, <1>3 DEF Done, Committed
    <3>2. CASE rows'[j] = rows[j]
      BY <2>1, <2>3, <3>1, <3>2 DEF TableOrder
    <3>3. CASE rows'[j] # rows[j]
      BY <2>3, <3>1, <3>3, <1>5
    <3> QED
      BY <3>2, <3>3
  <2> QED
    BY <2>2, <2>3 DEF TableOrder
<1>7. ASSUME Calm PROVE BatchOrder(drain[r], rows')
  <2>1. BatchOrder(drain[r], rows)
    BY <1>7, CalmParts
  <2>2. ASSUME NEW i \in drain[r].batch, NEW j \in Ids \ drain[r].batch, rows'[j].st = "pending",
               rows'[i].order = rows'[j].order
        PROVE  i < j
    <3>1. rows'[i] = rows[i] /\ rows[i].st \in Committed /\ i \in Ids
      BY <1>4, CalmParts DEF Committed
    <3>2. CASE rows'[j] = rows[j]
      BY <2>1, <2>2, <3>1, <3>2 DEF BatchOrder
    <3>3. CASE rows'[j] # rows[j]
      BY <2>2, <3>1, <3>3, <1>5
    <3> QED
      BY <3>2, <3>3
  <2> QED
    BY <2>1, <2>2 DEF BatchOrder
<1>8. \A k \in 1 .. Len(wire[r]) : rows'[wire[r][k].id] = rows[wire[r][k].id]
  BY <1>2, CalmParts DEF WireOK
<1>9. ASSUME Calm PROVE WireOrder(wire[r], rows')
  <2>1. WireOrder(wire[r], rows)
    BY <1>9, CalmParts
  <2> QED
    BY <2>1, <1>3, <1>8 DEF WireOrder
<1>10. ASSUME Calm PROVE AckOrder(drain[r], wire[r], rows', topic)
  <2>1. AckOrder(drain[r], wire[r], rows, topic) /\ drain[r].acked \subseteq drain[r].batch
    BY <1>10, CalmParts DEF BatchOrder
  <2> QED
    BY <2>1, <1>4, <1>8 DEF AckOrder
<1> QED
  BY <1>4, <1>6, <1>7, <1>9, <1>10, CalmParts DEF Orderly

\* A step of the only relay that leaves table and topic alone.
LEMMA SoleMemoryStep ==
  ASSUME OneRelay, RelayInv, SoleRelayInv, NEW r \in Relays, NEW d, NEW s,
         drain' = [drain EXCEPT ![r] = d], wire'[r] = s, UNCHANGED <<rows, topic>>,
         \A i \in d.batch : rows[i].st = "pending", Calm' => Calm,
         Calm => BatchOrder(d, rows) /\ WireOrder(s, rows) /\ AckOrder(d, s, rows, topic)
  PROVE  SoleRelayInv'
<1>1. \A q \in Relays : q = r
  BY DEF OneRelay
<1>2. drain'[r] = d
  BY DrainFacts
<1>3. Calm' => Orderly(d, s, rows, topic)
  BY CalmParts DEF Orderly
<1> QED
  BY <1>1, <1>2, <1>3 DEF SoleRelayInv

LEMMA CalmSame == ASSUME UNCHANGED faults PROVE Calm' <=> Calm
  BY DEF Calm

\* The oldest pending rows are older than the other pending rows.
LEMMA OldestAreOldest ==
  ASSUME NEW i \in OldestPending, NEW j \in Pending \ OldestPending
  PROVE  i < j
<1> DEFINE Upto(k) == {p \in Pending : p <= k}
<1>1. Pending \subseteq 1 .. MaxRows /\ MaxRows \in Nat
  BY WriterAssumption DEF Pending, Ids
<1>2. IsFiniteSet(Upto(i))
  <2>1. IsFiniteSet(1 .. MaxRows)
    BY <1>1, FS_Interval
  <2>2. Upto(i) \subseteq 1 .. MaxRows
    BY <1>1
  <2> QED
    BY <2>1, <2>2, FS_Subset
<1>3. SUFFICES ASSUME ~(i < j) PROVE FALSE
  OBVIOUS
<1>4. Upto(j) \subseteq Upto(i)
  <2>1. i \in Int /\ j \in Int /\ \A p \in Pending : p \in Int
    BY <1>1 DEF OldestPending
  <2>2. \A p \in Pending : p <= j => p <= i
    BY <2>1, <1>3
  <2> QED
    BY <2>2
<1>5. IsFiniteSet(Upto(j)) /\ Cardinality(Upto(j)) <= Cardinality(Upto(i))
  BY <1>2, <1>4, FS_Subset
<1>6. Cardinality(Upto(i)) <= BATCH /\ ~(Cardinality(Upto(j)) <= BATCH)
  BY DEF OldestPending
<1>7. Cardinality(Upto(i)) \in Nat /\ Cardinality(Upto(j)) \in Nat /\ BATCH \in Nat
  BY <1>2, <1>5, FS_CardinalityType, RelayAssumption
<1> HIDE DEF Upto
<1> QED
  BY <1>5, <1>6, <1>7

LEMMA SolePoll ==
  ASSUME OneRelay, RelayInv, SoleRelayInv, NEW r \in Relays, Poll(r)
  PROVE  SoleRelayInv'
<1>1. PICK d : d = [Idle EXCEPT !.batch = OldestPending, !.toSend = OldestPending,
                                !.copy = Loaded(OldestPending)]
  OBVIOUS
<1>2. /\ drain[r].batch = {} /\ drain' = [drain EXCEPT ![r] = d]
      /\ UNCHANGED <<wire, topic, faults, rows>>
  BY <1>1 DEF Poll, writerVars
<1>3. /\ d.batch = OldestPending /\ d.toSend = OldestPending /\ d.toAwait = {}
      /\ d.acked = {} /\ d.failed = {}
  BY <1>1 DEF Idle
<1>4. OldestPending \subseteq Pending /\ \A i \in Pending : i \in Ids /\ rows[i].st = "pending"
  BY DEF OldestPending, Pending
<1>5. \A j \in Ids : rows[j].st = "pending" => j \in Pending
  BY DEF Pending
<1>6. BatchOrder(d, rows)
  BY <1>3, <1>5, OldestAreOldest DEF BatchOrder
<1>7. ASSUME Calm PROVE AckOrder(d, wire[r], rows, topic)
  BY <1>2, <1>3, <1>7, CalmParts DEF AckOrder, BatchOrder
<1> QED
  BY <1>2, <1>3, <1>4, <1>6, <1>7, CalmSame, CalmParts, SoleMemoryStep

LEMMA SolePark ==
  ASSUME OneRelay, RelayInv, SoleRelayInv, NEW r \in Relays, ParkUnparseable(r)
  PROVE  SoleRelayInv'
<1>1. PICK i \in Unparseable :
        /\ First(i, drain[r].toSend)
        /\ drain' = [drain EXCEPT ![r] = Parked(drain[r], i)]
        /\ UNCHANGED <<wire, topic, faults, rows>>
  BY DEF ParkUnparseable, writerVars
<1>2. i \in drain[r].toSend /\ i \in drain[r].batch /\ i \in Ids
  BY <1>1, CalmParts DEF First, DrainOK
<1>3. PICK row : row = [drain[r].copy[i] EXCEPT !.st = "dead"]
  OBVIOUS
<1>4. row.st = "dead"
  BY <1>2, <1>3, CalmParts DEF Drain, Row
<1>5. PICK d : d = Parked(drain[r], i)
  OBVIOUS
<1>6. /\ d.batch = drain[r].batch /\ d.acked = drain[r].acked /\ d.failed = drain[r].failed
      /\ d.toSend = drain[r].toSend \ {i} /\ d.toAwait = drain[r].toAwait
      /\ d.copy = [drain[r].copy EXCEPT ![i] = row]
  BY <1>3, <1>5, CalmParts DEF Parked, Drain
<1>7. \A j \in drain[r].batch : d.copy[j] = IF j = i THEN row ELSE drain[r].copy[j]
  BY <1>6, CalmParts DEF Drain
<1>8. ASSUME Calm PROVE BatchOrder(d, rows)
  <2>1. BatchOrder(drain[r], rows)
    BY <1>8, CalmParts
  <2>2. ASSUME NEW x \in d.toSend, NEW j \in d.batch \ d.toSend
        PROVE  j < x
    <3>1. i <= x /\ x # i /\ x \in Ids /\ i \in Ids
      BY <1>1, <1>2, <1>6, CalmParts DEF First, DrainOK
    <3>2. CASE j = i
      BY <3>1, <3>2 DEF Ids
    <3>3. CASE j # i
      BY <2>1, <1>6, <3>3 DEF BatchOrder
    <3> QED
      BY <3>2, <3>3
  <2>3. \A j \in d.batch \ (d.toSend \cup d.toAwait) :
          d.copy[j].st = "dead" \/ (d.copy[j].st = "published" /\ j \in d.acked)
    BY <2>1, <1>4, <1>6, <1>7 DEF BatchOrder
  <2>4. \A x \in d.batch : \A j \in Ids \ d.batch :
          rows[j].st = "pending" /\ rows[x].order = rows[j].order => x < j
    BY <2>1, <1>6 DEF BatchOrder
  <2>5. d.acked \subseteq d.batch \ d.toSend /\ d.toAwait \subseteq d.batch \ d.toSend /\ d.failed = {}
    BY <2>1, <1>6 DEF BatchOrder
  <2> QED
    BY <2>2, <2>3, <2>4, <2>5 DEF BatchOrder
<1>9. ASSUME Calm PROVE AckOrder(d, wire[r], rows, topic)
  BY <1>6, <1>9, CalmParts DEF AckOrder
<1>10. (Calm' => Calm) /\ \A j \in d.batch : rows[j].st = "pending"
  BY <1>1, <1>6, CalmSame, CalmParts
<1> QED
  BY <1>1, <1>5, <1>8, <1>9, <1>10, CalmParts, SoleMemoryStep

LEMMA SoleSend ==
  ASSUME OneRelay, RelayInv, SoleRelayInv, NEW r \in Relays, Send(r)
  PROVE  SoleRelayInv'
<1>1. PICK i \in Ids :
        /\ First(i, drain[r].toSend)
        /\ drain' = [drain EXCEPT ![r].toSend = @ \ {i}, ![r].toAwait = @ \cup {i}]
        /\ wire' = [wire EXCEPT ![r] = Append(@, [id |-> i, awaited |-> TRUE])]
        /\ UNCHANGED <<topic, faults, rows>>
  BY DEF Send, writerVars
<1>2. i \in drain[r].toSend /\ i \in drain[r].batch /\ rows[i].st = "pending"
  BY <1>1, CalmParts DEF First, DrainOK
<1>3. PICK d : d = [drain[r] EXCEPT !.toSend = @ \ {i}, !.toAwait = @ \cup {i}]
  OBVIOUS
<1>4. drain' = [drain EXCEPT ![r] = d]
  BY <1>1, <1>3
<1>5. /\ d.batch = drain[r].batch /\ d.copy = drain[r].copy
      /\ d.acked = drain[r].acked /\ d.failed = drain[r].failed
      /\ d.toSend = drain[r].toSend \ {i} /\ d.toAwait = drain[r].toAwait \cup {i}
  BY <1>3, CalmParts DEF Drain
<1>6. PICK rec : rec = [id |-> i, awaited |-> TRUE]
  OBVIOUS
<1>7. rec \in Record /\ rec.id = i /\ rec.awaited = TRUE
  BY <1>6 DEF Record
<1>8. PICK s : s = Append(wire[r], rec)
  OBVIOUS
<1>9. PICK n \in Nat : n = Len(wire[r])
  BY CalmParts
<1>10. /\ Len(s) = n + 1 /\ s[n + 1] = rec
       /\ \A k \in 1 .. n : s[k] = wire[r][k]
  BY <1>7, <1>8, <1>9, CalmParts, AppendProperties
<1>11. wire'[r] = s
  BY <1>1, <1>6, <1>8, WireType
<1>12. \A k \in 1 .. n + 1 : k \in 1 .. n \/ k = n + 1
  OBVIOUS
<1>13. ASSUME Calm PROVE BatchOrder(d, rows)
  <2>1. BatchOrder(drain[r], rows)
    BY <1>13, CalmParts
  <2>2. ASSUME NEW x \in d.toSend, NEW j \in d.batch \ d.toSend
        PROVE  j < x
    <3>1. i <= x /\ x # i /\ x \in Ids
      BY <1>1, <1>5, CalmParts DEF First, DrainOK
    <3>2. CASE j = i
      BY <3>1, <3>2 DEF Ids
    <3>3. CASE j # i
      BY <2>1, <1>5, <3>3 DEF BatchOrder
    <3> QED
      BY <3>2, <3>3
  <2>3. /\ d.acked \subseteq d.batch \ d.toSend /\ d.toAwait \subseteq d.batch \ d.toSend
        /\ d.failed = {}
    BY <2>1, <1>2, <1>5 DEF BatchOrder
  <2>4. d.toSend \cup d.toAwait = drain[r].toSend \cup drain[r].toAwait
    BY <1>2, <1>5
  <2> QED
    BY <2>1, <2>2, <2>3, <2>4, <1>5 DEF BatchOrder
<1>14. ASSUME Calm PROVE WireOrder(s, rows)
  <2>1. /\ WireOrder(wire[r], rows) /\ TableOrder(rows, topic)
        /\ AckOrder(drain[r], wire[r], rows, topic) /\ BatchOrder(drain[r], rows)
    BY <1>14, CalmParts
  <2>2. \A j \in Ids : rows[j].st \in Done /\ rows[j].order = rows[i].order => j < i
    BY <2>1, <1>2 DEF TableOrder
  <2>3. \A k \in 1 .. n : wire[r][k].awaited => wire[r][k].id < i
    BY <2>1, <1>2, <1>9 DEF AckOrder, BatchOrder
  <2>4. \A k \in 1 .. n + 1 : \A j \in Ids :
          rows[j].st \in Done /\ rows[j].order = rows[s[k].id].order => j < s[k].id
    BY <2>1, <2>2, <1>7, <1>9, <1>10, <1>12 DEF WireOrder
  <2>5. ASSUME NEW k \in 1 .. n + 1, NEW l \in 1 .. n + 1, k < l, s[k].awaited
        PROVE  s[l].awaited /\ (rows[s[k].id].order = rows[s[l].id].order => s[k].id < s[l].id)
    <3>1. k \in 1 .. n
      BY <2>5
    <3>2. CASE l \in 1 .. n
      BY <2>1, <2>5, <3>1, <3>2, <1>9, <1>10 DEF WireOrder
    <3>3. CASE l = n + 1
      BY <2>3, <2>5, <3>1, <3>3, <1>7, <1>10
    <3> QED
      BY <3>2, <3>3, <1>12
  <2> QED
    BY <2>4, <2>5, <1>10 DEF WireOrder
<1>15. ASSUME Calm PROVE AckOrder(d, s, rows, topic)
  <2>1. AckOrder(drain[r], wire[r], rows, topic) /\ BatchOrder(drain[r], rows)
    BY <1>15, CalmParts
  <2>2. i \notin drain[r].acked /\ \A x \in drain[r].acked : x < i
    BY <2>1, <1>2 DEF BatchOrder
  <2>3. \A k \in 1 .. n + 1 : s[k].awaited => s[k].id \in d.toAwait \ d.acked
    BY <2>1, <2>2, <1>5, <1>7, <1>9, <1>10, <1>12 DEF AckOrder
  <2>4. \A x \in d.acked : \A k \in 1 .. n + 1 :
          rows[s[k].id].order = rows[x].order => s[k].awaited /\ x < s[k].id
    BY <2>1, <2>2, <1>5, <1>7, <1>9, <1>10, <1>12 DEF AckOrder
  <2> QED
    BY <2>1, <2>3, <2>4, <1>5, <1>10 DEF AckOrder
<1>16. (Calm' => Calm) /\ \A j \in d.batch : rows[j].st = "pending"
  BY <1>1, <1>5, CalmSame, CalmParts
<1> QED
  BY <1>1, <1>4, <1>11, <1>13, <1>14, <1>15, <1>16, SoleMemoryStep

\* Records that nobody awaits keep their ids and their order.
LEMMA AbandonedRecords ==
  ASSUME RelayInv, NEW r \in Relays
  PROVE  /\ Len(Abandoned(r)[r]) = Len(wire[r])
         /\ \A k \in 1 .. Len(wire[r]) :
              Abandoned(r)[r][k].id = wire[r][k].id /\ Abandoned(r)[r][k].awaited = FALSE
<1> DEFINE s == [k \in 1 .. Len(wire[r]) |-> [wire[r][k] EXCEPT !.awaited = FALSE]]
<1>1. wire \in [Relays -> Seq(Record)] /\ wire[r] \in Seq(Record) /\ Len(wire[r]) \in Nat
  BY WireType
<1>2. \A k \in 1 .. Len(wire[r]) : wire[r][k] \in Record
  BY <1>1
<1>3. \A k \in 1 .. Len(wire[r]) : s[k].id = wire[r][k].id /\ s[k].awaited = FALSE
  BY <1>2 DEF Record
<1>4. Len(s) = Len(wire[r])
  BY <1>1
<1>5. Abandoned(r)[r] = s
  BY <1>1 DEF Abandoned
<1> QED
  BY <1>3, <1>4, <1>5, Zenon

\* A drain has ended: nothing is awaited, and every wire that was in order is.
LEMMA IdleOrder ==
  ASSUME RelayInv, NEW r \in Relays, NEW R, NEW tp
  PROVE  /\ BatchOrder(Idle, R)
         /\ AckOrder(Idle, <<>>, R, tp) /\ WireOrder(<<>>, R)
         /\ AckOrder(Idle, Abandoned(r)[r], R, tp)
         /\ WireOrder(wire[r], R) => WireOrder(Abandoned(r)[r], R)
<1>1. BatchOrder(Idle, R) /\ AckOrder(Idle, <<>>, R, tp) /\ WireOrder(<<>>, R)
  BY DEF BatchOrder, AckOrder, WireOrder, Idle
<1>2. PICK s : s = Abandoned(r)[r]
  OBVIOUS
<1>3. /\ Len(s) = Len(wire[r])
      /\ \A k \in 1 .. Len(wire[r]) : s[k].id = wire[r][k].id /\ s[k].awaited = FALSE
  BY <1>2, AbandonedRecords
<1>4. AckOrder(Idle, s, R, tp)
  BY <1>3 DEF AckOrder, Idle
<1>5. WireOrder(wire[r], R) => WireOrder(s, R)
  BY <1>3 DEF WireOrder
<1> QED
  BY <1>1, <1>2, <1>4, <1>5

LEMMA SoleDrainEnds ==
  ASSUME OneRelay, RelayInv, SoleRelayInv, NEW r \in Relays, SendThrows(r) \/ CrashRelay(r)
  PROVE  SoleRelayInv'
<1>1. drain' = [drain EXCEPT ![r] = Idle] /\ UNCHANGED <<rows, topic>>
  BY DEF SendThrows, CrashRelay, writerVars
<1>2. wire'[r] \in {Abandoned(r)[r], <<>>}
  BY WireType DEF SendThrows, CrashRelay
<1>3. Calm' => Calm
  <2>1. faults \in Faults
    BY DrainFacts
  <2>2. CASE CrashRelay(r)
    BY <2>1, <2>2 DEF Calm, Faults, CrashRelay
  <2>3. CASE SendThrows(r)
    <3>1. /\ faults'.timeouts = faults.timeouts
          /\ faults'.failures \in {faults.failures, faults.failures + 1}
      BY <2>1, <2>3 DEF Faults, SendThrows
    <3>2. faults.failures \in Nat
      BY <2>1, RelayAssumption DEF Faults
    <3> QED
      BY <3>1, <3>2 DEF Calm
  <2> QED
    BY <2>2, <2>3
<1>4. Idle.batch = {}
  BY DEF Idle
<1>5. Calm => WireOrder(wire[r], rows)
  BY CalmParts
<1>6. CASE wire'[r] = Abandoned(r)[r]
  BY <1>1, <1>3, <1>4, <1>5, <1>6, IdleOrder, SoleMemoryStep
<1>7. CASE wire'[r] = <<>>
  BY <1>1, <1>3, <1>4, <1>7, IdleOrder, SoleMemoryStep
<1> QED
  BY <1>2, <1>6, <1>7

LEMMA SoleAwaitAck ==
  ASSUME OneRelay, RelayInv, SoleRelayInv, NEW r \in Relays, AwaitAck(r)
  PROVE  SoleRelayInv'
<1>1. PICK i \in drain[r].acked :
        /\ Awaiting(r, i)
        /\ drain' = [drain EXCEPT ![r] = Marked(drain[r], i, Stamped(drain[r].copy[i]))]
        /\ UNCHANGED <<wire, topic, faults, rows>>
  BY DEF AwaitAck, writerVars
<1>2. i \in drain[r].batch /\ i \in Ids
  BY <1>1, CalmParts DEF Awaiting, First, DrainOK
<1>3. PICK row : row = Stamped(drain[r].copy[i])
  OBVIOUS
<1>4. row.st = "published"
  BY <1>2, <1>3, CalmParts DEF Drain, Row, Stamped
<1>5. PICK d : d = Marked(drain[r], i, row)
  OBVIOUS
<1>6. /\ d.batch = drain[r].batch /\ d.acked = drain[r].acked /\ d.failed = drain[r].failed
      /\ d.toAwait = drain[r].toAwait \ {i} /\ d.toSend = drain[r].toSend
      /\ d.copy = [drain[r].copy EXCEPT ![i] = row]
  BY <1>5, CalmParts DEF Marked, Drain
<1>7. \A j \in drain[r].batch : d.copy[j] = IF j = i THEN row ELSE drain[r].copy[j]
  BY <1>6, CalmParts DEF Drain
<1>8. ASSUME Calm PROVE BatchOrder(d, rows)
  <2>1. BatchOrder(drain[r], rows)
    BY <1>8, CalmParts
  <2>2. \A j \in d.batch \ (d.toSend \cup d.toAwait) :
          d.copy[j].st = "dead" \/ (d.copy[j].st = "published" /\ j \in d.acked)
    BY <2>1, <1>1, <1>4, <1>6, <1>7 DEF BatchOrder
  <2> QED
    BY <2>1, <2>2, <1>6 DEF BatchOrder
<1>9. ASSUME Calm PROVE AckOrder(d, wire[r], rows, topic)
  BY <1>1, <1>6, <1>9, CalmParts DEF AckOrder
<1>10. (Calm' => Calm) /\ \A j \in d.batch : rows[j].st = "pending"
  BY <1>1, <1>6, CalmSame, CalmParts
<1> QED
  BY <1>1, <1>3, <1>5, <1>8, <1>9, <1>10, CalmParts, SoleMemoryStep

\* A mishap of this kind ends the calm, and with it what the order promises.
LEMMA SoleNoLongerCalm ==
  ASSUME RelayInv, SoleRelayInv, UNCHANGED rows, ~Calm',
         \A r \in Relays : drain'[r].batch = drain[r].batch
  PROVE  SoleRelayInv'
  BY DEF SoleRelayInv

LEMMA SoleAwaitTimeout ==
  ASSUME RelayInv, SoleRelayInv, NEW r \in Relays, AwaitTimeout(r)
  PROVE  SoleRelayInv'
<1>1. PICK i \in Ids :
        /\ faults' = [faults EXCEPT !.timeouts = @ + 1]
        /\ drain' = [drain EXCEPT ![r] = Marked(drain[r], i, FailedAttempt(drain[r].copy[i]))]
        /\ UNCHANGED rows
  BY DEF AwaitTimeout, writerVars
<1>2. faults.timeouts \in Nat /\ faults'.timeouts = faults.timeouts + 1
  BY <1>1, DrainFacts, RelayAssumption DEF Faults
<1>3. ~Calm'
  BY <1>2 DEF Calm
<1>4. \A row : Marked(drain[r], i, row).batch = drain[r].batch
  BY DrainFacts DEF Marked, Drain
<1>5. \A q \in Relays : drain'[q].batch = drain[q].batch
  BY <1>1, <1>4, DrainFacts
<1> QED
  BY <1>1, <1>3, <1>5, SoleNoLongerCalm

LEMMA SoleProducerFail ==
  ASSUME RelayInv, SoleRelayInv, NEW r \in Relays, ProducerFail(r)
  PROVE  SoleRelayInv'
<1>1. PICK k \in 1 .. Len(wire[r]) :
        /\ faults' = [faults EXCEPT !.failures = @ + 1]
        /\ drain' = IF wire[r][k].awaited
                    THEN [drain EXCEPT ![r].failed = @ \cup {wire[r][k].id}] ELSE drain
        /\ UNCHANGED rows
  BY DEF ProducerFail, writerVars
<1>2. faults.failures \in Nat /\ faults'.failures = faults.failures + 1
  BY <1>1, DrainFacts, RelayAssumption DEF Faults
<1>3. ~Calm'
  BY <1>2 DEF Calm
<1>4. \A q \in Relays : drain'[q].batch = drain[q].batch
  BY <1>1, DrainFacts DEF Drain
<1> QED
  BY <1>1, <1>3, <1>4, SoleNoLongerCalm

LEMMA SoleAwaitFailure ==
  ASSUME OneRelay, RelayInv, SoleRelayInv, NEW r \in Relays, AwaitFailure(r)
  PROVE  SoleRelayInv'
<1>1. PICK i \in drain[r].failed :
        /\ drain' = [drain EXCEPT ![r] = Marked(drain[r], i, FailedAttempt(drain[r].copy[i]))]
        /\ UNCHANGED <<faults, rows>>
  BY DEF AwaitFailure, writerVars
<1>2. ~Calm
  BY <1>1, CalmParts DEF BatchOrder
<1>3. \A row : Marked(drain[r], i, row).batch = drain[r].batch
  BY DrainFacts DEF Marked, Drain
<1>4. \A q \in Relays : drain'[q].batch = drain[q].batch
  BY <1>1, <1>3, DrainFacts
<1> QED
  BY <1>1, <1>2, <1>4, CalmSame, SoleNoLongerCalm

\* The write-back: what it stamps published was acknowledged, and reached the topic.
LEMMA SoleCommitDrain ==
  ASSUME OneRelay, RelayInv, SoleRelayInv, NEW r \in Relays, CommitDrain(r)
  PROVE  SoleRelayInv'
<1>1. /\ drain[r].toSend = {} /\ drain[r].toAwait = {}
      /\ rows' = [i \in Ids |-> IF i \in drain[r].batch THEN drain[r].copy[i] ELSE rows[i]]
      /\ drain' = [drain EXCEPT ![r] = Idle] /\ wire' = Abandoned(r)
      /\ UNCHANGED <<topic, faults>>
  BY DEF CommitDrain
<1>2. Calm' <=> Calm
  BY <1>1, CalmSame
<1>3. \A q \in Relays : q = r
  BY DEF OneRelay
<1>4. drain'[r] = Idle /\ Idle.batch = {}
  BY <1>1, DrainFacts DEF Idle
<1>5. \A i \in drain[r].batch : i \in Ids /\ rows'[i] = drain[r].copy[i]
                               /\ rows'[i].order = rows[i].order
  BY <1>1, CalmParts DEF DrainOK, CopyOK
<1>6. \A i \in Ids \ drain[r].batch : rows'[i] = rows[i]
  BY <1>1
<1>7. \A i \in Ids : rows'[i].order = rows[i].order
  BY <1>5, <1>6
<1>8. ASSUME Calm PROVE Orderly(Idle, Abandoned(r)[r], rows', topic)
  <2>1. /\ TableOrder(rows, topic) /\ BatchOrder(drain[r], rows)
        /\ WireOrder(wire[r], rows) /\ AckOrder(drain[r], wire[r], rows, topic)
    BY <1>8, CalmParts
  <2>2. \A i \in drain[r].batch : rows'[i].st = "dead" \/ (rows'[i].st = "published" /\ i \in drain[r].acked)
    BY <2>1, <1>1, <1>5 DEF BatchOrder
  <2>3. \A i \in Ids : rows'[i].st \in Done =>
          \/ i \notin drain[r].batch /\ rows[i].st \in Done
          \/ i \in drain[r].batch /\ i \in drain[r].acked
    BY <2>2, <1>6 DEF Done
  <2>4. \A j \in Ids : rows'[j].st = "pending" => j \notin drain[r].batch /\ rows[j].st = "pending"
    BY <2>2, <1>6
  <2>5. \A i \in Ids : rows'[i].st \in Done => Reached(i, topic[rows'[i].order])
    BY <2>1, <2>3, <1>7 DEF TableOrder, AckOrder
  <2>6. \A i, j \in Ids :
          rows'[i].st \in Done /\ rows'[j].st = "pending" /\ rows'[i].order = rows'[j].order => i < j
    BY <2>1, <2>3, <2>4, <1>7 DEF TableOrder, BatchOrder
  <2>7. TableOrder(rows', topic)
    BY <2>5, <2>6 DEF TableOrder
  <2>8. \A k \in 1 .. Len(wire[r]) : \A i \in Ids :
          rows'[i].st \in Done /\ rows'[i].order = rows'[wire[r][k].id].order => i < wire[r][k].id
    BY <2>1, <2>3, <1>7, CalmParts DEF WireOrder, AckOrder
  <2>9. \A k, l \in 1 .. Len(wire[r]) : k < l /\ wire[r][k].awaited =>
          /\ wire[r][l].awaited
          /\ rows'[wire[r][k].id].order = rows'[wire[r][l].id].order => wire[r][k].id < wire[r][l].id
    BY <2>1, <1>7, CalmParts DEF WireOrder
  <2>10. WireOrder(wire[r], rows')
    BY <2>8, <2>9 DEF WireOrder
  <2> QED
    BY <2>7, <2>10, IdleOrder DEF Orderly
<1> QED
  BY <1>1, <1>2, <1>3, <1>4, <1>8 DEF SoleRelayInv

\* A purged row was published: purging changes nothing the order of events rests on.
LEMMA SolePurge ==
  ASSUME RelayInv, SoleRelayInv, NEW p \in Ids, Purge(p)
  PROVE  SoleRelayInv'
<1>1. PICK row : row = [rows[p] EXCEPT !.st = "purged"]
  OBVIOUS
<1>2. /\ rows[p].st = "published" /\ rows' = [rows EXCEPT ![p] = row]
      /\ \A r \in Relays : p \notin drain[r].batch
      /\ UNCHANGED <<drain, wire, topic, faults>>
  BY <1>1, Zenon DEF Purge, relayVars
<1>3. rows \in [Ids -> Row] /\ rows[p] \in Row
  BY DEF RelayInv, WriterInv, WriterTypeOK
<1>4. row.st = "purged" /\ row.order = rows[p].order
  BY <1>1, <1>3 DEF Row
<1>5. \A i \in Ids : /\ rows'[i].order = rows[i].order
                     /\ rows'[i].st \in Done <=> rows[i].st \in Done
                     /\ rows'[i].st = "pending" <=> rows[i].st = "pending"
  BY <1>2, <1>3, <1>4 DEF Done
<1>6. Calm' <=> Calm
  BY <1>2, CalmSame
<1>7. ASSUME NEW r \in Relays
      PROVE  /\ \A i \in drain[r].batch : rows'[i].st = "pending"
             /\ Calm => Orderly(drain[r], wire[r], rows', topic)
  <2>1. \A i \in drain[r].batch : rows'[i].st = "pending"
    BY <1>5, CalmParts
  <2>2. ASSUME Calm PROVE TableOrder(rows', topic)
    <3>1. TableOrder(rows, topic)
      BY <2>2, CalmParts
    <3> QED
      BY <3>1, <1>5 DEF TableOrder
  <2>3. ASSUME Calm PROVE BatchOrder(drain[r], rows')
    <3>1. BatchOrder(drain[r], rows)
      BY <2>3, CalmParts
    <3>2. \A i \in drain[r].batch : \A j \in Ids \ drain[r].batch :
            rows'[j].st = "pending" /\ rows'[i].order = rows'[j].order => i < j
      BY <3>1, <1>5, CalmParts DEF BatchOrder
    <3> QED
      BY <3>1, <3>2 DEF BatchOrder
  <2>4. ASSUME Calm PROVE WireOrder(wire[r], rows')
    <3>1. WireOrder(wire[r], rows)
      BY <2>4, CalmParts
    <3> QED
      BY <3>1, <1>5, CalmParts DEF WireOrder
  <2>5. ASSUME Calm PROVE AckOrder(drain[r], wire[r], rows', topic)
    <3>1. AckOrder(drain[r], wire[r], rows, topic) /\ drain[r].acked \subseteq drain[r].batch
      BY <2>5, CalmParts DEF BatchOrder
    <3> QED
      BY <3>1, <1>5, CalmParts DEF AckOrder
  <2> QED
    BY <2>1, <2>2, <2>3, <2>4, <2>5 DEF Orderly
<1> QED
  BY <1>2, <1>6, <1>7 DEF SoleRelayInv

\* The records left on the wire after the k-th was taken off.
LEMMA LeftRecords ==
  ASSUME RelayInv, NEW r \in Relays, NEW k \in 1 .. Len(wire[r])
  PROVE  \E t : /\ Unwired(r, k)[r] = t
                /\ \A j \in 1 .. Len(t) :
                     \E m \in 1 .. Len(wire[r]) : m # k /\ t[j] = wire[r][m]
                /\ \A j, l \in 1 .. Len(t) : j < l =>
                     \E m, p \in 1 .. Len(wire[r]) :
                       m < p /\ m # k /\ p # k /\ t[j] = wire[r][m] /\ t[l] = wire[r][p]
<1>1. wire \in [Relays -> Seq(Record)] /\ wire[r] \in Seq(Record)
  BY WireType
<1>2. PICK n \in Nat : n = Len(wire[r])
  BY <1>1
<1>3. PICK t \in Seq(Record) :
        /\ t = SubSeq(wire[r], 1, k - 1) \o SubSeq(wire[r], k + 1, Len(wire[r]))
        /\ Len(t) = Len(wire[r]) - 1
        /\ \A j \in 1 .. Len(wire[r]) - 1 : t[j] = IF j < k THEN wire[r][j] ELSE wire[r][j + 1]
  BY <1>1, UnwiredOK
<1>4. Unwired(r, k)[r] = t
  BY <1>1, <1>3 DEF Unwired
<1>5. /\ Len(t) = n - 1 /\ k \in 1 .. n
      /\ \A j \in 1 .. n - 1 : t[j] = IF j < k THEN wire[r][j] ELSE wire[r][j + 1]
  BY <1>2, <1>3
<1> DEFINE from(j) == IF j < k THEN j ELSE j + 1
<1>6. \A j \in 1 .. n - 1 : from(j) \in 1 .. n /\ from(j) # k /\ t[j] = wire[r][from(j)]
  BY <1>5
<1>7. \A j, l \in 1 .. n - 1 : j < l => from(j) < from(l)
  BY <1>5
<1> HIDE DEF from
<1>8. \A j \in 1 .. Len(t) : \E m \in 1 .. Len(wire[r]) : m # k /\ t[j] = wire[r][m]
  BY <1>2, <1>5, <1>6
<1>9. ASSUME NEW j \in 1 .. Len(t), NEW l \in 1 .. Len(t), j < l
      PROVE  \E m, p \in 1 .. Len(wire[r]) :
               m < p /\ m # k /\ p # k /\ t[j] = wire[r][m] /\ t[l] = wire[r][p]
  BY <1>2, <1>5, <1>6, <1>7, <1>9
<1>10. \A j, l \in 1 .. Len(t) : j < l =>
         \E m, p \in 1 .. Len(wire[r]) :
           m < p /\ m # k /\ p # k /\ t[j] = wire[r][m] /\ t[l] = wire[r][p]
  BY <1>9
<1> WITNESS t
<1> QED
  BY <1>4, <1>8, <1>10

\* The broker appends the head of a partition: what was reached stays reached.
LEMMA SoleBrokerAppend ==
  ASSUME OneRelay, RelayInv, SoleRelayInv, NEW r \in Relays, BrokerAppend(r)
  PROVE  SoleRelayInv'
<1>1. PICK k \in 1 .. Len(wire[r]) :
        /\ HeadOfPartition(r, k)
        /\ topic' = Appended(wire[r][k].id)
        /\ wire' = Unwired(r, k)
        /\ drain' = IF wire[r][k].awaited
                    THEN [drain EXCEPT ![r].acked = @ \cup {wire[r][k].id}] ELSE drain
        /\ UNCHANGED <<faults, rows>>
  BY DEF BrokerAppend, writerVars
<1>2. PICK i \in Ids : i = wire[r][k].id /\ rows[i].st \in Committed /\ rows[i].order \in Orders
  BY UnwiredWire
<1>3. PICK t : /\ Unwired(r, k)[r] = t
               /\ \A j \in 1 .. Len(t) :
                    \E m \in 1 .. Len(wire[r]) : m # k /\ t[j] = wire[r][m]
               /\ \A j, l \in 1 .. Len(t) : j < l =>
                    \E m, p \in 1 .. Len(wire[r]) :
                      m < p /\ m # k /\ p # k /\ t[j] = wire[r][m] /\ t[l] = wire[r][p]
  BY LeftRecords
<1>4. wire'[r] = t /\ \A q \in Relays : q = r
  BY <1>1, <1>3 DEF OneRelay
<1>5. PICK d : d = drain'[r]
  OBVIOUS
<1>6. /\ d.batch = drain[r].batch /\ d.toSend = drain[r].toSend /\ d.toAwait = drain[r].toAwait
      /\ d.copy = drain[r].copy /\ d.failed = drain[r].failed
      /\ d.acked = IF wire[r][k].awaited THEN drain[r].acked \cup {i} ELSE drain[r].acked
  BY <1>1, <1>2, <1>5, DrainFacts DEF Drain
<1>7. \A l \in 1 .. Len(wire[r]) : l < k => rows[wire[r][l].id].order # rows[i].order
  BY <1>1, <1>2, CalmParts DEF HeadOfPartition
<1>8. \A j \in Ids : rows[j].st \in Committed => rows[j].order \in Orders
  BY DEF RelayInv, WriterInv, IdentityUsed, Committed
<1>9. ASSUME NEW x \in Ids, rows[x].st \in Committed, Reached(x, topic[rows[x].order]),
             rows[x].order = rows[i].order => x <= i
      PROVE  Reached(x, topic'[rows[x].order])
  BY <1>1, <1>2, <1>8, <1>9, AppendedPartition DEF Reached
<1>10. Reached(i, topic'[rows[i].order])
  BY <1>1, <1>2, AppendedPartition DEF Reached, Ids
<1>11. ASSUME Calm PROVE TableOrder(rows, topic')
  <2>1. TableOrder(rows, topic) /\ WireOrder(wire[r], rows)
    BY <1>11, CalmParts
  <2>2. ASSUME NEW x \in Ids, rows[x].st \in Done
        PROVE  Reached(x, topic'[rows[x].order])
    <3>1. rows[x].order = rows[i].order => x <= i
      BY <2>1, <2>2, <1>2 DEF WireOrder, Ids
    <3>2. rows[x].st \in Committed /\ Reached(x, topic[rows[x].order])
      BY <2>1, <2>2 DEF TableOrder, Done, Committed
    <3> QED
      BY <3>1, <3>2, <1>9
  <2> QED
    BY <2>1, <2>2 DEF TableOrder
<1>12. ASSUME Calm PROVE BatchOrder(d, rows)
  <2>1. BatchOrder(drain[r], rows) /\ AckOrder(drain[r], wire[r], rows, topic)
    BY <1>12, CalmParts
  <2>2. wire[r][k].awaited => i \in drain[r].toAwait
    BY <2>1, <1>2 DEF AckOrder
  <2>3. d.acked \subseteq d.batch \ d.toSend
    BY <2>1, <2>2, <1>6 DEF BatchOrder
  <2>4. \A j \in d.batch \ (d.toSend \cup d.toAwait) :
          d.copy[j].st = "dead" \/ (d.copy[j].st = "published" /\ j \in d.acked)
    BY <2>1, <1>6 DEF BatchOrder
  <2> QED
    BY <2>1, <2>3, <2>4, <1>6 DEF BatchOrder
<1>13. ASSUME Calm PROVE WireOrder(t, rows)
  <2>1. WireOrder(wire[r], rows)
    BY <1>13, CalmParts
  <2>2. \A j \in 1 .. Len(t) : \A x \in Ids :
          rows[x].st \in Done /\ rows[x].order = rows[t[j].id].order => x < t[j].id
    <3> TAKE j \in 1 .. Len(t)
    <3>1. PICK m \in 1 .. Len(wire[r]) : t[j] = wire[r][m]
      BY <1>3
    <3> QED
      BY <2>1, <3>1 DEF WireOrder
  <2>3. ASSUME NEW j \in 1 .. Len(t), NEW l \in 1 .. Len(t), j < l, t[j].awaited
        PROVE  t[l].awaited /\ (rows[t[j].id].order = rows[t[l].id].order => t[j].id < t[l].id)
    <3>1. PICK m \in 1 .. Len(wire[r]), p \in 1 .. Len(wire[r]) :
            m < p /\ t[j] = wire[r][m] /\ t[l] = wire[r][p]
      BY <2>3, <1>3
    <3> QED
      BY <2>1, <2>3, <3>1 DEF WireOrder
  <2> QED
    BY <2>2, <2>3 DEF WireOrder
<1>14. ASSUME Calm PROVE AckOrder(d, t, rows, topic')
  <2>1. /\ AckOrder(drain[r], wire[r], rows, topic) /\ WireOrder(wire[r], rows)
        /\ drain[r].acked \subseteq drain[r].batch
    BY <1>14, CalmParts DEF BatchOrder
  <2>2. ASSUME wire[r][k].awaited, NEW m \in 1 .. Len(wire[r]), m # k, wire[r][m].awaited
        PROVE  wire[r][m].id # i
    <3>1. m \in Nat /\ k \in Nat /\ wire[r][m].id \in Nat /\ i \in Nat
      BY CalmParts DEF Ids
    <3>2. m < k \/ k < m
      BY <2>2, <3>1
    <3>3. rows[wire[r][m].id].order = rows[i].order => wire[r][m].id < i \/ i < wire[r][m].id
      BY <2>1, <2>2, <3>2, <1>2 DEF WireOrder
    <3> QED
      BY <3>1, <3>3
  <2>3. ASSUME NEW j \in 1 .. Len(t), t[j].awaited
        PROVE  t[j].id \in d.toAwait \ d.acked
    <3>1. PICK m \in 1 .. Len(wire[r]) : m # k /\ t[j] = wire[r][m]
      BY <1>3
    <3>2. t[j].id \in drain[r].toAwait \ drain[r].acked
      BY <2>1, <2>3, <3>1 DEF AckOrder
    <3> QED
      BY <2>2, <2>3, <3>1, <3>2, <1>6
  <2>4. ASSUME NEW x \in drain[r].acked
        PROVE  /\ Reached(x, topic'[rows[x].order])
               /\ \A j \in 1 .. Len(t) :
                    rows[t[j].id].order = rows[x].order => t[j].awaited /\ x < t[j].id
    <3>1. x \in Ids /\ rows[x].st \in Committed
      BY <2>1, CalmParts DEF Committed
    <3>2. rows[x].order = rows[i].order => x <= i
      BY <2>1, <3>1, <1>2 DEF AckOrder, Ids
    <3>3. Reached(x, topic'[rows[x].order])
      BY <2>1, <3>1, <3>2, <1>9 DEF AckOrder
    <3> QED
      BY <2>1, <3>3, <1>3 DEF AckOrder
  <2>5. ASSUME wire[r][k].awaited, NEW j \in 1 .. Len(t), rows[t[j].id].order = rows[i].order
        PROVE  t[j].awaited /\ i < t[j].id
    <3>1. PICK m \in 1 .. Len(wire[r]) : m # k /\ t[j] = wire[r][m]
      BY <1>3
    <3>2. ~(m < k)
      BY <2>5, <3>1, <1>7
    <3>3. k < m
      BY <3>1, <3>2
    <3> QED
      BY <2>1, <2>5, <3>1, <3>3, <1>2 DEF WireOrder
  <2> QED
    BY <2>3, <2>4, <2>5, <1>6, <1>10 DEF AckOrder
<1>15. Calm' <=> Calm
  BY <1>1, CalmSame
<1> QED
  BY <1>1, <1>4, <1>5, <1>6, <1>11, <1>12, <1>13, <1>14, <1>15, CalmParts DEF SoleRelayInv, Orderly

LEMMA SoleRelayInvNext ==
  ASSUME OneRelay, RelayInv, SoleRelayInv, [OutboxNext]_outboxVars
  PROVE  SoleRelayInv'
<1>1. CASE WriterNext /\ UNCHANGED relayVars
  BY <1>1, SoleWriterStep
<1>2. ASSUME NEW r \in Relays,
             RelayStep(r) \/ BrokerAppend(r) \/ ProducerFail(r) \/ CrashRelay(r)
      PROVE  SoleRelayInv'
  BY <1>2, SolePoll, SolePark, SoleSend, SoleDrainEnds, SoleAwaitAck, SoleAwaitFailure,
     SoleAwaitTimeout, SoleCommitDrain, SoleBrokerAppend, SoleProducerFail DEF RelayStep
<1>3. ASSUME NEW i \in Ids, Purge(i) PROVE SoleRelayInv'
  BY <1>3, SolePurge
<1>4. CASE UNCHANGED outboxVars
  BY <1>4 DEF outboxVars, relayVars, writerVars, SoleRelayInv, Calm
<1> QED
  BY <1>1, <1>2, <1>3, <1>4 DEF OutboxNext, RelayNext

LEMMA SoleRelayInvAlways == OneRelay => (OutboxSpec => []SoleRelayInv)
<1>1. OneRelay /\ RelayInv /\ SoleRelayInv /\ [OutboxNext]_outboxVars => SoleRelayInv'
  BY SoleRelayInvNext
<1>2. CASE OneRelay
  <2>1. RelayInv /\ SoleRelayInv /\ [OutboxNext]_outboxVars => SoleRelayInv'
    BY <1>1, <1>2
  <2> QED
    BY <2>1, SoleRelayInit, RelayInvAlways, PTL DEF OutboxSpec
<1> QED
  BY <1>2

\* The pipeline's outbox is the outbox.
LEMMA PipelineIsOutbox == Spec => OutboxSpec
<1>1. Init => OutboxInit
  BY DEF Init
<1>2. [Next]_vars => [OutboxNext]_outboxVars
  BY DEF Next, RiskNext, Consume, DeadLetterRecord, CommitOffset, Rebalance, RestartRisk, vars
<1> QED
  BY <1>1, <1>2, PTL DEF Spec, OutboxSpec

\* When all is quiet and nothing went wrong, the last record is the last step.
LEMMA QuietRecordIsLast ==
  ASSUME OneRelay, RiskInv, SoleRelayInv, Quiet, Undisturbed, NEW o \in Orders
  PROVE  ViewCurrent(o)
<1> SUFFICES ASSUME version[o] > 0
             PROVE  latestByRef[o] # NoEvent /\ rows[latestByRef[o]].seq = version[o]
  BY DEF ViewCurrent
<1>1. WriterInv /\ version[o] \in Nat
  BY DEF RiskInv, RelayInv, WriterInv, WriterTypeOK
<1>2. PICK i \in CommittedRows(o) : rows[i].seq = version[o]
  BY <1>1 DEF WriterInv, StepsHaveRows
<1>3. i \in Ids /\ rows[i].order = o /\ rows[i].st \in Committed
  BY <1>2 DEF CommittedRows
<1>4. rows[i].st \in Done
  BY <1>3 DEF Quiet, Undisturbed, Pending, Committed, Done
<1>5. PICK r \in Relays : TRUE
  BY DEF OneRelay
<1>6. Calm
  BY DEF Undisturbed, Calm
<1>7. Reached(i, topic[o])
  BY <1>3, <1>4, <1>5, <1>6 DEF SoleRelayInv, Orderly, TableOrder
<1>8. PICK e : e = topic[o][Len(topic[o])]
  OBVIOUS
<1>9. Len(topic[o]) > 0 /\ i <= e
  BY <1>7, <1>8 DEF Reached
<1>10. Len(topic[o]) \in 1 .. Len(topic[o])
  BY <1>9, RiskFacts
<1>11. e \in Ids /\ rows[e].st \in Committed /\ rows[e].order = o
  <2>1. PartitionOK(o, topic[o], rows) /\ topic[o] \in Seq(Ids)
    BY RiskFacts
  <2>2. topic[o][Len(topic[o])] \in Ids
    BY <2>1, <1>10
  <2> QED
    BY <2>1, <2>2, <1>8, <1>10 DEF PartitionOK
<1>12. latestByRef[o] = e
  <2>1. position[o] = Len(topic[o]) /\ upsets.restarts + upsets.bad = 0
    BY DEF Quiet, Undisturbed
  <2>2. ConsumedOK(latestByRef[o], position[o], offset[o], topic[o], upsets.restarts + upsets.bad)
    BY DEF RiskInv
  <2> QED
    BY <2>1, <2>2, <1>8, <1>9 DEF ConsumedOK
<1>13. e \in CommittedRows(o) /\ rows[e].seq \in Nat /\ rows[i].seq \in Nat
  BY <1>1, <1>3, <1>11 DEF CommittedRows, WriterInv, WriterTypeOK, Row
<1>14. rows[e].seq <= version[o]
  BY <1>1, <1>13 DEF WriterInv, RowsAreSteps
<1>15. i < e => rows[i].seq < rows[e].seq
  BY <1>1, <1>2, <1>13 DEF WriterInv, IdsFollowLifecycle
<1>16. i = e \/ i < e
  BY <1>3, <1>9, <1>11 DEF Ids
<1>17. rows[e].seq = version[o]
  BY <1>1, <1>2, <1>13, <1>14, <1>15, <1>16
<1> QED
  BY <1>11, <1>12, <1>17, RiskAssumption

(***************************************************************************)
(* While one replica alone drains, the risk view is true: it shows         *)
(* committed states only, and once everything is sent and consumed it      *)
(* shows the newest, through relay crashes, rolled-back drains, purges and *)
(* rebalances (OutboxRelay.drain, RiskAggregator.record).                  *)
(***************************************************************************)
THEOREM ViewIsTrueWithOneRelay == OneRelay => (Spec => []ViewIsTrue)
<1>1. CASE OneRelay
  <2>1. RiskInv /\ SoleRelayInv => ViewIsTrue
    <3>1. RiskInv /\ SoleRelayInv => QuietViewIsCurrent
      BY <1>1, QuietRecordIsLast DEF QuietViewIsCurrent
    <3> QED
      BY <3>1, RiskInvGivesHistory DEF ViewIsTrue
  <2>2. OutboxSpec => []SoleRelayInv
    BY <1>1, SoleRelayInvAlways
  <2> QED
    BY <2>1, <2>2, PipelineIsOutbox, RiskInvAlways, PTL
<1> QED
  BY <1>1

\* A step of the outbox reopens no settled row: the rows of a batch are pending.
LEMMA SettledStep ==
  ASSUME OneRelay, RelayInv, SoleRelayInv, [OutboxNext]_outboxVars,
         NEW i \in Ids, rows[i].st \in Settled
  PROVE  rows'[i].st \in Settled
<1>1. CASE WriterNext /\ UNCHANGED relayVars
  BY <1>1, WriterKeeps DEF RelayInv, Settled
<1>2. ASSUME NEW r \in Relays, CommitDrain(r) PROVE rows'[i].st \in Settled
  <2>1. i \notin drain[r].batch
    BY CalmParts DEF Settled
  <2> QED
    BY <1>2, <2>1 DEF CommitDrain
<1>3. ASSUME NEW p \in Ids, Purge(p) PROVE rows'[i].st \in Settled
  <2>1. rows \in [Ids -> Row]
    BY DEF RelayInv, WriterInv, WriterTypeOK
  <2> QED
    BY <1>3, <2>1 DEF Purge, Settled, Row
<1>4. ASSUME NEW r \in Relays, ~CommitDrain(r),
             RelayStep(r) \/ BrokerAppend(r) \/ ProducerFail(r) \/ CrashRelay(r)
      PROVE  rows' = rows
  BY <1>4 DEF RelayStep, Poll, ParkUnparseable, Send, SendThrows, AwaitAck, AwaitFailure,
     AwaitTimeout, BrokerAppend, ProducerFail, CrashRelay, writerVars
<1>5. CASE UNCHANGED outboxVars
  BY <1>5 DEF outboxVars, writerVars
<1> QED
  BY <1>1, <1>2, <1>3, <1>4, <1>5 DEF OutboxNext, RelayNext

(***************************************************************************)
(* While one replica alone drains, no write-back and no fault reopens a    *)
(* settled row (OutboxRelay.drain: the batch it flushes is its own).       *)
(***************************************************************************)
THEOREM SettledForGood == OneRelay => (Spec => SettledStaysSettled)
<1>1. CASE OneRelay
  <2>1. RelayInv /\ SoleRelayInv /\ [OutboxNext]_outboxVars
        => [\A i \in Ids : rows[i].st \in Settled => rows'[i].st \in Settled]_rows
    BY <1>1, SettledStep
  <2>2. OutboxSpec => []SoleRelayInv
    BY <1>1, SoleRelayInvAlways
  <2> QED
    BY <2>1, <2>2, PipelineIsOutbox, RelayInvAlways, PTL DEF OutboxSpec, SettledStaysSettled
<1> QED
  BY <1>1
=============================================================================
