----------------------------- MODULE OutboxRelay -----------------------------
(***************************************************************************)
(* OutboxRelay: every backend replica runs drain() on a schedule.  One     *)
(* drain is one transaction: it reads the oldest pending rows, hands all   *)
(* of them to the Kafka producer (phase 1), awaits the acknowledgements in *)
(* the same order (phase 2), and writes all its marks back at the commit.  *)
(* Rows carry no version, so the write-back of one relay overwrites        *)
(* whatever another has committed meanwhile.                               *)
(*                                                                         *)
(* The producer and the broker are external.  The producer keeps the order *)
(* of one partition; a record handed to it is appended, or fails, or is    *)
(* appended although its acknowledgement is reported as failed, and none   *)
(* of this need happen before the relay stops waiting for it.  The topic   *)
(* is modelled with one partition per order, the finest keying allows.     *)
(***************************************************************************)
EXTENDS OutboxWriter, Sequences, FiniteSets

CONSTANTS
  Relays,             \* backend replicas (k8s/30-backend.yaml runs two)
  BATCH,              \* rows per drain
  MAX_SEND_ATTEMPTS,  \* failed attempts before a row is dead-lettered
  Unparseable,        \* rows whose JSON this build cannot read back
  Unsendable,         \* rows whose Avro serialisation throws inside send()
  MaxCrashes,         \* bound: crashes of a relay's process
  MaxTimeouts,        \* bound: acknowledgements later than ACK_TIMEOUT_SECONDS
  MaxSendFailures     \* bound: sends that throw or that the producer reports as failed

ASSUME RelayAssumption ==
  /\ BATCH \in Nat \ {0}
  /\ MAX_SEND_ATTEMPTS \in Nat \ {0}
  /\ MaxCrashes \in Nat /\ MaxTimeouts \in Nat /\ MaxSendFailures \in Nat

VARIABLES
  drain,    \* drain[r]: the drain transaction relay r is running
  wire,     \* wire[r]: records handed to the producer of r, not yet resolved
  topic,    \* topic[o]: row ids appended to the partition of order o
  faults    \* faults met so far

relayVars == <<drain, wire, topic, faults>>

(***************************************************************************)
(* A drain: the rows it loaded, those not yet sent, those sent and not yet *)
(* awaited, its session's copy of the rows, and the futures that resolved. *)
(***************************************************************************)
Drain == [batch : SUBSET Ids, toSend : SUBSET Ids, toAwait : SUBSET Ids,
          copy : [Ids -> Row], acked : SUBSET Ids, failed : SUBSET Ids]
Idle  == [batch |-> {}, toSend |-> {}, toAwait |-> {},
          copy |-> [i \in Ids |-> NoRow], acked |-> {}, failed |-> {}]

\* A record on its way to the broker; awaited while the drain that sent it runs.
Record == [id : Ids, awaited : BOOLEAN]

RelayTypeOK ==
  /\ drain \in [Relays -> Drain]
  /\ wire \in [Relays -> Seq(Record)]
  /\ topic \in [Orders -> Seq(Ids)]
  /\ faults \in [crashes : 0 .. MaxCrashes, timeouts : 0 .. MaxTimeouts,
                 failures : 0 .. MaxSendFailures]

RelayInit ==
  /\ drain = [r \in Relays |-> Idle]
  /\ wire = [r \in Relays |-> <<>>]
  /\ topic = [o \in Orders |-> <<>>]
  /\ faults = [crashes |-> 0, timeouts |-> 0, failures |-> 0]

\* Mutant: the relay also reads rows of transactions that have not committed.
BugDirtyRead == {i \in Ids : rows[i].st \in {"inserted", "pending"}}

Pending == {i \in Ids : rows[i].st = "pending"}

\* findByPublishedAtIsNullAndDeadLetteredAtIsNullOrderByIdAsc(Limit.of(BATCH))
OldestPending ==
  {i \in Pending : Cardinality({j \in Pending : j <= i}) <= BATCH}

\* The session's copies of the rows in S.
Loaded(S) == [i \in Ids |-> IF i \in S THEN rows[i] ELSE NoRow]

\* Both loops of drain() go through the rows in id order.
First(i, S) == i \in S /\ \A j \in S : i <= j

\* When a drain ends, nobody holds the futures of its records any more.
Abandoned(r) ==
  [wire EXCEPT ![r] = [k \in 1 .. Len(wire[r]) |-> [wire[r][k] EXCEPT !.awaited = FALSE]]]

\* Drain d after phase 1 has met the unreadable row i: its copy is dead-lettered.
Parked(d, i) ==
  [d EXCEPT !.toSend = d.toSend \ {i},
            !.copy = [d.copy EXCEPT ![i] = [d.copy[i] EXCEPT !.st = "dead"]]]

\* Drain d after phase 2 has awaited row i and made row of its copy.
Marked(d, i, row) ==
  [d EXCEPT !.toAwait = d.toAwait \ {i}, !.copy = [d.copy EXCEPT ![i] = row]]

\* The row as the session stamps it on an acknowledgement.
Stamped(row) == [row EXCEPT !.st = "published"]

-----------------------------------------------------------------------------
\* drain() starts: a transaction opens and loads the batch.
Poll(r) ==
  /\ drain[r].batch = {}
  /\ Pending # {}
  /\ drain' = [drain EXCEPT ![r] = [Idle EXCEPT !.batch = OldestPending,
                                                !.toSend = OldestPending,
                                                !.copy = Loaded(OldestPending)]]
  /\ UNCHANGED <<wire, topic, faults, writerVars>>

\* Mutant: the parse exception escapes drain().
BugThrowOnUnparseable(r) ==
  \E i \in Unparseable :
    /\ First(i, drain[r].toSend)
    /\ drain' = [drain EXCEPT ![r] = Idle]
    /\ wire' = Abandoned(r)
    /\ UNCHANGED <<topic, faults, writerVars>>

\* Phase 1, an unreadable payload: dead-letter the row and go on.
ParkUnparseable(r) ==
  \E i \in Unparseable :
    /\ First(i, drain[r].toSend)
    /\ drain' = [drain EXCEPT ![r] = Parked(drain[r], i)]
    /\ UNCHANGED <<wire, topic, faults, writerVars>>

\* Phase 1: hand the row to the producer without awaiting the acknowledgement.
Send(r) ==
  \E i \in Ids \ (Unparseable \cup Unsendable) :
    /\ First(i, drain[r].toSend)
    /\ drain' = [drain EXCEPT ![r].toSend = @ \ {i}, ![r].toAwait = @ \cup {i}]
    /\ wire' = [wire EXCEPT ![r] = Append(@, [id |-> i, awaited |-> TRUE])]
    /\ UNCHANGED <<topic, faults, writerVars>>

(***************************************************************************)
(* send() itself throws (serialisation, schema registry, metadata): for a  *)
(* row in Unsendable always, for any other during an outage, which counts  *)
(* as one of the failures of the bound.                                    *)
(***************************************************************************)
Throws(i) == i \in Unsendable \/ faults.failures < MaxSendFailures

\* Phase 1, nothing catches it: drain() ends and its transaction rolls back.
SendThrows(r) ==
  \E i \in Ids \ Unparseable :
    /\ First(i, drain[r].toSend)
    /\ Throws(i)
    /\ faults' = [faults EXCEPT !.failures = IF i \in Unsendable THEN @ ELSE @ + 1]
    /\ drain' = [drain EXCEPT ![r] = Idle]
    /\ wire' = Abandoned(r)
    /\ UNCHANGED <<topic, writerVars>>

\* Phase 2 has reached row i: every row is sent, and i is the oldest unawaited.
Awaiting(r, i) == drain[r].toSend = {} /\ First(i, drain[r].toAwait)

\* Mutant: the row is parked one attempt early.
BugParkEarly(row) ==
  [row EXCEPT !.attempts = @ + 1,
              !.st = IF row.attempts + 2 >= MAX_SEND_ATTEMPTS THEN "dead" ELSE @]

\* recordFailedAttempt, and the dead letter once the attempts are used up.
FailedAttempt(row) ==
  [row EXCEPT !.attempts = @ + 1,
              !.st = IF row.attempts + 1 >= MAX_SEND_ATTEMPTS THEN "dead" ELSE @]

\* Phase 2, the future completed: stamp the row.
AwaitAck(r) ==
  \E i \in drain[r].acked :
    /\ Awaiting(r, i)
    /\ drain' = [drain EXCEPT ![r] = Marked(drain[r], i, Stamped(drain[r].copy[i]))]
    /\ UNCHANGED <<wire, topic, faults, writerVars>>

\* Phase 2, the future failed.
AwaitFailure(r) ==
  \E i \in drain[r].failed :
    /\ Awaiting(r, i)
    /\ drain' = [drain EXCEPT ![r] = Marked(drain[r], i, FailedAttempt(drain[r].copy[i]))]
    /\ UNCHANGED <<wire, topic, faults, writerVars>>

\* Mutant: a timeout is taken for an acknowledgement.
BugTimeoutIsAck(r) ==
  \E i \in Ids \ (drain[r].acked \cup drain[r].failed) :
    /\ Awaiting(r, i)
    /\ faults.timeouts < MaxTimeouts
    /\ faults' = [faults EXCEPT !.timeouts = @ + 1]
    /\ drain' = [drain EXCEPT ![r] = Marked(drain[r], i, Stamped(drain[r].copy[i]))]
    /\ UNCHANGED <<wire, topic, writerVars>>

\* Phase 2, neither within ACK_TIMEOUT_SECONDS: the record stays on the wire.
AwaitTimeout(r) ==
  \E i \in Ids \ (drain[r].acked \cup drain[r].failed) :
    /\ Awaiting(r, i)
    /\ faults.timeouts < MaxTimeouts
    /\ faults' = [faults EXCEPT !.timeouts = @ + 1]
    /\ drain' = [drain EXCEPT ![r] = Marked(drain[r], i, FailedAttempt(drain[r].copy[i]))]
    /\ UNCHANGED <<wire, topic, writerVars>>

\* Mutant: the whole session copy is flushed, not only the rows of the batch.
BugFlushEverything(r) ==
  /\ drain[r].batch # {} /\ drain[r].toSend = {} /\ drain[r].toAwait = {}
  /\ rows' = drain[r].copy
  /\ drain' = [drain EXCEPT ![r] = Idle]
  /\ wire' = Abandoned(r)
  /\ UNCHANGED <<topic, faults, version, tx, nextId>>

\* drain() returns: the dirty rows are flushed, every column of them.
CommitDrain(r) ==
  /\ drain[r].batch # {} /\ drain[r].toSend = {} /\ drain[r].toAwait = {}
  /\ rows' = [i \in Ids |-> IF i \in drain[r].batch THEN drain[r].copy[i] ELSE rows[i]]
  /\ drain' = [drain EXCEPT ![r] = Idle]
  /\ wire' = Abandoned(r)
  /\ UNCHANGED <<topic, faults, version, tx, nextId>>

\* The replica dies: its transaction rolls back, its producer's buffer is gone.
CrashRelay(r) ==
  /\ drain[r].batch # {} \/ wire[r] # <<>>
  /\ faults.crashes < MaxCrashes
  /\ faults' = [faults EXCEPT !.crashes = @ + 1]
  /\ drain' = [drain EXCEPT ![r] = Idle]
  /\ wire' = [wire EXCEPT ![r] = <<>>]
  /\ UNCHANGED <<topic, writerVars>>

(***************************************************************************)
(* purge() deletes published rows older than RETENTION (7 days); no drain, *)
(* bounded by BATCH acknowledgement timeouts, still holds one so old.      *)
(***************************************************************************)
Purge(i) ==
  /\ rows[i].st = "published"
  /\ \A r \in Relays : i \notin drain[r].batch
  /\ rows' = [rows EXCEPT ![i].st = "purged"]
  /\ UNCHANGED <<version, tx, nextId, relayVars>>

-----------------------------------------------------------------------------
\* The k-th record on the wire of r is the oldest one of its partition.
HeadOfPartition(r, k) ==
  \A l \in 1 .. k - 1 : rows[wire[r][l].id].order # rows[wire[r][k].id].order

Unwired(r, k) ==
  [wire EXCEPT ![r] = SubSeq(@, 1, k - 1) \o SubSeq(@, k + 1, Len(@))]

Appended(i) == [topic EXCEPT ![rows[i].order] = Append(@, i)]

\* The broker appends the record and the producer completes the future.
BrokerAppend(r) ==
  \E k \in 1 .. Len(wire[r]) :
    LET rec == wire[r][k] IN
    /\ HeadOfPartition(r, k)
    /\ topic' = Appended(rec.id)
    /\ wire' = Unwired(r, k)
    /\ drain' = IF rec.awaited THEN [drain EXCEPT ![r].acked = @ \cup {rec.id}] ELSE drain
    /\ UNCHANGED <<faults, writerVars>>

(***************************************************************************)
(* The producer gives the record up and fails the future; the broker may   *)
(* have appended it all the same, when only the acknowledgement was lost.  *)
(***************************************************************************)
ProducerFail(r) ==
  \E k \in 1 .. Len(wire[r]) :
    LET rec == wire[r][k] IN
    /\ HeadOfPartition(r, k)
    /\ faults.failures < MaxSendFailures
    /\ faults' = [faults EXCEPT !.failures = @ + 1]
    /\ topic' \in {topic, Appended(rec.id)}
    /\ wire' = Unwired(r, k)
    /\ drain' = IF rec.awaited THEN [drain EXCEPT ![r].failed = @ \cup {rec.id}] ELSE drain
    /\ UNCHANGED writerVars

RelayStep(r) ==
  \/ Poll(r) \/ ParkUnparseable(r) \/ Send(r) \/ SendThrows(r)
  \/ AwaitAck(r) \/ AwaitFailure(r) \/ AwaitTimeout(r) \/ CommitDrain(r)

RelayNext ==
  \/ \E r \in Relays : RelayStep(r) \/ BrokerAppend(r) \/ ProducerFail(r) \/ CrashRelay(r)
  \/ \E i \in Ids : Purge(i)

outboxVars == <<writerVars, relayVars>>
OutboxInit == WriterInit /\ RelayInit
OutboxNext == (WriterNext /\ UNCHANGED relayVars) \/ RelayNext
OutboxSpec == OutboxInit /\ [][OutboxNext]_outboxVars

-----------------------------------------------------------------------------
TopicIds == UNION {{topic[o][k] : k \in 1 .. Len(topic[o])} : o \in Orders}
WireIds  == UNION {{wire[r][k].id : k \in 1 .. Len(wire[r])} : r \in Relays}

(***************************************************************************)
(* Nothing reaches the producer or the topic but committed rows, each in   *)
(* the partition of its own order: no phantom event can escape a rollback. *)
(***************************************************************************)
NoPhantoms ==
  /\ \A i \in WireIds : rows[i].st \in Committed
  /\ \A o \in Orders : \A k \in 1 .. Len(topic[o]) :
       rows[topic[o][k]].st \in Committed /\ rows[topic[o][k]].order = o

(***************************************************************************)
(* At-least-once: a committed row that never reached the topic is still    *)
(* pending or was dead-lettered; it is never stamped published and never   *)
(* purged, whatever crashes, times out, fails, or is written back by a     *)
(* second relay.                                                           *)
(***************************************************************************)
NoLoss ==
  \A i \in Ids : rows[i].st \in {"published", "purged"} => i \in TopicIds

\* What the outbox knows about the event of a row, as AtLeastOnceFeed names it.
FeedStateOf(row) ==
  CASE row.st \in {"absent", "inserted", "void"} -> "uncommitted"
    [] row.st = "pending" -> "open"
    [] row.st \in {"published", "purged"} -> "acked"
    [] row.st = "dead" -> "parked"

Feed == INSTANCE AtLeastOnceFeed WITH
          Events <- Ids, state <- [i \in Ids |-> FeedStateOf(rows[i])], delivered <- TopicIds

(***************************************************************************)
(* Outbox, relays, producer and broker together implement the at-least-    *)
(* once feed of committed events.                                          *)
(***************************************************************************)
ImplementsFeed == Feed!FeedSpec

(***************************************************************************)
(* A row is given up only for a cause: its payload is unreadable, or       *)
(* MAX_SEND_ATTEMPTS sends of it failed.                                   *)
(***************************************************************************)
DeadLetterHasCause ==
  \A i \in Ids : rows[i].st = "dead" =>
    i \in Unparseable \/ rows[i].attempts >= MAX_SEND_ATTEMPTS

Settled == {"published", "dead", "purged"}

(***************************************************************************)
(* While only one relay drains, a settled row is never reopened, whatever  *)
(* fails: the write-back at the end of a drain cannot undo a stamp.  (With *)
(* two relays it can: rows carry no version.)                              *)
(***************************************************************************)
SettledStaysSettled ==
  [][\A i \in Ids : rows[i].st \in Settled => rows'[i].st \in Settled]_rows

(***************************************************************************)
(* What the relays put on the topic is the committed history: nothing that *)
(* was rolled back, nothing left out, and nothing given up without its     *)
(* cause (OutboxRelay.java).                                               *)
(***************************************************************************)
FeedIsTrue ==
  /\ RelayTypeOK
  /\ NoPhantoms
  /\ NoLoss
  /\ DeadLetterHasCause
=============================================================================
