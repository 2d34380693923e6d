------------------------------ MODULE RiskView ------------------------------
(***************************************************************************)
(* The whole event pipeline: OrderService transactions write the outbox,   *)
(* the relays drain it to the order-events topic, and the risk service     *)
(* consumes the topic into RiskAggregator.latestByRef, an in-memory map in *)
(* which the last event to arrive for an order replaces the one before.    *)
(* The consumer group's committed offsets outlive the process, the map     *)
(* does not.                                                               *)
(***************************************************************************)
EXTENDS OutboxRelay

CONSTANTS
  NoEvent,           \* the order is not in the map
  MaxRestarts,       \* bound: restarts of the risk service
  MaxRebalances,     \* bound: partitions taken back before the offset commit
  MaxBadRecords,     \* bound: records the Avro deserialiser rejects
  MaxUpsets          \* bound: the three of them together

ASSUME RiskAssumption ==
  /\ NoEvent \notin Ids
  /\ MaxRestarts \in Nat /\ MaxRebalances \in Nat /\ MaxBadRecords \in Nat
  /\ MaxUpsets \in Nat

VARIABLES
  latestByRef,   \* latestByRef[o]: the row id of the event kept for order o
  position,      \* position[o]: records of the partition processed
  offset,        \* offset[o]: the committed offset of the partition
  upsets         \* restarts, rebalances and bad records met so far

riskVars == <<latestByRef, position, offset, upsets>>
vars == <<outboxVars, riskVars>>

RiskTypeOK ==
  /\ latestByRef \in [Orders -> Ids \cup {NoEvent}]
  /\ position \in [Orders -> Nat] /\ offset \in [Orders -> Nat]
  /\ \A o \in Orders : offset[o] <= Len(topic[o]) /\ position[o] <= Len(topic[o])
  /\ upsets \in [restarts : 0 .. MaxRestarts, rebalances : 0 .. MaxRebalances,
                 bad : 0 .. MaxBadRecords]

TypeOK == WriterTypeOK /\ RelayTypeOK /\ RiskTypeOK

RiskInit ==
  /\ latestByRef = [o \in Orders |-> NoEvent]
  /\ position = [o \in Orders |-> 0]
  /\ offset = [o \in Orders |-> 0]
  /\ upsets = [restarts |-> 0, rebalances |-> 0, bad |-> 0]

Init == OutboxInit /\ RiskInit

\* Mutant: putIfAbsent, the first event to arrive wins.
BugPutIfAbsent(o) ==
  /\ position[o] < Len(topic[o])
  /\ latestByRef' = [latestByRef EXCEPT ![o] = IF @ = NoEvent THEN topic[o][position[o] + 1]
                                                              ELSE @]
  /\ position' = [position EXCEPT ![o] = @ + 1]
  /\ UNCHANGED <<offset, upsets, outboxVars>>

\* OrderEventListener.onOrderEvent -> RiskAggregator.record.
Consume(o) ==
  /\ position[o] < Len(topic[o])
  /\ latestByRef' = [latestByRef EXCEPT ![o] = topic[o][position[o] + 1]]
  /\ position' = [position EXCEPT ![o] = @ + 1]
  /\ UNCHANGED <<offset, upsets, outboxVars>>

\* Less than MaxUpsets mishaps of the consumer so far.
MayUpset == upsets.restarts + upsets.rebalances + upsets.bad < MaxUpsets

\* An undeserialisable record goes to the dead-letter topic; the stream goes on.
DeadLetterRecord(o) ==
  /\ position[o] < Len(topic[o])
  /\ MayUpset /\ upsets.bad < MaxBadRecords
  /\ upsets' = [upsets EXCEPT !.bad = @ + 1]
  /\ position' = [position EXCEPT ![o] = @ + 1]
  /\ UNCHANGED <<latestByRef, offset, outboxVars>>

\* The listener container commits what the poll has processed.
CommitOffset(o) ==
  /\ offset[o] # position[o]
  /\ offset' = [offset EXCEPT ![o] = position[o]]
  /\ UNCHANGED <<latestByRef, position, upsets, outboxVars>>

\* The partition moves to another consumer thread, which starts at the offset.
Rebalance(o) ==
  /\ offset[o] # position[o]
  /\ MayUpset /\ upsets.rebalances < MaxRebalances
  /\ upsets' = [upsets EXCEPT !.rebalances = @ + 1]
  /\ position' = [position EXCEPT ![o] = offset[o]]
  /\ UNCHANGED <<latestByRef, offset, outboxVars>>

\* The process restarts: an empty map, consumption from the committed offsets.
RestartRisk ==
  /\ MayUpset /\ upsets.restarts < MaxRestarts
  /\ upsets' = [upsets EXCEPT !.restarts = @ + 1]
  /\ latestByRef' = [o \in Orders |-> NoEvent]
  /\ position' = offset
  /\ UNCHANGED <<offset, outboxVars>>

RiskNext ==
  \/ \E o \in Orders : Consume(o) \/ DeadLetterRecord(o) \/ CommitOffset(o) \/ Rebalance(o)
  \/ RestartRisk

Next ==
  \/ OutboxNext /\ UNCHANGED riskVars
  \/ RiskNext

(***************************************************************************)
(* Fairness: the scheduler keeps calling drain() and a drain that runs     *)
(* goes on; the producer resolves every record within its delivery         *)
(* timeout; the listener keeps polling.  Nothing is assumed of clients,    *)
(* of writers, or of any fault.                                            *)
(***************************************************************************)
Fairness ==
  /\ \A r \in Relays : WF_vars(RelayStep(r) /\ UNCHANGED riskVars)
  /\ \A r \in Relays : WF_vars(BrokerAppend(r) /\ UNCHANGED riskVars)
  /\ \A o \in Orders : WF_vars(Consume(o))

Spec     == Init /\ [][Next]_vars
FairSpec == Spec /\ Fairness

-----------------------------------------------------------------------------
\* The map shows the last committed step of order o.
ViewCurrent(o) ==
  version[o] > 0 => latestByRef[o] # NoEvent /\ rows[latestByRef[o]].seq = version[o]

Quiet ==
  /\ Pending = {}
  /\ \A r \in Relays : drain[r].batch = {} /\ wire[r] = <<>>
  /\ \A o \in Orders : position[o] = Len(topic[o])

(***************************************************************************)
(* The risk view only ever shows a state the order really was committed    *)
(* in, and never one of another order.                                     *)
(***************************************************************************)
ViewIsCommittedHistory ==
  \A o \in Orders : latestByRef[o] # NoEvent =>
    rows[latestByRef[o]].order = o /\ rows[latestByRef[o]].seq \in 1 .. version[o]

\* Nothing has happened that the design lets cost the view an event or its order.
Undisturbed ==
  /\ upsets.restarts = 0 /\ upsets.bad = 0
  /\ faults.timeouts = 0 /\ faults.failures = 0
  /\ \A i \in Ids : rows[i].st # "dead"

(***************************************************************************)
(* Once everything has been sent and consumed the view shows the last      *)
(* committed state of every order, whatever crashes of the relay and       *)
(* rebalances of the consumer there were.  (OutboxRelay: "a redelivery is  *)
(* harmless"; RiskAggregator: "the last one to arrive is the newest".)     *)
(***************************************************************************)
QuietViewIsCurrent == Quiet /\ Undisturbed => \A o \in Orders : ViewCurrent(o)

(***************************************************************************)
(* Every committed row is in the end published or dead-lettered: no row    *)
(* waits in the outbox forever.                                            *)
(***************************************************************************)
EventuallySettled == \A i \in Ids : rows[i].st = "pending" ~> rows[i].st # "pending"

(***************************************************************************)
(* Eventually the view shows the last committed state of every order, and  *)
(* keeps showing it, through crashes and rebalances.                       *)
(***************************************************************************)
ViewConverges == <>[](Undisturbed => \A o \in Orders : ViewCurrent(o))

(***************************************************************************)
(* What the risk service shows is true: always something that was          *)
(* committed, and when all is quiet the latest of it                       *)
(* (RiskAggregator.java).                                                  *)
(***************************************************************************)
ViewIsTrue ==
  /\ TypeOK
  /\ ViewIsCommittedHistory
  /\ QuietViewIsCurrent
=============================================================================
