-------------------------- MODULE AtLeastOnceFeed --------------------------
(***************************************************************************)
(* What the outbox promises to whoever reads the topic: an event exists    *)
(* once its transaction has committed; only committed events are ever      *)
(* delivered, any number of times and in any order; an event counts as     *)
(* acknowledged only once it has been delivered; an event may instead be   *)
(* parked, or be reopened and delivered again.                             *)
(***************************************************************************)
CONSTANT Events

VARIABLES
  state,       \* state[e]: what the sender knows about event e
  delivered    \* events delivered at least once

FeedState == {"uncommitted", "open", "acked", "parked"}

FeedInit ==
  /\ state = [e \in Events |-> "uncommitted"]
  /\ delivered = {}

\* A transaction commits and its events come into being.
CommitEvents ==
  /\ state' \in [Events -> FeedState]
  /\ \A e \in Events : state'[e] # state[e] => state[e] = "uncommitted" /\ state'[e] = "open"
  /\ UNCHANGED delivered

\* One delivery of a committed event.
Deliver ==
  /\ \E e \in Events : state[e] # "uncommitted" /\ delivered' = delivered \cup {e}
  /\ UNCHANGED state

\* The sender revises what it knows: only a delivered event is acknowledged.
Settle ==
  /\ state' \in [Events -> FeedState]
  /\ \A e \in Events : /\ state'[e] = "uncommitted" <=> state[e] = "uncommitted"
                       /\ state'[e] = "acked" => e \in delivered
  /\ UNCHANGED delivered

FeedNext == CommitEvents \/ Deliver \/ Settle
FeedSpec == FeedInit /\ [][FeedNext]_<<state, delivered>>
=============================================================================
