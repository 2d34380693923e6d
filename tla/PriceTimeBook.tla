--------------------------- MODULE PriceTimeBook ---------------------------
(***************************************************************************)
(* What an order book with price-time priority promises, without queues,   *)
(* levels or caches.  Orders rest in a set; an incoming order trades with  *)
(* the one resting order that comes first among those it crosses, as long  *)
(* as there is one; its own orders are cancelled instead of traded with;   *)
(* an amended order keeps its place only when it shrinks.                  *)
(***************************************************************************)
EXTENDS Integers

VARIABLES
  resting,    \* resting orders: [id, participant, side, price, qty]
  incoming    \* the order being matched, as a set of at most one

\* An incoming order also has "limit" (FALSE: any price) and "maker" (never takes).
Crosses(o, r) ==
  /\ r.side # o.side
  /\ \/ ~o.limit
     \/ o.side = "BUY" /\ o.price >= r.price
     \/ o.side = "SELL" /\ o.price <= r.price

\* r comes before s, both on one side: a better price, or as good and earlier.
Before(r, s) ==
  \/ r.side = "SELL" /\ r.price < s.price
  \/ r.side = "BUY" /\ r.price > s.price
  \/ r.price = s.price /\ r.id < s.id

Best(o, r) ==
  /\ r \in resting /\ Crosses(o, r)
  /\ \A s \in resting : s # r /\ Crosses(o, s) => Before(r, s)

BookInit == resting = {} /\ incoming = {}

\* Time only moves on: an order arrives behind every order that rests.
Arrive ==
  /\ incoming = {}
  /\ \E o \in incoming' : /\ incoming' = {o}
                          /\ o.qty > 0
                          /\ \A r \in resting : r.id < o.id
  /\ UNCHANGED resting

Trade ==
  \E o \in incoming : \E r \in resting :
    LET n == IF o.qty < r.qty THEN o.qty ELSE r.qty IN
    /\ o.qty > 0 /\ ~o.maker
    /\ Best(o, r) /\ r.participant # o.participant
    /\ incoming' = {[o EXCEPT !.qty = o.qty - n]}
    /\ resting' = (resting \ {r}) \cup (IF n = r.qty THEN {} ELSE {[r EXCEPT !.qty = r.qty - n]})

PreventSelfTrade ==
  \E o \in incoming : \E r \in resting :
    /\ o.qty > 0
    /\ Best(o, r) /\ r.participant = o.participant
    /\ resting' = resting \ {r}
    /\ UNCHANGED incoming

\* Nothing is left to trade; what is left of the order may rest.
Leave ==
  \E o \in incoming :
    /\ o.qty = 0 \/ \A r \in resting : ~Crosses(o, r)
    /\ incoming' = {}
    /\ \/ UNCHANGED resting
       \/ /\ o.qty > 0 /\ o.limit
          /\ resting' = resting \cup {[id |-> o.id, participant |-> o.participant,
                                       side |-> o.side, price |-> o.price, qty |-> o.qty]}

Cancel == incoming = {} /\ UNCHANGED incoming /\ \E r \in resting : resting' = resting \ {r}

Shrink ==
  /\ incoming = {} /\ UNCHANGED incoming
  /\ \E r \in resting : \E n \in 1 .. r.qty - 1 :
       resting' = (resting \ {r}) \cup {[r EXCEPT !.qty = n]}

BookNext == Arrive \/ Trade \/ PreventSelfTrade \/ Leave \/ Cancel \/ Shrink
BookSpec == BookInit /\ [][BookNext]_<<resting, incoming>>
=============================================================================
