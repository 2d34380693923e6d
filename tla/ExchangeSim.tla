----------------------------- MODULE ExchangeSim -----------------------------
(***************************************************************************)
(* The simulated exchange: the reference engine, its market maker and the  *)
(* other participants.  ExchangeSimulation's lock serialises the tick      *)
(* (order flow, then the maker's requote) with the users' calls, so a      *)
(* requote is never interrupted; the order flow consists of single calls   *)
(* and needs no more than that.  The maker learns of its fills from the    *)
(* engine's onTrade callback, in the middle of somebody else's submit().   *)
(***************************************************************************)
EXTENDS ExchangeBook

CONSTANTS
  Amendments,        \* prices and quantities replace() is called with
  Fairs,             \* fair prices, in ticks
  baseHalfSpread,
  invSkew,
  quoteSize,
  maxInventory

ID == "MM"

ASSUME MakerAssumption ==
  /\ ID \in Participants /\ \A r \in Requests : r.participant # ID
  /\ Amendments \subseteq [price : Int, qty : Int]
  /\ Fairs \subseteq Nat /\ baseHalfSpread \in Nat \ {0} /\ invSkew \in Nat
  /\ quoteSize \in Nat \ {0} /\ maxInventory \in Nat \ {0}

VARIABLES
  fair,         \* the fair price of the requote
  inventory,    \* the maker's net lots
  bidId, askId, \* the maker's quotes, 0 for none
  quoting       \* how far requote() is

makerVars == <<fair, inventory, bidId, askId, quoting>>
vars == <<bookVars, makerVars>>

TypeOK ==
  /\ BookTypeOK
  /\ fair \in Fairs /\ inventory \in Int
  /\ bidId \in 0 .. seq /\ askId \in 0 .. seq
  /\ quoting \in {"idle", "cancel bid", "cancel ask", "bid", "ask"}

Init ==
  /\ BookInit
  /\ fair \in Fairs
  /\ inventory = 0 /\ bidId = 0 /\ askId = 0 /\ quoting = "idle"

-----------------------------------------------------------------------------
(***************************************************************************)
(* The participants' calls: place(), cancel() and the order flow.  cancel  *)
(* takes any order id; nothing in the application calls replace(), which   *)
(* the other participants are given here.                                  *)
(***************************************************************************)
ParticipantCall ==
  /\ quoting = "idle" /\ ~InCall
  /\ \/ \E r \in Requests : Submit(r)
     \/ \E i \in byId : Cancel(i)
     \/ \E i \in byId, a \in Amendments :
          /\ order[i].participant # ID
          /\ ReplaceInPlace(i, a.price, a.qty) \/ ReplaceAnew(i, a.price, a.qty)
  /\ UNCHANGED makerVars

(***************************************************************************)
(* requote(): cancel both quotes, then post new ones around the            *)
(* reservation price, each side only while the inventory allows it.        *)
(***************************************************************************)
\* Mutant: the ids are reset before the quotes are cancelled.
BugStartRequote ==
  /\ quoting = "idle" /\ ~InCall
  /\ fair' \in Fairs
  /\ quoting' = "cancel bid"
  /\ bidId' = 0 /\ askId' = 0
  /\ UNCHANGED <<bookVars, inventory>>

StartRequote ==
  /\ quoting = "idle" /\ ~InCall
  /\ fair' \in Fairs
  /\ quoting' = "cancel bid"
  /\ UNCHANGED <<bookVars, inventory, bidId, askId>>

\* book.cancel(id), which does nothing when the order is not live any more.
CancelQuote(i) ==
  /\ IF i \in byId THEN Cancelled(i) ELSE UNCHANGED <<levels, order, byId, top>>
  /\ UNCHANGED <<seq, taker, amended, fair, inventory>>

CancelBid ==
  /\ quoting = "cancel bid"
  /\ CancelQuote(bidId)
  /\ quoting' = "cancel ask"
  /\ UNCHANGED <<bidId, askId>>

CancelAsk ==
  /\ quoting = "cancel ask"
  /\ CancelQuote(askId)
  /\ quoting' = "bid"
  /\ bidId' = 0 /\ askId' = 0

Quote(side, price) ==
  [participant |-> ID, side |-> side, type |-> "LIMIT", tif |-> "GTC",
   postOnly |-> TRUE, price |-> price, qty |-> quoteSize]

reservation == fair - inventory * invSkew
Bid == Quote("BUY", reservation - baseHalfSpread)
Ask == Quote("SELL", reservation + baseHalfSpread)

MayBid == inventory < maxInventory /\ Bid.price > 0
MayAsk == inventory > -maxInventory

QuoteBid ==
  /\ quoting = "bid" /\ ~InCall
  /\ quoting' = "ask"
  /\ IF MayBid THEN Submit(Bid) ELSE UNCHANGED bookVars
  /\ bidId' = IF MayBid /\ ~Refused(Bid) THEN seq' ELSE 0
  /\ UNCHANGED <<fair, inventory, askId>>

QuoteAsk ==
  /\ quoting = "ask" /\ ~InCall
  /\ quoting' = "idle"
  /\ IF MayAsk THEN Submit(Ask) ELSE UNCHANGED bookVars
  /\ askId' = IF MayAsk /\ ~Refused(Ask) THEN seq' ELSE 0
  /\ UNCHANGED <<fair, inventory, bidId>>

(***************************************************************************)
(* The engine goes on; the maker's onTrade books the fills of its quotes.  *)
(***************************************************************************)
OnTrade ==
  inventory' = IF order[HeadId].participant # ID THEN inventory
               ELSE IF taker.side = "BUY" THEN inventory - Traded ELSE inventory + Traded

TradeAndTell ==
  /\ Trade
  /\ OnTrade
  /\ UNCHANGED <<fair, bidId, askId, quoting>>

EngineStep ==
  /\ DiscardCancelled \/ PreventSelfTrade \/ Finish \/ Rest \/ SubmitAmended
  /\ UNCHANGED makerVars

Next ==
  \/ ParticipantCall
  \/ StartRequote \/ CancelBid \/ CancelAsk \/ QuoteBid \/ QuoteAsk
  \/ TradeAndTell \/ EngineStep

Spec == Init /\ [][Next]_vars

-----------------------------------------------------------------------------
(***************************************************************************)
(* The maker's inventory stays within its limit and one quote, whatever is *)
(* filled between two requotes: a quote is never outstanding twice.        *)
(* (MarketMaker: "stop adding to a side beyond this".)                     *)
(***************************************************************************)
InventoryBounded ==
  LET most == maxInventory - 1 + quoteSize IN inventory \in -most .. most

(***************************************************************************)
(* The maker knows its quotes: outside a requote, the only live orders of  *)
(* the maker are those with its bid id and its ask id.                     *)
(***************************************************************************)
NoOrphanQuotes ==
  quoting = "idle" =>
    {i \in byId : order[i].participant = ID} \subseteq {bidId, askId}

(***************************************************************************)
(* The book is whole and its best prices do not cross, through every       *)
(* submission, trade, cancellation and amendment (OrderBook.java).         *)
(***************************************************************************)
BookSound ==
  /\ TypeOK
  /\ BookConsistent
  /\ NeverCrossed

(***************************************************************************)
(* The maker is exposed by no more than it means to be: by its inventory   *)
(* and by the quotes it has out (MarketMaker.java requote).                *)
(***************************************************************************)
MakerBounded == InventoryBounded /\ NoOrphanQuotes
=============================================================================
