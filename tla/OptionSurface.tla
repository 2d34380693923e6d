--------------------------- MODULE OptionSurface ---------------------------
(***************************************************************************)
(* The option chain of a name and what is made of it: mds/options.py and   *)
(* mds/structuring.py.                                                     *)
(*                                                                         *)
(* A contract is [expiry, right, delta, iv, volume]: the expiry in days    *)
(* from today, the delta in hundredths, both delta and iv possibly         *)
(* Missing.                                                                *)
(***************************************************************************)
EXTENDS Integers, Sequences, FiniteSets, SequencesExt, FiniteSetsExt

CONSTANTS
    MaxPages,               \* requests a chain may take
    MinDte, MinContracts, MinSide,
    Missing

-----------------------------------------------------------------------------
(* option_snapshots: one request after the other; a rate-limited one is    *)
(* made again and counts, an error gives up what was fetched.              *)

FirstPage == [token |-> 1, pages |-> <<>>, going |-> TRUE, failed |-> FALSE]

Request(got, answer) ==
    CASE ~got.going       -> got
      [] answer = "busy"  -> got
      [] answer = "error" -> [got EXCEPT !.pages = <<>>, !.going = FALSE, !.failed = TRUE]
      [] OTHER            -> [got EXCEPT !.token = @ + 1, !.pages = Append(@, got.token),
                                         !.going = (answer = "more")]

Chain(answers, budget) ==
    FoldLeft(Request, FirstPage, SubSeq(answers, 1, Min({budget, Len(answers)})))

(* option_bars pages alike and keeps, in place of an empty panel, the      *)
(* reason it has none.                                                     *)
Bars(answers, budget) ==
    LET got == Chain(answers, budget)
    IN  [pages |-> got.pages,
         status |-> CASE got.failed       -> "error"
                      [] got.pages = <<>> -> "empty"
                      [] OTHER            -> "ok"]

-----------------------------------------------------------------------------
(* compute_signals reads one expiry: the nearest that is not about to      *)
(* expire and has contracts enough on both sides.                          *)

Priced(rows) == {c \in rows : c.iv # Missing /\ c.delta # Missing}

OnSide(rows, expiry, right) == {c \in Priced(rows) : c.expiry = expiry /\ c.right = right}

Qualifies(rows, expiry) ==
    LET calls == Cardinality(OnSide(rows, expiry, "C"))
        puts == Cardinality(OnSide(rows, expiry, "P"))
    IN  /\ expiry >= MinDte
        /\ calls >= MinSide /\ puts >= MinSide /\ calls + puts >= MinContracts

Expiries(rows) == {e \in {c.expiry : c \in Priced(rows)} : Qualifies(rows, e)}

TargetExpiry(rows) == Min(Expiries(rows))

Between(lo, hi, target) ==
    [num |-> lo.iv * (hi.delta - target) + hi.iv * (target - lo.delta), den |-> hi.delta - lo.delta]

(* _interp_at_delta: the line between the neighbours of the target;        *)
(* outside the deltas that trade, the iv of the last one.                  *)
Interpolated(side, target) ==
    LET below == {c \in side : c.delta =< target}
        above == {c \in side : c.delta > target}
        Highest(some) == CHOOSE c \in some : \A e \in some : e.delta =< c.delta
        Lowest(some) == CHOOSE c \in some : \A e \in some : c.delta =< e.delta
    IN  IF below = {} THEN [num |-> Lowest(side).iv, den |-> 1]
        ELSE IF above = {} THEN [num |-> Highest(side).iv, den |-> 1]
        ELSE Between(Highest(below), Lowest(above), target)

Surface(rows) ==
    LET expiry == TargetExpiry(rows)
        calls == OnSide(rows, expiry, "C")
        puts == OnSide(rows, expiry, "P")
    IN  [expiry |-> expiry,
         atm |-> <<Interpolated(calls, 50), Interpolated(puts, -50)>>,
         wings |-> <<Interpolated(calls, 25), Interpolated(puts, -25)>>]

(* cross_section: one row for each name whose chain has an expiry to read. *)
CrossSection(chains) == {n \in DOMAIN chains : Expiries(chains[n]) # {}}

-----------------------------------------------------------------------------
(* structuring.py: a holding bought at S, with a put of strike kp and a    *)
(* call of strike kc; the premiums are those of the pricer.                *)

Intrinsic(kind, x, k) == IF kind = "call" THEN Max({0, x - k}) ELSE Max({0, k - x})

(* protective_put: max_loss_pct, in units of the price.                    *)
MaxLoss(S, kp, put) == (S - kp) + put

ProtectedPnl(S, x, kp, put) == (x - S) + Intrinsic("put", x, kp) - put

(* collar: the call that is sold pays for part of the put.                 *)
NetCost(put, call) == put - call

DownsideFloor(S, kp, put) == -MaxLoss(S, kp, put)

UpsideCap(S, kc) == kc - S

CollarPnl(S, x, kp, kc, put, call) ==
    (x - S) + Intrinsic("put", x, kp) - Intrinsic("call", x, kc) - NetCost(put, call)

-----------------------------------------------------------------------------
(* A chain that is read has its pages once each and in order from the      *)
(* first: nothing is skipped in the middle, however often the server was   *)
(* busy; and a panel without bars is called empty only when it was never   *)
(* refused.                                                                *)
ChainIsAPrefix(answers) ==
    LET pages == Chain(answers, MaxPages).pages
        asked == 1 .. Min({MaxPages, Len(answers)})
    IN  /\ pages = [i \in DOMAIN pages |-> i]
        /\ (Bars(answers, MaxPages).status = "empty") <=> (\A i \in asked : answers[i] = "busy")

(* No volatility is made up: each that is read off the smile of a name of  *)
(* the cross-section lies between two that are quoted on its side, and no  *)
(* nearer expiry could have been read.                                     *)
SmileIsQuoted(chains) ==
    \A n \in CrossSection(chains) :
        LET s == Surface(chains[n])
            Quoted(x, right) ==
                \E a, b \in OnSide(chains[n], s.expiry, right) :
                    a.iv * x.den =< x.num /\ x.num =< b.iv * x.den
        IN  /\ Quoted(s.atm[1], "C") /\ Quoted(s.wings[1], "C")
            /\ Quoted(s.atm[2], "P") /\ Quoted(s.wings[2], "P")
            /\ \A c \in Priced(chains[n]) :
                  c.expiry < s.expiry => ~Qualifies(chains[n], c.expiry)

(* The floor that is reported is one: wherever the price ends, a protected *)
(* holding and a collared one lose no more, and a collar that costs        *)
(* something earns no more than its cap.                                   *)
FloorHolds(S, kp, kc, put, call, ends) ==
    \A x \in ends :
        /\ ProtectedPnl(S, x, kp, put) >= -MaxLoss(S, kp, put)
        /\ CollarPnl(S, x, kp, kc, put, call) >= DownsideFloor(S, kp, put)
        /\ NetCost(put, call) >= 0 => CollarPnl(S, x, kp, kc, put, call) =< UpsideCap(S, kc)
=============================================================================
