------------------------------ MODULE LiveDesk ------------------------------
(* The live strategy engine (service/engine.py): a loop thread that rebuilds *)
(* the books, enforces the risk limits and trades the armed strategies, and  *)
(* the API thread that arms, disarms, kills, resumes and flattens, both      *)
(* talking over HTTP to a broker that fills orders whenever it likes.        *)
EXTENDS DeskBooks

CONSTANTS
    Registry,       \* sequence of the strategy ids
    SymOf,          \* the symbol each strategy trades
    Fixed,          \* a strategy's fixed notional, used when volatility is unknown
    Prices, Start,  \* the price range of a symbol, and its first price
    MinOrder, MaxGross, MaxDrawdown, MaxSleeveDrawdown,
    TargetVol, Sigma, MinNotional, MaxNotional,
    Cov, MaxVariance,   \* covariance of the symbols, square of the volatility cap
    Retries,        \* attempts of one HTTP request
    Scripts,        \* sequences of API calls, one of which the user makes
    MaxTicks, MaxFaults, MaxEntries   \* bounds: price moves, lost calls, entries

Strategies == Range(Registry)
Symbols == {SymOf[s] : s \in Strategies}
Threads == {"loop", "api"}

(* The API refuses an unknown strategy (arm, flatten: KeyError).            *)
ApiCalls == ({"arm", "disarm", "flatten"} \X Strategies)
              \union ({"kill", "resume", "restart"} \X {"all"})

ASSUME DeskAssumption ==
    /\ Registry \in Seq(Strategies) /\ "none" \notin Strategies
    /\ Prices \subseteq Nat \ {0} /\ Start \in Prices
    /\ MinOrder \in Nat \ {0} /\ Retries \in Nat \ {0}
    /\ Fixed \in [Strategies -> Int] /\ Sigma \in [Symbols -> Nat \ {0}]
    /\ TargetVol \in Int /\ MinNotional \in Int /\ MaxNotional \in Int
    /\ Scripts \subseteq Seq(ApiCalls)

VARIABLES
    price,      \* broker: last price of each symbol
    held,       \* broker: real position of each symbol
    working,    \* broker: accepted orders not filled yet
    fills,      \* broker: filled tagged orders of each strategy, oldest first
    armed, kill, riskHalt,
    peak,       \* <<>> or <<high-water total P&L>>
    sleevePeak, \* high-water P&L of the strategies seen since resume
    books,      \* the last attribution rows
    lastSeq,    \* _last_seq
    loop,       \* the loop thread's program counter and locals
    flat,       \* each thread's progress in flatten
    post,       \* each thread's order on its way to the broker
    script,     \* the API calls still to come
    ticks, faults, entries,   \* what the bounds have used up
    tags, late  \* history: tags drawn, and orders taken after trading stopped

broker == <<price, held, working, fills>>
control == <<armed, kill, riskHalt, peak, sleevePeak>>
threads == <<loop, flat, post, script>>
bounds == <<ticks, faults, entries>>
vars == <<price, held, working, fills, armed, kill, riskHalt, peak, sleevePeak,
          books, lastSeq, loop, flat, post, script, ticks, faults, entries, tags, late>>

NoOrder == [sid |-> "none"]
Idle == [pc |-> "orders", fills |-> <<>>, marks |-> <<>>, real |-> <<>>, vols |-> TRUE,
         todo |-> {}, pending |-> {}, sid |-> "none", px |-> 0, weights |-> <<>>]
NotFlattening == [pc |-> "none", todo |-> <<>>, real |-> <<>>, pending |-> {}]

Init ==
    /\ price = [x \in Symbols |-> Start]
    /\ held = [x \in Symbols |-> 0]
    /\ working = {}
    /\ fills = [s \in Strategies |-> <<>>]
    /\ armed = {} /\ kill = FALSE /\ riskHalt = FALSE
    /\ peak = <<>> /\ sleevePeak = <<>> /\ books = <<>>
    /\ lastSeq = 0
    /\ loop = Idle
    /\ flat = [t \in Threads |-> NotFlattening]
    /\ post = [t \in Threads |-> NoOrder]
    /\ script \in Scripts
    /\ ticks = 0 /\ faults = 0 /\ entries = 0
    /\ tags = {} /\ late = {}

(* What the accepted orders W still have to sell of x.                      *)
ToSell(W, x) ==
    SumFunctionOnSet([o \in W |-> o.qty], {o \in W : o.symbol = x /\ o.side = Sell})

Available(x) == held[x] - ToSell(working, x)

----------------------------------------------------------------------------
(* The broker.                                                              *)
Tick(x) ==
    /\ ticks < MaxTicks
    /\ ticks' = ticks + 1
    /\ \E p \in Prices \ {price[x]} : price' = [price EXCEPT ![x] = p]
    /\ UNCHANGED <<held, working, fills, control, books, lastSeq, threads,
                   faults, entries, tags, late>>

Fill(o) ==
    /\ working' = working \ {o}
    /\ held' = [held EXCEPT ![o.symbol] = @ + Signed(o)]
    /\ fills' = [fills EXCEPT ![o.sid] =
                    Append(@, [side |-> o.side, qty |-> o.qty, price |-> price[o.symbol]])]
    /\ UNCHANGED <<price, control, books, lastSeq, threads, bounds, tags, late>>

(* A call that fails for good: one of the faults the bound allows.          *)
Fails == faults < MaxFaults /\ faults' = faults + 1

----------------------------------------------------------------------------
(* _halted, _next_seq, order_tag.                                           *)
BugHalted(s) == s \notin armed

Halted(s) == kill \/ s \notin armed

(* The clock reads either what the last sequence number was drawn at, or    *)
(* later; the number never repeats.                                         *)
BugNextSeq(now) == now

NextSeq(now) == IF now <= lastSeq THEN lastSeq + 1 ELSE now

Clock == {lastSeq, lastSeq + 1} \ {0}

(* Draw a tag and hand the order to the HTTP client.                        *)
Draw(t, s, side, qty) == \E now \in Clock :
    LET seq == NextSeq(now) IN
    /\ lastSeq' = seq
    /\ tags' = tags \union {<<s, seq>>}
    /\ post' = [post EXCEPT ![t] =
                   [sid |-> s, symbol |-> SymOf[s], side |-> side, qty |-> qty,
                    seq |-> seq, attempt |-> 1, taken |-> FALSE]]

----------------------------------------------------------------------------
(* flatten(sid), run by either thread for each id of its todo list.         *)
FlattenList(ids) == IF ids = <<>> THEN NotFlattening
                    ELSE [NotFlattening EXCEPT !.pc = "positions", !.todo = ids]

(* The head of the list is done; a sleeve stop then disarms it.             *)
FlatAdvance(t) ==
    /\ flat' = [flat EXCEPT ![t] = FlattenList(Tail(flat[t].todo))]
    /\ armed' = IF t = "loop" /\ loop.pc = "stops" THEN armed \ {Head(flat[t].todo)}
                ELSE armed

PositionsNow == [x \in Symbols |-> [qty |-> held[x], available |-> Available(x)]]

PendingNow == {<<o.sid, o.symbol>> : o \in working}

FlattenPositions(t) ==
    /\ flat[t].pc = "positions"
    /\ \/ /\ flat' = [flat EXCEPT ![t].pc = "pending", ![t].real = PositionsNow]
          /\ UNCHANGED <<armed, faults>>
       \/ Fails /\ FlatAdvance(t)
    /\ UNCHANGED <<broker, kill, riskHalt, peak, sleevePeak, books, lastSeq, loop, post,
                   script, ticks, entries, tags, late>>

(* _open_tagged swallows a failed read: nothing is pending then.            *)
ReadPending(p) == \/ p = PendingNow /\ UNCHANGED faults
                  \/ p = {} /\ Fails

NothingToClose(at) == at.qty = 0 \/ at.available <= 0

FlattenPending(t) ==
    /\ flat[t].pc = "pending"
    /\ \E p \in {PendingNow, {}} :
        LET s == Head(flat[t].todo)
            x == SymOf[s]
            at == flat[t].real[x]
        IN /\ ReadPending(p)
           /\ IF NothingToClose(at) \/ <<s, x>> \in p
              THEN FlatAdvance(t) /\ UNCHANGED <<lastSeq, post, tags>>
              ELSE /\ Draw(t, s, IF at.qty > 0 THEN Sell ELSE Buy, at.available)
                   /\ flat' = [flat EXCEPT ![t].pc = "close", ![t].real = <<>>]
                   /\ UNCHANGED armed
    /\ UNCHANGED <<broker, kill, riskHalt, peak, sleevePeak, books, loop, script,
                   ticks, entries, late>>

----------------------------------------------------------------------------
(* _request for submit_order: up to Retries attempts, a retry after a lost  *)
(* answer meeting the order's own id at the broker.                         *)
Trading(t) == t = "loop" /\ loop.pc = "post"

Refused(o) == o.taken \/ (o.side = Sell /\ o.qty > Available(o.symbol))

OrderOf(o) == [sid |-> o.sid, symbol |-> o.symbol, side |-> o.side, qty |-> o.qty, seq |-> o.seq]

Taken(t) ==
    /\ working' = working \union {OrderOf(post[t])}
    /\ late' = IF Trading(t) /\ (kill \/ post[t].sid \notin armed)
               THEN late \union {<<post[t].sid, post[t].seq>>} ELSE late

(* submit_order returned, or raised and was logged.                         *)
Submitted(t, ok) ==
    LET o == post[t] IN
    /\ post' = [post EXCEPT ![t] = NoOrder]
    /\ IF Trading(t)
       THEN /\ loop' = [loop EXCEPT !.pc = "turn", !.sid = "none", !.px = 0, !.todo = @ \ {o.sid},
                  !.weights = IF ok /\ o.side = Buy
                              THEN [@ EXCEPT ![o.symbol] = @ + o.qty * loop.px]
                              ELSE @]
            /\ UNCHANGED <<flat, armed>>
       ELSE FlatAdvance(t) /\ UNCHANGED loop

Again(t, taken) ==
    IF post[t].attempt < Retries
    THEN /\ post' = [post EXCEPT ![t].attempt = @ + 1, ![t].taken = taken]
         /\ UNCHANGED <<loop, flat, armed>>
    ELSE Submitted(t, FALSE)

AttemptAnswered(t) ==
    /\ post[t] # NoOrder
    /\ IF Refused(post[t])
       THEN Submitted(t, FALSE) /\ UNCHANGED <<working, late>>
       ELSE Submitted(t, TRUE) /\ Taken(t)
    /\ UNCHANGED <<price, held, fills, kill, riskHalt, peak, sleevePeak, books, lastSeq,
                   script, bounds, tags>>

AttemptLost(t) ==
    /\ post[t] # NoOrder
    /\ Fails
    /\ \/ Again(t, post[t].taken) /\ UNCHANGED <<working, late>>
       \/ ~Refused(post[t]) /\ Taken(t) /\ Again(t, TRUE)
    /\ UNCHANGED <<price, held, fills, kill, riskHalt, peak, sleevePeak, books, lastSeq,
                   script, ticks, entries, tags>>

----------------------------------------------------------------------------
(* refresh: three reads, then the books under the lock.                     *)
CycleFails == Fails /\ loop' = Idle

ReadOrders ==
    /\ loop.pc = "orders"
    /\ \/ loop' = [Idle EXCEPT !.pc = "marks", !.fills = fills] /\ UNCHANGED faults
       \/ CycleFails
    /\ UNCHANGED <<broker, control, books, lastSeq, flat, post, script, ticks, entries,
                   tags, late>>

(* A snapshot may lack a symbol: crypto_marks then leaves it out.           *)
ReadMarks ==
    /\ loop.pc = "marks"
    /\ \/ loop' = [loop EXCEPT !.pc = "positions", !.marks = price] /\ UNCHANGED faults
       \/ \E x \in Symbols :
            /\ Fails
            /\ loop' = [loop EXCEPT !.pc = "positions", !.marks = Restrict(price, Symbols \ {x})]
       \/ CycleFails
    /\ UNCHANGED <<broker, control, books, lastSeq, flat, post, script, ticks, entries,
                   tags, late>>

Rebuilt(f, real, marks) ==
    Attribute([s \in Strategies |-> PositionBook(f[s])], SymOf,
              [x \in Symbols |-> real[x].qty], marks)

ReadPositions ==
    /\ loop.pc = "positions"
    /\ \/ /\ books' = Rebuilt(loop.fills, PositionsNow, loop.marks)
          /\ loop' = [loop EXCEPT !.pc = "risk", !.fills = <<>>, !.real = PositionsNow]
          /\ UNCHANGED faults
       \/ CycleFails /\ UNCHANGED books
    /\ UNCHANGED <<broker, control, lastSeq, flat, post, script, ticks, entries, tags, late>>

----------------------------------------------------------------------------
(* _risk_check.                                                             *)
TotalPnl == SumFunctionOnSet([s \in DOMAIN books |-> books[s].pnl], DOMAIN books)
TotalGross == SumFunctionOnSet([s \in DOMAIN books |-> books[s].gross], DOMAIN books)
Higher(x, y) == IF x > y THEN x ELSE y

SleevePeaks == [s \in DOMAIN books \union DOMAIN sleevePeak |->
    IF s \notin DOMAIN sleevePeak THEN books[s].pnl
    ELSE IF s \notin DOMAIN books THEN sleevePeak[s]
    ELSE Higher(sleevePeak[s], books[s].pnl)]

SleeveBreached(s, peaks) ==
    /\ s \in DOMAIN books
    /\ books[s].pnl - peaks[s] <= -MaxSleeveDrawdown
    /\ books[s].gross > 0 \/ s \in armed

(* The sleeves past their stop, in the order of the registry.               *)
Stops(peaks) == FlattenSeq([i \in 1 .. Len(Registry) |->
    IF SleeveBreached(Registry[i], peaks) THEN <<Registry[i]>> ELSE <<>>])

(* vols: the risk model of this cycle could be built.                       *)
RiskCheck ==
    /\ loop.pc = "risk"
    /\ LET top == IF peak = <<>> THEN TotalPnl ELSE Higher(peak[1], TotalPnl)
           breach == /\ TotalPnl - top <= -MaxDrawdown
                     /\ TotalGross > 0 \/ armed # {}
           stops == Stops(SleevePeaks)
       IN /\ peak' = <<top>>
          /\ sleevePeak' = SleevePeaks
          /\ \E v \in BOOLEAN :
              /\ IF v THEN UNCHANGED faults ELSE Fails
              /\ loop' = [loop EXCEPT !.vols = v,
                    !.pc = IF breach THEN "halt" ELSE IF stops = <<>> THEN "gate" ELSE "stops"]
          /\ flat' = IF breach THEN flat ELSE [flat EXCEPT !["loop"] = FlattenList(stops)]
    /\ UNCHANGED <<broker, armed, kill, riskHalt, books, lastSeq, post, script,
                   ticks, entries, tags, late>>

Kill == armed' = {} /\ kill' = TRUE /\ late' = {}

\* Flattens once, when the halt is first raised, and trusts the calls.
BugHalt ==
    /\ loop.pc = "halt"
    /\ IF riskHalt THEN UNCHANGED <<armed, kill, late>> ELSE Kill
    /\ loop' = [loop EXCEPT !.pc = "halting"]
    /\ flat' = [flat EXCEPT !["loop"] =
                   FlattenList(IF TotalGross > 0 /\ ~riskHalt THEN Registry ELSE <<>>)]
    /\ UNCHANGED <<broker, riskHalt, peak, sleevePeak, books, lastSeq, post, script,
                   bounds, tags>>

(* The portfolio is in breach: kill the first time, flatten every time.     *)
Halt ==
    /\ loop.pc = "halt"
    /\ IF riskHalt THEN UNCHANGED <<armed, kill, late>> ELSE Kill
    /\ loop' = [loop EXCEPT !.pc = "halting"]
    /\ flat' = [flat EXCEPT !["loop"] = FlattenList(IF TotalGross > 0 THEN Registry ELSE <<>>)]
    /\ UNCHANGED <<broker, riskHalt, peak, sleevePeak, books, lastSeq, post, script,
                   bounds, tags>>

HaltEnds ==
    /\ loop.pc = "halting" /\ flat["loop"].pc = "none"
    /\ riskHalt' = TRUE
    /\ loop' = Idle
    /\ UNCHANGED <<broker, armed, kill, peak, sleevePeak, books, lastSeq, flat, post,
                   script, bounds, tags, late>>

----------------------------------------------------------------------------
(* run_once after the risk check, and _trade_armed.                         *)
Weights(real, marks) ==
    [x \in Symbols |-> IF x \in DOMAIN marks THEN real[x].qty * marks[x] ELSE 0]

Gate ==
    /\ loop.pc \in {"gate", "stops"} /\ flat["loop"].pc = "none"
    /\ riskHalt' = FALSE
    /\ loop' = IF kill \/ armed = {} THEN Idle
               ELSE [loop EXCEPT !.pc = "pending", !.todo = armed,
                                 !.weights = Weights(loop.real, loop.marks)]
    /\ UNCHANGED <<broker, armed, kill, peak, sleevePeak, books, lastSeq, flat, post,
                   script, bounds, tags, late>>

ReadOpenOrders ==
    /\ loop.pc = "pending"
    /\ \E p \in {PendingNow, {}} :
        /\ ReadPending(p)
        /\ loop' = [loop EXCEPT !.pc = "turn", !.pending = p]
    /\ UNCHANGED <<broker, control, books, lastSeq, flat, post, script, ticks, entries,
                   tags, late>>

(* The next armed strategy: skipped while an order of its own is working;   *)
(* the cycle stops when the engine is halted.                               *)
Turn ==
    /\ loop.pc = "turn"
    /\ loop' \in IF loop.todo = {} THEN {Idle}
                 ELSE {IF <<s, SymOf[s]>> \in loop.pending
                       THEN [loop EXCEPT !.todo = @ \ {s}]
                       ELSE IF Halted(s) THEN Idle
                       ELSE [loop EXCEPT !.pc = "decide", !.sid = s] : s \in loop.todo}
    /\ UNCHANGED <<broker, control, books, lastSeq, flat, post, script, bounds, tags, late>>

Clamp(x, lo, hi) == Lesser(hi, Higher(lo, x))

(* vol_target_notional, or the fixed notional when volatility is unknown.   *)
Notional(s, vols) ==
    IF vols THEN Clamp(TargetVol \div Sigma[SymOf[s]], MinNotional, MaxNotional) ELSE Fixed[s]

(* w' Cov w, the square of portfolio_vol.                                   *)
Variance(w) ==
    SumFunctionOnSet([xy \in Symbols \X Symbols |-> w[xy[1]] * Cov[xy] * w[xy[2]]],
                     Symbols \X Symbols)

EntryQty(s, px) == (Notional(s, loop.vols) \div px) - Higher(loop.real[SymOf[s]].qty, 0)

EntryAllowed(x, value) ==
    /\ value >= MinOrder
    /\ SumFunctionOnSet(loop.weights, Symbols) + value <= MaxGross
    /\ loop.vols => Variance([loop.weights EXCEPT ![x] = @ + value]) <= MaxVariance

Held(x, px) == loop.real[x].qty * px >= MinOrder

NextTurn == [loop EXCEPT !.pc = "turn", !.sid = "none", !.todo = @ \ {loop.sid}]

(* Nothing to do: the signal agrees with the position, the entry is capped  *)
(* or too small, nothing is available to sell, or the bars were not read.   *)
Pass ==
    /\ loop' = NextTurn
    /\ UNCHANGED <<lastSeq, post, tags, entries>>

(* The order goes out, unless the engine was halted meanwhile.              *)
Submit(side, qty, px) ==
    IF Halted(loop.sid)
    THEN loop' = Idle /\ UNCHANGED <<lastSeq, post, tags, entries>>
    ELSE /\ loop' = [loop EXCEPT !.pc = "post", !.px = px]
         /\ Draw("loop", loop.sid, side, qty)
         /\ entries' = IF side = Buy THEN entries + 1 ELSE entries

(* Sign with hysteresis: enter on a flip to long, exit on a flip to flat.   *)
Decide(sign) ==
    LET s == loop.sid
        x == SymOf[s]
        px == IF x \in DOMAIN loop.marks THEN loop.marks[x] ELSE price[x]
        qty == EntryQty(s, px)
    IN /\ loop.pc = "decide"
       /\ CASE sign = 1 /\ ~Held(x, px) /\ EntryAllowed(x, qty * px) ->
                   entries < MaxEntries /\ Submit(Buy, qty, px)
            [] sign = 0 /\ Held(x, px) /\ loop.real[x].available > 0 ->
                   Submit(Sell, loop.real[x].available, px)
            [] OTHER -> Pass
       /\ UNCHANGED <<broker, control, books, flat, script, ticks, faults, late>>

NoBars ==
    /\ loop.pc = "decide"
    /\ Fails
    /\ Pass
    /\ UNCHANGED <<broker, control, books, flat, script, ticks, late>>

----------------------------------------------------------------------------
(* The API thread.                                                          *)
Call(name) ==
    /\ flat["api"].pc = "none"
    /\ script # <<>> /\ Head(script)[1] = name
    /\ script' = Tail(script)
Argument == Head(script)[2]

StillHalted == {o \in late : kill' \/ o[1] \notin armed'}

Arm ==
    /\ Call("arm")
    /\ armed' = armed \union {Argument}
    /\ kill' = kill /\ late' = StillHalted
    /\ UNCHANGED <<broker, riskHalt, peak, sleevePeak, books, lastSeq, loop, flat, post,
                   bounds, tags>>

Disarm ==
    /\ Call("disarm")
    /\ armed' = armed \ {Argument}
    /\ UNCHANGED <<broker, kill, riskHalt, peak, sleevePeak, books, lastSeq, loop, flat,
                   post, bounds, tags, late>>

KillSwitch ==
    /\ Call("kill")
    /\ Kill
    /\ UNCHANGED <<broker, riskHalt, peak, sleevePeak, books, lastSeq, loop, flat, post,
                   bounds, tags>>

Resume ==
    /\ Call("resume")
    /\ kill' = FALSE /\ riskHalt' = FALSE
    /\ peak' = <<>> /\ sleevePeak' = <<>>
    /\ armed' = armed /\ late' = StillHalted
    /\ UNCHANGED <<broker, books, lastSeq, loop, flat, post, bounds, tags>>

Flatten ==
    /\ Call("flatten")
    /\ flat' = [flat EXCEPT !["api"] = FlattenList(<<Argument>>)]
    /\ UNCHANGED <<broker, control, books, lastSeq, loop, post, bounds, tags, late>>

(* The service is restarted: every local is lost, the broker keeps its own  *)
(* state, and the clock the tags are drawn from has moved on.               *)
Restart ==
    /\ script # <<>> /\ Head(script)[1] = "restart"
    /\ script' = Tail(script)
    /\ armed' = {} /\ kill' = FALSE /\ riskHalt' = FALSE
    /\ peak' = <<>> /\ sleevePeak' = <<>> /\ books' = <<>>
    /\ loop' = Idle
    /\ flat' = [t \in Threads |-> NotFlattening]
    /\ post' = [t \in Threads |-> NoOrder]
    /\ late' = {}
    /\ UNCHANGED <<broker, lastSeq, bounds, tags>>

----------------------------------------------------------------------------
LoopStep ==
    \/ ReadOrders \/ ReadMarks \/ ReadPositions \/ RiskCheck \/ Halt \/ HaltEnds
    \/ Gate \/ ReadOpenOrders \/ Turn \/ NoBars
    \/ \E sign \in {0, 1} : Decide(sign)

ThreadStep(t) ==
    \/ FlattenPositions(t) \/ FlattenPending(t)
    \/ AttemptAnswered(t) \/ AttemptLost(t)

ApiCall == Arm \/ Disarm \/ KillSwitch \/ Resume \/ Flatten \/ Restart

Next ==
    \/ \E x \in Symbols : Tick(x)
    \/ \E o \in working : Fill(o)
    \/ LoopStep
    \/ \E t \in Threads : ThreadStep(t)
    \/ ApiCall

Spec == Init /\ [][Next]_vars

(* The loop thread always has a step to take and never stops taking steps   *)
(* (its handlers let no exception out), and the broker fills what it took.  *)
FairSpec ==
    /\ Spec
    /\ []<><<TRUE>>_loop
    /\ WF_working(\E o \in working : Fill(o))

----------------------------------------------------------------------------
Orders == [sid : Strategies, symbol : Symbols, side : {Buy, Sell}, qty : Nat \ {0}, seq : Nat]

DeskTypeOK ==
    /\ price \in [Symbols -> Prices]
    /\ held \in [Symbols -> Nat]
    /\ \A o \in working : o \in Orders
    /\ armed \subseteq Strategies
    /\ kill \in BOOLEAN /\ riskHalt \in BOOLEAN
    /\ DOMAIN books \in {{}, Strategies}
    /\ DOMAIN sleevePeak \in {{}, Strategies}
    /\ lastSeq \in Nat
    /\ loop.todo \subseteq Strategies /\ loop.sid \in Strategies \union {"none"}
    /\ \A t \in Threads : post[t] = NoOrder \/ post[t].attempt \in 1 .. Retries

(* Pressing kill stops trading at once: at most the order already handed to *)
(* the HTTP client reaches the broker before resume, whatever is armed in   *)
(* the meantime; and a strategy disarmed alone adds at most one order.      *)
KillStopsTrading ==
    /\ kill => Cardinality(late) <= 1
    /\ \A s \in Strategies : Cardinality({o \in late : o[1] = s}) <= 1

(* The desk's state is one the loop and the API can leave behind, and a     *)
(* killed desk stays still (engine.py kill, _halted).                       *)
StopIsKept == DeskTypeOK /\ KillStopsTrading

(* Every order drawn by either thread carries a tag no order had before, in *)
(* this process or in an earlier one, so that no fill is taken for another. *)
TagsAreFresh ==
    [][\A t \in Threads :
          (post'[t] # NoOrder /\ post[t] = NoOrder)
              => <<post'[t].sid, post'[t].seq>> \notin tags]_vars

(* A sleeve past its stop, or a desk past its limit, ends flat: failed reads *)
(* and lost calls are retried on later cycles, and what was on its way when *)
(* the halt came is closed as well.                                         *)
SleeveDown(s) ==
    /\ s \in DOMAIN books /\ s \in DOMAIN sleevePeak
    /\ books[s].pnl - sleevePeak[s] <= -MaxSleeveDrawdown

LossIsCut == []<>(
    /\ \A s \in Strategies : SleeveDown(s) => held[SymOf[s]] = 0
    /\ riskHalt => \A x \in Symbols : held[x] = 0)

(* What the strategies made at the broker's current prices.                 *)
TruePnl ==
    LET rows == Rebuilt(fills, [x \in Symbols |-> [qty |-> held[x]]], price)
    IN SumFunctionOnSet([s \in Strategies |-> rows[s].pnl], Strategies)

(* A risk halt is raised only when the desk is below its high-water mark.   *)
HaltMeansLoss ==
    loop.pc = "halt" /\ ~riskHalt => TruePnl < peak[1]
=============================================================================
