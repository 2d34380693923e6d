--------------------------- MODULE LiveDeskProofs ---------------------------
(***************************************************************************)
(* For any strategies, prices, limits, retries, scripts and faults: no tag *)
(* is drawn twice, once trading was stopped the loop's orders that still   *)
(* reach the venue are the one that was on its way, and the desk's state   *)
(* keeps its types: nothing is sold that is not held.                      *)
(***************************************************************************)
EXTENDS LiveDesk, FiniteSetTheorems, FoldTheorems, TLAPS

(***************************************************************************)
(* The inductive invariant.  Tags are not newer than the last one drawn;   *)
(* the loop's order on its way belongs to the trading loop or to its       *)
(* flattening, never to both; and when an order was taken late, no other   *)
(* one that would be late is on its way.                                   *)
(***************************************************************************)
LoopShape(l) ==
    l = [pc |-> l.pc, fills |-> l.fills, marks |-> l.marks, real |-> l.real, vols |-> l.vols,
         todo |-> l.todo, pending |-> l.pending, sid |-> l.sid, px |-> l.px,
         weights |-> l.weights]

FlatShape(f) == f = [pc |-> f.pc, todo |-> f.todo, real |-> f.real, pending |-> f.pending]

OrderShape(o) ==
    o = [sid |-> o.sid, symbol |-> o.symbol, side |-> o.side, qty |-> o.qty, seq |-> o.seq,
         attempt |-> o.attempt, taken |-> o.taken]

Shapes ==
    /\ LoopShape(loop)
    /\ flat = [t \in Threads |-> flat[t]]
    /\ \A t \in Threads : FlatShape(flat[t])
    /\ post = [t \in Threads |-> post[t]]
    /\ \A t \in Threads : post[t] = NoOrder \/ OrderShape(post[t])

TagsDrawn == lastSeq \in Nat /\ \A g \in tags : g[2] \in Nat /\ g[2] <= lastSeq

OneOwner ==
    /\ loop.pc \notin {"stops", "halting"} => flat["loop"].pc = "none"
    /\ post["loop"] # NoOrder => loop.pc = "post" \/ flat["loop"].pc = "close"

OnItsWay == loop.pc = "post" /\ post["loop"] # NoOrder /\ ~post["loop"].taken

LateIsLast ==
    /\ \A o \in late : kill \/ o[1] \notin armed
    /\ \A o, p \in late : kill \/ o[1] = p[1] => o = p
    /\ \A o \in late : kill \/ o[1] = post["loop"].sid => ~OnItsWay

DeskInv == Shapes /\ TagsDrawn /\ OneOwner /\ LateIsLast

----------------------------------------------------------------------------
LEMMA DeskInvInit == Init => DeskInv
BY DEF Init, DeskInv, Shapes, TagsDrawn, OneOwner, LateIsLast, LoopShape, FlatShape,
       OrderShape, Idle, NotFlattening, NoOrder, Threads, OnItsWay

(* A step leaves the tags alone, or draws a new one for an order.           *)
Drawn(t) == \E s, side, qty : Draw(t, s, side, qty)

LEMMA NextSeqGrows ==
    ASSUME lastSeq \in Nat, NEW now \in Clock
    PROVE  NextSeq(now) \in Nat /\ NextSeq(now) > lastSeq
BY DEF Clock, NextSeq

LEMMA StepDraws ==
    ASSUME Next
    PROVE  UNCHANGED <<lastSeq, tags>> \/ \E t \in Threads : Drawn(t)
<1>1. CASE \E x \in Symbols : Tick(x)  BY <1>1 DEF Tick
<1>2. CASE \E o \in working : Fill(o)  BY <1>2 DEF Fill, bounds
<1>3. CASE LoopStep
  <2>1. ASSUME NEW sign \in {0, 1}, Decide(sign)
        PROVE  UNCHANGED <<lastSeq, tags>> \/ \E t \in Threads : Drawn(t)
    BY <2>1 DEF Decide, Submit, Pass, Drawn, Threads
  <2> QED
    BY <1>3, <2>1 DEF LoopStep, ReadOrders, ReadMarks, ReadPositions, RiskCheck, Halt, HaltEnds,
                      Gate, ReadOpenOrders, Turn, NoBars, Pass
<1>4. CASE \E t \in Threads : ThreadStep(t)
  <2> PICK t \in Threads : ThreadStep(t)  BY <1>4
  <2>1. CASE FlattenPending(t)
    BY <2>1 DEF FlattenPending, Drawn
  <2> QED BY <2>1 DEF ThreadStep, FlattenPositions, AttemptAnswered, AttemptLost
<1>5. CASE ApiCall
  BY <1>5 DEF ApiCall, Arm, Disarm, KillSwitch, Resume, Flatten, Restart
<1> QED BY <1>1, <1>2, <1>3, <1>4, <1>5 DEF Next

(* An order that appears at a thread was drawn by that thread.              *)
LEMMA NewIsDrawn ==
    ASSUME Next, Shapes, NEW t \in Threads, post[t] = NoOrder, post'[t] # NoOrder
    PROVE  Drawn(t)
<1>1. CASE \E x \in Symbols : Tick(x)  BY <1>1 DEF Tick, threads
<1>2. CASE \E o \in working : Fill(o)  BY <1>2 DEF Fill, threads
<1>3. CASE LoopStep
  <2>1. ASSUME NEW sign \in {0, 1}, Decide(sign) PROVE Drawn(t)
    <3>1. CASE UNCHANGED post  BY <3>1
    <3>2. CASE \E s, side, qty : Draw("loop", s, side, qty)
      <4>1. t = "loop"  BY <3>2 DEF Draw, Shapes
      <4> QED BY <3>2, <4>1 DEF Drawn
    <3> QED BY <2>1, <3>1, <3>2 DEF Decide, Submit, Pass
  <2> QED
    BY <1>3, <2>1 DEF LoopStep, ReadOrders, ReadMarks, ReadPositions, RiskCheck, Halt, HaltEnds,
                      Gate, ReadOpenOrders, Turn, NoBars, Pass
<1>4. CASE \E u \in Threads : ThreadStep(u)
  <2> PICK u \in Threads : ThreadStep(u)  BY <1>4
  <2>1. CASE FlattenPending(u)
    <3>1. CASE UNCHANGED post  BY <3>1
    <3>2. CASE \E s, side, qty : Draw(u, s, side, qty)
      <4>1. t = u  BY <3>2 DEF Draw, Shapes
      <4> QED BY <3>2, <4>1 DEF Drawn
    <3> QED BY <2>1, <3>1, <3>2 DEF FlattenPending
  <2>2. CASE FlattenPositions(u)  BY <2>2 DEF FlattenPositions
  <2>3. CASE AttemptAnswered(u)
    BY <2>3 DEF AttemptAnswered, Submitted, Shapes
  <2>4. CASE AttemptLost(u)
    <3>1. u # t  BY <2>4 DEF AttemptLost
    <3>2. post'[t] = post[t]
      BY <2>4, <3>1 DEF AttemptLost, Again, Submitted, Shapes
    <3> QED BY <3>2
  <2> QED BY <2>1, <2>2, <2>3, <2>4 DEF ThreadStep
<1>5. CASE ApiCall
  BY <1>5 DEF ApiCall, Arm, Disarm, KillSwitch, Resume, Flatten, Restart
<1> QED BY <1>1, <1>2, <1>3, <1>4, <1>5 DEF Next

(* A tag drawn now is in none of the orders of before.                      *)
LEMMA StepIsFresh ==
    ASSUME DeskInv, [Next]_vars, NEW t \in Threads, post[t] = NoOrder, post'[t] # NoOrder
    PROVE  <<post'[t].sid, post'[t].seq>> \notin tags
<1>1. Next  BY DEF vars
<1>2. PICK s, side, qty : Draw(t, s, side, qty)  BY <1>1, NewIsDrawn DEF DeskInv, Drawn
<1>3. PICK now \in Clock : post'[t].seq = NextSeq(now)  BY <1>2 DEF Draw, DeskInv, Shapes
<1>4. post'[t].seq > lastSeq  BY <1>3, NextSeqGrows DEF DeskInv, TagsDrawn
<1> QED BY <1>3, <1>4, NextSeqGrows DEF DeskInv, TagsDrawn

LEMMA TagsDrawnNext ==
    ASSUME DeskInv, [Next]_vars
    PROVE  TagsDrawn'
<1>1. CASE UNCHANGED <<lastSeq, tags>>  BY <1>1 DEF DeskInv, TagsDrawn
<1>2. ASSUME NEW t \in Threads, Drawn(t)  PROVE TagsDrawn'
  <2> PICK s, side, qty : Draw(t, s, side, qty)  BY <1>2 DEF Drawn
  <2> PICK now \in Clock : /\ lastSeq' = NextSeq(now)
                           /\ tags' = tags \union {<<s, NextSeq(now)>>}
    BY DEF Draw
  <2> QED BY NextSeqGrows DEF DeskInv, TagsDrawn
<1> QED BY <1>1, <1>2, StepDraws DEF vars

----------------------------------------------------------------------------
(* The rest of the invariant, action by action.                             *)
Flow == Shapes /\ OneOwner /\ LateIsLast

LEMMA VenueInv ==
    ASSUME Flow, UNCHANGED <<control, threads, late>>
    PROVE  Flow'
BY DEF Flow, Shapes, OneOwner, LateIsLast, OnItsWay, control, threads

(* The loop reads, decides to do nothing, or ends its cycle.                *)
LEMMA CycleInv ==
    ASSUME Flow, post["loop"] = NoOrder, flat["loop"].pc = "none",
           UNCHANGED <<armed, kill, flat, post, late>>, LoopShape(loop')
    PROVE  Flow'
BY DEF Flow, Shapes, OneOwner, LateIsLast, OnItsWay

LEMMA IdleShape == LoopShape(Idle) /\ Idle.pc = "orders"
BY DEF LoopShape, Idle

LEMMA AtRest ==
    ASSUME Flow, loop.pc \notin {"post", "stops", "halting"}
    PROVE  post["loop"] = NoOrder /\ flat["loop"].pc = "none"
BY DEF Flow, OneOwner

LEMMA ReadOrdersInv == ASSUME Flow, ReadOrders PROVE Flow'
<1>1. LoopShape(loop')  BY IdleShape DEF ReadOrders, CycleFails, LoopShape, Idle
<1> QED BY <1>1, AtRest, CycleInv DEF ReadOrders, control

LEMMA ReadMarksInv == ASSUME Flow, ReadMarks PROVE Flow'
<1>1. LoopShape(loop')  BY IdleShape DEF ReadMarks, CycleFails, LoopShape, Flow, Shapes
<1> QED BY <1>1, AtRest, CycleInv DEF ReadMarks, control

LEMMA ReadPositionsInv == ASSUME Flow, ReadPositions PROVE Flow'
<1>1. LoopShape(loop')  BY IdleShape DEF ReadPositions, CycleFails, LoopShape, Flow, Shapes
<1> QED BY <1>1, AtRest, CycleInv DEF ReadPositions, control

LEMMA ReadOpenOrdersInv == ASSUME Flow, ReadOpenOrders PROVE Flow'
<1>1. LoopShape(loop')  BY DEF ReadOpenOrders, LoopShape, Flow, Shapes
<1> QED BY <1>1, AtRest, CycleInv DEF ReadOpenOrders, control

LEMMA TurnInv == ASSUME Flow, Turn PROVE Flow'
<1>1. LoopShape(loop')  BY IdleShape DEF Turn, LoopShape, Flow, Shapes
<1> QED BY <1>1, AtRest, CycleInv DEF Turn, control

LEMMA PassInv == ASSUME Flow, loop.pc = "decide", Pass, UNCHANGED <<armed, kill, flat, late>> PROVE Flow'
<1>1. LoopShape(loop')  BY DEF Pass, NextTurn, LoopShape, Flow, Shapes
<1> QED BY <1>1, AtRest, CycleInv DEF Pass

LEMMA GateInv == ASSUME Flow, Gate PROVE Flow'
<1>1. LoopShape(loop') /\ loop'.pc \in {"orders", "pending"}
  BY IdleShape DEF Gate, LoopShape, Flow, Shapes
<1>2. post["loop"] = NoOrder  BY DEF Gate, Flow, OneOwner
<1> QED BY <1>1, <1>2, CycleInv DEF Gate

LEMMA HaltEndsInv == ASSUME Flow, HaltEnds PROVE Flow'
<1>2. post["loop"] = NoOrder  BY DEF HaltEnds, Flow, OneOwner
<1> QED BY <1>2, IdleShape, CycleInv DEF HaltEnds

LEMMA ListShape ==
    ASSUME NEW ids
    PROVE  FlatShape(FlattenList(ids)) /\ (ids = <<>> => FlattenList(ids).pc = "none")
BY DEF FlatShape, FlattenList, NotFlattening

LEMMA FlatUpdate ==
    ASSUME Flow, NEW t \in Threads, NEW f, FlatShape(f), flat' = [flat EXCEPT ![t] = f]
    PROVE  /\ flat' = [u \in Threads |-> flat'[u]]
           /\ \A u \in Threads : FlatShape(flat'[u])
           /\ flat'[t] = f
           /\ \A u \in Threads \ {t} : flat'[u] = flat[u]
BY DEF Flow, Shapes

LEMMA RiskCheckInv == ASSUME Flow, RiskCheck PROVE Flow'
<1>1. LoopShape(loop') /\ loop'.pc \in {"halt", "gate", "stops"}
  BY DEF RiskCheck, LoopShape, Flow, Shapes
<1>2. post["loop"] = NoOrder /\ flat["loop"].pc = "none"  BY AtRest DEF RiskCheck
<1>3. /\ flat' = [u \in Threads |-> flat'[u]]
      /\ \A u \in Threads : FlatShape(flat'[u])
      /\ loop'.pc # "stops" => flat'["loop"].pc = "none"
  <2>1. PICK ids : \/ flat' = flat
                   \/ /\ flat' = [flat EXCEPT !["loop"] = FlattenList(ids)]
                      /\ loop'.pc = "stops" \/ ids = <<>>
    <3> DEFINE stops == Stops(SleevePeaks)
    <3>1. \/ flat' = flat
          \/ /\ flat' = [flat EXCEPT !["loop"] = FlattenList(stops)]
             /\ loop'.pc = "stops" \/ stops = <<>>
      <4> HIDE DEF stops
      <4> QED BY DEF RiskCheck, LoopShape, Flow, Shapes, stops
    <3> QED BY <3>1
  <2>2. CASE flat' = flat  BY <1>2, <2>2 DEF Flow, Shapes
  <2>3. CASE flat' = [flat EXCEPT !["loop"] = FlattenList(ids)]
    BY <1>2, <2>1, <2>3, ListShape, FlatUpdate DEF Threads
  <2> QED BY <2>1, <2>2, <2>3
<1> QED BY <1>1, <1>2, <1>3 DEF Flow, Shapes, OneOwner, LateIsLast, OnItsWay, RiskCheck

LEMMA HaltInv == ASSUME Flow, Halt PROVE Flow'
<1>1. LoopShape(loop') /\ loop'.pc = "halting"  BY DEF Halt, LoopShape, Flow, Shapes
<1>2. post["loop"] = NoOrder /\ flat["loop"].pc = "none"  BY AtRest DEF Halt
<1>3. /\ flat' = [u \in Threads |-> flat'[u]]
      /\ \A u \in Threads : FlatShape(flat'[u])
  BY ListShape, FlatUpdate DEF Halt, Threads
<1> QED BY <1>1, <1>2, <1>3 DEF Flow, Shapes, OneOwner, LateIsLast, OnItsWay, Halt, Kill

(* An order is drawn while none is on its way.                              *)
LEMMA DrawShape ==
    ASSUME Flow, NEW t \in Threads, NEW s, NEW side, NEW qty, Draw(t, s, side, qty)
    PROVE  /\ post' = [u \in Threads |-> post'[u]]
           /\ \A u \in Threads : post'[u] = NoOrder \/ OrderShape(post'[u])
           /\ post'[t].sid = s
           /\ \A u \in Threads \ {t} : post'[u] = post[u]
<1>1. PICK now \in Clock : post' = [post EXCEPT ![t] =
          [sid |-> s, symbol |-> SymOf[s], side |-> side, qty |-> qty,
           seq |-> NextSeq(now), attempt |-> 1, taken |-> FALSE]]
  BY DEF Draw
<1> DEFINE o == [sid |-> s, symbol |-> SymOf[s], side |-> side, qty |-> qty,
                 seq |-> NextSeq(now), attempt |-> 1, taken |-> FALSE]
<1>2. OrderShape(o) /\ o.sid = s  BY DEF OrderShape
<1>3. post' = [post EXCEPT ![t] = o]  BY <1>1
<1> HIDE DEF o
<1> QED BY <1>2, <1>3 DEF Flow, Shapes

LEMMA SubmitInv ==
    ASSUME Flow, loop.pc = "decide", NEW side, NEW qty, NEW px, Submit(side, qty, px),
           UNCHANGED <<armed, kill, flat, late>>
    PROVE  Flow'
<1>1. CASE Halted(loop.sid)
  <2>1. loop' = Idle /\ UNCHANGED post  BY <1>1 DEF Submit
  <2> QED BY <2>1, IdleShape, AtRest, CycleInv
<1>2. CASE ~Halted(loop.sid)
  <2>1. ~kill /\ loop.sid \in armed  BY <1>2 DEF Halted
  <2>2. Draw("loop", loop.sid, side, qty)  BY <1>2 DEF Submit
  <2>3. LoopShape(loop') /\ loop'.pc = "post"
    BY <1>2 DEF Submit, LoopShape, Flow, Shapes
  <2>4. /\ post' = [u \in Threads |-> post'[u]]
        /\ \A u \in Threads : post'[u] = NoOrder \/ OrderShape(post'[u])
        /\ post'["loop"].sid = loop.sid
    BY <2>2, DrawShape DEF Threads
  <2> QED BY <2>1, <2>3, <2>4, AtRest DEF Flow, Shapes, OneOwner, LateIsLast, OnItsWay
<1> QED BY <1>1, <1>2

LEMMA DecideInv == ASSUME Flow, NEW sign \in {0, 1}, Decide(sign) PROVE Flow'
<1>1. loop.pc = "decide" /\ UNCHANGED <<armed, kill, flat, late>>  BY DEF Decide, control
<1>2. CASE Pass  BY <1>1, <1>2, PassInv
<1>3. CASE \E side, qty, px : Submit(side, qty, px)  BY <1>1, <1>3, SubmitInv
<1> QED BY <1>2, <1>3 DEF Decide

LEMMA LoopStepInv == ASSUME Flow, LoopStep PROVE Flow'
<1>1. CASE NoBars
  BY <1>1, PassInv DEF NoBars, control
<1> QED
  BY <1>1, ReadOrdersInv, ReadMarksInv, ReadPositionsInv, RiskCheckInv, HaltInv, HaltEndsInv,
     GateInv, ReadOpenOrdersInv, TurnInv, DecideInv DEF LoopStep

----------------------------------------------------------------------------
(* The steps both threads take.                                             *)
LEMMA FlatMovesInv ==
    ASSUME Flow, NEW t \in Threads, NEW f, FlatShape(f), flat' = [flat EXCEPT ![t] = f],
           UNCHANGED <<kill, loop, late>>, armed' \subseteq armed,
           UNCHANGED post \/ (post'[t] = NoOrder /\ post' = [post EXCEPT ![t] = NoOrder]),
           t = "loop" => loop.pc \in {"stops", "halting"} /\ post'[t] = NoOrder
    PROVE  Flow'
<1>1. Shapes'  BY FlatUpdate DEF Flow, Shapes
<1>2. flat'["loop"] = flat["loop"] \/ t = "loop"  BY FlatUpdate DEF Threads
<1>3. post'["loop"] = post["loop"] \/ (t = "loop" /\ post'["loop"] = NoOrder)
  BY DEF Flow, Shapes, Threads
<1>4. OneOwner'  BY <1>2, <1>3 DEF Flow, OneOwner
<1>5. OnItsWay' => OnItsWay /\ post'["loop"] = post["loop"]  BY <1>3 DEF OnItsWay
<1>6. LateIsLast'  BY <1>3, <1>5 DEF Flow, LateIsLast, OnItsWay
<1> QED BY <1>1, <1>4, <1>6 DEF Flow

LEMMA PostUpdate ==
    ASSUME Flow, NEW t \in Threads, NEW o, o = NoOrder \/ OrderShape(o),
           post' = [post EXCEPT ![t] = o]
    PROVE  /\ post' = [u \in Threads |-> post'[u]]
           /\ \A u \in Threads : post'[u] = NoOrder \/ OrderShape(post'[u])
           /\ post'[t] = o
           /\ \A u \in Threads \ {t} : post'[u] = post[u]
BY DEF Flow, Shapes

(* The loop flattens only in its two flattening places.                     *)
LEMMA LoopFlattens ==
    ASSUME Flow, flat["loop"].pc # "none"
    PROVE  /\ loop.pc \in {"stops", "halting"}
           /\ flat["loop"].pc # "close" => post["loop"] = NoOrder
BY DEF Flow, OneOwner

LEMMA FlattenPositionsInv ==
    ASSUME Flow, NEW t \in Threads, FlattenPositions(t)
    PROVE  Flow'
<1>1. /\ flat[t].pc = "positions"
      /\ UNCHANGED <<kill, loop, post, late>>
  BY DEF FlattenPositions
<1>2. t = "loop" => loop.pc \in {"stops", "halting"} /\ post'[t] = NoOrder
  BY <1>1, LoopFlattens
<1>3. CASE flat' = [flat EXCEPT ![t].pc = "pending", ![t].real = PositionsNow] /\ UNCHANGED armed
  <2>0. PICK f : f = [flat[t] EXCEPT !.pc = "pending", !.real = PositionsNow]  OBVIOUS
  <2>1. flat' = [flat EXCEPT ![t] = f]  BY <1>3, <2>0, Zenon DEF Flow, Shapes
  <2>2. FlatShape(f)  BY <2>0 DEF FlatShape, Flow, Shapes
  <2> QED BY <1>1, <1>2, <1>3, <2>1, <2>2, FlatMovesInv
<1>4. CASE FlatAdvance(t)
  <2> DEFINE f == FlattenList(Tail(flat[t].todo))
  <2>1. flat' = [flat EXCEPT ![t] = f] /\ armed' \subseteq armed  BY <1>4 DEF FlatAdvance
  <2>2. FlatShape(f)  BY ListShape
  <2> HIDE DEF f
  <2> QED BY <1>1, <1>2, <2>1, <2>2, FlatMovesInv
<1> QED BY <1>3, <1>4 DEF FlattenPositions

LEMMA FlattenPendingInv ==
    ASSUME Flow, NEW t \in Threads, FlattenPending(t)
    PROVE  Flow'
<1>1. flat[t].pc = "pending" /\ UNCHANGED <<kill, loop, late>>  BY DEF FlattenPending
<1>2. t = "loop" => loop.pc \in {"stops", "halting"} /\ post["loop"] = NoOrder
  BY <1>1, LoopFlattens
<1>3. CASE FlatAdvance(t) /\ UNCHANGED post
  <2> DEFINE f == FlattenList(Tail(flat[t].todo))
  <2>1. flat' = [flat EXCEPT ![t] = f] /\ armed' \subseteq armed  BY <1>3 DEF FlatAdvance
  <2>2. FlatShape(f)  BY ListShape
  <2> HIDE DEF f
  <2> QED BY <1>1, <1>2, <1>3, <2>1, <2>2, FlatMovesInv
<1>4. CASE /\ \E s, side, qty : Draw(t, s, side, qty)
           /\ flat' = [flat EXCEPT ![t].pc = "close", ![t].real = <<>>]
           /\ UNCHANGED armed
  <2>0. PICK f : f = [flat[t] EXCEPT !.pc = "close", !.real = <<>>]  OBVIOUS
  <2>1. flat' = [flat EXCEPT ![t] = f]  BY <1>4, <2>0, Zenon DEF Flow, Shapes
  <2>9. FlatShape(flat[t])  BY DEF Flow, Shapes
  <2>2. FlatShape(f) /\ f.pc = "close"  BY <2>0, <2>9 DEF FlatShape
  <2>3. /\ flat' = [u \in Threads |-> flat'[u]]
        /\ \A u \in Threads : FlatShape(flat'[u])
        /\ flat'[t].pc = "close"
        /\ \A u \in Threads \ {t} : flat'[u] = flat[u]
    BY <2>1, <2>2, FlatUpdate
  <2>4. /\ post' = [u \in Threads |-> post'[u]]
        /\ \A u \in Threads : post'[u] = NoOrder \/ OrderShape(post'[u])
        /\ \A u \in Threads \ {t} : post'[u] = post[u]
    BY <1>4, DrawShape
  <2>5. OneOwner'  BY <1>1, <1>2, <2>3, <2>4 DEF OneOwner, Flow, Threads
  <2>6. ~OnItsWay' \/ (t # "loop" /\ OnItsWay /\ post'["loop"] = post["loop"])
    BY <1>1, <1>2, <2>4 DEF OnItsWay, Threads
  <2>7. LateIsLast'  BY <1>1, <1>4, <2>6 DEF LateIsLast, Flow, OnItsWay
  <2> QED BY <1>1, <2>3, <2>4, <2>5, <2>7 DEF Flow, Shapes
<1>5. \/ FlatAdvance(t) /\ UNCHANGED post
      \/ /\ \E s, side, qty : Draw(t, s, side, qty)
         /\ flat' = [flat EXCEPT ![t].pc = "close", ![t].real = <<>>]
         /\ UNCHANGED armed
  BY DEF FlattenPending
<1> QED BY <1>3, <1>4, <1>5

(* An order of the loop's trading is answered, tried again or given up.     *)
LEMMA TradingInv ==
    ASSUME Flow, loop.pc = "post", post["loop"] # NoOrder,
           UNCHANGED <<armed, kill, flat>>, LoopShape(loop'),
           NEW o, o = NoOrder \/ OrderShape(o), post' = [post EXCEPT !["loop"] = o],
           IF o = NoOrder THEN loop'.pc = "turn"
           ELSE loop' = loop /\ o.sid = post["loop"].sid /\ (post["loop"].taken => o.taken),
           \/ UNCHANGED late
           \/ ~post["loop"].taken /\ Taken("loop") /\ (o # NoOrder => o.taken)
    PROVE  Flow'
<1>1. /\ post' = [u \in Threads |-> post'[u]]
      /\ \A u \in Threads : post'[u] = NoOrder \/ OrderShape(post'[u])
      /\ post'["loop"] = o
  BY PostUpdate DEF Threads
<1>2. Shapes'  BY <1>1 DEF Flow, Shapes
<1>3. OneOwner'  BY <1>1 DEF Flow, OneOwner
<1>4. CASE UNCHANGED late
  <2>1. OnItsWay' => OnItsWay /\ post'["loop"].sid = post["loop"].sid
    BY <1>1 DEF OnItsWay
  <2> QED BY <1>2, <1>3, <1>4, <2>1 DEF Flow, LateIsLast, OnItsWay
<1>5. CASE ~post["loop"].taken /\ Taken("loop") /\ (o # NoOrder => o.taken)
  <2>1. OnItsWay /\ ~OnItsWay'  BY <1>1, <1>5 DEF OnItsWay
  <2>2. \/ late' = late
        \/ /\ late' = late \union {<<post["loop"].sid, post["loop"].seq>>}
           /\ kill \/ post["loop"].sid \notin armed
    BY <1>5 DEF Taken
  <2>3. \A x \in late : ~kill /\ x[1] # post["loop"].sid  BY <2>1 DEF Flow, LateIsLast
  <2> QED BY <1>2, <1>3, <2>1, <2>2, <2>3 DEF Flow, LateIsLast
<1> QED BY <1>4, <1>5

LEMMA NotAnOrder == ASSUME NEW o, OrderShape(o) PROVE o # NoOrder
BY DEF OrderShape, NoOrder

(* What both endings of an attempt may do with the order.                   *)
Moved(t, o, taken) ==
    \/ /\ o = NoOrder
       /\ Submitted(t, FALSE) \/ Submitted(t, TRUE)
    \/ /\ OrderShape(o) /\ o.sid = post[t].sid /\ o.taken = taken
       /\ post' = [post EXCEPT ![t] = o]
       /\ UNCHANGED <<loop, flat, armed>>

LEMMA AgainMoves ==
    ASSUME Flow, NEW t \in Threads, post[t] # NoOrder, NEW taken, Again(t, taken)
    PROVE  \E o : Moved(t, o, taken)
<1>1. CASE Submitted(t, FALSE)
  <2>1. Moved(t, NoOrder, taken)  BY <1>1 DEF Moved
  <2> QED BY <2>1
<1>2. CASE /\ post' = [post EXCEPT ![t].attempt = @ + 1, ![t].taken = taken]
           /\ UNCHANGED <<loop, flat, armed>>
  <2>0. PICK o : o = [post[t] EXCEPT !.attempt = @ + 1, !.taken = taken]  OBVIOUS
  <2>1. post' = [post EXCEPT ![t] = o]  BY <1>2, <2>0, Zenon DEF Flow, Shapes
  <2>2. OrderShape(post[t])  BY DEF Flow, Shapes
  <2>3. OrderShape(o) /\ o.sid = post[t].sid /\ o.taken = taken
    BY <2>0, <2>2 DEF OrderShape
  <2>4. Moved(t, o, taken)  BY <1>2, <2>1, <2>3 DEF Moved
  <2> QED BY <2>4
<1> QED BY <1>1, <1>2 DEF Again

LEMMA AttemptInv ==
    ASSUME Flow, NEW t \in Threads, post[t] # NoOrder, UNCHANGED kill,
           NEW o, NEW taken, Moved(t, o, taken),
           \/ UNCHANGED late /\ (post[t].taken => taken)
           \/ ~post[t].taken /\ Taken(t) /\ taken
    PROVE  Flow'
<1>1. o = NoOrder \/ OrderShape(o)  BY DEF Moved
<1>2. post' = [post EXCEPT ![t] = o]  BY NotAnOrder DEF Moved, Submitted
<1>3. CASE Trading(t)
  <2>1. t = "loop" /\ loop.pc = "post"  BY <1>3 DEF Trading
  <2>2. CASE o = NoOrder /\ (Submitted(t, FALSE) \/ Submitted(t, TRUE))
    <3>1. UNCHANGED <<flat, armed>>  BY <1>3, <2>2 DEF Submitted
    <3>2. LoopShape(loop') /\ loop'.pc = "turn"
      BY <1>3, <2>2 DEF Submitted, LoopShape, Flow, Shapes
    <3> QED BY <1>1, <1>2, <2>1, <2>2, <3>1, <3>2, TradingInv
  <2>3. CASE /\ OrderShape(o) /\ o.sid = post[t].sid /\ o.taken = taken
             /\ UNCHANGED <<loop, flat, armed>>
    <3>1. LoopShape(loop') /\ o # NoOrder  BY <2>3, NotAnOrder DEF Flow, Shapes
    <3> QED BY <1>1, <1>2, <2>1, <2>3, <3>1, TradingInv
  <2> QED BY <2>2, <2>3 DEF Moved
<1>4. CASE ~Trading(t)
  <2>1. UNCHANGED late  BY <1>4 DEF Taken
  <2>2. t = "loop" => flat["loop"].pc = "close" /\ loop.pc \in {"stops", "halting"}
    BY <1>4, LoopFlattens DEF Trading, Flow, OneOwner
  <2>3. CASE Submitted(t, FALSE) \/ Submitted(t, TRUE)
    <3> DEFINE f == FlattenList(Tail(flat[t].todo))
    <3>1. /\ flat' = [flat EXCEPT ![t] = f] /\ armed' \subseteq armed
          /\ UNCHANGED loop
          /\ post' = [post EXCEPT ![t] = NoOrder]
      BY <1>4, <2>3 DEF Submitted, FlatAdvance
    <3>2. FlatShape(f)  BY ListShape
    <3>3. post'[t] = NoOrder  BY <3>1, PostUpdate
    <3> HIDE DEF f
    <3> QED BY <2>1, <2>2, <3>1, <3>2, <3>3, FlatMovesInv
  <2>4. CASE OrderShape(o) /\ o.sid = post[t].sid /\ UNCHANGED <<loop, flat, armed>>
    <3>1. /\ post' = [u \in Threads |-> post'[u]]
          /\ \A u \in Threads : post'[u] = NoOrder \/ OrderShape(post'[u])
          /\ t # "loop" => post'["loop"] = post["loop"]
      BY <1>1, <1>2, PostUpdate DEF Threads
    <3>2. OneOwner'  BY <2>2, <2>4, <3>1 DEF OneOwner, Flow
    <3>3. OnItsWay' => OnItsWay /\ post'["loop"] = post["loop"]
      BY <2>2, <2>4, <3>1 DEF OnItsWay
    <3>4. LateIsLast'  BY <2>1, <2>4, <3>3 DEF LateIsLast, Flow, OnItsWay
    <3> QED BY <2>4, <3>1, <3>2, <3>4 DEF Flow, Shapes
  <2> QED BY <2>3, <2>4 DEF Moved
<1> QED BY <1>3, <1>4

LEMMA AttemptAnsweredInv ==
    ASSUME Flow, NEW t \in Threads, AttemptAnswered(t)
    PROVE  Flow'
<1>1. post[t] # NoOrder /\ UNCHANGED kill  BY DEF AttemptAnswered
<1>2. CASE Refused(post[t])
  <2>1. Submitted(t, FALSE) /\ UNCHANGED late  BY <1>2 DEF AttemptAnswered
  <2>2. Moved(t, NoOrder, post[t].taken)  BY <2>1 DEF Moved
  <2> QED BY <1>1, <2>1, <2>2, AttemptInv
<1>3. CASE ~Refused(post[t])
  <2>1. Submitted(t, TRUE) /\ Taken(t)  BY <1>3 DEF AttemptAnswered
  <2>2. ~post[t].taken  BY <1>3 DEF Refused
  <2>3. Moved(t, NoOrder, TRUE)  BY <2>1 DEF Moved
  <2> QED BY <1>1, <2>1, <2>2, <2>3, AttemptInv
<1> QED BY <1>2, <1>3

LEMMA AttemptLostInv ==
    ASSUME Flow, NEW t \in Threads, AttemptLost(t)
    PROVE  Flow'
<1>1. post[t] # NoOrder /\ UNCHANGED kill  BY DEF AttemptLost
<1>2. CASE Again(t, post[t].taken) /\ UNCHANGED late
  <2>1. PICK o : Moved(t, o, post[t].taken)  BY <1>1, <1>2, AgainMoves
  <2> QED BY <1>1, <1>2, <2>1, AttemptInv
<1>3. CASE ~Refused(post[t]) /\ Taken(t) /\ Again(t, TRUE)
  <2>1. PICK o : Moved(t, o, TRUE)  BY <1>1, <1>3, AgainMoves
  <2>2. ~post[t].taken  BY <1>3 DEF Refused
  <2> QED BY <1>1, <1>3, <2>1, <2>2, AttemptInv
<1> QED BY <1>2, <1>3 DEF AttemptLost

----------------------------------------------------------------------------
(* The calls of the API.                                                    *)
LEMMA ControlInv ==
    ASSUME Flow, UNCHANGED <<loop, flat, post>>,
           late' \subseteq late, \A o \in late' : kill' \/ o[1] \notin armed',
           kill' => kill \/ late' = {}
    PROVE  Flow'
BY DEF Flow, Shapes, OneOwner, LateIsLast, OnItsWay

LEMMA RestartInv == ASSUME Restart PROVE Flow'
<1>1. Shapes'
  BY DEF Restart, Shapes, LoopShape, FlatShape, Idle, NotFlattening
<1> QED
  BY <1>1 DEF Restart, Flow, OneOwner, LateIsLast, OnItsWay, Idle, NotFlattening, Threads

LEMMA ApiCallInv == ASSUME Flow, ApiCall PROVE Flow'
<1>1. CASE Arm  BY <1>1, ControlInv DEF Arm, StillHalted
<1>2. CASE Disarm  BY <1>2, ControlInv DEF Disarm, Flow, LateIsLast
<1>3. CASE KillSwitch  BY <1>3, ControlInv DEF KillSwitch, Kill
<1>4. CASE Resume  BY <1>4, ControlInv DEF Resume, StillHalted
<1>5. CASE Flatten
  <2> DEFINE f == FlattenList(<<Argument>>)
  <2>1. flat' = [flat EXCEPT !["api"] = f] /\ UNCHANGED <<armed, kill, loop, post, late>>
    BY <1>5 DEF Flatten, control
  <2>2. FlatShape(f)  BY ListShape
  <2> HIDE DEF f
  <2> QED BY <2>1, <2>2, FlatMovesInv DEF Threads
<1>6. CASE Restart  BY <1>6, RestartInv
<1> QED BY <1>1, <1>2, <1>3, <1>4, <1>5, <1>6 DEF ApiCall

----------------------------------------------------------------------------
LEMMA FlowNext == ASSUME Flow, [Next]_vars PROVE Flow'
<1>1. CASE \E x \in Symbols : Tick(x)  BY <1>1, VenueInv DEF Tick
<1>2. CASE \E o \in working : Fill(o)  BY <1>2, VenueInv DEF Fill
<1>3. CASE LoopStep  BY <1>3, LoopStepInv
<1>4. CASE \E t \in Threads : ThreadStep(t)
  BY <1>4, FlattenPositionsInv, FlattenPendingInv, AttemptAnsweredInv, AttemptLostInv
     DEF ThreadStep
<1>5. CASE ApiCall  BY <1>5, ApiCallInv
<1>6. CASE UNCHANGED vars  BY <1>6, VenueInv DEF vars, control, threads
<1> QED BY <1>1, <1>2, <1>3, <1>4, <1>5, <1>6 DEF Next

(* The invariant holds in every state.                                      *)
THEOREM DeskInvAlways == Spec => []DeskInv
<1>1. DeskInv /\ [Next]_vars => DeskInv'
  BY TagsDrawnNext, FlowNext DEF DeskInv, Flow
<1> QED BY <1>1, DeskInvInit, PTL DEF Spec

(* No tag is drawn twice, by either thread, before or after a restart: the  *)
(* fills of one order are never credited as another's (engine.py order_tag, *)
(* _next_seq).                                                              *)
THEOREM TagsNeverRepeat == Spec => TagsAreFresh
<1>1. DeskInv /\ [Next]_vars =>
        [\A t \in Threads :
            (post'[t] # NoOrder /\ post[t] = NoOrder)
                => <<post'[t].sid, post'[t].seq>> \notin tags]_vars
  BY StepIsFresh
<1> QED BY <1>1, DeskInvAlways, PTL DEF Spec, TagsAreFresh

LEMMA AtMostOne ==
    ASSUME NEW S, \A x, y \in S : x = y
    PROVE  Cardinality(S) <= 1
<1>1. CASE S = {}  BY <1>1, FS_EmptySet
<1>2. CASE S # {}
  <2>1. PICK x : x \in S  BY <1>2
  <2>2. S = {x}  BY <2>1
  <2>3. Cardinality({x}) = 1  BY FS_Singleton
  <2> QED BY <2>2, <2>3
<1> QED BY <1>1, <1>2

(* After the kill switch or a disarm, whatever is armed in the meantime and *)
(* however often calls are lost and retried, at most the order that was on  *)
(* its way still reaches the broker (engine.py kill, _halted,               *)
(* _submit_order).                                                          *)
THEOREM KillIsFinal == Spec => []KillStopsTrading
<1>1. DeskInv => KillStopsTrading
  <2> SUFFICES ASSUME LateIsLast PROVE KillStopsTrading  BY DEF DeskInv
  <2>1. ASSUME kill PROVE Cardinality(late) <= 1
    <3>1. \A x, y \in late : x = y  BY <2>1 DEF LateIsLast
    <3> QED BY <3>1, AtMostOne
  <2>2. ASSUME NEW s \in Strategies PROVE Cardinality({o \in late : o[1] = s}) <= 1
    <3>1. \A x, y \in {o \in late : o[1] = s} : x = y  BY DEF LateIsLast
    <3> QED BY <3>1, AtMostOne
  <2> QED BY <2>1, <2>2 DEF KillStopsTrading
<1> QED BY <1>1, DeskInvAlways, PTL

----------------------------------------------------------------------------
(* What the two threads know, and what the broker accepts: the types with  *)
(* what they rest on.  Accepted sells never exceed what is held; a reading *)
(* is there when the loop or a flattening uses it; an order on its way can *)
(* be sent; the API's order belongs to its flattening.                     *)
Reading == [qty : Int, available : Int]

MarksOK(m) == DOMAIN m \subseteq Symbols /\ \A x \in DOMAIN m : m[x] \in Prices

LoopKnows(l) ==
    /\ l.todo \subseteq Strategies /\ l.sid \in Strategies \union {"none"}
    /\ l.pc \notin {"orders", "marks"} => MarksOK(l.marks)
    /\ l.pc \notin {"orders", "marks", "positions"} => l.real \in [Symbols -> Reading]
    /\ l.pc = "decide" => l.sid \in Strategies

FlatKnows(f) ==
    /\ f.todo \in Seq(Strategies)
    /\ f.pc # "none" => f.todo # <<>>
    /\ f.pc = "pending" => f.real \in [Symbols -> Reading]

Sendable(o) ==
    /\ o.sid \in Strategies /\ o.symbol \in Symbols /\ o.side \in {Buy, Sell}
    /\ o.qty \in Nat \ {0} /\ o.seq \in Nat /\ o.attempt \in 1 .. Retries

BrokerOK(p, h, W) ==
    /\ p \in [Symbols -> Prices] /\ h \in [Symbols -> Nat]
    /\ IsFiniteSet(W) /\ \A o \in W : o \in Orders
    /\ \A x \in Symbols : ToSell(W, x) <= h[x]

ControlOK ==
    /\ armed \subseteq Strategies
    /\ kill \in BOOLEAN /\ riskHalt \in BOOLEAN
    /\ DOMAIN books \in {{}, Strategies}
    /\ DOMAIN sleevePeak \in {{}, Strategies}

LocalsOK ==
    /\ LoopKnows(loop)
    /\ \A t \in Threads : FlatKnows(flat[t])
    /\ \A t \in Threads : post[t] = NoOrder \/ Sendable(post[t])
    /\ post["api"] # NoOrder => flat["api"].pc = "close"
    /\ script \in Seq(ApiCalls)

DeskKnown == BrokerOK(price, held, working) /\ ControlOK /\ LocalsOK

----------------------------------------------------------------------------
LEMMA SymOfType == \A s \in Strategies : SymOf[s] \in Symbols
BY DEF Symbols

LEMMA ToSellType ==
    ASSUME NEW W, IsFiniteSet(W), \A o \in W : o \in Orders, NEW x
    PROVE  ToSell(W, x) \in Nat
<1> DEFINE f == [o \in W |-> o.qty]
           S == {o \in W : o.symbol = x /\ o.side = Sell}
<1>1. IsFiniteSet(S)  BY FS_Subset
<1>2. \A o \in S : f[o] \in Nat  BY DEF Orders
<1>3. ToSell(W, x) = SumFunctionOnSet(f, S)  BY DEF ToSell
<1> HIDE DEF f, S
<1> QED BY <1>1, <1>2, <1>3, SumNat

(* One more order.                                                          *)
LEMMA ToSellMore ==
    ASSUME NEW W, IsFiniteSet(W), \A o \in W : o \in Orders, NEW p \in Orders, p \notin W, NEW x
    PROVE  ToSell(W \union {p}, x) =
             ToSell(W, x) + (IF p.symbol = x /\ p.side = Sell THEN p.qty ELSE 0)
<1> DEFINE V == W \union {p}
           f == [o \in W |-> o.qty]
           g == [o \in V |-> o.qty]
           S == {o \in W : o.symbol = x /\ o.side = Sell}
           T == {o \in V : o.symbol = x /\ o.side = Sell}
<1>1. IsFiniteSet(S)  BY FS_Subset
<1>2. \A o \in S : f[o] \in Int /\ g[o] = f[o]  BY DEF Orders
<1>3. \A o \in S \union {p} : g[o] \in Int  BY DEF Orders
<1>4. p \notin S /\ g[p] = p.qty  OBVIOUS
<1>5. T = IF p.symbol = x /\ p.side = Sell THEN S \union {p} ELSE S  OBVIOUS
<1>6. ToSell(W, x) = SumFunctionOnSet(f, S) /\ ToSell(V, x) = SumFunctionOnSet(g, T)
  BY DEF ToSell
<1>7. SumFunctionOnSet(f, S) \in Nat  BY <1>6, ToSellType
<1> HIDE DEF f, g, S, T, V
<1>8. SumFunctionOnSet(g, S) = SumFunctionOnSet(f, S)  BY <1>1, <1>2, SumSame
<1>9. SumFunctionOnSet(g, S \union {p}) = SumFunctionOnSet(g, S) + g[p]
  BY <1>1, <1>3, <1>4, SumAdd
<1> QED BY <1>4, <1>5, <1>6, <1>7, <1>8, <1>9 DEF V

(* One order less.                                                          *)
LEMMA ToSellLess ==
    ASSUME NEW W, IsFiniteSet(W), \A o \in W : o \in Orders, NEW p \in W, NEW x
    PROVE  ToSell(W, x) =
             ToSell(W \ {p}, x) + (IF p.symbol = x /\ p.side = Sell THEN p.qty ELSE 0)
<1>1. IsFiniteSet(W \ {p})  BY FS_RemoveElement
<1>2. (W \ {p}) \union {p} = W  OBVIOUS
<1> QED BY <1>1, <1>2, ToSellMore

LEMMA NothingToSell == \A x : ToSell({}, x) = 0
BY SumEmpty DEF ToSell

LEMMA FillBroker ==
    ASSUME BrokerOK(price, held, working), NEW o \in working, Fill(o)
    PROVE  BrokerOK(price', held', working')
<1>1. o \in Orders  BY DEF BrokerOK
<1>2. /\ o.symbol \in Symbols /\ o.side \in {Buy, Sell} /\ o.qty \in Nat \ {0}
  BY <1>1 DEF Orders
<1>3. IsFiniteSet(working \ {o}) /\ \A p \in working \ {o} : p \in Orders
  BY FS_RemoveElement DEF BrokerOK
<1>4. \A x \in Symbols : ToSell(working \ {o}, x) \in Nat  BY <1>3, ToSellType
<1>5. \A x \in Symbols : ToSell(working, x) =
         ToSell(working \ {o}, x) + (IF o.symbol = x /\ o.side = Sell THEN o.qty ELSE 0)
  BY ToSellLess DEF BrokerOK
<1>6. working' = working \ {o} /\ price' = price
      /\ held' = [held EXCEPT ![o.symbol] = @ + Signed(o)]
  BY DEF Fill
<1>7. Signed(o) = IF o.side = Sell THEN -o.qty ELSE o.qty  BY <1>2 DEF Signed, Buy, Sell
<1>8. held \in [Symbols -> Nat] /\ \A x \in Symbols : ToSell(working, x) <= held[x]
  BY DEF BrokerOK
<1>9. ASSUME NEW x \in Symbols
      PROVE  held'[x] \in Nat /\ ToSell(working \ {o}, x) <= held'[x]
  <2>1. CASE x = o.symbol
    <3>1. held'[x] = held[x] + Signed(o)  BY <1>6, <1>8, <2>1
    <3> QED BY <1>2, <1>4, <1>5, <1>7, <1>8, <2>1, <3>1
  <2>2. CASE x # o.symbol
    <3>1. held'[x] = held[x]  BY <1>6, <1>8, <2>2
    <3> QED BY <1>4, <1>5, <1>8, <2>2, <3>1
  <2> QED BY <2>1, <2>2
<1>10. held' \in [Symbols -> Nat]  BY <1>6, <1>8, <1>9
<1> QED BY <1>3, <1>6, <1>9, <1>10 DEF BrokerOK

(* An order is taken only if what is still held covers it.                  *)
LEMMA TakenBroker ==
    ASSUME BrokerOK(price, held, working), NEW t \in Threads, Sendable(post[t]),
           ~Refused(post[t]), Taken(t), UNCHANGED <<price, held>>
    PROVE  BrokerOK(price', held', working')
<1> DEFINE o == OrderOf(post[t])
<1>1. o \in Orders  BY DEF OrderOf, Sendable, Orders
<1>2. working' = working \union {o}  BY DEF Taken
<1>3. IsFiniteSet(working') /\ \A p \in working' : p \in Orders
  BY <1>1, <1>2, FS_AddElement DEF BrokerOK
<1>4. o.symbol = post[t].symbol /\ o.side = post[t].side /\ o.qty = post[t].qty  BY DEF OrderOf
<1> HIDE DEF o
<1>5. o.side = Sell => o.qty <= held[o.symbol] - ToSell(working, o.symbol)
  <2>1. ~(o.side = Sell /\ o.qty > held[o.symbol] - ToSell(working, o.symbol))
    BY <1>4 DEF Refused, Available
  <2>2. /\ o.qty \in Nat /\ held[o.symbol] \in Nat
        /\ ToSell(working, o.symbol) \in Nat
    BY <1>1, ToSellType DEF BrokerOK, Orders
  <2> QED BY <2>1, <2>2
<1>6. ASSUME NEW x \in Symbols PROVE ToSell(working', x) <= held[x]
  <2>1. CASE o \in working
    <3>1. working' = working  BY <1>2, <2>1
    <3> QED BY <3>1 DEF BrokerOK
  <2>2. CASE o \notin working
    <3>1. ToSell(working', x) =
             ToSell(working, x) + (IF o.symbol = x /\ o.side = Sell THEN o.qty ELSE 0)
      BY <1>1, <1>2, <2>2, ToSellMore DEF BrokerOK
    <3>2. ToSell(working, x) \in Nat /\ held[x] \in Nat /\ ToSell(working, x) <= held[x]
      BY ToSellType DEF BrokerOK
    <3>3. o.qty \in Nat  BY <1>1 DEF Orders
    <3> QED BY <1>5, <3>1, <3>2, <3>3
  <2> QED BY <2>1, <2>2
<1> QED BY <1>3, <1>6 DEF BrokerOK
----------------------------------------------------------------------------
LEMMA DeskKnownInit == Init => DeskKnown
<1> SUFFICES ASSUME Init PROVE DeskKnown  OBVIOUS
<1>1. BrokerOK(price, held, working)
  BY DeskAssumption, FS_EmptySet, NothingToSell DEF Init, BrokerOK
<1>2. ControlOK
  <2>1. DOMAIN <<>> = {}  OBVIOUS
  <2> QED BY <2>1 DEF Init, ControlOK
<1>3. LoopKnows(Idle) /\ FlatKnows(NotFlattening)
  BY DEF LoopKnows, FlatKnows, Idle, NotFlattening
<1>4. LocalsOK  BY <1>3, DeskAssumption DEF Init, LocalsOK, Threads
<1> QED BY <1>1, <1>2, <1>4 DEF DeskKnown

(* Only the loop's locals and the control flags change.                     *)
LEMMA LoopMoves ==
    ASSUME DeskKnown, UNCHANGED <<broker, flat, post, script>>, LoopKnows(loop'), ControlOK'
    PROVE  DeskKnown'
BY DEF DeskKnown, LocalsOK, broker

LEMMA ControlSame == ASSUME ControlOK, UNCHANGED <<control, books>> PROVE ControlOK'
BY DEF ControlOK, control

LEMMA IdleKnows == LoopKnows(Idle)
BY DEF LoopKnows, Idle

LEMMA PositionsNowType ==
    ASSUME BrokerOK(price, held, working)
    PROVE  PositionsNow \in [Symbols -> Reading]
<1>1. \A x \in Symbols : held[x] \in Nat /\ ToSell(working, x) \in Nat
  BY ToSellType DEF BrokerOK
<1>2. \A x \in Symbols : [qty |-> held[x], available |-> Available(x)] \in Reading
  BY <1>1 DEF Available, Reading
<1> QED BY <1>2 DEF PositionsNow

LEMMA ReadOrdersKnown == ASSUME DeskKnown, ReadOrders PROVE DeskKnown'
<1>1. LoopKnows(loop')
  BY IdleKnows DEF ReadOrders, CycleFails, LoopKnows, Idle, MarksOK, DeskKnown, BrokerOK
<1> QED BY <1>1, ControlSame, LoopMoves DEF ReadOrders, DeskKnown

LEMMA ReadMarksKnown == ASSUME Flow, DeskKnown, ReadMarks PROVE DeskKnown'
<1>1. LoopKnows(loop)  BY DEF DeskKnown, LocalsOK
<1>2. MarksOK(price) /\ \A x \in Symbols : MarksOK(Restrict(price, Symbols \ {x}))
  BY DEF DeskKnown, BrokerOK, MarksOK, Restrict
<1>3. LoopKnows(loop')
  <2>1. CASE CycleFails  BY <2>1, IdleKnows DEF CycleFails
  <2>2. ASSUME NEW m, MarksOK(m), loop' = [loop EXCEPT !.pc = "positions", !.marks = m]
        PROVE  LoopKnows(loop')
    BY <1>1, <2>2 DEF LoopKnows, Flow, Shapes, LoopShape
  <2> QED BY <1>2, <2>1, <2>2 DEF ReadMarks
<1> QED BY <1>3, ControlSame, LoopMoves DEF ReadMarks, DeskKnown

LEMMA ReadPositionsKnown == ASSUME Flow, DeskKnown, ReadPositions PROVE DeskKnown'
<1>1. LoopKnows(loop)  BY DEF DeskKnown, LocalsOK
<1>2. CASE CycleFails /\ UNCHANGED books
  BY <1>2, IdleKnows, ControlSame, LoopMoves DEF ReadPositions, CycleFails, DeskKnown
<1>3. CASE /\ books' = Rebuilt(loop.fills, PositionsNow, loop.marks)
           /\ loop' = [loop EXCEPT !.pc = "risk", !.fills = <<>>, !.real = PositionsNow]
  <2>1. DOMAIN books' = Strategies  BY <1>3 DEF Rebuilt, Attribute
  <2>2. ControlOK'  BY <2>1 DEF ReadPositions, ControlOK, control, DeskKnown
  <2>3. PositionsNow \in [Symbols -> Reading]  BY PositionsNowType DEF DeskKnown
  <2>4. loop.pc = "positions" /\ LoopShape(loop)  BY DEF ReadPositions, Flow, Shapes
  <2> HIDE DEF PositionsNow
  <2>5. LoopKnows(loop')  BY <1>1, <1>3, <2>3, <2>4 DEF LoopKnows, LoopShape
  <2> QED BY <2>2, <2>5, LoopMoves DEF ReadPositions
<1> QED BY <1>2, <1>3 DEF ReadPositions

LEMMA StopsType == ASSUME NEW peaks PROVE Stops(peaks) \in Seq(Strategies)
<1> DEFINE b == [i \in 1 .. Len(Registry) |->
                   IF SleeveBreached(Registry[i], peaks) THEN <<Registry[i]>> ELSE <<>>]
<1>1. Len(Registry) \in Nat /\ \A i \in 1 .. Len(Registry) : Registry[i] \in Strategies
  BY DeskAssumption, LenProperties
<1>2. b \in [1 .. Len(Registry) -> Seq(Strategies)]
  <2> SUFFICES ASSUME NEW i \in 1 .. Len(Registry) PROVE b[i] \in Seq(Strategies)  OBVIOUS
  <2>1. <<Registry[i]>> \in Seq(Strategies) /\ <<>> \in Seq(Strategies)  BY <1>1
  <2> QED BY <2>1
<1>3. Stops(peaks) = FlattenSeq(b)  BY DEF Stops
<1> HIDE DEF b
<1> QED BY <1>1, <1>2, <1>3, FlattenType

LEMMA ListKnows ==
    ASSUME NEW ids \in Seq(Strategies)
    PROVE  FlatKnows(FlattenList(ids))
BY DEF FlatKnows, FlattenList, NotFlattening

LEMMA RiskCheckKnown == ASSUME Flow, DeskKnown, RiskCheck PROVE DeskKnown'
<1>1. LoopKnows(loop) /\ LoopShape(loop) /\ loop.pc = "risk"
  BY DEF DeskKnown, LocalsOK, Flow, Shapes, RiskCheck
<1>2. \E v, pc : /\ pc \in {"halt", "gate", "stops"}
                 /\ loop' = [loop EXCEPT !.vols = v, !.pc = pc]
  BY DEF RiskCheck
<1>3. LoopKnows(loop')  BY <1>1, <1>2 DEF LoopKnows, LoopShape
<1>4. DOMAIN sleevePeak' \in {{}, Strategies}
  BY DEF RiskCheck, SleevePeaks, DeskKnown, ControlOK
<1>5. ControlOK'  BY <1>4 DEF RiskCheck, DeskKnown, ControlOK
<1>6. flat' = flat \/ flat' = [flat EXCEPT !["loop"] = FlattenList(Stops(SleevePeaks))]
  BY DEF RiskCheck
<1>7. FlatKnows(FlattenList(Stops(SleevePeaks)))  BY StopsType, ListKnows
<1>8. /\ \A t \in Threads : FlatKnows(flat'[t])
      /\ flat'["api"] = flat["api"]
  BY <1>6, <1>7 DEF Flow, Shapes, Threads, DeskKnown, LocalsOK
<1> QED BY <1>3, <1>5, <1>8 DEF RiskCheck, DeskKnown, LocalsOK, broker

LEMMA HaltKnown == ASSUME Flow, DeskKnown, Halt PROVE DeskKnown'
<1>1. LoopKnows(loop) /\ LoopShape(loop)  BY DEF DeskKnown, LocalsOK, Flow, Shapes
<1>2. LoopKnows(loop')  BY <1>1 DEF Halt, LoopKnows, LoopShape
<1>3. ControlOK'  BY DEF Halt, Kill, DeskKnown, ControlOK
<1> DEFINE ids == IF TotalGross > 0 THEN Registry ELSE <<>>
<1>4. ids \in Seq(Strategies) /\ flat' = [flat EXCEPT !["loop"] = FlattenList(ids)]
  BY DeskAssumption DEF Halt
<1> HIDE DEF ids
<1>5. /\ \A t \in Threads : FlatKnows(flat'[t])
      /\ flat'["api"] = flat["api"]
  BY <1>4, ListKnows DEF Flow, Shapes, Threads, DeskKnown, LocalsOK
<1> QED BY <1>2, <1>3, <1>5 DEF Halt, DeskKnown, LocalsOK, broker

LEMMA HaltEndsKnown == ASSUME DeskKnown, HaltEnds PROVE DeskKnown'
<1>1. ControlOK'  BY DEF HaltEnds, DeskKnown, ControlOK
<1> QED BY <1>1, IdleKnows, LoopMoves DEF HaltEnds

LEMMA GateKnown == ASSUME Flow, DeskKnown, Gate PROVE DeskKnown'
<1>1. LoopKnows(loop) /\ LoopShape(loop)  BY DEF DeskKnown, LocalsOK, Flow, Shapes
<1>2. ControlOK'  BY DEF Gate, DeskKnown, ControlOK
<1>3. LoopKnows(loop')
  BY <1>1, IdleKnows DEF Gate, LoopKnows, LoopShape, DeskKnown, ControlOK
<1> QED BY <1>2, <1>3, LoopMoves DEF Gate

LEMMA ReadOpenOrdersKnown == ASSUME Flow, DeskKnown, ReadOpenOrders PROVE DeskKnown'
<1>1. LoopKnows(loop) /\ LoopShape(loop)  BY DEF DeskKnown, LocalsOK, Flow, Shapes
<1>2. LoopKnows(loop')  BY <1>1 DEF ReadOpenOrders, LoopKnows, LoopShape
<1> QED BY <1>2, ControlSame, LoopMoves DEF ReadOpenOrders, DeskKnown

LEMMA TurnKnown == ASSUME Flow, DeskKnown, Turn PROVE DeskKnown'
<1>1. LoopKnows(loop) /\ LoopShape(loop)  BY DEF DeskKnown, LocalsOK, Flow, Shapes
<1>2. LoopKnows(loop')
  <2>1. CASE loop' = Idle  BY <2>1, IdleKnows
  <2>2. ASSUME NEW s \in loop.todo, loop' = [loop EXCEPT !.todo = @ \ {s}]
        PROVE  LoopKnows(loop')
    BY <1>1, <2>2 DEF LoopKnows, LoopShape
  <2>3. ASSUME NEW s \in loop.todo, loop' = [loop EXCEPT !.pc = "decide", !.sid = s]
        PROVE  LoopKnows(loop')
    BY <1>1, <2>3 DEF LoopKnows, LoopShape, Turn
  <2> QED BY <2>1, <2>2, <2>3 DEF Turn
<1> QED BY <1>2, ControlSame, LoopMoves DEF Turn, DeskKnown

LEMMA PassKnown ==
    ASSUME Flow, DeskKnown, loop.pc = "decide", Pass,
           UNCHANGED <<broker, control, books, flat, script>>
    PROVE  DeskKnown'
<1>1. LoopKnows(loop) /\ LoopShape(loop)  BY DEF DeskKnown, LocalsOK, Flow, Shapes
<1>2. LoopKnows(loop')  BY <1>1 DEF Pass, NextTurn, LoopKnows, LoopShape
<1> QED BY <1>2, ControlSame, LoopMoves DEF Pass, DeskKnown

----------------------------------------------------------------------------
(* What is drawn can be sent.                                               *)
LEMMA DrawKnown ==
    ASSUME Flow, DeskKnown, TagsDrawn, NEW t \in Threads, NEW s \in Strategies,
           NEW side \in {Buy, Sell}, NEW qty \in Nat \ {0}, Draw(t, s, side, qty)
    PROVE  /\ \A u \in Threads : post'[u] = NoOrder \/ Sendable(post'[u])
           /\ \A u \in Threads \ {t} : post'[u] = post[u]
<1>1. PICK now \in Clock : post' = [post EXCEPT ![t] =
          [sid |-> s, symbol |-> SymOf[s], side |-> side, qty |-> qty,
           seq |-> NextSeq(now), attempt |-> 1, taken |-> FALSE]]
  BY DEF Draw
<1> DEFINE o == [sid |-> s, symbol |-> SymOf[s], side |-> side, qty |-> qty,
                 seq |-> NextSeq(now), attempt |-> 1, taken |-> FALSE]
<1>2. Sendable(o)
  BY NextSeqGrows, SymOfType, DeskAssumption DEF Sendable, TagsDrawn
<1>3. post' = [post EXCEPT ![t] = o]  BY <1>1
<1> HIDE DEF o
<1> QED BY <1>2, <1>3 DEF Flow, Shapes, DeskKnown, LocalsOK

LEMMA SubmitKnown ==
    ASSUME Flow, DeskKnown, TagsDrawn, loop.pc = "decide", NEW side \in {Buy, Sell},
           NEW qty \in Nat \ {0}, NEW px, Submit(side, qty, px),
           UNCHANGED <<broker, control, books, flat, script>>
    PROVE  DeskKnown'
<1>1. LoopKnows(loop) /\ LoopShape(loop)  BY DEF DeskKnown, LocalsOK, Flow, Shapes
<1>2. ControlOK'  BY ControlSame DEF DeskKnown
<1>3. CASE Halted(loop.sid)
  <2>1. loop' = Idle /\ UNCHANGED post  BY <1>3 DEF Submit
  <2> QED BY <1>2, <2>1, IdleKnows, LoopMoves
<1>4. CASE ~Halted(loop.sid)
  <2>1. Draw("loop", loop.sid, side, qty) /\ loop' = [loop EXCEPT !.pc = "post", !.px = px]
    BY <1>4 DEF Submit
  <2>2. loop.sid \in Strategies  BY <1>1 DEF LoopKnows
  <2>3. /\ \A u \in Threads : post'[u] = NoOrder \/ Sendable(post'[u])
        /\ post'["api"] = post["api"]
    BY <2>1, <2>2, DrawKnown DEF Threads
  <2>4. LoopKnows(loop')  BY <1>1, <2>1 DEF LoopKnows, LoopShape
  <2> QED BY <1>2, <2>3, <2>4 DEF DeskKnown, LocalsOK, broker
<1> QED BY <1>3, <1>4

LEMMA Positive ==
    ASSUME NEW q \in Int, NEW p \in Nat \ {0}, q * p >= MinOrder
    PROVE  q \in Nat \ {0}
<1>1. q * p >= 1  BY DeskAssumption
<1>2. q <= 0 => q * p <= 0  OBVIOUS
<1> QED BY <1>1, <1>2

LEMMA EntryQtyType ==
    ASSUME LoopKnows(loop), loop.pc = "decide", NEW px \in Prices
    PROVE  EntryQty(loop.sid, px) \in Int
<1>1. loop.sid \in Strategies  BY DEF LoopKnows
<1>2. SymOf[loop.sid] \in Symbols  BY <1>1, SymOfType
<1>3. loop.real[SymOf[loop.sid]].qty \in Int  BY <1>2 DEF LoopKnows, Reading
<1>4. Notional(loop.sid, loop.vols) \in Int
  <2>1. TargetVol \div Sigma[SymOf[loop.sid]] \in Int  BY <1>2, DeskAssumption
  <2>2. Fixed[loop.sid] \in Int  BY <1>1, DeskAssumption
  <2> QED BY <2>1, <2>2, DeskAssumption DEF Notional, Clamp, Lesser, Higher
<1>5. Notional(loop.sid, loop.vols) \div px \in Int  BY <1>4, DeskAssumption
<1> QED BY <1>3, <1>5 DEF EntryQty, Higher

LEMMA DecideKnown ==
    ASSUME Flow, DeskKnown, TagsDrawn, NEW sign \in {0, 1}, Decide(sign)
    PROVE  DeskKnown'
<1> DEFINE x == SymOf[loop.sid]
           px == IF x \in DOMAIN loop.marks THEN loop.marks[x] ELSE price[x]
<1>1. loop.pc = "decide" /\ UNCHANGED <<broker, control, books, flat, script>>
  BY DEF Decide
<1>2. LoopKnows(loop)  BY DEF DeskKnown, LocalsOK
<1>3. x \in Symbols  BY <1>1, <1>2, SymOfType DEF LoopKnows
<1>4. px \in Prices  BY <1>1, <1>2, <1>3 DEF LoopKnows, MarksOK, DeskKnown, BrokerOK
<1>5. loop.real[x].available \in Int  BY <1>1, <1>2, <1>3 DEF LoopKnows, Reading
<1>6. \/ Pass
      \/ /\ EntryAllowed(x, EntryQty(loop.sid, px) * px)
         /\ Submit(Buy, EntryQty(loop.sid, px), px)
      \/ loop.real[x].available > 0 /\ Submit(Sell, loop.real[x].available, px)
  BY DEF Decide
<1> HIDE DEF x, px
<1>7. CASE Pass  BY <1>1, <1>7, PassKnown
<1>8. CASE /\ EntryAllowed(x, EntryQty(loop.sid, px) * px)
           /\ Submit(Buy, EntryQty(loop.sid, px), px)
  <2>1. EntryQty(loop.sid, px) * px >= MinOrder  BY <1>8 DEF EntryAllowed
  <2>2. EntryQty(loop.sid, px) \in Int  BY <1>1, <1>2, <1>4, EntryQtyType
  <2>3. EntryQty(loop.sid, px) \in Nat \ {0}  BY <1>4, <2>1, <2>2, Positive, DeskAssumption
  <2> QED BY <1>1, <1>8, <2>3, SubmitKnown
<1>9. CASE loop.real[x].available > 0 /\ Submit(Sell, loop.real[x].available, px)
  <2>1. loop.real[x].available \in Nat \ {0}  BY <1>5, <1>9
  <2> QED BY <1>1, <1>9, <2>1, SubmitKnown
<1> QED BY <1>6, <1>7, <1>8, <1>9

LEMMA LoopStepKnown == ASSUME Flow, DeskKnown, TagsDrawn, LoopStep PROVE DeskKnown'
<1>1. CASE NoBars  BY <1>1, PassKnown DEF NoBars, control
<1> QED
  BY <1>1, ReadOrdersKnown, ReadMarksKnown, ReadPositionsKnown, RiskCheckKnown, HaltKnown,
     HaltEndsKnown, GateKnown, ReadOpenOrdersKnown, TurnKnown, DecideKnown DEF LoopStep

----------------------------------------------------------------------------
(* A list in work is shortened, or stays as it is.                          *)
LEMMA AdvanceKnown ==
    ASSUME Flow, DeskKnown, NEW t \in Threads, flat[t].pc # "none", FlatAdvance(t)
    PROVE  /\ \A u \in Threads : FlatKnows(flat'[u])
           /\ \A u \in Threads \ {t} : flat'[u] = flat[u]
           /\ armed' \subseteq armed
<1>1. FlatKnows(flat[t])  BY DEF DeskKnown, LocalsOK
<1>2. Tail(flat[t].todo) \in Seq(Strategies)  BY <1>1, HeadTailProperties DEF FlatKnows
<1> DEFINE f == FlattenList(Tail(flat[t].todo))
<1>3. FlatKnows(f)  BY <1>2, ListKnows
<1>4. flat' = [flat EXCEPT ![t] = f] /\ armed' \subseteq armed  BY DEF FlatAdvance
<1> HIDE DEF f
<1> QED BY <1>3, <1>4 DEF Flow, Shapes, DeskKnown, LocalsOK

LEMMA FlattenPositionsKnown ==
    ASSUME Flow, DeskKnown, NEW t \in Threads, FlattenPositions(t)
    PROVE  DeskKnown'
<1>1. /\ flat[t].pc = "positions" /\ FlatKnows(flat[t]) /\ FlatShape(flat[t])
      /\ UNCHANGED <<broker, kill, riskHalt, sleevePeak, books, loop, post, script>>
  BY DEF FlattenPositions, DeskKnown, LocalsOK, Flow, Shapes
<1>2. /\ \A u \in Threads : FlatKnows(flat'[u])
      /\ \A u \in Threads \ {t} : flat'[u] = flat[u]
      /\ armed' \subseteq armed
  <2>1. CASE flat' = [flat EXCEPT ![t].pc = "pending", ![t].real = PositionsNow] /\ UNCHANGED armed
    <3>0. PICK f : f = [flat[t] EXCEPT !.pc = "pending", !.real = PositionsNow]  OBVIOUS
    <3>1. flat' = [flat EXCEPT ![t] = f]  BY <2>1, <3>0, Zenon DEF Flow, Shapes
    <3>2. PositionsNow \in [Symbols -> Reading]  BY PositionsNowType DEF DeskKnown
    <3>3. FlatKnows(f)
      <4> HIDE DEF PositionsNow
      <4> QED BY <1>1, <3>0, <3>2 DEF FlatKnows, FlatShape
    <3> QED BY <2>1, <3>1, <3>3 DEF Flow, Shapes, DeskKnown, LocalsOK
  <2>2. CASE FlatAdvance(t)  BY <1>1, <2>2, AdvanceKnown
  <2> QED BY <2>1, <2>2 DEF FlattenPositions
<1>3. post["api"] # NoOrder => t # "api"  BY <1>1 DEF DeskKnown, LocalsOK
<1>4. ControlOK'  BY <1>1, <1>2 DEF DeskKnown, ControlOK
<1>5. LocalsOK'  BY <1>1, <1>2, <1>3 DEF DeskKnown, LocalsOK, Threads
<1> QED BY <1>1, <1>4, <1>5 DEF DeskKnown, broker

LEMMA FlattenPendingKnown ==
    ASSUME Flow, DeskKnown, TagsDrawn, NEW t \in Threads, FlattenPending(t)
    PROVE  DeskKnown'
<1>1. /\ flat[t].pc = "pending" /\ FlatKnows(flat[t]) /\ FlatShape(flat[t])
      /\ UNCHANGED <<broker, kill, riskHalt, sleevePeak, books, loop, script>>
  BY DEF FlattenPending, DeskKnown, LocalsOK, Flow, Shapes
<1>2. post["api"] # NoOrder => t # "api"  BY <1>1 DEF DeskKnown, LocalsOK
<1>3. CASE FlatAdvance(t) /\ UNCHANGED post
  <2>1. /\ \A u \in Threads : FlatKnows(flat'[u])
        /\ \A u \in Threads \ {t} : flat'[u] = flat[u]
        /\ armed' \subseteq armed
    BY <1>1, <1>3, AdvanceKnown
  <2>2. ControlOK'  BY <1>1, <2>1 DEF DeskKnown, ControlOK
  <2>3. LocalsOK'  BY <1>1, <1>2, <1>3, <2>1 DEF DeskKnown, LocalsOK, Threads
  <2> QED BY <1>1, <2>2, <2>3 DEF DeskKnown, broker
<1> DEFINE s == Head(flat[t].todo)
           at == flat[t].real[SymOf[s]]
           side == IF at.qty > 0 THEN Sell ELSE Buy
<1>4. CASE /\ ~NothingToClose(at)
           /\ Draw(t, s, side, at.available)
           /\ flat' = [flat EXCEPT ![t].pc = "close", ![t].real = <<>>]
           /\ UNCHANGED armed
  <2>1. s \in Strategies  BY <1>1, HeadTailProperties DEF FlatKnows
  <2>2. at \in Reading  BY <1>1, <2>1, SymOfType DEF FlatKnows
  <2>4. side \in {Buy, Sell} /\ ~NothingToClose(at)  BY <1>4
  <2> HIDE DEF s, at, side
  <2>3. at.available \in Nat \ {0}  BY <2>2, <2>4 DEF NothingToClose, Reading
  <2>5. /\ \A u \in Threads : post'[u] = NoOrder \/ Sendable(post'[u])
        /\ \A u \in Threads \ {t} : post'[u] = post[u]
    BY <1>4, <2>1, <2>3, <2>4, DrawKnown
  <2>6. PICK f : f = [flat[t] EXCEPT !.pc = "close", !.real = <<>>]  OBVIOUS
  <2>7. flat' = [flat EXCEPT ![t] = f]  BY <1>4, <2>6, Zenon DEF Flow, Shapes
  <2>8. FlatKnows(f) /\ f.pc = "close"  BY <1>1, <2>6 DEF FlatKnows, FlatShape
  <2>9. /\ \A u \in Threads : FlatKnows(flat'[u])
        /\ flat'[t].pc = "close"
        /\ \A u \in Threads \ {t} : flat'[u] = flat[u]
    BY <2>7, <2>8 DEF Flow, Shapes, DeskKnown, LocalsOK
  <2>10. ControlOK'  BY <1>1, <1>4 DEF DeskKnown, ControlOK
  <2>11. LocalsOK'
    BY <1>1, <2>5, <2>9 DEF DeskKnown, LocalsOK, Threads
  <2> QED BY <1>1, <2>10, <2>11 DEF DeskKnown, broker
<1>5. \/ FlatAdvance(t) /\ UNCHANGED post
      \/ /\ ~NothingToClose(at)
         /\ Draw(t, s, side, at.available)
         /\ flat' = [flat EXCEPT ![t].pc = "close", ![t].real = <<>>]
         /\ UNCHANGED armed
  BY DEF FlattenPending
<1> QED BY <1>3, <1>4, <1>5

(* An attempt ends: the order is done with, or tried again.                 *)
LEMMA SubmittedKnown ==
    ASSUME Flow, DeskKnown, NEW t \in Threads, post[t] # NoOrder, NEW ok \in BOOLEAN,
           Submitted(t, ok), UNCHANGED <<kill, riskHalt, sleevePeak, books, script>>
    PROVE  ControlOK' /\ LocalsOK'
<1>1. LoopKnows(loop) /\ LoopShape(loop)  BY DEF DeskKnown, LocalsOK, Flow, Shapes
<1>2. post' = [post EXCEPT ![t] = NoOrder]  BY DEF Submitted
<1>3. /\ \A u \in Threads : post'[u] = NoOrder \/ Sendable(post'[u])
      /\ post'[t] = NoOrder
      /\ \A u \in Threads \ {t} : post'[u] = post[u]
  BY <1>2 DEF DeskKnown, LocalsOK, Flow, Shapes
<1>4. CASE Trading(t)
  <2>1. t = "loop" /\ loop.pc = "post" /\ UNCHANGED <<flat, armed>>
    BY <1>4 DEF Trading, Submitted
  <2>2. \E s, w : loop' = [loop EXCEPT !.pc = "turn", !.sid = "none", !.px = 0,
                                       !.todo = @ \ {s}, !.weights = w]
    BY <1>4 DEF Submitted
  <2>3. LoopKnows(loop')  BY <1>1, <2>1, <2>2 DEF LoopKnows, LoopShape
  <2>4. ControlOK'  BY <2>1 DEF DeskKnown, ControlOK
  <2> QED BY <1>3, <2>1, <2>3, <2>4 DEF DeskKnown, LocalsOK, Threads
<1>5. CASE ~Trading(t)
  <2>1. FlatAdvance(t) /\ UNCHANGED loop  BY <1>5 DEF Submitted
  <2>2. flat[t].pc # "none"
    BY <1>5 DEF Trading, Flow, OneOwner, DeskKnown, LocalsOK, Threads
  <2>3. /\ \A u \in Threads : FlatKnows(flat'[u])
        /\ \A u \in Threads \ {t} : flat'[u] = flat[u]
        /\ armed' \subseteq armed
    BY <2>1, <2>2, AdvanceKnown
  <2>4. ControlOK'  BY <2>3 DEF DeskKnown, ControlOK
  <2> QED BY <1>3, <2>1, <2>3, <2>4 DEF DeskKnown, LocalsOK, Threads
<1> QED BY <1>4, <1>5

LEMMA AgainKnown ==
    ASSUME Flow, DeskKnown, NEW t \in Threads, post[t] # NoOrder, NEW taken,
           Again(t, taken), UNCHANGED <<kill, riskHalt, sleevePeak, books, script>>
    PROVE  ControlOK' /\ LocalsOK'
<1>1. CASE Submitted(t, FALSE)  BY <1>1, SubmittedKnown
<1>2. CASE /\ post[t].attempt < Retries
           /\ post' = [post EXCEPT ![t].attempt = @ + 1, ![t].taken = taken]
           /\ UNCHANGED <<loop, flat, armed>>
  <2>0. PICK o : o = [post[t] EXCEPT !.attempt = @ + 1, !.taken = taken]  OBVIOUS
  <2>1. post' = [post EXCEPT ![t] = o]  BY <1>2, <2>0, Zenon DEF Flow, Shapes
  <2>2. OrderShape(post[t]) /\ Sendable(post[t])  BY DEF Flow, Shapes, DeskKnown, LocalsOK
  <2>3. Sendable(o)  BY <1>2, <2>0, <2>2, DeskAssumption DEF OrderShape, Sendable
  <2>4. /\ \A u \in Threads : post'[u] = NoOrder \/ Sendable(post'[u])
        /\ \A u \in Threads \ {t} : post'[u] = post[u]
    BY <2>1, <2>3 DEF Flow, Shapes, DeskKnown, LocalsOK
  <2>5. ControlOK'  BY <1>2 DEF DeskKnown, ControlOK
  <2> QED BY <1>2, <2>4, <2>5 DEF DeskKnown, LocalsOK, Threads
<1> QED BY <1>1, <1>2 DEF Again

LEMMA AttemptAnsweredKnown ==
    ASSUME Flow, DeskKnown, NEW t \in Threads, AttemptAnswered(t)
    PROVE  DeskKnown'
<1>1. /\ post[t] # NoOrder
      /\ UNCHANGED <<price, held, kill, riskHalt, sleevePeak, books, script>>
  BY DEF AttemptAnswered
<1>2. Sendable(post[t])  BY <1>1 DEF DeskKnown, LocalsOK
<1>3. CASE Refused(post[t])
  <2>1. Submitted(t, FALSE) /\ UNCHANGED working  BY <1>3 DEF AttemptAnswered
  <2> QED BY <1>1, <2>1, SubmittedKnown DEF DeskKnown
<1>4. CASE ~Refused(post[t])
  <2>1. Submitted(t, TRUE) /\ Taken(t)  BY <1>4 DEF AttemptAnswered
  <2>2. BrokerOK(price', held', working')
    BY <1>1, <1>2, <1>4, <2>1, TakenBroker DEF DeskKnown
  <2> QED BY <1>1, <2>1, <2>2, SubmittedKnown DEF DeskKnown
<1> QED BY <1>3, <1>4

LEMMA AttemptLostKnown ==
    ASSUME Flow, DeskKnown, NEW t \in Threads, AttemptLost(t)
    PROVE  DeskKnown'
<1>1. /\ post[t] # NoOrder
      /\ UNCHANGED <<price, held, kill, riskHalt, sleevePeak, books, script>>
  BY DEF AttemptLost
<1>2. Sendable(post[t])  BY <1>1 DEF DeskKnown, LocalsOK
<1>3. CASE Again(t, post[t].taken) /\ UNCHANGED working
  BY <1>1, <1>3, AgainKnown DEF DeskKnown
<1>4. CASE ~Refused(post[t]) /\ Taken(t) /\ Again(t, TRUE)
  <2>1. BrokerOK(price', held', working')  BY <1>1, <1>2, <1>4, TakenBroker DEF DeskKnown
  <2> QED BY <1>1, <1>4, <2>1, AgainKnown DEF DeskKnown
<1> QED BY <1>3, <1>4 DEF AttemptLost

----------------------------------------------------------------------------
LEMMA ScriptMoves ==
    ASSUME DeskKnown, script # <<>>
    PROVE  /\ Head(script) \in ApiCalls /\ Tail(script) \in Seq(ApiCalls)
           /\ Head(script)[1] \in {"arm", "disarm", "flatten"} => Argument \in Strategies
<1>1. Head(script) \in ApiCalls /\ Tail(script) \in Seq(ApiCalls)
  BY HeadTailProperties DEF DeskKnown, LocalsOK
<1> QED BY <1>1 DEF ApiCalls, Argument

LEMMA CallKnown ==
    ASSUME DeskKnown, UNCHANGED <<broker, books, loop, flat, post>>,
           script' \in Seq(ApiCalls), armed' \subseteq Strategies,
           kill' \in BOOLEAN, riskHalt' \in BOOLEAN,
           sleevePeak' = sleevePeak \/ DOMAIN sleevePeak' = {}
    PROVE  DeskKnown'
BY DEF DeskKnown, ControlOK, LocalsOK, broker

LEMMA ApiCallKnown == ASSUME Flow, DeskKnown, ApiCall PROVE DeskKnown'
<1>0. DOMAIN <<>> = {}  OBVIOUS
<1>1. script # <<>> /\ script' = Tail(script)
  BY DEF ApiCall, Arm, Disarm, KillSwitch, Resume, Flatten, Restart, Call
<1>2. script' \in Seq(ApiCalls)  BY <1>1, ScriptMoves
<1>3. ControlOK  BY DEF DeskKnown
<1>4. CASE Arm
  <2>1. Argument \in Strategies  BY <1>1, <1>4, ScriptMoves DEF Arm, Call
  <2> QED BY <1>2, <1>3, <1>4, <2>1, CallKnown DEF Arm, ControlOK
<1>5. CASE Disarm  BY <1>2, <1>3, <1>5, CallKnown DEF Disarm, ControlOK
<1>6. CASE KillSwitch  BY <1>2, <1>3, <1>6, CallKnown DEF KillSwitch, Kill, ControlOK
<1>7. CASE Resume  BY <1>0, <1>2, <1>3, <1>7, CallKnown DEF Resume, ControlOK
<1>8. CASE Flatten
  <2> DEFINE f == FlattenList(<<Argument>>)
  <2>1. /\ flat["api"].pc = "none" /\ flat' = [flat EXCEPT !["api"] = f]
        /\ UNCHANGED <<broker, control, books, loop, post>>
    BY <1>8 DEF Flatten, Call
  <2>2. Argument \in Strategies  BY <1>1, <1>8, ScriptMoves DEF Flatten, Call
  <2>3. FlatKnows(f)
    <3>1. <<Argument>> \in Seq(Strategies)  BY <2>2
    <3> QED BY <3>1, ListKnows
  <2> HIDE DEF f
  <2>4. \A u \in Threads : FlatKnows(flat'[u])
    BY <2>1, <2>3 DEF Flow, Shapes, DeskKnown, LocalsOK
  <2>5. post["api"] = NoOrder  BY <2>1 DEF DeskKnown, LocalsOK
  <2>6. ControlOK'  BY <1>3, <2>1, ControlSame
  <2> QED BY <1>2, <2>1, <2>4, <2>5, <2>6 DEF DeskKnown, LocalsOK, broker
<1>9. CASE Restart
  <2>1. ControlOK'  BY <1>0, <1>9 DEF Restart, ControlOK
  <2>2. FlatKnows(NotFlattening)  BY DEF FlatKnows, NotFlattening
  <2>3. LocalsOK'  BY <1>2, <1>9, <2>2, IdleKnows DEF Restart, LocalsOK, Threads
  <2> QED BY <1>9, <2>1, <2>3 DEF Restart, DeskKnown, broker
<1> QED BY <1>4, <1>5, <1>6, <1>7, <1>8, <1>9 DEF ApiCall

LEMMA TickKnown == ASSUME DeskKnown, NEW x \in Symbols, Tick(x) PROVE DeskKnown'
<1>1. PICK p \in Prices : price' = [price EXCEPT ![x] = p]  BY DEF Tick
<1>2. BrokerOK(price', held', working')  BY <1>1 DEF Tick, DeskKnown, BrokerOK
<1>3. ControlOK'  BY ControlSame DEF Tick, DeskKnown
<1> QED BY <1>2, <1>3 DEF Tick, DeskKnown, LocalsOK, threads

LEMMA DeskKnownNext == ASSUME Flow, TagsDrawn, DeskKnown, [Next]_vars PROVE DeskKnown'
<1>1. CASE \E x \in Symbols : Tick(x)  BY <1>1, TickKnown
<1>2. CASE \E o \in working : Fill(o)
  <2> PICK o \in working : Fill(o)  BY <1>2
  <2>1. BrokerOK(price', held', working')  BY FillBroker DEF DeskKnown
  <2>2. ControlOK'  BY ControlSame DEF Fill, DeskKnown
  <2> QED BY <2>1, <2>2 DEF Fill, DeskKnown, LocalsOK, threads
<1>3. CASE LoopStep  BY <1>3, LoopStepKnown
<1>4. CASE \E t \in Threads : ThreadStep(t)
  BY <1>4, FlattenPositionsKnown, FlattenPendingKnown, AttemptAnsweredKnown, AttemptLostKnown
     DEF ThreadStep
<1>5. CASE ApiCall  BY <1>5, ApiCallKnown
<1>6. CASE UNCHANGED vars
  BY <1>6 DEF vars, DeskKnown, ControlOK, LocalsOK
<1> QED BY <1>1, <1>2, <1>3, <1>4, <1>5, <1>6 DEF Next

LEMMA DeskKnownAlways == Spec => []DeskKnown
<1>1. DeskInv /\ DeskKnown /\ [Next]_vars => DeskKnown'
  BY DeskKnownNext DEF DeskInv, Flow
<1> QED BY <1>1, DeskKnownInit, DeskInvAlways, PTL DEF Spec

(* The desk's state is one the loop and the API can leave behind (no short  *)
(* position, no order without a quantity, no reading used that was not      *)
(* read), and a killed or disarmed strategy adds at most the order that was *)
(* on its way (engine.py kill, _halted, flatten, _trade_armed).             *)
THEOREM StopIsAlwaysKept == Spec => []StopIsKept
<1>1. DeskInv /\ DeskKnown => DeskTypeOK
  BY DEF DeskInv, TagsDrawn, DeskKnown, BrokerOK, ControlOK, LocalsOK, LoopKnows, Sendable,
         DeskTypeOK
<1> QED BY <1>1, DeskInvAlways, DeskKnownAlways, KillIsFinal, PTL DEF StopIsKept
=============================================================================
