------------------------------ MODULE AlphaDsl ------------------------------
(* The alpha language (mds/alphadsl): the precedence-climbing parser, the   *)
(* canonical form a signal is cached under, the semantic check, and what an *)
(* evaluated signal reads.  A token is its text; a node is a record         *)
(* [tag, name, n, args], a panel is abstracted to the set of cells          *)
(* [col, lag] that the value at one date depends on.                        *)
EXTENDS Integers, Sequences, FiniteSets, SequencesExt

CONSTANTS Numbers, Identifiers      \* the token texts that are literals and names

Node(tag, name, n, args) == [tag |-> tag, name |-> name, n |-> n, args |-> args]
Num(n) == Node("num", "", n, <<>>)
Col(c) == Node("col", c, 0, <<>>)
Unary(a) == Node("neg", "", 0, <<a>>)
BinOp(op, l, r) == Node(op, "", 0, <<l, r>>)
CallTo(f, args) == Node("call", f, 0, args)

----------------------------------------------------------------------------
(* The parser.  A result is [ok, node, i]: the position after the node.     *)
Eof == "eof"
At(toks, i) == IF i <= Len(toks) THEN toks[i] ELSE Eof
Parsed(node, i) == [ok |-> TRUE, node |-> node, i |-> i]
Rejected == [ok |-> FALSE, node |-> Num(0), i |-> 0]

Additive == {"+", "-"}
Multiplicative == {"*", "/"}
Precedence(tok) == IF tok \in Additive THEN 10 ELSE IF tok \in Multiplicative THEN 20 ELSE 0

RightBp(tok) == Precedence(tok) + 1

RECURSIVE Climb(_, _, _), Expr(_, _, _), UnaryAt(_, _), PowerAt(_, _), PrimaryAt(_, _),
          ArgsAt(_, _, _)

(* The loop of _expr: takes operators that bind at least as tight as bp.    *)
Climb(toks, left, bp) ==
    LET op == At(toks, left.i)
        right == Expr(toks, left.i + 1, RightBp(op))
    IN IF ~left.ok \/ Precedence(op) = 0 \/ Precedence(op) < bp THEN left
       ELSE IF ~right.ok THEN Rejected
       ELSE Climb(toks, Parsed(BinOp(op, left.node, right.node), right.i), bp)

Expr(toks, i, bp) == Climb(toks, UnaryAt(toks, i), bp)

UnaryAt(toks, i) ==
    IF At(toks, i) = "-"
    THEN LET a == UnaryAt(toks, i + 1) IN IF a.ok THEN Parsed(Unary(a.node), a.i) ELSE a
    ELSE PowerAt(toks, i)

PowerAt(toks, i) ==
    LET base == PrimaryAt(toks, i)
        exponent == UnaryAt(toks, base.i + 1)
    IN IF ~base.ok \/ At(toks, base.i) # "**" THEN base
       ELSE IF ~exponent.ok THEN Rejected
       ELSE Parsed(BinOp("**", base.node, exponent.node), exponent.i)

(* The arguments after the opening parenthesis or a comma, up to ")".       *)
ArgsAt(toks, i, done) ==
    LET a == Expr(toks, i, 0)
        args == Append(done, a.node)
    IN CASE ~a.ok -> [ok |-> FALSE, args |-> done, i |-> 0]
         [] At(toks, a.i) = "," -> ArgsAt(toks, a.i + 1, args)
         [] At(toks, a.i) = ")" -> [ok |-> TRUE, args |-> args, i |-> a.i + 1]
         [] OTHER -> [ok |-> FALSE, args |-> done, i |-> 0]

PrimaryAt(toks, i) ==
    LET t == At(toks, i)
        inner == Expr(toks, i + 1, 0)
        args == ArgsAt(toks, i + 2, <<>>)
    IN CASE t \in Numbers -> Parsed(Num(1), i + 1)
         [] t = "(" -> IF inner.ok /\ At(toks, inner.i) = ")"
                       THEN Parsed(inner.node, inner.i + 1) ELSE Rejected
         [] t \in Identifiers /\ At(toks, i + 1) # "(" -> Parsed(Col(t), i + 1)
         [] t \in Identifiers /\ At(toks, i + 2) = ")" -> Parsed(CallTo(t, <<>>), i + 3)
         [] t \in Identifiers -> IF args.ok THEN Parsed(CallTo(t, args.args), args.i) ELSE Rejected
         [] OTHER -> Rejected

(* parse: one expression, up to the end of the text.                        *)
Parse(toks) ==
    LET r == Expr(toks, 1, 0) IN IF r.ok /\ At(toks, r.i) = Eof THEN r ELSE Rejected

----------------------------------------------------------------------------
(* The reading a mathematician gives a text: a sum splits at its last + or  *)
(* -, a product at its last * or /, then comes a leading minus, then the    *)
(* first **; what is left is an atom, a call or parentheses.                *)
Depth(toks, i) ==
    Cardinality({k \in 1 .. i - 1 : toks[k] = "("}) - Cardinality({k \in 1 .. i - 1 : toks[k] = ")"})

(* An operator sign is binary when an operand ends right before it.         *)
EndsOperand(tok) == tok \in Numbers \union Identifiers \union {")"}
Splits(toks, ops) ==
    {i \in 2 .. Len(toks) : toks[i] \in ops /\ Depth(toks, i) = 0 /\ EndsOperand(toks[i - 1])}

RECURSIVE Reading(_)
Reading(toks) ==
    LET n == Len(toks)
        sums == Splits(toks, Additive)
        products == Splits(toks, Multiplicative)
        powers == Splits(toks, {"**"})
        At2(i) == LET l == Reading(SubSeq(toks, 1, i - 1))
                      r == Reading(SubSeq(toks, i + 1, n))
                  IN IF l.ok /\ r.ok THEN [ok |-> TRUE, node |-> BinOp(toks[i], l.node, r.node)]
                     ELSE [ok |-> FALSE, node |-> Num(0)]
        Wrapped(k) == /\ toks[k] = "(" /\ toks[n] = ")"
                      /\ \A j \in k + 1 .. n : Depth(toks, j) >= 1
        cuts == {k \in 3 .. n : toks[k] = "," /\ Depth(toks, k) = 1} \union {2, n}
        Piece(a) == Reading(SubSeq(toks, a + 1, (CHOOSE b \in cuts : b > a /\
                                \A c \in cuts : c > a => b <= c) - 1))
        starts == SetToSortSeq(cuts \ {n}, <)
        bad == [ok |-> FALSE, node |-> Num(0)]
    IN CASE n = 0 -> bad
         [] n > 0 /\ sums # {} -> At2(CHOOSE i \in sums : \A j \in sums : j <= i)
         [] n > 0 /\ sums = {} /\ products # {} ->
                At2(CHOOSE i \in products : \A j \in products : j <= i)
         [] OTHER ->
            IF toks[1] = "-"
            THEN LET a == Reading(Tail(toks))
                 IN IF a.ok THEN [ok |-> TRUE, node |-> Unary(a.node)] ELSE bad
            ELSE IF powers # {} THEN At2(CHOOSE i \in powers : \A j \in powers : i <= j)
            ELSE IF n = 1 /\ toks[1] \in Numbers THEN [ok |-> TRUE, node |-> Num(1)]
            ELSE IF n = 1 /\ toks[1] \in Identifiers THEN [ok |-> TRUE, node |-> Col(toks[1])]
            ELSE IF Wrapped(1) THEN Reading(SubSeq(toks, 2, n - 1))
            ELSE IF n >= 3 /\ toks[1] \in Identifiers /\ Wrapped(2)
            THEN IF n = 3 THEN [ok |-> TRUE, node |-> CallTo(toks[1], <<>>)]
                 ELSE LET args == [k \in DOMAIN starts |-> Piece(starts[k])]
                      IN IF \A k \in DOMAIN args : args[k].ok
                         THEN [ok |-> TRUE, node |-> CallTo(toks[1],
                                                    [k \in DOMAIN args |-> args[k].node])]
                         ELSE bad
            ELSE bad

(* The parser accepts exactly the well-formed texts and gives each the      *)
(* conventional reading: left-associative sums and products, -x ** 2 as     *)
(* -(x ** 2), a right-associative ** whose exponent may carry a sign.       *)
ParsesAsRead(toks) ==
    LET p == Parse(toks)
        r == Reading(toks)
    IN p.ok = r.ok /\ (p.ok => p.node = r.node)

----------------------------------------------------------------------------
(* canonical: the prefix form, as the sequence of its words.                *)
Word(node) == IF node.tag = "call" THEN node.name ELSE node.tag

RECURSIVE Canonical(_)
Canonical(node) ==
    CASE node.tag = "num" -> <<"n", node.n>>
      [] node.tag = "col" -> <<"col", node.name>>
      [] OTHER -> <<"(", Word(node)>> \o
                  FlattenSeq([k \in DOMAIN node.args |-> Canonical(node.args[k])]) \o <<")">>

RECURSIVE Walk(_)
Walk(node) == {node} \union UNION {Walk(node.args[k]) : k \in DOMAIN node.args}

ColumnsUsed(node) == {x.name : x \in {y \in Walk(node) : y.tag = "col"}}

----------------------------------------------------------------------------
(* The semantic check.                                                      *)
CrossSectional == {"rank", "zscore", "demean", "scale", "abs", "sign", "log"}
Rolling == {"ts_sum", "ts_mean", "ts_std", "ts_zscore", "ts_max", "ts_min"}
ArgKinds(f) ==
    CASE f \in CrossSectional -> <<"series">>
      [] f = "clip" -> <<"series", "number", "number">>
      [] f \in Rolling \union {"delay", "ts_delta"} -> <<"series", "window">>
      [] OTHER -> <<"unknown">>

(* A constant is a fraction num / den; den = 0 stands for NaN, and for the  *)
(* irrational values of a fractional exponent.                              *)
Const(num, den) == [is |-> TRUE, num |-> num, den |-> den]
NotConst == [is |-> FALSE, num |-> 0, den |-> 1]
Whole(v) == v.is /\ v.den # 0 /\ v.num % v.den = 0
Magnitude(x) == IF x < 0 THEN -x ELSE x

Over(a, b) == Const(a.num * b.den * (IF b.num < 0 THEN -1 ELSE 1), a.den * Magnitude(b.num))

PowerOf(a, b) ==
    CASE ~Whole(b) -> Const(0, 0)
      [] Whole(b) /\ b.num >= 0 -> Const(a.num ^ (b.num \div b.den), a.den ^ (b.num \div b.den))
      [] OTHER -> Over(Const(1, 1), Const(a.num ^ (-(b.num \div b.den)), a.den ^ (-(b.num \div b.den))))

(* _fold_const.  The table of results is built whole, with a ** b for any   *)
(* operator: zero to a negative power raises, and the signal with it.       *)
RECURSIVE FoldConst(_)
FoldConst(node) ==
    LET a == FoldConst(node.args[1])
        b == FoldConst(node.args[2])
        raises == a.den # 0 /\ b.den # 0 /\ a.num = 0 /\ b.num < 0
    IN CASE node.tag = "num" -> Const(node.n, 1)
         [] node.tag = "neg" -> [a EXCEPT !.num = -@]
         [] node.tag \in {"+", "-", "*", "/", "**"} ->
              IF ~a.is \/ ~b.is \/ raises THEN NotConst
              ELSE CASE node.tag = "+" -> Const(a.num * b.den + b.num * a.den, a.den * b.den)
                     [] node.tag = "-" -> Const(a.num * b.den - b.num * a.den, a.den * b.den)
                     [] node.tag = "*" -> Const(a.num * b.num, a.den * b.den)
                     [] node.tag = "/" -> Over(a, b)
                     [] OTHER -> PowerOf(a, b)
         [] OTHER -> NotConst

\* Any whole number will do for a look-back.
BugGoodWindow(arg) == Whole(FoldConst(arg))

GoodWindow(arg) == Whole(FoldConst(arg)) /\ FoldConst(arg).num > 0

Periods(arg) == FoldConst(arg).num \div FoldConst(arg).den

GoodArgument(kind, arg) ==
    CASE kind = "window" -> GoodWindow(arg)
      [] kind = "number" -> FoldConst(arg).is
      [] kind = "series" -> TRUE
      [] OTHER -> FALSE

Valid(node, columns) ==
    \A x \in Walk(node) :
        /\ x.tag = "call" =>
             /\ Len(x.args) = Len(ArgKinds(x.name))
             /\ \A k \in DOMAIN x.args : GoodArgument(ArgKinds(x.name)[k], x.args[k])
        /\ x.tag = "col" => x.name \in columns

----------------------------------------------------------------------------
(* evaluate: the cells the value at one date is computed from.              *)
Delayed(cells, lags) == {[col |-> c.col, lag |-> c.lag + d] : c \in cells, d \in lags}

RECURSIVE Reads(_)
Reads(node) ==
    LET window == Periods(node.args[2])
        series == Reads(node.args[1])
    IN CASE node.tag = "num" -> {}
         [] node.tag = "col" -> {[col |-> node.name, lag |-> 0]}
         [] node.tag = "call" /\ node.name = "delay" -> Delayed(series, {window})
         [] node.tag = "call" /\ node.name = "ts_delta" -> Delayed(series, {0, window})
         [] node.tag = "call" /\ node.name \in Rolling -> Delayed(series, 0 .. window - 1)
         [] node.tag = "call" -> series
         [] OTHER -> UNION {Reads(node.args[k]) : k \in DOMAIN node.args}

(* A signal that compiles never looks ahead: its value at a date is made of *)
(* cells of that date and earlier ones, and only of the columns that its    *)
(* cache key hashes.                                                        *)
CompiledIsCausal(node, columns) ==
    Valid(node, columns) =>
        \A c \in Reads(node) : c.lag >= 0 /\ c.col \in ColumnsUsed(node)

(* Two signals that compile share a fingerprint only when they are the same *)
(* expression: a cached panel is never served to another signal.            *)
CanonicalTellsApart(a, b, columns) ==
    (Valid(a, columns) /\ Valid(b, columns) /\ Canonical(a) = Canonical(b)) => a = b
=============================================================================
