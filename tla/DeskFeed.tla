------------------------------ MODULE DeskFeed ------------------------------
(* How the desk reads lists from the broker (service/alpaca.py): the order  *)
(* history page by page, newest first, and the bars of several symbols page *)
(* by page, oldest first; and how it tells whose an order was by its tag    *)
(* (service/strategies.py).                                                 *)
EXTENDS Integers, Sequences, FiniteSets, SequencesExt

CONSTANT Seeds              \* the ids of the initial registry

Least(S) == CHOOSE x \in S : \A y \in S : x <= y
Greatest(S) == CHOOSE x \in S : \A y \in S : x >= y

First(n, s) == SubSeq(s, 1, IF Len(s) < n THEN Len(s) ELSE n)

----------------------------------------------------------------------------
(* The broker's order history is a sequence of orders [id, at], newest      *)
(* first; a request with `until` sees the orders up to that time, those at  *)
(* that very time included.                                                 *)
None == 0

OrderPage(history, until, page) ==
    First(page, IF until = None THEN history ELSE SelectSeq(history, LAMBDA o : o.at <= until))

NextUntil(batch) == Last(batch).at

(* all_orders: stops at an empty or short page, or when `until` repeats.    *)
AllOrders(history, page, maxPages) ==
    LET Read(r, k) ==
          LET batch == OrderPage(history, r.until, page)
              next == NextUntil(batch)
          IN IF r.done THEN r
             ELSE IF batch = <<>> THEN [r EXCEPT !.done = TRUE]
             ELSE [out |-> r.out \o batch,
                   until |-> next,
                   done |-> Len(batch) < page \/ next = r.until]
    IN FoldLeft(Read, [out |-> <<>>, until |-> None, done |-> FALSE],
                [k \in 1 .. maxPages |-> k]).out

(* _fills_by_strategy drops an id it has seen.                              *)
Deduplicated(orders) ==
    FoldLeft(LAMBDA out, o : IF \E i \in DOMAIN out : out[i].id = o.id THEN out ELSE Append(out, o),
             <<>>, orders)

(* The rebuilt history holds every order once, in the broker's order, as    *)
(* long as fewer orders than a page share one time and the pages suffice:   *)
(* an order lost at a page boundary would book a phantom position.          *)
HistoryIsWhole(history, page, maxPages) ==
    LET ties == Greatest({Cardinality({i \in DOMAIN history : history[i].at = t}) :
                          t \in {history[i].at : i \in DOMAIN history}} \union {0})
    IN (ties < page /\ Len(history) <= page + (maxPages - 1) * (page - ties))
         => Deduplicated(AllOrders(history, page, maxPages)) = history

----------------------------------------------------------------------------
(* The data service answers with the bars of all symbols in one list, by    *)
(* symbol and then by time, cut into pages of `cap` bars; bar i of a symbol *)
(* stands for itself.                                                       *)
BarList(symbols, available) ==
    FlattenSeq([i \in 1 .. Len(symbols) |->
                  [k \in 1 .. available[symbols[i]] |-> [symbol |-> symbols[i], bar |-> k]]])

PageAt(list, cap, k) == SubSeq(list, (k - 1) * cap + 1, IF k * cap < Len(list) THEN k * cap ELSE Len(list))

BarsOf(s, page) == [i \in 1 .. Len(SelectSeq(page, LAMBDA b : b.symbol = s)) |->
                      SelectSeq(page, LAMBDA b : b.symbol = s)[i].bar]

Enough(acc, limit) == Least({Len(acc[s]) : s \in DOMAIN acc}) >= limit

(* _paginate_bars: follows the token until every symbol has its bars, then  *)
(* keeps the first `limit` of each.                                         *)
PaginateBars(symbols, available, cap, maxPages, limit) ==
    LET list == BarList(symbols, available)
        Read(r, k) ==
          LET page == PageAt(list, cap, k)
              acc == [s \in DOMAIN r.acc |-> r.acc[s] \o BarsOf(s, page)]
          IN IF r.done THEN r
             ELSE [acc |-> acc, done |-> k * cap >= Len(list) \/ Enough(acc, limit)]
        end == FoldLeft(Read, [acc |-> [s \in Range(symbols) |-> <<>>], done |-> FALSE],
                        [k \in 1 .. maxPages |-> k])
    IN [s \in Range(symbols) |-> First(limit, end.acc[s])]

(* No symbol is starved of bars because another one came first.             *)
NobodyStarves(symbols, available, cap, maxPages, limit) ==
    maxPages * cap >= Len(BarList(symbols, available)) =>
        \A s \in Range(symbols) :
            PaginateBars(symbols, available, cap, maxPages, limit)[s]
              = [k \in 1 .. Least({limit, available[s]}) |-> k]

-----------------------------------------------------------------------------
(* Every order carries the id of its strategy and a sequence number, and   *)
(* the broker's history is all that the books are rebuilt from.  The       *)
(* registry the tags are read against lives in the process.  An id, and a  *)
(* tag, is the sequence of the words its dashes separate.                  *)
Untagged == <<"none">>

OrderTag(id, seq) == <<"qd">> \o id \o <<seq>>

Inside(tag) == SubSeq(tag, 2, Len(tag) - 1)

(* The id is what lies between the prefix and the last dash, if it is of   *)
(* the registry.                                                           *)
StrategyOf(registry, tag) ==
    IF Len(tag) > 2 /\ tag[1] = "qd" /\ Inside(tag) \in registry THEN Inside(tag) ELSE Untagged

(* The id of a promoted configuration: its kind, the currency, and its     *)
(* parameters by name; not its timeframe.                                  *)
IdOf(config) ==
    IF config.kind = "ma_crossover"
    THEN <<"ma", config.currency, config.fast, config.slow>>
    ELSE <<"momentum", config.currency, config.lookback>>

(* The desk: what is registered, and the broker's history.                 *)
Started == [registry |-> Seeds, history |-> <<>>]

Register(desk, config) == [desk EXCEPT !.registry = @ \union {IdOf(config)}]

Traded(desk, id) ==
    [desk EXCEPT !.history = Append(@, [id |-> id, tag |-> OrderTag(id, Len(@) + 1)])]

Restarted(desk) == [Started EXCEPT !.history = desk.history]

(* engine._fills_by_strategy: the orders whose tag names a strategy.       *)
FillsOf(desk, id) ==
    SelectSeq(desk.history, LAMBDA o : StrategyOf(desk.registry, o.tag) = id)

-----------------------------------------------------------------------------
(* Every registered strategy gets its own orders back, all of them and no  *)
(* other's, whatever numbers and words the other ids are made of.          *)
TagsNameTheirOwner(desk) ==
    \A id \in desk.registry :
        FillsOf(desk, id) = SelectSeq(desk.history, LAMBDA o : o.id = id)
=============================================================================
