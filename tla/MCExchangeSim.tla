--------------------------- MODULE MCExchangeSim ---------------------------
(* Constants of the run of the simulated exchange: what participants ask. *)
EXTENDS ExchangeSim

Req(who, side, type, tif, postOnly, price, qty) ==
  [participant |-> who, side |-> side, type |-> type, tif |-> tif,
   postOnly |-> postOnly, price |-> price, qty |-> qty]

Limits == {Req("YOU", "SELL", "LIMIT", "GTC", FALSE, price, qty) : price \in 1 .. 2, qty \in 1 .. 2}
            \cup {Req("YOU", "BUY", "LIMIT", "GTC", FALSE, 2, 2),
                  Req("MKR", "SELL", "LIMIT", "GTC", FALSE, 2, 1),
                  Req("MKR", "BUY", "LIMIT", "GTC", FALSE, 2, 1)}
Takers == {Req("YOU", "BUY", "LIMIT", "FOK", FALSE, 2, 2),
           Req("NSE", "BUY", "MARKET", "IOC", FALSE, 0, 2)}
Refusable == {Req("YOU", "SELL", "LIMIT", "GTC", TRUE, 1, 1),
              Req("YOU", "BUY", "MARKET", "GTC", FALSE, 0, 1)}
MCAmendments == {[price |-> 2, qty |-> 1], [price |-> 1, qty |-> 2], [price |-> 2, qty |-> 0]}
MCRequests == Limits \cup Takers \cup Refusable
=============================================================================
