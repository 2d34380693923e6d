---------------------------- MODULE MCLiveDesk ----------------------------
(* The two strategies of the seed registry, each with its own symbol: "eth" *)
(* is twice as volatile, hence half the size.                               *)
EXTENDS LiveDesk

MCRegistry == <<"btc-trend", "eth-mom">>
MCSymOf == [s \in {"btc-trend", "eth-mom"} |-> IF s = "btc-trend" THEN "btc" ELSE "eth"]
MCFixed == [s \in {"btc-trend", "eth-mom"} |-> 4]
MCSigma == [x \in {"btc", "eth"} |-> IF x = "btc" THEN 1 ELSE 2]
MCCov == [xy \in {"btc", "eth"} \X {"btc", "eth"} |->
            CASE xy = <<"btc", "btc">> -> 1 [] xy = <<"eth", "eth">> -> 4 [] OTHER -> 1]

Arms == <<"arm", "btc-trend">>
ArmsEth == <<"arm", "eth-mom">>
MCScripts == {
    <<Arms, ArmsEth, <<"kill", "all">>, ArmsEth>>,
    <<Arms, <<"disarm", "btc-trend">>, <<"flatten", "btc-trend">>>>,
    <<Arms, <<"kill", "all">>, <<"resume", "all">>>>,
    <<Arms, <<"restart", "all">>>> }
=============================================================================
