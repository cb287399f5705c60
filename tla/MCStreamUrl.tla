---------------------------- MODULE MCStreamUrl ----------------------------
EXTENDS StreamUrl

CONSTANTS Absent     \* model value for NoEndpoint

Ep(b) == [base |-> b, enabled |-> TRUE]
Off(b) == [base |-> b, enabled |-> FALSE]

\* Symbol lists of symbols.ini sessions: BASE^QUOTE, one or several.
MCSymbolLists ==
    {<<"BTC^USDT">>, <<"ETH^USDT", "BNB^BTC">>, <<"1000PEPE^USDT">>, <<"SOL^USDC", "XRP^USDT">>}

\* The production hosts, with every suffix form endpoint.ini may give.
ProductionEndpoints ==
    [v \in {"BinanceSpot", "BinanceFutures", "OkxSpot", "BybitFutures"} |->
        CASE v = "BinanceSpot" ->
               {Absent, Off("wss://stream.binance.com:9443/ws"),
                Ep("wss://stream.binance.com:9443/ws"), Ep("wss://stream.binance.com:9443/ws/"),
                Ep("wss://stream.binance.com:9443"),
                Ep("wss://stream.binance.com:9443/")}
          [] v = "BinanceFutures" ->
               {Absent, Ep("wss://fstream.binance.com/ws"), Ep("wss://fstream.binance.com/ws/"),
                Ep("wss://fstream.binance.com")}
          [] v = "OkxSpot" -> {Absent, Ep("wss://ws.okx.com:8443/ws/v5/public")}
          [] OTHER -> {Absent, Ep("wss://stream.bybit.com/v5/public/linear"),
                       Off("wss://stream.bybit.com/v5/public/linear")}]

\* The bases the spec allows that the production set leaves out: the
\* futures testnet host, bases ending in /stream or /stream/, and a host
\* whose name starts with "ws".
OtherEndpoints ==
    [v \in {"BinanceSpot", "BinanceFutures"} |->
        IF v = "BinanceFutures"
        THEN {Ep("wss://fstream.binancefuture.com/ws")}
        ELSE {Ep("wss://stream.binance.com:9443/stream"), Ep("wss://stream.binance.com:9443/stream/"),
              Ep("wss://ws.binance.example/ws")}]

OtherVenues == DOMAIN OtherEndpoints

MCVenues == DOMAIN ProductionEndpoints
=============================================================================
