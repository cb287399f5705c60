------------------------------ MODULE StreamUrl ------------------------------
(***************************************************************************)
(* The WebSocket URL a session connects to (src/src/connection_manager.rs, *)
(* connect_to_symbol_session and the build_*_websocket_url functions):     *)
(* with an endpoint.ini entry for the venue its base URL is used, Binance  *)
(* venues turning it into a combined-stream URL; without one the default   *)
(* URL of the venue is used; a disabled endpoint fails the attempt.        *)
(*                                                                         *)
(* URLs and symbols are TLC strings, manipulated the way str::ends_with,   *)
(* str::contains, str::replace and str::to_lowercase do.                   *)
(***************************************************************************)
EXTENDS Integers, Sequences

CONSTANTS
    Venues,         \* venue display names of the symbol configuration
    Endpoints,      \* Endpoints[v]: the endpoint.ini entries venue v may have
    SymbolLists,    \* the symbol lists a session may carry (e.g. "BTC^USDT")
    NoEndpoint      \* no endpoint.ini, or no entry for the venue

VARIABLES
    venue, endpoint, symbols,
    url             \* NoUrl, Disabled, or the URL passed to Url::parse

vars == <<venue, endpoint, symbols, url>>

NoUrl == "none"
Disabled == "disabled"

-----------------------------------------------------------------------------
StartsWith(s, p) == Len(s) >= Len(p) /\ SubSeq(s, 1, Len(p)) = p
EndsWith(s, p) == Len(s) >= Len(p) /\ SubSeq(s, Len(s) - Len(p) + 1, Len(s)) = p
Contains(s, p) == \E i \in 0..(Len(s) - Len(p)) : SubSeq(s, i + 1, i + Len(p)) = p

\* str::replace: every non-overlapping occurrence, left to right.
RECURSIVE Replace(_, _, _)
Replace(s, pat, rep) ==
    IF Len(s) < Len(pat) THEN s
    ELSE IF SubSeq(s, 1, Len(pat)) = pat
         THEN rep \o Replace(SubSeq(s, Len(pat) + 1, Len(s)), pat, rep)
         ELSE SubSeq(s, 1, 1) \o Replace(SubSeq(s, 2, Len(s)), pat, rep)

Upper == "ABCDEFGHIJKLMNOPQRSTUVWXYZ"
Lower == "abcdefghijklmnopqrstuvwxyz"

\* str::to_lowercase on ASCII.
RECURSIVE ToLower(_)
ToLower(s) ==
    IF s = "" THEN ""
    ELSE LET c == SubSeq(s, 1, 1)
             k == {i \in 1..26 : SubSeq(Upper, i, i) = c}
         IN (IF k = {} THEN c ELSE LET i == CHOOSE j \in k : TRUE IN SubSeq(Lower, i, i))
            \o ToLower(SubSeq(s, 2, Len(s)))

\* [String]::join(sep).
RECURSIVE Join(_, _)
Join(parts, sep) ==
    IF parts = <<>> THEN ""
    ELSE IF Len(parts) = 1 THEN Head(parts)
    ELSE Head(parts) \o sep \o Join(Tail(parts), sep)

\* <symbol>@<trade>, <symbol>@depth for every symbol, in order.
RECURSIVE Streams(_, _)
Streams(syms, topic) ==
    IF syms = <<>> THEN <<>>
    ELSE LET b == ToLower(Replace(Head(syms), "^", ""))
         IN <<b \o "@" \o topic, b \o "@depth">> \o Streams(Tail(syms), topic)

\* Mutation: futures detected by a host substring that spot shares.
IsFuturesLoose(base) == Contains(base, "stream.binance.com")

\* `base_url.contains("fstream.binance.com")`.
IsFutures(base) == Contains(base, "fstream.binance.com")

\* build_binance_websocket_url_legacy.
BuildBinanceUrl(base, syms) ==
    LET s == Join(Streams(syms, IF IsFutures(base) THEN "aggTrade" ELSE "trade"), "/")
        sep == IF EndsWith(base, "/") THEN "" ELSE "/"
    IN CASE EndsWith(base, "/ws/") -> Replace(base, "/ws/", "/stream?") \o "streams=" \o s
         [] EndsWith(base, "/ws") -> Replace(base, "/ws", "/stream?") \o "streams=" \o s
         [] EndsWith(base, "/stream") \/ EndsWith(base, "/stream/") ->
               base \o sep \o "?streams=" \o s
         [] OTHER -> base \o sep \o "stream?streams=" \o s

\* build_binance_websocket_url_from_endpoint: the builder above on the
\* endpoint's ws_url_base.
BuildBinanceUrlFromEndpoint(base, syms) == BuildBinanceUrl(base, syms)

\* build_okx/bybit/upbit/bithumb/coinbase_websocket_url: the venue
\* subscribes after connecting, so the symbols are only logged and the
\* URL is ws_url_base unchanged.
BuildVenueUrl(base, syms) == base

\* build_websocket_url_from_endpoint, dispatching on the section name's
\* prefix; a venue of no known prefix also gets ws_url_base unchanged.
BuildWebsocketUrlFromEndpoint(v, base, syms) ==
    CASE StartsWith(v, "Binance") -> BuildBinanceUrlFromEndpoint(base, syms)
      [] \E p \in {"Okx", "Bybit", "Upbit", "Bithumb", "Coinbase"} : StartsWith(v, p) ->
            BuildVenueUrl(base, syms)
      [] OTHER -> base

\* build_default_websocket_url.
DefaultBase(v) ==
    IF v = "BinanceFutures" THEN "wss://fstream.binance.com/ws/"
    ELSE "wss://stream.binance.com:9443/ws/"

BuildDefaultWebsocketUrl(v, syms) ==
    IF v \in {"BinanceSpot", "BinanceFutures"}
    THEN BuildBinanceUrl(DefaultBase(v), syms)
    ELSE "wss://stream.binance.com:9443/ws/btcusdt@trade"

-----------------------------------------------------------------------------
Init ==
    /\ venue \in Venues
    /\ endpoint \in Endpoints[venue]
    /\ symbols \in SymbolLists
    /\ url = NoUrl

\* The URL part of connect_to_symbol_session, before Url::parse.
ResolveUrl ==
    /\ url = NoUrl
    /\ url' = CASE endpoint = NoEndpoint -> BuildDefaultWebsocketUrl(venue, symbols)
                [] ~endpoint.enabled -> Disabled
                [] OTHER -> BuildWebsocketUrlFromEndpoint(venue, endpoint.base, symbols)
    /\ UNCHANGED <<venue, endpoint, symbols>>

Next == ResolveUrl

Spec == Init /\ [][Next]_vars

-----------------------------------------------------------------------------
\* The spec's combined-stream form (section 4.1): the base with a trailing
\* /ws, /ws/, /stream or /stream/ (or a lone trailing /) taken off, then
\* /stream?streams= and the streams, the trade topic being aggTrade for
\* the futures venue and trade for spot.
SpecRoot(base) ==
    CASE EndsWith(base, "/ws/") -> SubSeq(base, 1, Len(base) - 4)
      [] EndsWith(base, "/ws") -> SubSeq(base, 1, Len(base) - 3)
      [] EndsWith(base, "/stream/") -> SubSeq(base, 1, Len(base) - 8)
      [] EndsWith(base, "/stream") -> SubSeq(base, 1, Len(base) - 7)
      [] EndsWith(base, "/") -> SubSeq(base, 1, Len(base) - 1)
      [] OTHER -> base

SpecUrl(v, base, syms) ==
    IF StartsWith(v, "Binance")
    THEN SpecRoot(base) \o "/stream?streams="
           \o Join(Streams(syms, IF v = "BinanceFutures" THEN "aggTrade" ELSE "trade"), "/")
    ELSE base

\* URL form: every session of a Binance venue connects to the spec's
\* combined-stream URL of its configured base (or of the venue's default
\* base), subscribing to its own symbols with the venue's trade topic;
\* every other venue with an endpoint connects to its base URL unchanged.
UrlMatchesSpec ==
    url \notin {NoUrl, Disabled} =>
        IF endpoint = NoEndpoint
        THEN StartsWith(venue, "Binance") => url = SpecUrl(venue, DefaultBase(venue), symbols)
        ELSE url = SpecUrl(venue, endpoint.base, symbols)
=============================================================================
