--------------------------- MODULE PacketPipeline ---------------------------
(***************************************************************************)
(* The hot path of every session task: ConnectionManager::process_message  *)
(* (src/src/connection_manager.rs) parses a frame with DataParser, turns   *)
(* the record into datagrams with PacketBuilder::build_packets, and sends  *)
(* them one after another with UdpMulticaster::send_packet.  All sessions  *)
(* share one PacketBuilder, hence one sequence counter, and one            *)
(* UdpMulticaster.  The runtime is always tokio's multi-thread runtime     *)
(* (main.rs), with as many workers as config.ini's runtime_threads or the  *)
(* machine's cores.  Every fetch_add and every send is a step of its own;  *)
(* a session holds its worker from the frame it read to its next read     *)
(* (process_message never yields), so other sessions interleave with it   *)
(* only from the other workers.                                            *)
(*                                                                         *)
(* Data is abstracted to what the properties tell apart: a record is the   *)
(* kind and the number of items it carries; a                             *)
(* datagram is its header fields that matter (sequence number, the         *)
(* flags_and_count byte) plus the number of items behind it, and ghost     *)
(* fields naming the session, frame and chunk it came from.  A session's  *)
(* display name picks its parser and is written into every header.        *)
(***************************************************************************)
EXTENDS Integers, Sequences, SequencesExt, FiniteSets

CONSTANTS
    Sessions,       \* the session tasks sharing the builder and the emitter
    MaxFrames,      \* bound: frames each session receives
    DepthSizes,     \* non-zero levels a depthUpdate may carry (0 included)
    Venue,          \* each session's exchange display name (symbols.ini section)
    ConfigIniFiles, \* the config.ini contents the process may start with
    NoIni,          \* config.ini could not be read
    Cores           \* the machine's cores: tokio's default worker count

ASSUME Sessions # {} /\ MaxFrames \in Nat /\ DepthSizes \subseteq Nat /\ Cores \in Nat \ {0}

\* Wire constants of protocol.rs and packet_builder.rs.
HeaderSize == 67        \* size_of::<PacketHeader>()
ItemSize   == 16        \* size_of::<TradeTickItem>() = size_of::<OrderBookItem>()
MTU        == 1472      \* the limit create_packet and create_packet_from_flat check
MaxCount   == 80        \* the clamp in set_flags_and_count

\* The frames a session can receive, as the parser classifies them:
\* "trade" yields one Trade, "aggTrade" a TradeBatch of one trade,
\* "depthUpdate" an order book with n non-zero levels, and "bad" anything
\* parse_binance_message rejects (malformed JSON, missing fields, an
\* unknown event type).
Frames ==
    {[kind |-> "trade", items |-> 1],
     [kind |-> "aggTrade", items |-> 1],
     [kind |-> "bad", items |-> 0]}
    \cup {[kind |-> "depthUpdate", items |-> n] : n \in DepthSizes}

VARIABLES
    seqCounter,     \* PacketBuilder.sequence_counter
    wire,           \* the datagrams that left the socket, in order
    pc,             \* where each session task is in process_message
    received,       \* frames each session has taken from its stream
    todo,           \* item counts of the chunks of the record being built
    built,          \* datagrams built and not yet handed to send_packet
    packetsSent,    \* UdpMulticaster.packets_sent
    bytesSent,      \* UdpMulticaster.bytes_sent
    hdr,            \* the exchange and event exchange_id of the record being built
    workers         \* the tokio runtime's worker threads

vars == <<seqCounter, wire, pc, received, todo, built, packetsSent, bytesSent, hdr, workers>>

-----------------------------------------------------------------------------
\* Mutation: the number of chunks computed as n / c + 1, so an empty
\* record still yields one (empty) chunk.
ChunkCountsExtra(n, c) ==
    [i \in 1..(n \div c + 1) |-> IF i * c <= n THEN c ELSE n - (i - 1) * c]

\* Mutation: chunks one item larger than the code's.
ChunkCountsWide(n, c) ==
    [i \in 1..((n + c) \div (c + 1)) |-> IF i * (c + 1) <= n THEN c + 1 ELSE n - (i - 1) * (c + 1)]

\* <[T]>::chunks(c) on the n items of a record: the item count of each
\* chunk, in order; no chunk for an empty record.
ChunkCounts(n, c) ==
    [i \in 1..((n + c - 1) \div c) |-> IF i * c <= n THEN c ELSE n - (i - 1) * c]

\* build_trade_packets(trade) is build_trade_packets_batch(vec![trade]):
\* the trade forms the only timestamp group and the only (symbol,
\* exchange) group, whose items are cut into chunks of 50.
BuildTradePackets(n) == ChunkCounts(n, 50)

\* build_trade_batch_packets: the sorted trades in chunks of 80.
BuildTradeBatchChunks(n) == ChunkCounts(n, 80)

\* build_packets: the item counts of the datagrams of a parsed record;
\* for an order book, n counts the levels of non-zero quantity.
BuildPackets(f) ==
    CASE f.kind = "trade" -> BuildTradePackets(f.items)
      [] f.kind = "aggTrade" -> BuildTradeBatchChunks(f.items)
      [] OTHER -> ChunkCounts(f.items, 80)

\* set_flags_and_count(is_last, count): bit 7 is is_last, bits 0-6 the
\* count clamped to 80.
FlagsAndCount(isLast, count) ==
    (IF isLast THEN 128 ELSE 0) + ((IF count < MaxCount THEN count ELSE MaxCount) % 128)

IsLastFlag(b) == b >= 128            \* PacketHeader::is_last
ItemCountOf(b) == b % 128            \* PacketHeader::item_count

DatagramSize(d) == HeaderSize + ItemSize * d.items

\* Mutation: is_last marks the first chunk instead of the last.
IsLastChunkFirst(k, total) == k = 1

\* is_last = (chunk_index == total_chunks - 1), with 1-based k.
IsLastChunk(k, total) == k = total

\* Mutation: the counter is read but not advanced.
FetchAddLost(c) == c

\* sequence_counter.fetch_add(1): the value after the step.
FetchAdd(c) == c + 1

\* A ConnectionStatus payload (events.rs, packed): u16 + u8 + u8 + u32 + u64
\* bytes, the size of one item, so an event datagram is sized like a
\* one-item record.
ConnectionStatusSize == 2 + 1 + 1 + 4 + 8

ASSUME ConnectionStatusSize = ItemSize

\* build_event_packet_with_exchange: a single chunk of one item, so its
\* header has is_last set and count 1.
EventChunks == <<1>>

\* The message_type byte setup_header writes: MESSAGE_TYPE_ORDER_BOOK (0)
\* for a book, MESSAGE_TYPE_TRADE_TICK (1) for trades and trade batches.
RecordMessageType(kind) == IF kind = "depthUpdate" THEN 0 ELSE 1

\* SystemEvent::get_message_type for a ConnectionStatus event.
ConnectionStatusType == 101

-----------------------------------------------------------------------------
\* Text helpers over TLC strings.
UpperCase == "ABCDEFGHIJKLMNOPQRSTUVWXYZ"
LowerCase == "abcdefghijklmnopqrstuvwxyz"
CharAt(str, i) == SubSeq(str, i, i)
InStr(c, str) == \E i \in 1..Len(str) : CharAt(str, i) = c
StartsWith(str, p) == Len(p) <= Len(str) /\ SubSeq(str, 1, Len(p)) = p
HasSubstring(str, sub) == \E i \in 0..(Len(str) - Len(sub)) : SubSeq(str, i + 1, i + Len(sub)) = sub

\* str::to_lowercase on ASCII.
RECURSIVE ToLower(_)
ToLower(str) ==
    IF str = "" THEN ""
    ELSE LET c == CharAt(str, 1) IN
         (IF InStr(c, UpperCase)
          THEN CharAt(LowerCase, CHOOSE i \in 1..26 : CharAt(UpperCase, i) = c)
          ELSE c) \o ToLower(SubSeq(str, 2, Len(str)))

\* PacketHeader::set_exchange: only [A-Za-z0-9^_-] is kept (which also
\* does what trim does), then at most 19 bytes, the 20th being NUL.
HeaderChar(c) == InStr(c, UpperCase \o LowerCase \o "0123456789^-_")
RECURSIVE Sanitized(_)
Sanitized(str) ==
    IF str = "" THEN ""
    ELSE (IF HeaderChar(CharAt(str, 1)) THEN CharAt(str, 1) ELSE "")
         \o Sanitized(SubSeq(str, 2, Len(str)))
SetExchange(name) ==
    LET t == Sanitized(name) IN SubSeq(t, 1, IF Len(t) < 19 THEN Len(t) ELSE 19)

\* exchange_name_to_id (events.rs).
ExchangeIds == [binance |-> 1, okx |-> 2, bybit |-> 3, upbit |-> 4, bithumb |-> 5, coinbase |-> 6]
ExchangeNameToId(name) ==
    IF ToLower(name) \in DOMAIN ExchangeIds THEN ExchangeIds[ToLower(name)] ELSE 0

\* The substrings infer_exchange_id_from_display tries, in its order.
Families == <<"binance", "okx", "bybit", "upbit", "bithumb", "coinbase">>

\* Mutation: the display name is searched without lower-casing it.
InferExchangeIdCaseSensitive(name) ==
    LET hits == {i \in 1..Len(Families) : HasSubstring(name, Families[i])} IN
    IF hits = {} THEN 0 ELSE ExchangeNameToId(Families[CHOOSE i \in hits : \A j \in hits : i <= j])

\* infer_exchange_id_from_display: the id of the first family whose name
\* the lower-cased display name contains, 0 if none.
InferExchangeIdFromDisplay(name) ==
    LET hits == {i \in 1..Len(Families) : HasSubstring(ToLower(name), Families[i])} IN
    IF hits = {} THEN 0 ELSE ExchangeNameToId(Families[CHOOSE i \in hits : \A j \in hits : i <= j])

\* The exchange_id field of a datagram that is not a ConnectionStatus event.
NoEvent == -1

\* normalize_exchange_name(exchange, market_type).
NormalizeExchangeName(ex, market) ==
    CASE ToLower(ex) = "binance" -> IF market = "futures" THEN "BinanceFutures" ELSE "BinanceSpot"
      [] ToLower(ex) = "bybit" -> CASE market = "linear" -> "BybitLinear"
                                    [] market = "inverse" -> "BybitInverse"
                                    [] OTHER -> "BybitSpot"
      [] ToLower(ex) = "okx" -> CASE market = "swap" -> "OkxSwap"
                                  [] market = "futures" -> "OkxFutures"
                                  [] OTHER -> "OkxSpot"
      [] OTHER -> ex \o "_" \o market

\* What parse_message returns: a record (its kind, item count and
\* exchange field) or an error.
ParseError == [kind |-> "error", items |-> 0, exchange |-> ""]

\* parse_binance_message: the event type picks the converter, each of
\* which fills the exchange field with a normalize_exchange_name literal.
ParseBinanceMessage(f) ==
    CASE f.kind = "trade" ->
           [kind |-> "trade", items |-> f.items, exchange |-> NormalizeExchangeName("binance", "spot")]
      [] f.kind = "aggTrade" ->
           [kind |-> "aggTrade", items |-> f.items, exchange |-> NormalizeExchangeName("binance", "futures")]
      [] f.kind = "depthUpdate" ->
           [kind |-> "depthUpdate", items |-> f.items, exchange |-> NormalizeExchangeName("binance", "spot")]
      [] OTHER -> ParseError

\* parse_default_message: whatever the frame holds, a placeholder Trade
\* (UNKNOWN^USDT, price and quantity 0) tagged "Unknown".
ParseDefaultMessage(f) == [kind |-> "trade", items |-> 1, exchange |-> "Unknown"]

\* get_parser_for_exchange: the Binance parser for a name starting with
\* "Binance", the default parser otherwise.
GetParserForExchange(name) == IF StartsWith(name, "Binance") THEN "binance" ELSE "default"

\* DataParser::new_with_config(Some(&config)) as main calls it: "binance"
\* first, then one entry per exchange of symbols.ini, each by prefix.
ExchangeNames == {Venue[s] : s \in Sessions}
Parsers ==
    [n \in {"binance"} \cup ExchangeNames |->
        IF n \in ExchangeNames THEN GetParserForExchange(n) ELSE "binance"]

\* The header exchange field set_exchange makes of every exchange a record
\* can carry, computed once.
RecordExchanges ==
    ExchangeNames \cup {NormalizeExchangeName("binance", "spot"),
                        NormalizeExchangeName("binance", "futures"), "Unknown"}
HeaderExchange == [n \in RecordExchanges |-> SetExchange(n)]

\* Mutation: the OrderBook arm of the re-tagging match is forgotten.
ParseMessageBookUntagged(exchange, f) ==
    IF exchange \notin DOMAIN Parsers THEN ParseError
    ELSE LET r == IF Parsers[exchange] = "binance" THEN ParseBinanceMessage(f) ELSE ParseDefaultMessage(f)
         IN IF r = ParseError \/ r.kind = "depthUpdate" THEN r ELSE [r EXCEPT !.exchange = exchange]

\* parse_message(exchange, data): the parser registered under the
\* session's display name (an unregistered name is an error), then the
\* record's exchange replaced by that display name.
ParseMessage(exchange, f) ==
    IF exchange \notin DOMAIN Parsers THEN ParseError
    ELSE LET r == IF Parsers[exchange] = "binance" THEN ParseBinanceMessage(f) ELSE ParseDefaultMessage(f)
         IN IF r = ParseError THEN r ELSE [r EXCEPT !.exchange = exchange]

-----------------------------------------------------------------------------
\* A line of config.ini as parse_ini tells it apart (after trim): blank,
\* a # or ; comment, a [section] header, key=value, or text without '='.
IniLine(kind, k, v) == [kind |-> kind, key |-> k, value |-> v]

\* Config::parse_ini: sections are ignored, so all keys share one flat
\* map, and a later key=value overrides an earlier one.
ParseIni(lines) ==
    FoldLeft(LAMBDA m, l : IF l.kind = "kv" THEN (l.key :> l.value) @@ m ELSE m,
             <<>>, lines)

\* Config::load: a config.ini that cannot be read gives the empty map.
LoadIni(f) == IF f = NoIni THEN <<>> ELSE ParseIni(f)

\* <usize as FromStr>::from_str: an optional '+', then one or more
\* decimal digits; anything else is an error (here -1).  The values
\* modelled are far from overflow.
Digits == "0123456789"
ParseUsize(str) ==
    LET b == IF StartsWith(str, "+") THEN SubSeq(str, 2, Len(str)) ELSE str
    IN IF Len(b) > 0 /\ \A i \in 1..Len(b) : InStr(CharAt(b, i), Digits)
       THEN FoldLeft(LAMBDA acc, i : 10 * acc + (CHOOSE d \in 0..9 : CharAt(Digits, d + 1) = CharAt(b, i)),
                     0, [i \in 1..Len(b) |-> i])
       ELSE -1

\* Config::load's runtime_threads: the value parsed as usize, kept only
\* when it is > 0; None (here 0) otherwise.
RuntimeThreads(m) ==
    IF "runtime_threads" \in DOMAIN m /\ ParseUsize(m["runtime_threads"]) > 0
    THEN ParseUsize(m["runtime_threads"]) ELSE 0

\* main: worker_threads(t) for Some(t) with t > 0, else the builder's
\* default of one worker per core.
RuntimeWorkers(t) == IF t > 0 THEN t ELSE Cores

Busy == {t \in Sessions : pc[t] # "Recv"}

\* A session waiting on its stream runs again only on a free worker.
WorkerFree == Cardinality(Busy) < workers

-----------------------------------------------------------------------------
\* PacketBuilder::new: the sequence counter starts at 1.
PacketBuilderNew == seqCounter = 1

\* UdpMulticaster::new: both counters start at 0.  Whether connect()
\* succeeded (send) or not (send_to) changes nothing modelled here.
UdpMulticasterNew == packetsSent = 0 /\ bytesSent = 0

\* async_main builds one PacketBuilder and one UdpMulticaster and hands
\* both, behind Arc, to the ConnectionManager all session tasks share.
Init ==
    /\ PacketBuilderNew
    /\ UdpMulticasterNew
    /\ wire = <<>>
    /\ pc = [s \in Sessions |-> "Recv"]
    /\ received = [s \in Sessions |-> 0]
    /\ todo = [s \in Sessions |-> <<>>]
    /\ built = [s \in Sessions |-> <<>>]
    /\ hdr = [s \in Sessions |-> [venue |-> "", eid |-> NoEvent, mtype |-> 0, kind |-> "none"]]
    /\ \E f \in ConfigIniFiles : workers = RuntimeWorkers(RuntimeThreads(LoadIni(f)))

\* The receive loop hands a Text or Binary frame to process_message.
\* parse_message either fails (the error is logged, the connection kept)
\* or yields a record; build_order_book_packets returns no packet when no
\* level has a non-zero quantity.
Receive(s, f) ==
    /\ pc[s] = "Recv"
    /\ WorkerFree
    /\ received[s] < MaxFrames
    /\ received' = [received EXCEPT ![s] = @ + 1]
    /\ LET r == ParseMessage(Venue[s], f)
           chunks == BuildPackets(r)
       IN IF r = ParseError \/ chunks = <<>>
          THEN UNCHANGED <<pc, todo, hdr>>
          ELSE /\ todo' = [todo EXCEPT ![s] = chunks]
               /\ hdr' = [hdr EXCEPT ![s] = [venue |-> r.exchange, eid |-> NoEvent,
                                             mtype |-> RecordMessageType(r.kind), kind |-> r.kind]]
               /\ pc' = [pc EXCEPT ![s] = "Build"]
    /\ UNCHANGED <<seqCounter, wire, built, packetsSent, bytesSent, workers>>

\* send_connection_event, called by the session loop before and after
\* each connection attempt and when the stream closes or fails: the event
\* datagram takes the next sequence number from the shared builder, like
\* any record, and is sent with send_packet; its result is ignored
\* (`let _`), which for a single datagram is what the record path does
\* with an error too.  The session's frame numbering counts it as a step.
ConnectionEvent(s) ==
    /\ pc[s] = "Recv"
    /\ WorkerFree
    /\ received[s] < MaxFrames
    /\ received' = [received EXCEPT ![s] = @ + 1]
    /\ todo' = [todo EXCEPT ![s] = EventChunks]
    /\ hdr' = [hdr EXCEPT ![s] = [venue |-> Venue[s], eid |-> InferExchangeIdFromDisplay(Venue[s]),
                                 mtype |-> ConnectionStatusType, kind |-> "event"]]
    /\ pc' = [pc EXCEPT ![s] = "Build"]
    /\ UNCHANGED <<seqCounter, wire, built, packetsSent, bytesSent, workers>>

\* One chunk of build_packets: setup_header takes the next sequence number,
\* set_flags_and_count writes the flags byte, create_packet checks the MTU.
\* A chunk over the MTU fails the whole build, so nothing of the record is
\* sent.  After the last chunk the send loop starts.
BuildChunk(s) ==
    LET k == Len(built[s]) + 1
        total == Len(todo[s])
        d == [seq |-> seqCounter,
              flags |-> FlagsAndCount(IsLastChunk(k, total), todo[s][k]),
              items |-> todo[s][k],
              venue |-> HeaderExchange[hdr[s].venue], eid |-> hdr[s].eid,
              mtype |-> hdr[s].mtype, kind |-> hdr[s].kind,
              src |-> s, frame |-> received[s], chunk |-> k, of |-> total]
    IN
    /\ pc[s] = "Build"
    /\ seqCounter' = FetchAdd(seqCounter)
    /\ IF DatagramSize(d) > MTU
       THEN /\ built' = [built EXCEPT ![s] = <<>>]
            /\ pc' = [pc EXCEPT ![s] = "Recv"]
       ELSE /\ built' = [built EXCEPT ![s] = Append(@, d)]
            /\ pc' = [pc EXCEPT ![s] = IF k = total THEN "Send" ELSE "Build"]
    /\ UNCHANGED <<wire, received, todo, hdr, packetsSent, bytesSent, workers>>

\* After a send_packet that returned Ok, the loop goes on with the next
\* datagram, or process_message returns.
SendDone(s) ==
    /\ built' = [built EXCEPT ![s] = Tail(@)]
    /\ pc' = [pc EXCEPT ![s] = IF Len(built[s]) = 1 THEN "Recv" ELSE "Send"]

\* Mutation: the newest datagram built is sent first.
SendOkNewestFirst(s) ==
    LET d == Last(built[s]) IN
    /\ pc[s] = "Send" /\ built[s] # <<>>
    /\ wire' = Append(wire, d)
    /\ packetsSent' = packetsSent + 1
    /\ bytesSent' = bytesSent + DatagramSize(d)
    /\ built' = [built EXCEPT ![s] = Front(@)]
    /\ pc' = [pc EXCEPT ![s] = IF Len(built[s]) = 1 THEN "Recv" ELSE "Send"]
    /\ UNCHANGED <<seqCounter, received, todo, hdr, workers>>

\* Mutation: the datagram is sent but the loop does not move past it.
SendOkResends(s) ==
    LET d == Head(built[s]) IN
    /\ pc[s] = "Send" /\ built[s] # <<>>
    /\ wire' = Append(wire, d)
    /\ packetsSent' = packetsSent + 1
    /\ bytesSent' = bytesSent + DatagramSize(d)
    /\ UNCHANGED <<seqCounter, received, todo, hdr, built, pc, workers>>

\* send() returns the datagram's length: it is on the wire and counted.
SendOk(s) ==
    LET d == Head(built[s]) IN
    /\ pc[s] = "Send" /\ built[s] # <<>>
    /\ wire' = Append(wire, d)
    /\ packetsSent' = packetsSent + 1
    /\ bytesSent' = bytesSent + DatagramSize(d)
    /\ SendDone(s)
    /\ UNCHANGED <<seqCounter, received, todo, hdr, workers>>

\* Mutation: a dropped datagram is counted as sent.
SendWouldBlockCounted(s) ==
    /\ pc[s] = "Send" /\ built[s] # <<>>
    /\ packetsSent' = packetsSent + 1
    /\ bytesSent' = bytesSent + DatagramSize(Head(built[s]))
    /\ SendDone(s)
    /\ UNCHANGED <<seqCounter, wire, received, todo, hdr, workers>>

\* WouldBlock: the datagram is dropped silently and Ok is returned.
SendWouldBlock(s) ==
    /\ pc[s] = "Send" /\ built[s] # <<>>
    /\ SendDone(s)
    /\ UNCHANGED <<seqCounter, wire, received, todo, hdr, packetsSent, bytesSent, workers>>

\* Any other error: `?` ends process_message, the rest of the record's
\* datagrams are never sent; the error is logged and the stream kept.
SendError(s) ==
    /\ pc[s] = "Send" /\ built[s] # <<>>
    /\ built' = [built EXCEPT ![s] = <<>>]
    /\ pc' = [pc EXCEPT ![s] = "Recv"]
    /\ UNCHANGED <<seqCounter, wire, received, todo, hdr, packetsSent, bytesSent, workers>>

Next ==
    \E s \in Sessions :
        \/ \E f \in Frames : Receive(s, f)
        \/ ConnectionEvent(s)
        \/ BuildChunk(s)
        \/ SendOk(s)
        \/ SendWouldBlock(s)
        \/ SendError(s)

\* A session task that is building or sending never waits on anything
\* (the socket is non-blocking), and tokio's workers keep running ready
\* tasks; whether another frame arrives is up to the exchange.
Fairness ==
    \A s \in Sessions :
        /\ WF_vars(BuildChunk(s))
        /\ WF_vars(SendOk(s) \/ SendWouldBlock(s) \/ SendError(s))

Spec == Init /\ [][Next]_vars /\ Fairness

-----------------------------------------------------------------------------
Datagram ==
    [seq : Nat, flags : 0..255, items : Nat, venue : STRING, eid : Int,
     mtype : 0..255, kind : STRING,
     src : Sessions, frame : Nat, chunk : Nat, of : Nat]

TypeOK ==
    /\ seqCounter \in Nat \ {0}
    /\ wire \in Seq(Datagram)
    /\ pc \in [Sessions -> {"Recv", "Build", "Send"}]
    /\ received \in [Sessions -> 0..MaxFrames]
    /\ todo \in [Sessions -> Seq(1..MaxCount)]
    /\ built \in [Sessions -> Seq(Datagram)]
    /\ packetsSent \in Nat
    /\ bytesSent \in Nat
    /\ hdr \in [Sessions -> [venue : STRING, eid : Int, mtype : 0..255, kind : STRING]]
    /\ workers \in Nat \ {0}

SameRecord(d, e) == d.src = e.src /\ d.frame = e.frame

\* Header (P1): every datagram on the wire fits the MTU and its header's
\* item_count is the number of items it actually carries.
HeaderMatchesPayload ==
    \A i \in 1..Len(wire) :
        /\ ItemCountOf(wire[i].flags) = wire[i].items
        /\ DatagramSize(wire[i]) <= MTU

\* is_last (P3): of the datagrams of one record that reach the wire, at
\* most the final one has is_last set; and when all of them reach the wire,
\* the final one has it.  Drops (WouldBlock) and an aborted send loop may
\* lose datagrams, never reorder or duplicate the flag.
IsLastExact ==
    \A i \in 1..Len(wire) :
        /\ \A j \in (i + 1)..Len(wire) :
              SameRecord(wire[i], wire[j]) => ~IsLastFlag(wire[i].flags)
        /\ (wire[i].chunk = wire[i].of) => IsLastFlag(wire[i].flags)

\* Per-session order (section 5): a session's datagrams reach the wire in
\* frame order, chunk order within a frame, and with strictly increasing
\* sequence numbers, whatever the other sessions do meanwhile.
SessionOrder ==
    \A i, j \in 1..Len(wire) :
        (i < j /\ wire[i].src = wire[j].src) =>
            /\ wire[i].seq < wire[j].seq
            /\ \/ wire[i].frame < wire[j].frame
               \/ wire[i].frame = wire[j].frame /\ wire[i].chunk < wire[j].chunk

\* Uniqueness: no two datagrams on the wire, of any sessions, carry the
\* same sequence number.
SeqUnique ==
    \A i, j \in 1..Len(wire) : i # j => wire[i].seq # wire[j].seq

\* Counters: packets_sent and bytes_sent count exactly the datagrams on the
\* wire and their bytes (a dropped datagram is not counted).
StatsMatchWire ==
    /\ packetsSent = Len(wire)
    /\ bytesSent = FoldLeft(LAMBDA acc, d : acc + DatagramSize(d), 0, wire)

\* The venue id table of spec section 6, by the family the display name
\* starts with.
SpecVenueId(v) ==
    CASE StartsWith(v, "Binance") -> 1 [] StartsWith(v, "Okx") -> 2
      [] StartsWith(v, "Bybit") -> 3 [] StartsWith(v, "Upbit") -> 4
      [] StartsWith(v, "Bithumb") -> 5 [] StartsWith(v, "Coinbase") -> 6
      [] OTHER -> 0

\* Venue tag (P9, section 6): every datagram a session emits names the
\* session's venue in its header, whatever exchange the parser wrote into
\* the record (the depth converter writes BinanceSpot for a futures book,
\* the default parser "Unknown"); and every ConnectionStatus datagram
\* carries that venue's id from the spec's table.
VenueTagOverride ==
    \A i \in 1..Len(wire) :
        /\ wire[i].venue = SetExchange(Venue[wire[i].src])
        /\ wire[i].eid # NoEvent => wire[i].eid = SpecVenueId(Venue[wire[i].src])

\* The decoder of src/bin, reading this process's datagrams.
Dec == INSTANCE Decoder

\* A datagram as recv_from hands it to the decoder.
OnWire(d) == [size |-> DatagramSize(d), mtype |-> d.mtype, flags |-> d.flags]

\* Items of the wire's datagrams that came from records of the given kinds.
WireItems(kinds) ==
    FoldLeft(LAMBDA acc, d : acc + (IF d.kind \in kinds THEN d.items ELSE 0), 0, wire)

\* Decoder agreement: the decoder of src/bin, reading every datagram on
\* the wire in order, reports no decoding error; its packet and byte
\* totals are the sender's packets_sent and bytes_sent; and it counts as
\* order-book items exactly the levels of the books sent, as trade-tick
\* items exactly the trades sent, and no item of a ConnectionStatus event.
DecoderReadsWire ==
    LET st == Dec!ReceiveAll([i \in 1..Len(wire) |-> OnWire(wire[i])])
    IN /\ st.errors = 0
       /\ st.total_packets = packetsSent
       /\ st.total_bytes = bytesSent
       /\ st.orderbook_items = WireItems({"depthUpdate"})
       /\ st.tradetick_items = WireItems({"trade", "aggTrade"})

\* Refinement: the pipeline implements SessionEmitter.  The counter is
\* sequence_counter, a session's pending numbers are those of the
\* datagrams it has built and not yet handed to send_packet, and the wire
\* is seen without headers and payloads.  Building a chunk is Number,
\* SendOk is Transmit, WouldBlock is Drop and a send error is Abandon;
\* parsing a frame and starting an event are stuttering steps.
Emitter == INSTANCE SessionEmitter WITH
    next <- seqCounter,
    pending <- [s \in Sessions |-> [i \in 1..Len(built[s]) |-> built[s][i].seq]],
    wire <- [i \in 1..Len(wire) |-> [seq |-> wire[i].seq, src |-> wire[i].src]]

\* The pipeline, interleaved across sessions and under its own fairness,
\* behaves as the emitter the spec describes: one counter, per-session
\* first-in first-out, losses only by drop or abandon, nothing sent twice.
EmitterRefinement == Emitter!Spec

\* Global order (I3, P2): sequence numbers are strictly increasing across
\* all datagrams the process emits, in emission order.
GlobalSeqMonotonic ==
    \A i \in 1..(Len(wire) - 1) : wire[i].seq < wire[i + 1].seq

=============================================================================
