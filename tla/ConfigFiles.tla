----------------------------- MODULE ConfigFiles -----------------------------
(***************************************************************************)
(* Start-up configuration (src/src/config.rs) and the sessions it makes   *)
(* ConnectionManager::run start (src/src/connection_manager.rs).           *)
(*                                                                         *)
(* SymbolConfig::parse and EndpointConfig::parse read their file line by   *)
(* line, one action per line.  Config::load keeps a file that fails to     *)
(* load or parse as None (`.ok()`); run then starts one task per session  *)
(* of symbol_config.ini, or the legacy Binance loop when there is none,    *)
(* and each session looks its venue up in endpoint.ini before connecting. *)
(*                                                                         *)
(* A line is abstracted to what the parser tells apart after trim(): a    *)
(* blank or '#' line, a [section], a symbol line as its list of symbols   *)
(* after split(',') / trim / filter, or a key=value line.                  *)
(***************************************************************************)
EXTENDS Integers, Sequences, SequencesExt

CONSTANTS
    Names,          \* exchange names a [section] may carry
    BtcSymbols,     \* the symbols starting with "BTC^"
    SymbolFiles,    \* possible contents of symbol_config.ini, or NoFile
    EndpointFiles,  \* possible contents of endpoint.ini, or NoFile
    NoFile,         \* read_config_file found no file
    None            \* Option::None

Skip == [kind |-> "skip"]
Section(n) == [kind |-> "section", name |-> n]
SymbolLine(s) == [kind |-> "symbols", syms |-> s]
KeyValue(k, v) == [kind |-> "kv", key |-> k, value |-> v]

Keys == {"ws_url_base", "timeout_ms", "enabled"}

\* The task of the legacy loop (manage_exchange_connection for "binance").
Legacy == [exchange |-> "binance", index |-> 0, symbols |-> <<>>, btc |-> FALSE,
           connects |-> TRUE]

VARIABLES
    symFile, epFile,    \* the two files as read
    phase,              \* "symbols", "endpoints", "run" or "done"
    pos,                \* next line of the file being parsed
    current,            \* current_exchange
    sessions,           \* current_sessions
    symExchanges,       \* SymbolConfig.exchanges: name -> sessions, or None
    symbolConfig,       \* Config.symbol_config is Some
    settings,           \* current_settings: key -> value, or None
    endpoints,          \* EndpointConfig.exchanges: name -> enabled, or None
    endpointConfig,     \* Config.endpoint_config is Some
    started             \* the tasks run spawned

vars == <<symFile, epFile, phase, pos, current, sessions, symExchanges, symbolConfig,
          settings, endpoints, endpointConfig, started>>

NoSettings == [k \in Keys |-> None]

-----------------------------------------------------------------------------
\* parse_symbol_line for a non-empty list; is_btc_session only for a
\* single symbol starting with "BTC^".
IsBtcSession(s) == Len(s) = 1 /\ s[1] \in BtcSymbols

\* Mutation: `parse::<bool>` replaced by a test for any value.
ParseExchangeSettingsAnyEnabled(st) ==
    IF st["ws_url_base"] = None \/ st["timeout_ms"] = None THEN None
    ELSE st["enabled"] # None

\* parse_exchange_settings: None unless ws_url_base and timeout_ms are
\* set (the two `?`); enabled only when the value parses as true.
ParseExchangeSettings(st) ==
    IF st["ws_url_base"] = None \/ st["timeout_ms"] = None THEN None
    ELSE st["enabled"] = "true"

\* The store of the current section into the map, as at a [section] line
\* and after the last line.  HashMap::insert replaces an earlier section of
\* the same name.
StoreSymbols == IF current = None THEN symExchanges
                ELSE [symExchanges EXCEPT ![current] = sessions]

StoreEndpoint ==
    IF current = None \/ ParseExchangeSettings(settings) = None THEN endpoints
    ELSE [endpoints EXCEPT ![current] = ParseExchangeSettings(settings)]

-----------------------------------------------------------------------------
Init ==
    /\ symFile \in SymbolFiles
    /\ epFile \in EndpointFiles
    /\ phase = "symbols"
    /\ pos = 1
    /\ current = None
    /\ sessions = <<>>
    /\ symExchanges = [n \in Names |-> None]
    /\ symbolConfig = FALSE
    /\ settings = NoSettings
    /\ endpoints = [n \in Names |-> None]
    /\ endpointConfig = FALSE
    /\ started = {}

Line == IF phase = "symbols" THEN symFile[pos] ELSE epFile[pos]
File == IF phase = "symbols" THEN symFile ELSE epFile

\* A missing file: load() fails at read_config_file and .ok() gives None.
FileMissing ==
    /\ phase \in {"symbols", "endpoints"} /\ pos = 1 /\ File = NoFile
    /\ phase' = IF phase = "symbols" THEN "endpoints" ELSE "run"
    /\ UNCHANGED <<symFile, epFile, pos, current, sessions, symExchanges, symbolConfig,
                   settings, endpoints, endpointConfig, started>>

\* A blank or comment line, or (endpoint.ini) a line without '='.
SkipLine ==
    /\ phase \in {"symbols", "endpoints"} /\ File # NoFile /\ pos <= Len(File)
    /\ Line.kind = "skip"
    /\ pos' = pos + 1
    /\ UNCHANGED <<symFile, epFile, phase, current, sessions, symExchanges, symbolConfig,
                   settings, endpoints, endpointConfig, started>>

SymbolSection ==
    /\ phase = "symbols" /\ symFile # NoFile /\ pos <= Len(symFile)
    /\ Line.kind = "section"
    /\ symExchanges' = StoreSymbols
    /\ sessions' = <<>>
    /\ current' = Line.name
    /\ pos' = pos + 1
    /\ UNCHANGED <<symFile, epFile, phase, symbolConfig, settings, endpoints,
                   endpointConfig, started>>

\* A symbol line: ignored before the first section; an empty list is an
\* Err that ends the parse (the `?`), which load().ok() turns into None.
SymbolSessionLine ==
    /\ phase = "symbols" /\ symFile # NoFile /\ pos <= Len(symFile)
    /\ Line.kind = "symbols"
    /\ IF current = None
       THEN /\ pos' = pos + 1
            /\ UNCHANGED <<phase, current, sessions>>
       ELSE IF Line.syms = <<>>
       THEN /\ phase' = "endpoints" /\ pos' = 1 /\ current' = None
            /\ UNCHANGED sessions
       ELSE /\ sessions' = Append(sessions, [symbols |-> Line.syms,
                                             btc |-> IsBtcSession(Line.syms)])
            /\ pos' = pos + 1
            /\ UNCHANGED <<phase, current>>
    /\ UNCHANGED <<symFile, epFile, symExchanges, symbolConfig, settings,
                   endpoints, endpointConfig, started>>

SymbolEnd ==
    /\ phase = "symbols" /\ symFile # NoFile /\ pos > Len(symFile)
    /\ symExchanges' = StoreSymbols
    /\ symbolConfig' = TRUE
    /\ phase' = "endpoints" /\ pos' = 1 /\ current' = None
    /\ UNCHANGED <<symFile, epFile, sessions, settings, endpoints, endpointConfig, started>>

\* A [section] of endpoint.ini; settings read before the first section
\* are not cleared and belong to it.
EndpointSection ==
    /\ phase = "endpoints" /\ epFile # NoFile /\ pos <= Len(epFile)
    /\ Line.kind = "section"
    /\ endpoints' = StoreEndpoint
    /\ settings' = IF current = None THEN settings ELSE NoSettings
    /\ current' = Line.name
    /\ pos' = pos + 1
    /\ UNCHANGED <<symFile, epFile, phase, sessions, symExchanges, symbolConfig,
                   endpointConfig, started>>

EndpointSetting ==
    /\ phase = "endpoints" /\ epFile # NoFile /\ pos <= Len(epFile)
    /\ Line.kind = "kv"
    /\ settings' = [settings EXCEPT ![Line.key] = Line.value]
    /\ pos' = pos + 1
    /\ UNCHANGED <<symFile, epFile, phase, current, sessions, symExchanges, symbolConfig,
                   endpoints, endpointConfig, started>>

EndpointEnd ==
    /\ phase = "endpoints" /\ epFile # NoFile /\ pos > Len(epFile)
    /\ endpoints' = StoreEndpoint
    /\ endpointConfig' = TRUE
    /\ phase' = "run"
    /\ UNCHANGED <<symFile, epFile, pos, current, sessions, symExchanges, symbolConfig,
                   settings, started>>

\* Whether a session of exchange n gets past the endpoint check at the top
\* of connect_to_symbol_session: without endpoint.ini or without an entry
\* for n it uses the default URL; a disabled entry returns Err.
Connects(n) == ~endpointConfig \/ endpoints[n] # FALSE

\* ConnectionManager::run: one task per session of every exchange of the
\* symbol configuration, numbered by enumerate(); else the legacy loop.
Run ==
    /\ phase = "run"
    /\ started' =
         IF symbolConfig
         THEN UNION {{[exchange |-> n, index |-> k, symbols |-> symExchanges[n][k].symbols,
                       btc |-> symExchanges[n][k].btc, connects |-> Connects(n)] :
                         k \in 1..Len(symExchanges[n])} :
                       n \in {m \in Names : symExchanges[m] # None}}
         ELSE {Legacy}
    /\ phase' = "done"
    /\ UNCHANGED <<symFile, epFile, pos, current, sessions, symExchanges, symbolConfig,
                   settings, endpoints, endpointConfig>>

Next ==
    \/ FileMissing \/ SkipLine
    \/ SymbolSection \/ SymbolSessionLine \/ SymbolEnd
    \/ EndpointSection \/ EndpointSetting \/ EndpointEnd
    \/ Run

Spec == Init /\ [][Next]_vars

-----------------------------------------------------------------------------
\* What the files say, read the way the spec describes them (section 6):
\* every non-comment line of a [section] of the symbols file is one
\* session of that exchange, a single BTC^ symbol marking a BTC session;
\* an endpoints section gives its exchange's settings.  An unparseable
\* value is fatal at start-up (section 7 (e)): no session runs.
LastOf(S) == CHOOSE j \in S : \A k \in S : k <= j

SectionAt(f, i) ==
    LET hs == {j \in 1..(i - 1) : f[j].kind = "section"}
    IN IF hs = {} THEN None ELSE f[LastOf(hs)].name

SpecLines(f, n) ==
    LET idx == {i \in DOMAIN f : f[i].kind = "symbols" /\ SectionAt(f, i) = n}
    IN [k \in 1..Cardinality(idx) |-> f[SetToSortSeq(idx, <)[k]].syms]

Unparseable(f) ==
    \E i \in DOMAIN f : f[i].kind = "symbols" /\ f[i].syms = <<>> /\ SectionAt(f, i) # None

\* The exchange is switched off: its section sets enabled to anything but
\* "true" (the code's default for a missing key is false as well).
SpecDisabled(f, n) ==
    /\ f # NoFile
    /\ \E i \in DOMAIN f : f[i] = Section(n)
    /\ LET en == {j \in DOMAIN f : f[j].kind = "kv" /\ f[j].key = "enabled"
                                  /\ SectionAt(f, j) = n}
       IN en = {} \/ f[LastOf(en)].value # "true"

SpecStarted(sf, ef) ==
    CASE sf = NoFile -> {Legacy}
      [] Unparseable(sf) -> {}
      [] OTHER ->
           UNION {{[exchange |-> n, index |-> k, symbols |-> SpecLines(sf, n)[k],
                    btc |-> Len(SpecLines(sf, n)[k]) = 1 /\ SpecLines(sf, n)[k][1] \in BtcSymbols,
                    connects |-> ~SpecDisabled(ef, n)] :
                      k \in 1..Len(SpecLines(sf, n))} : n \in Names}

\* Configured sessions: once run has spawned its tasks, they are exactly
\* the sessions the symbols file lists, in file order per exchange, with
\* the BTC marking, and a session connects exactly when the endpoints file
\* does not switch its exchange off; without a symbols file the legacy
\* loop runs, and an unparseable symbols file starts nothing.
ConfiguredSessions ==
    phase = "done" => started = SpecStarted(symFile, epFile)
=============================================================================
