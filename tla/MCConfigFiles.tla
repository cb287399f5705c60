--------------------------- MODULE MCConfigFiles ---------------------------
EXTENDS ConfigFiles

CONSTANTS Missing, NoValue

B == "BinanceSpot"
O == "OkxSpot"
Btc == "BTC^USDT"
Eth == "ETH^USDT"

MCNames == {B, O}
MCBtcSymbols == {Btc}

Url == KeyValue("ws_url_base", "u")
Timeout == KeyValue("timeout_ms", "5000")
On == KeyValue("enabled", "true")
Off == KeyValue("enabled", "false")

\* Symbol-file lines: comments, both sections, a BTC session, another
\* single-symbol session and a two-symbol session.
WellFormedLines ==
    {Skip, Section(B), Section(O), SymbolLine(<<Btc>>), SymbolLine(<<Eth>>),
     SymbolLine(<<Btc, Eth>>)}

Files(L, n) == UNION {[1..k -> L] : k \in 0..n}

NoDuplicateSection(f) ==
    \A i, j \in DOMAIN f : f[i].kind = "section" /\ f[i] = f[j] => i = j

\* Every symbols file of up to four lines with each section once.
WellFormedSymbolFiles ==
    {f \in Files(WellFormedLines, 4) : NoDuplicateSection(f)} \cup {Missing}

\* Endpoint files giving every key of a section: enabled, disabled, no
\* enabled key, keys in another order, two sections, comments.
WellFormedEndpointFiles ==
    {Missing, <<>>,
     <<Section(B), Url, Timeout, On>>,
     <<Section(B), Url, Timeout, Off>>,
     <<Section(B), Url, Timeout>>,
     <<Skip, Section(B), Off, Timeout, Url, Skip>>,
     <<Section(O), Url, Timeout, On, Section(B), Url, Timeout, Off>>}

\* Files the spec's reading still gives a meaning to: an empty symbol
\* line, a section given twice, a disabled section without timeout_ms.
OtherSymbolFiles ==
    {<<Section(B), SymbolLine(<<Btc>>), SymbolLine(<<>>)>>,
     <<Section(B), SymbolLine(<<Btc>>), Section(B), SymbolLine(<<Eth>>)>>,
     <<Section(B), SymbolLine(<<Btc>>)>>}

OtherEndpointFiles ==
    {<<Section(B), Url, Off>>}
=============================================================================
