-------------------------- MODULE MCSymbolNormalize --------------------------
(* Symbols made of a short base and a tail.  Bases cover upper and lower  *)
(* case, digits, padding and a character set_symbol drops, plus one base  *)
(* long enough that BASE^QUOTE overflows the 19-byte field; tails cover   *)
(* every quote in both cases, a partial quote and an unknown one.         *)
EXTENDS SymbolNormalize

ShortBases == UNION {[1..n -> {"A", "b", "1", " ", "."}] : n \in 0..2}

LongBase == Chars("AAAAAAAAAAAAAAA1")

Tails == {Chars(t) : t \in {"USDT", "usdt", "USDC", "BUSD", "busd", "BTC", "btc",
                            "ETH", "BNB", "SDT", "EUR", ""}}

MCRaw == {b \o t : b \in ShortBases \cup {LongBase}, t \in Tails}
=============================================================================
