--------------------------- MODULE SymbolNormalize ---------------------------
(***************************************************************************)
(* The path of a Binance symbol into a datagram header: the converters of  *)
(* src/src/data_parser.rs call normalize_binance_symbol, which matches a   *)
(* quote-currency suffix on the upper-cased symbol and inserts '^' before  *)
(* it; PacketHeader::set_symbol (src/src/protocol.rs) trims the result,    *)
(* keeps only [A-Za-z0-9^_-] and truncates it to 19 bytes.                 *)
(*                                                                         *)
(* The properties are about the characters themselves, so a symbol is a    *)
(* sequence of one-character strings over a small alphabet.                *)
(***************************************************************************)
EXTENDS Integers, Sequences, SequencesExt, TLC

CONSTANTS
    Raw,            \* the symbols the exchange may send, as character sequences
    FieldLen        \* bytes of the header's symbol field before the NUL (19)

Chars(str) == [i \in 1..Len(str) |-> SubSeq(str, i, i)]

\* The quote suffixes, in the order normalize_binance_symbol tests them.
Quotes == <<Chars("USDT"), Chars("USDC"), Chars("BUSD"),
            Chars("BTC"), Chars("ETH"), Chars("BNB")>>

Caret == <<"^">>

\* str::to_uppercase on the letters of the alphabet; other characters are
\* left as they are.
LowerToUpper ==
    ("b" :> "B") @@ ("c" :> "C") @@ ("d" :> "D") @@ ("s" :> "S")
    @@ ("t" :> "T") @@ ("u" :> "U") @@ ("a" :> "A")

ToUpper(s) ==
    [i \in DOMAIN s |-> IF s[i] \in DOMAIN LowerToUpper THEN LowerToUpper[s[i]] ELSE s[i]]

Alnum == {"A", "B", "C", "D", "E", "H", "N", "S", "T", "U",
          "a", "b", "c", "d", "s", "t", "u", "1"}

\* char::is_whitespace, on the alphabet.
IsSpace(c) == c = " "

VARIABLES
    raw,        \* the "s" field of the event
    header      \* the header's symbol bytes, <<>> before the header is set

vars == <<raw, header>>

-----------------------------------------------------------------------------
\* Mutation: the suffix is matched on the symbol as received, not on its
\* upper-cased form.
NormalizeNoUpper(s) ==
    LET hits == {i \in 1..Len(Quotes) : IsSuffix(Quotes[i], s)}
    IN IF hits = {} THEN s
       ELSE LET q == Quotes[CHOOSE i \in hits : \A j \in hits : i <= j]
            IN SubSeq(s, 1, Len(s) - Len(q)) \o Caret \o q

\* normalize_binance_symbol: the first quote in test order that ends the
\* upper-cased symbol is split off; with none, the symbol is returned as
\* it came, not upper-cased.
NormalizeBinanceSymbol(s) ==
    LET u == ToUpper(s)
        hits == {i \in 1..Len(Quotes) : IsSuffix(Quotes[i], u)}
    IN IF hits = {} THEN s
       ELSE LET q == Quotes[CHOOSE i \in hits : \A j \in hits : i <= j]
            IN SubSeq(u, 1, Len(u) - Len(q)) \o Caret \o q

\* str::trim: leading and trailing whitespace removed.
Trim(s) ==
    LET keep == {i \in DOMAIN s : ~IsSpace(s[i])}
    IN IF keep = {} THEN <<>>
       ELSE SubSeq(s, CHOOSE i \in keep : \A j \in keep : i <= j,
                      CHOOSE i \in keep : \A j \in keep : i >= j)

AllowedChar(c) == c \in Alnum \cup {"^", "-", "_"}

\* Mutation: the result is not truncated to the field.
SetSymbolUntruncated(s) == SelectSeq(Trim(s), AllowedChar)

\* set_symbol: trim, filter, truncate to FieldLen bytes.
SetSymbol(s) ==
    LET f == SelectSeq(Trim(s), AllowedChar)
    IN SubSeq(f, 1, IF Len(f) < FieldLen THEN Len(f) ELSE FieldLen)

-----------------------------------------------------------------------------
Init ==
    /\ raw \in Raw
    /\ header = <<>>

\* convert_binance_* builds the record, setup_header writes its symbol.
Convert ==
    /\ header = <<>>
    /\ header' = SetSymbol(NormalizeBinanceSymbol(raw))
    /\ UNCHANGED raw

Next == Convert

Spec == Init /\ [][Next]_vars

-----------------------------------------------------------------------------
TypeOK ==
    /\ raw \in Raw
    /\ header \in Seq(Alnum \cup {"^", "-", "_"})
    /\ Len(header) <= FieldLen

\* The spec's normal form (section 4.2): upper-case the input, take the
\* longest recognised quote suffix, emit BASE^QUOTE; the header keeps the
\* allowed characters of it, at most FieldLen of them (I5).
QuoteSet == {Quotes[i] : i \in 1..Len(Quotes)}

SpecSymbol(s, q) == LET u == ToUpper(s) IN SubSeq(u, 1, Len(u) - Len(q)) \o Caret \o q

\* Symbol normal form: whenever the upper-cased symbol ends with a known
\* quote, the header carries BASE^QUOTE for the longest such quote, cleaned
\* and truncated the way set_symbol promises, whatever the case of the
\* input, its padding and its stray characters.
HeaderSymbolNormalForm ==
    header # <<>> =>
        \A q \in QuoteSet :
            (/\ IsSuffix(q, ToUpper(raw))
             /\ \A r \in QuoteSet : IsSuffix(r, ToUpper(raw)) => Len(r) <= Len(q))
            => LET kept == SelectSeq(Trim(SpecSymbol(raw, q)), AllowedChar)
               IN header = SubSeq(kept, 1, IF Len(kept) < FieldLen THEN Len(kept) ELSE FieldLen)
=============================================================================
