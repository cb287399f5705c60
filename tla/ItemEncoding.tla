---------------------------- MODULE ItemEncoding ----------------------------
(***************************************************************************)
(* The 16-byte items of src/src/protocol.rs: TradeTickItem::new and        *)
(* OrderBookItem::new scale price and quantity by 10^8 with an `as i64`    *)
(* cast, and set_quantity_and_flag packs the side flag into bit 63 of      *)
(* quantity_with_flags above a 63-bit quantity; quantity(), is_ask() and   *)
(* is_buyer_taker() take them apart again.  Both item types run the same  *)
(* code, so one model stands for both.                                     *)
(*                                                                         *)
(* The word width is the constant W (64 in the code).  An input is the     *)
(* real value already multiplied by 10^8: an integer, possibly outside     *)
(* the i64 range, or NaN, which parse::<f64> accepts.  `as i64` from f64   *)
(* saturates and maps NaN to 0.                                            *)
(***************************************************************************)
EXTENDS Integers, Bitwise

CONSTANTS
    W,          \* bits of the i64 fields (64 in the code)
    Inputs,     \* scaled prices and quantities an item may be built from
    NaN         \* the f64 NaN

ASSUME W \in Nat /\ W >= 2

VARIABLES
    price,      \* the scaled price given to ::new
    quantity,   \* the scaled quantity given to ::new
    flag,       \* is_ask / is_buyer_taker given to ::new
    item        \* the item built, or NoItem before ::new ran

vars == <<price, quantity, flag, item>>

NoItem == [price |-> 0, qwf |-> 0, built |-> FALSE]

MaxI == 2^(W - 1) - 1           \* i64::MAX
MinI == -(2^(W - 1))            \* i64::MIN
SignBit == 2^(W - 1)            \* 1i64 << 63, as an unsigned word
LowMask == 2^(W - 1) - 1        \* 0x7FFF_FFFF_FFFF_FFFF

\* Two's complement: the unsigned word of an i64 and back.
AsWord(x) == x % 2^W
AsI64(u) == IF u >= SignBit THEN u - 2^W ELSE u

-----------------------------------------------------------------------------
\* Mutation: the cast keeps out-of-range values (the float-to-int cast of
\* C, or of Rust before 1.45).
UncheckedCast(x) == IF x = NaN THEN 0 ELSE x

\* `(x * SCALE as f64) as i64`: saturating, NaN to 0.
SaturatingCast(x) ==
    CASE x = NaN -> 0
      [] x > MaxI -> MaxI
      [] x < MinI -> MinI
      [] OTHER -> x

\* set_quantity_and_flag: the quantity masked to its low W-1 bits, bit
\* W-1 set when the flag is.
SetQuantityAndFlag(q, f) ==
    LET masked == AsWord(q) & LowMask
    IN AsI64(IF f THEN masked | SignBit ELSE masked)

\* is_ask() / is_buyer_taker(): bit W-1 of quantity_with_flags.
FlagOf(qwf) == (AsWord(qwf) & SignBit) # 0

\* Mutation: the flag bit is not masked off the quantity.
QuantityUnmasked(qwf) == qwf

\* quantity(): the low W-1 bits.
QuantityOf(qwf) == AsI64(AsWord(qwf) & LowMask)

\* TradeTickItem::new / OrderBookItem::new.
NewItem(p, q, f) ==
    [price |-> SaturatingCast(p), qwf |-> SetQuantityAndFlag(SaturatingCast(q), f),
     built |-> TRUE]

-----------------------------------------------------------------------------
Init ==
    /\ price \in Inputs
    /\ quantity \in Inputs
    /\ flag \in BOOLEAN
    /\ item = NoItem

\* The builder makes the item from the parsed level or trade.
Build ==
    /\ ~item.built
    /\ item' = NewItem(price, quantity, flag)
    /\ UNCHANGED <<price, quantity, flag>>

Next == Build

Spec == Init /\ [][Next]_vars

-----------------------------------------------------------------------------
TypeOK ==
    /\ price \in Inputs /\ quantity \in Inputs /\ flag \in BOOLEAN
    /\ item \in [price : MinI..MaxI, qwf : MinI..MaxI, built : BOOLEAN]

\* The decoder of src/bin, reading an item word.
Dec == INSTANCE Decoder

\* The layout of the wire format (the field comments of OrderBookItem and
\* TradeTickItem, and the decoder of src/bin/decoder.rs): bits 0..W-2
\* carry the scaled magnitude, bit W-1 the flag.
SpecWord(mag, f) == mag + (IF f THEN SignBit ELSE 0)

\* Item round trip: for every quantity that is not negative, including
\* NaN and values beyond the i64 range, the word written is the spec's
\* layout of the saturated quantity and the side flag, and quantity() and
\* the flag getter give both back unchanged, as do the decoder's getters
\* in src/bin, which read the word on the other end of the socket.
ItemRoundTrip ==
    (item.built /\ (quantity = NaN \/ quantity >= 0)) =>
        /\ AsWord(item.qwf) = SpecWord(SaturatingCast(quantity), flag)
        /\ QuantityOf(item.qwf) = SaturatingCast(quantity)
        /\ FlagOf(item.qwf) = flag
        /\ Dec!ItemQuantity(AsWord(item.qwf), W) = SaturatingCast(quantity)
        /\ Dec!ItemSide(AsWord(item.qwf), W) = flag
        /\ item.price = SaturatingCast(price)
=============================================================================
