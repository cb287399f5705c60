------------------------------ MODULE ItemOrder ------------------------------
(***************************************************************************)
(* The order of the items inside one emission (src/src/packet_builder.rs): *)
(* build_trade_batch_packets sorts the trades of a batch with a comparator *)
(* putting taker-buys first by ascending price and the others after them   *)
(* by descending price; build_order_book_packets sorts bids descending and *)
(* asks ascending, drops zero quantities and concatenates bids and asks.   *)
(* Every comparator compares f64 prices with partial_cmp(..).unwrap_or(    *)
(* Equal), so NaN is "equal" to every price.                               *)
(*                                                                         *)
(* slice::sort_by is stable; on slices of up to 20 elements it is an       *)
(* insertion sort that moves each element left past every element it is    *)
(* strictly less than, which is what StableSort does.  Chunking cuts the   *)
(* sorted sequence into consecutive pieces, so the item order of the wire *)
(* is the sorted sequence itself.  Prices are scaled prices within the    *)
(* i64 range; the `as i64` cast turns NaN into 0 (see ItemEncoding).       *)
(***************************************************************************)
EXTENDS Integers, Sequences, SequencesExt

CONSTANTS
    Prices,     \* scaled prices an exchange may send
    Quantities, \* scaled quantities of order-book levels (0 removes a level)
    NaN,        \* the f64 NaN, which parse::<f64> accepts
    MaxItems    \* most trades, and most bids or asks, in one record

VARIABLES
    record,     \* the TradeBatch or OrderBook record handed to build_packets
    items,      \* the items emitted for it, in wire order
    built

vars == <<record, items, built>>

\* A level or a trade carries a ghost id: its position in the exchange's
\* message, so that the order of equal prices can be observed.
Numbered(s) == [i \in DOMAIN s |-> [s[i] EXCEPT !.id = i]]

Seqs(S) == UNION {[1..n -> S] : n \in 0..MaxItems}

TradeBatches ==
    {[kind |-> "trades", trades |-> Numbered(s), bids |-> <<>>, asks |-> <<>>] :
        s \in Seqs([price : Prices, taker : BOOLEAN, id : {0}])}

OrderBooks ==
    {[kind |-> "book", trades |-> <<>>, bids |-> Numbered(b), asks |-> Numbered(a)] :
        b \in Seqs([price : Prices, qty : Quantities, id : {0}]),
        a \in Seqs([price : Prices, qty : Quantities, id : {0}])}

-----------------------------------------------------------------------------
\* f64::partial_cmp(..).unwrap_or(Ordering::Equal), as -1, 0, 1.
PriceCmp(x, y) ==
    CASE x = NaN \/ y = NaN -> 0
      [] x < y -> -1
      [] x > y -> 1
      [] OTHER -> 0

\* One step of slice::sort_by's insertion sort: x moves left past the run
\* of elements at the end of s that it is strictly less than
\* (`Cmp(a, b) = -1` read as a < b), and stops at the first it is not.
InsertTail(s, x, Cmp(_, _)) ==
    LET p == CHOOSE k \in 1..(Len(s) + 1) :
                 /\ \A j \in k..Len(s) : Cmp(x, s[j]) = -1
                 /\ k = 1 \/ Cmp(x, s[k - 1]) # -1
    IN SubSeq(s, 1, p - 1) \o <<x>> \o SubSeq(s, p, Len(s))

StableSort(s, Cmp(_, _)) ==
    FoldLeft(LAMBDA acc, x : InsertTail(acc, x, Cmp), <<>>, s)

\* Mutation: asks compared the other way round (descending).
TradeCmpAsksDescending(a, b) ==
    CASE a.taker /\ b.taker -> PriceCmp(b.price, a.price)
      [] ~a.taker /\ ~b.taker -> PriceCmp(b.price, a.price)
      [] a.taker -> -1
      [] OTHER -> 1

\* The comparator of build_trade_batch_packets.
TradeCmp(a, b) ==
    CASE a.taker /\ b.taker -> PriceCmp(a.price, b.price)
      [] ~a.taker /\ ~b.taker -> PriceCmp(b.price, a.price)
      [] a.taker -> -1
      [] OTHER -> 1

BidCmp(a, b) == PriceCmp(b.price, a.price)
AskCmp(a, b) == PriceCmp(a.price, b.price)

\* Mutation: `>= 0.0` instead of `> 0.0`.
KeepLevelNonNegative(l) == l.qty # NaN /\ l.qty >= 0

\* `quantity > 0.0`; a NaN quantity compares false and is dropped too.
KeepLevel(l) == l.qty # NaN /\ l.qty > 0

\* The item as written by TradeTickItem::new / OrderBookItem::new: the
\* cast price and the flag (is_buyer_taker, or is_ask).
WirePrice(p) == IF p = NaN THEN 0 ELSE p
Item(p, flag, id) == [price |-> WirePrice(p), flag |-> flag, id |-> id]

-----------------------------------------------------------------------------
Init ==
    /\ record \in TradeBatches \cup OrderBooks
    /\ items = <<>>
    /\ built = FALSE

\* build_trade_batch_packets: an empty batch emits nothing; otherwise the
\* sorted trades, cut into chunks of 80.
BuildTradeBatch ==
    /\ ~built /\ record.kind = "trades"
    /\ items' = [t \in 1..Len(record.trades) |->
                    LET x == StableSort(record.trades, TradeCmp)[t]
                    IN Item(x.price, x.taker, x.id)]
    /\ built' = TRUE
    /\ UNCHANGED record

\* build_order_book_packets: bids sorted then filtered, asks sorted then
\* filtered, bids first.
BuildOrderBook ==
    /\ ~built /\ record.kind = "book"
    /\ LET bids == SelectSeq(StableSort(record.bids, BidCmp), KeepLevel)
           asks == SelectSeq(StableSort(record.asks, AskCmp), KeepLevel)
       IN items' = [i \in 1..Len(bids) |-> Item(bids[i].price, FALSE, bids[i].id)]
                   \o [i \in 1..Len(asks) |-> Item(asks[i].price, TRUE, asks[i].id)]
    /\ built' = TRUE
    /\ UNCHANGED record

Next == BuildTradeBatch \/ BuildOrderBook

Spec == Init /\ [][Next]_vars

-----------------------------------------------------------------------------
\* The spec's order of a trade emission (section 4.3): taker-buys first in
\* ascending price, then the others in descending price, equal side and
\* price in arrival order.
SpecTradeBefore(a, b) ==
    \/ a.flag /\ ~b.flag
    \/ a.flag /\ b.flag /\ (a.price < b.price \/ (a.price = b.price /\ a.id < b.id))
    \/ ~a.flag /\ ~b.flag /\ (a.price > b.price \/ (a.price = b.price /\ a.id < b.id))

\* Stable trade order: every trade of a batch is emitted once, and the
\* items of the emission are in the spec's order, ties in arrival order.
TradeOrderStable ==
    (built /\ record.kind = "trades") =>
        /\ Len(items) = Len(record.trades)
        /\ {items[i].id : i \in DOMAIN items} = DOMAIN record.trades
        /\ \A i, j \in DOMAIN items : i < j => SpecTradeBefore(items[i], items[j])

\* Order-book order (P7): bids before asks, bid prices non-increasing, ask
\* prices non-decreasing, and exactly the levels of non-zero quantity
\* emitted.
BookOrder ==
    (built /\ record.kind = "book") =>
        LET ids(f) == {items[i].id : i \in {k \in DOMAIN items : items[k].flag = f}}
            kept(s) == {s[i].id : i \in {k \in DOMAIN s : s[k].qty # 0}}
        IN /\ \A i \in 1..(Len(items) - 1) :
                 /\ ~(items[i].flag /\ ~items[i + 1].flag)
                 /\ ~items[i].flag /\ ~items[i + 1].flag => items[i].price >= items[i + 1].price
                 /\ items[i].flag /\ items[i + 1].flag => items[i].price <= items[i + 1].price
           /\ ids(FALSE) = kept(record.bids) /\ ids(TRUE) = kept(record.asks)
           /\ Len(items) = Cardinality(ids(FALSE)) + Cardinality(ids(TRUE))
=============================================================================
