------------------------------- MODULE Decoder -------------------------------
(***************************************************************************)
(* The packet decoder of src/src/bin/decoder.rs, a separate binary that   *)
(* joins the multicast group and reads what the feeder sends.  Its own     *)
(* copy of PacketHeader is decoded with read_unaligned; item_count and     *)
(* is_last come from the flags byte, the message type picks the item      *)
(* decoder, and Stats counts packets, bytes and the items of each type.    *)
(*                                                                         *)
(* A datagram is what recv_from hands over: its length in bytes, its      *)
(* message_type byte and its flags_and_count byte (the other header       *)
(* fields are only printed).  The receive loop is a fold of one loop      *)
(* iteration over the datagrams in the order they arrive; the interval    *)
(* statistics are timing only and are left out.                           *)
(***************************************************************************)
EXTENDS Integers, Sequences, SequencesExt, Bitwise

\* The decoder's PacketHeader, repr(C, packed): protocol_version,
\* sequence_number, two timestamps, message_type, flags_and_count,
\* symbol[20], exchange[20].
PacketHeaderSize == 1 + 8 + 8 + 8 + 1 + 1 + 20 + 20

\* size_of::<OrderBookItem>() = size_of::<TradeTickItem>(): two i64.
DecoderItemSize == 8 + 8

\* The receive buffer: recv_from keeps at most this many bytes of a datagram.
BufferSize == 1500

\* is_last(): bit 7 of flags_and_count.
IsLast(flags) == flags >= 128

\* Mutation: item_count() without the 0b0111_1111 mask.
ItemCountUnmasked(flags) == flags % 256

\* item_count(): bits 0-6 of flags_and_count.
ItemCount(flags) == flags % 128

\* decode_order_book_items / decode_trade_tick_items: item i (0-based) is
\* read from payload[i*16 .. i*16+16]; the first that does not fit ends the
\* loop with "payload too small".  The items themselves are only printed.
DecodeItemsOk(payloadLen, count) ==
    \A i \in 0..(count - 1) : (i + 1) * DecoderItemSize <= payloadLen

\* The item getters, for an item word of w bits read as an unsigned word
\* (the i64 field's two's complement): TradeTickItem::quantity and the
\* quantity of OrderBookItem::get_real_quantity mask off the top bit,
\* is_buyer_taker and is_ask test it.
ItemQuantity(word, w) == word & (2^(w - 1) - 1)
ItemSide(word, w) == (word & 2^(w - 1)) # 0

\* Stats::new.
StatsNew ==
    [total_packets |-> 0, total_bytes |-> 0,
     orderbook_packets |-> 0, tradetick_packets |-> 0,
     orderbook_items |-> 0, tradetick_items |-> 0,
     errors |-> 0]

\* decode_packet(data, stats): too short a datagram is an error before any
\* counter moves; type 0 and type 1 count the packet and its header's item
\* count before the items are decoded, so a payload too small still counts;
\* any other type is reported as unknown and counts nothing.  The `errors`
\* field counts the Err results main prints.
DecodePacket(st, dg) ==
    LET count == ItemCount(dg.flags)
        payloadLen == dg.size - PacketHeaderSize
        ok == DecodeItemsOk(payloadLen, count)
    IN CASE dg.size < PacketHeaderSize -> [st EXCEPT !.errors = @ + 1]
         [] dg.mtype = 0 ->
              [st EXCEPT !.orderbook_packets = @ + 1,
                         !.orderbook_items = @ + count,
                         !.errors = @ + (IF ok THEN 0 ELSE 1)]
         [] dg.mtype = 1 ->
              [st EXCEPT !.tradetick_packets = @ + 1,
                         !.tradetick_items = @ + count,
                         !.errors = @ + (IF ok THEN 0 ELSE 1)]
         [] OTHER -> st

\* One iteration of main's loop on Ok((size, addr)): recv_from truncates
\* the datagram to the buffer, both totals count it, then decode_packet.
RecvOk(st, dg) ==
    LET size == IF dg.size > BufferSize THEN BufferSize ELSE dg.size
    IN DecodePacket([st EXCEPT !.total_packets = @ + 1, !.total_bytes = @ + size],
                    [dg EXCEPT !.size = size])

\* The receive loop over datagrams arriving in the order of `dgs`.
ReceiveAll(dgs) == FoldLeft(RecvOk, StatsNew, dgs)
=============================================================================
