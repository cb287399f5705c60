------------------------- MODULE MCPacketPipeline -------------------------
(* Model-checking instance of PacketPipeline: two sessions sharing the     *)
(* builder and the emitter, two frames each, and order books of 0 and 81  *)
(* non-zero levels, so that a record is dropped whole, sent in one        *)
(* datagram, or split into two chunks (80 + 1) by the code's chunk size.  *)
EXTENDS PacketPipeline

CONSTANTS s1, s2

MCSessions == {s1, s2}
MCDepthSizes == {0, 81}

\* A futures session on the Binance parser and an OKX session on the
\* default parser.
MCVenue == [s \in MCSessions |-> IF s = s1 THEN "BinanceFutures" ELSE "OkxSpot"]

\* config.ini files: unreadable, empty, runtime_threads = 1 (also as +1
\* under a section, after a commented-out 4), 0 under a section, and a 1
\* overridden by an unparsable later value.  With two cores they start
\* the runtime with one worker or with two.
MCConfigIniFiles ==
    {NoIni, <<>>,
     <<IniLine("kv", "runtime_threads", "1")>>,
     <<IniLine("comment", "runtime_threads", "4"), IniLine("section", "", ""),
       IniLine("kv", "runtime_threads", "+1")>>,
     <<IniLine("section", "", ""), IniLine("kv", "runtime_threads", "0")>>,
     <<IniLine("kv", "runtime_threads", "1"), IniLine("text", "", ""),
       IniLine("kv", "runtime_threads", "x")>>}

=============================================================================
