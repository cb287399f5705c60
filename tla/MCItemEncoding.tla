--------------------------- MODULE MCItemEncoding ---------------------------
(* ItemEncoding at an 8-bit word: every boundary of the 64-bit code has   *)
(* its counterpart (0, 1, the largest magnitude, the sign bit, one past   *)
(* the range, negative values) and TLC enumerates them all.               *)
EXTENDS ItemEncoding

CONSTANTS NaNValue

MCInputs == {-200, -129, -128, -127, -1, 0, 1, 63, 64, 126, 127, 128, 200, 255, 256, 300} \cup {NaNValue}
=============================================================================
