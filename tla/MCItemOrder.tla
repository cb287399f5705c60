---------------------------- MODULE MCItemOrder ----------------------------
EXTENDS ItemOrder

CONSTANTS NaNValue

\* Two distinct prices and a repeated one make ties, ascending and
\* descending runs; a zero and a non-zero quantity make kept and dropped
\* levels.
MCPrices == {1, 2}
MCQuantities == {0, 1}
=============================================================================
