--------------------------- MODULE MCSpreadTrader ---------------------------
(* SpreadTrader for TLC: two pairs that share a symbol.                         *)
EXTENDS SpreadTrader

CONSTANTS x, y, z

SharedPairs == << <<x, y>>, <<z, x>> >>
=============================================================================
