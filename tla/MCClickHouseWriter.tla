------------------------- MODULE MCClickHouseWriter -------------------------
(* ClickHouseWriter for TLC.                                                   *)
EXTENDS ClickHouseWriter
=============================================================================
