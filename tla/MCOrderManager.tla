--------------------------- MODULE MCOrderManager ---------------------------
(* OrderManager for TLC: orders and coroutines are interchangeable.           *)
EXTENDS OrderManager, TLC

Interchangeable == Permutations(Orders) \cup Permutations(Calls)
=============================================================================
