----------------------------- MODULE MCOrderBook -----------------------------
(***************************************************************************)
(* Instances of OrderBook for TLC.                                          *)
(***************************************************************************)
EXTENDS OrderBook
=============================================================================
