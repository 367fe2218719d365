-------------------------- MODULE MCAggTradeMQSender --------------------------
(***************************************************************************)
(* Three trades in two slices of time, the first slice with two symbols.    *)
(***************************************************************************)
EXTENDS AggTradeMQSender

Times   == <<1, 1, 2>>
Pairs   == <<"ETH", "BTC", "ETH">>

=============================================================================
