------------------------------- MODULE MCManual -------------------------------
(* A small instance of Manual for TLC.                                       *)
EXTENDS Manual, TLC

CONSTANTS t1, BTC

MCOneTrader == t1 :> BTC
=============================================================================
