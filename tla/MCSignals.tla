------------------------------- MODULE MCSignals -------------------------------
(* A small instance of Signals for TLC.                                      *)
EXTENDS Signals, TLC

CONSTANTS t1, BTC

MCOneTrader == t1 :> BTC
=============================================================================
