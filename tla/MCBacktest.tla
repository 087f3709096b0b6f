----------------------------- MODULE MCBacktest -----------------------------
(* A small instance of Backtest for TLC.                                     *)
EXTENDS BacktestProps
=============================================================================
