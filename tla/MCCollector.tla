----------------------------- MODULE MCCollector -----------------------------
(* A small instance of Collector for TLC.                                    *)
EXTENDS CollectorProps

CONSTANTS c1, BTC, ETH

MCSymbols == <<BTC, ETH>>
=============================================================================
