------------------------------- MODULE MCTrader -------------------------------
(* Small instances of Trader for TLC.                                        *)
EXTENDS TraderProps, TLC

CONSTANTS t1, t2, BTC, ETH

MCOneTrader == t1 :> BTC
MCTwoPairs == t1 :> BTC @@ t2 :> ETH
MCSamePair == t1 :> BTC @@ t2 :> BTC

(* The two pairs of MCTwoPairs, with their daemons, are alike.               *)
MCSwapPairs == {t1 :> t2 @@ t2 :> t1 @@ BTC :> ETH @@ ETH :> BTC}

MCUtcHost == {0}
MCAheadOfUtc == {0, 1}
=============================================================================
