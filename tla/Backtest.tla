------------------------------ MODULE Backtest ------------------------------
(* backtest.Run (internal/backtest): a strategy replayed bar by bar over     *)
(* stored candles, all cash in on a Buy, all units out on a Sell.  The       *)
(* strategy is an interface, so its signals are arbitrary here, as those of  *)
(* the scripted strategy of the tests.  cs grows with the loop: it is the    *)
(* part cs[:i+1] of the candles that the loop has looked at.                 *)
EXTENDS Integers, Sequences

CONSTANTS
  Prices,     \* closes of candles, satang per unit
  Actions,    \* what a strategy may answer
  StartCash,  \* --cash, satang
  FeeBps,     \* --fee-bps
  Bps,        \* 10000 in the code
  Scale,      \* 1e8 in the code
  MaxBars     \* BOUND: candles of a replay

ASSUME BacktestAssumption ==
  /\ Prices \subseteq Nat
  /\ Actions \subseteq {"Hold", "Buy", "Sell"}
  /\ StartCash \in Nat \ {0}
  /\ Bps \in Nat \ {0} /\ FeeBps \in 0..Bps
  /\ Scale \in Nat \ {0}
  /\ MaxBars \in Nat

VARIABLES
  cs,        \* closes replayed so far
  cash,      \* satang
  posUnits,  \* units held, scaled
  entryCash, \* cash before the last Buy
  wins,      \* round trips that ended with more cash than they began with
  closed,    \* round trips
  numTrades, \* res.NumTrades
  peak,      \* highest equity so far
  drawdown,  \* res.MaxDrawdownPct, as the fraction it is computed from
  done       \* the loop is over and the rest liquidated

account == <<cash, posUnits, entryCash, wins, closed, numTrades>>
vars == <<cs, account, peak, drawdown, done>>

-----------------------------------------------------------------------------
\* A plausible fault: the fee read as a percentage.
FeePercent(gross) == (gross * FeeBps * 100) \div Bps

FeeOf(gross) == (gross * FeeBps) \div Bps

WorthOf(units, price) == (units * price) \div Scale

\* A plausible fault: the units are rounded up.
UnitsRoundedUp(money, price) == ((money - FeeOf(money)) * Scale + price - 1) \div price

(* Units a Buy with all of the cash gets.                                    *)
UnitsBought(money, price) == ((money - FeeOf(money)) * Scale) \div price

Init ==
  /\ cs = << >>
  /\ cash = StartCash /\ posUnits = 0 /\ entryCash = 0
  /\ wins = 0 /\ closed = 0 /\ numTrades = 0
  /\ peak = StartCash
  /\ drawdown = [num |-> 0, den |-> 1]
  /\ done = FALSE

(* A Buy is carried out only when flat, with cash, at a positive price.      *)
Buys(price, signal) == signal = "Buy" /\ posUnits = 0 /\ cash > 0 /\ price > 0
Sells(signal) == signal = "Sell" /\ posUnits > 0

BuyAll(price) ==
  /\ posUnits' = UnitsBought(cash, price)
  /\ entryCash' = cash
  /\ cash' = 0
  /\ numTrades' = numTrades + 1
  /\ UNCHANGED <<wins, closed>>

\* A plausible fault: a win is measured against the cash in hand.
SellAllAlwaysWins(price) ==
  LET gross == WorthOf(posUnits, price)
  IN  /\ cash' = cash + gross - FeeOf(gross)
      /\ wins' = IF cash' > cash THEN wins + 1 ELSE wins
      /\ closed' = closed + 1
      /\ numTrades' = numTrades + 1
      /\ posUnits' = 0
      /\ UNCHANGED entryCash

SellAll(price) ==
  LET gross == WorthOf(posUnits, price)
  IN  /\ cash' = cash + gross - FeeOf(gross)
      /\ wins' = IF cash' > entryCash THEN wins + 1 ELSE wins
      /\ closed' = closed + 1
      /\ numTrades' = numTrades + 1
      /\ posUnits' = 0
      /\ UNCHANGED entryCash

\* A plausible fault: the drawdown is taken from the bar before, not the peak.
MarkToMarketLastPeak(price) ==
  LET equity == cash' + WorthOf(posUnits', price)
  IN  /\ peak' = equity
      /\ drawdown' = IF peak > 0 /\ (peak - equity) * drawdown.den > drawdown.num * peak
                     THEN [num |-> peak - equity, den |-> peak] ELSE drawdown

(* Peak and drawdown after the bar's trade, at the bar's close.              *)
MarkToMarket(price) ==
  LET equity == cash' + WorthOf(posUnits', price)
  IN  /\ peak' = IF equity > peak THEN equity ELSE peak
      /\ drawdown' = IF peak' > 0 /\ (peak' - equity) * drawdown.den > drawdown.num * peak'
                     THEN [num |-> peak' - equity, den |-> peak'] ELSE drawdown

Trade(price, signal) ==
  \/ Buys(price, signal) /\ BuyAll(price)
  \/ Sells(signal) /\ SellAll(price)
  \/ ~Buys(price, signal) /\ ~Sells(signal) /\ UNCHANGED account

(* One turn of the loop of Run.                                              *)
Bar(price, signal) ==
  /\ ~done /\ Len(cs) < MaxBars
  /\ cs' = Append(cs, price)
  /\ Trade(price, signal)
  /\ MarkToMarket(price)
  /\ UNCHANGED done

(* The end of Run: what is still held is valued at the last close, as cash   *)
(* without a fee, a trade or a round trip.                                   *)
Liquidate ==
  /\ ~done /\ Len(cs) > 0
  /\ done' = TRUE
  /\ cash' = cash + (IF posUnits > 0 THEN WorthOf(posUnits, cs[Len(cs)]) ELSE 0)
  /\ posUnits' = 0
  /\ UNCHANGED <<cs, entryCash, wins, closed, numTrades, peak, drawdown>>

Next ==
  \/ \E price \in Prices, signal \in Actions : Bar(price, signal)
  \/ Liquidate

Spec == Init /\ [][Next]_vars
=============================================================================
