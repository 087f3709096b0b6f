---------------------------- MODULE BacktestProps ----------------------------
(* What a backtest promises about the account it reports, for any strategy,  *)
(* and what MACross and the report of `analyze` promise on the closes a      *)
(* backtest has shown.                                                       *)
EXTENDS Backtest, Report, Powers, FiniteSetsExt, Functions

LastClose == cs[Len(cs)]
Equity == cash + WorthOf(posUnits, LastClose)

TypeOK ==
  /\ cs \in Seq(Prices)
  /\ cash \in Nat /\ posUnits \in Nat /\ entryCash \in Nat
  /\ wins \in Nat /\ closed \in Nat /\ numTrades \in Nat
  /\ peak \in Nat
  /\ drawdown \in [num : Nat, den : Nat \ {0}]
  /\ done \in BOOLEAN

-----------------------------------------------------------------------------
(* The account at a price, in scaled satang, so that nothing is rounded.     *)
ValueAt(money, units, price) == money * Scale + units * price

(* No trade creates value: valued at the close it trades at, the account is  *)
(* worth no more after a Buy, a Sell or the final liquidation than before,   *)
(* whatever is rounded where.  It loses at most the fee and one unit of      *)
(* rounding.                                                                 *)
TradesCreateNoValue ==
  [][LET price == cs'[Len(cs')]
         before == ValueAt(cash, posUnits, price)
         after == ValueAt(cash', posUnits', price)
     IN  /\ after <= before
         /\ before - after <=
              FeeOf(cash + WorthOf(posUnits, price)) * Scale
                + (IF price > Scale THEN price ELSE Scale)]_vars

(* The win rate and the profit tell the same story: with nothing held, cash  *)
(* above the start means that some round trip won, and when all of them won  *)
(* and cash is left, it is above the start.                                  *)
WinsExplainProfit ==
  posUnits = 0 /\ ~done =>
    /\ cash > StartCash => wins > 0
    /\ closed > 0 /\ wins = closed /\ cash > 0 => cash > StartCash

(* The reported maximal drawdown is at least the loss on the starting cash,  *)
(* at every bar and of the final result.                                     *)
DrawdownCoversLoss ==
  cs # << >> => (StartCash - Equity) * drawdown.den <= drawdown.num * StartCash

(* The inductive invariant behind the last two: the cash the present round   *)
(* trip began with, or all there is when nothing is held, is above the start *)
(* only after a win and always after wins alone; and the highest equity, of  *)
(* which the drawdown is a share, is never below the start.                  *)
Stake == IF posUnits > 0 THEN entryCash ELSE cash

AccountInv ==
  /\ posUnits > 0 => cash = 0 /\ entryCash > 0
  /\ wins <= closed
  /\ ~done => /\ Stake > StartCash => wins > 0
              /\ closed = 0 /\ Stake > 0 => Stake = StartCash
              /\ closed > 0 /\ wins = closed /\ Stake > 0 => Stake > StartCash

DrawdownInv ==
  /\ StartCash <= peak
  /\ drawdown.num <= drawdown.den
  /\ cs # << >> => (peak - Equity) * drawdown.den <= drawdown.num * peak
  /\ done => posUnits = 0

-----------------------------------------------------------------------------
(* The mean of the period values up to position i, by its definition.        *)
WindowSum(values, i, period) == SumFunctionOnSet(values, (i - period + 1)..i)
MeanAbove(values, i, p, q) == WindowSum(values, i, p) * q > WindowSum(values, i, q) * p

(* The reference: the bar at which one mean passes the other.                *)
CrossOfMeans(values) ==
  LET n == Len(values)
      warm == Fast > 0 /\ n > Fast /\ n > Slow
      Passes(p, q) == MeanAbove(values, n, p, q) /\ ~MeanAbove(values, n - 1, p, q)
  IN  IF warm /\ Passes(Fast, Slow) THEN "Buy"
      ELSE IF warm /\ Passes(Slow, Fast) THEN "Sell" ELSE "Hold"

(* MACross with its running sums signals exactly the crosses of the means.   *)
EvaluateIsCrossOfMeans == Evaluate(cs) = CrossOfMeans(cs)

(* The trade daemon lists a day of candles, the backtest all of them up to   *)
(* the bar: on the same bars both decide the same, as soon as the day holds  *)
(* the warm-up (the design's "true preview of live behavior").               *)
LiveSeesBacktest ==
  \A k \in 1..Len(cs) :
    k > Slow /\ k > Fast => Evaluate(SubSeq(cs, Len(cs) - k + 1, Len(cs))) = Evaluate(cs)

-----------------------------------------------------------------------------
(* The report of `analyze` never looks ahead: a later bar changes no row     *)
(* that an earlier report had.                                               *)
ReportIsCausal ==
  [][Compute(cs) = SubSeq(Compute(cs'), 1, Len(cs))]_cs

(* The exponential mean by its definition: the seed, the mean of the first p *)
(* closes, and each later close weigh (1-k)^age, k = 2/(p+1); over the       *)
(* common denominator p * (p+1)^(n-p).                                       *)
EmaTerms(values, n, p) ==
  [i \in (p + 1)..n |-> 2 * p * values[i] * (Power(p - 1, n - i) * Power(p + 1, i - p - 1))]

EmaWeights(values, n, p) ==
  WindowSum(values, p, p) * Power(p - 1, n - p)
    + SumFunctionOnSet(EmaTerms(values, n, p), (p + 1)..n)

(* EMA, computed one bar from the last, is the weighted mean.                *)
EmaIsWeightedMean ==
  LET p == EmaPeriod
      n == Len(cs)
  IN  p > 0 /\ n >= p =>
        LET ema == Compute(cs)[n].ema
        IN  ema.num * (p * Power(p + 1, n - p)) = EmaWeights(cs, n, p) * ema.den

(* Wilder's average of changes by its definition, times p^(n-p).             *)
WilderTerms(change, n, p) ==
  [i \in (p + 2)..n |-> change[i] * (Power(p - 1, n - i) * Power(p, i - p - 1))]

WilderSum(change, n, p) ==
  SumFunctionOnSet(change, 2..(p + 1)) * Power(p - 1, n - p - 1)
    + SumFunctionOnSet(WilderTerms(change, n, p), (p + 2)..n)

(* RSI is the share of the smoothed gains in all smoothed changes, in        *)
(* percent; 100 when nothing was lost, in a market that never moved too.     *)
RsiIsGainShare ==
  LET p == RsiPeriod
      n == Len(cs)
      gains == WilderSum([i \in 2..n |-> GainAt(cs, i)], n, p)
      losses == WilderSum([i \in 2..n |-> LossAt(cs, i)], n, p)
  IN  p > 0 /\ n > p =>
        LET rsi == Compute(cs)[n].rsi
        IN  IF losses = 0 THEN rsi.num = 100 * rsi.den
            ELSE rsi.num * (gains + losses) = 100 * gains * rsi.den
=============================================================================
