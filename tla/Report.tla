-------------------------------- MODULE Report --------------------------------
(* The report of `analyze` (internal/analyze, internal/indicator): one row   *)
(* per candle with its close, SMA, EMA and RSI.  A float64 is the exact      *)
(* fraction it approximates; the rows are those of Compute, their CSV text   *)
(* is left out.                                                              *)
EXTENDS Strategy

CONSTANTS SmaPeriod, EmaPeriod, RsiPeriod   \* --sma, --ema, --rsi; 0 disables

ASSUME ReportAssumption == SmaPeriod \in Nat /\ EmaPeriod \in Nat /\ RsiPeriod \in Nat

Fraction(num, den) == [warm |-> TRUE, num |-> num, den |-> den]

-----------------------------------------------------------------------------
(* (v - prev) * 2/(period+1) + prev                                          *)
EmaStep(prev, v, period) ==
  Fraction(2 * v * prev.den + (period - 1) * prev.num, prev.den * (period + 1))

\* A plausible fault: the seed is the first value, not the first mean.
EmaSeedFirst(values, period) == Fraction(values[1] * period, period)

EmaSeed(values, period) == Fraction(RunningSum(values, period)[period], period)

(* EMA: seeded with the SMA of the first period values.                      *)
EMA(values, period) ==
  LET ema[i \in period..Len(values)] ==
        IF i = period THEN EmaSeed(values, period) ELSE EmaStep(ema[i - 1], values[i], period)
  IN  [i \in 1..Len(values) |-> IF period > 0 /\ i >= period THEN ema[i] ELSE NaN]

-----------------------------------------------------------------------------
Change(values, i) == values[i] - values[i - 1]
GainAt(values, i) == IF Change(values, i) >= 0 THEN Change(values, i) ELSE 0
LossAt(values, i) == IF Change(values, i) < 0 THEN -Change(values, i) ELSE 0

\* A plausible fault: the new change is not weighed down.
SmoothedHeavy(change, period) ==
  LET avg[i \in {1} \cup DOMAIN change] ==
        IF i = 1 THEN Fraction(0, period)
        ELSE IF i <= period + 1 THEN [avg[i - 1] EXCEPT !.num = @ + change[i]]
        ELSE Fraction(avg[i - 1].num * (period - 1) + change[i] * avg[i - 1].den * period,
                      avg[i - 1].den * period)
  IN  avg

(* Wilder's average at each position: the mean of the first period changes,  *)
(* then (avg * (period - 1) + change) / period.                              *)
Smoothed(change, period) ==
  LET avg[i \in {1} \cup DOMAIN change] ==
        IF i = 1 THEN Fraction(0, period)
        ELSE IF i <= period + 1 THEN [avg[i - 1] EXCEPT !.num = @ + change[i]]
        ELSE Fraction(avg[i - 1].num * (period - 1) + change[i] * avg[i - 1].den,
                      avg[i - 1].den * period)
  IN  avg

(* 100 - 100 / (1 + gain / loss), of averages over one denominator.          *)
rsiFrom(gain, loss) ==
  IF loss.num = 0 THEN Fraction(100, 1) ELSE Fraction(100 * gain.num, gain.num + loss.num)

RSI(values, period) ==
  LET later == 2..Len(values)
      gain == Smoothed([i \in later |-> GainAt(values, i)], period)
      loss == Smoothed([i \in later |-> LossAt(values, i)], period)
  IN  [i \in 1..Len(values) |->
         IF period > 0 /\ i > period THEN rsiFrom(gain[i], loss[i]) ELSE NaN]

-----------------------------------------------------------------------------
\* A plausible fault: the indicators are shown a bar early.
ComputeShifted(values) ==
  LET ema == EMA(values, EmaPeriod)
  IN  [i \in 1..Len(values) |->
         [close |-> values[i], sma |-> SMA(values, SmaPeriod)[i],
          ema |-> IF i < Len(values) THEN ema[i + 1] ELSE ema[i],
          rsi |-> RSI(values, RsiPeriod)[i]]]

(* Compute: one row per candle.                                              *)
Compute(values) ==
  LET sma == SMA(values, SmaPeriod)
      ema == EMA(values, EmaPeriod)
      rsi == RSI(values, RsiPeriod)
  IN  [i \in 1..Len(values) |->
         [close |-> values[i], sma |-> sma[i], ema |-> ema[i], rsi |-> rsi[i]]]
=============================================================================
