------------------------------ MODULE Strategy ------------------------------
(* The moving averages of internal/indicator and the MA-cross strategy of    *)
(* internal/strategy, on sequences of closes.  An average float64(sum) /     *)
(* float64(period) is the exact rational: comparing two averages is          *)
(* cross-multiplying their sums.                                             *)
EXTENDS Integers, Sequences

CONSTANTS Fast, Slow   \* periods of MACross

ASSUME StrategyAssumption == Fast \in Nat /\ Slow \in Nat \ {0}

Signals == {"Hold", "Buy", "Sell"}

-----------------------------------------------------------------------------
NaN == [warm |-> FALSE]

\* A plausible fault: the value that leaves the window is one too recent.
RunningSumLate(values, period) ==
  LET sum[i \in 0..Len(values)] ==
        IF i = 0 THEN 0
        ELSE sum[i - 1] + values[i] - (IF i > period THEN values[i - period + 1] ELSE 0)
  IN  sum

\* A plausible fault: no value ever leaves the window.
RunningSumAll(values, period) ==
  LET sum[i \in 0..Len(values)] == IF i = 0 THEN 0 ELSE sum[i - 1] + values[i]
  IN  sum

(* The running sum of SMA: each step adds a value and, once the window is    *)
(* full, takes out the one that leaves it.                                   *)
RunningSum(values, period) ==
  LET sum[i \in 0..Len(values)] ==
        IF i = 0 THEN 0
        ELSE sum[i - 1] + values[i] - (IF i > period THEN values[i - period] ELSE 0)
  IN  sum

(* SMA (indicator.go): an average per position, undefined while it warms up. *)
SMA(values, period) ==
  LET sum == RunningSum(values, period)
  IN  [i \in 1..Len(values) |->
         IF period > 0 /\ i >= period
         THEN [warm |-> TRUE, sum |-> sum[i], period |-> period]
         ELSE NaN]

AtMost(a, b) == a.warm /\ b.warm /\ a.sum * b.period <= b.sum * a.period
Above(a, b) == a.warm /\ b.warm /\ a.sum * b.period > b.sum * a.period

(* MACross.Evaluate: a signal only on the bar at which the averages cross.   *)
(* A comparison with NaN is false, so an undefined average never crosses.    *)
Evaluate(values) ==
  LET n == Len(values)
      fast == SMA(values, Fast)
      slow == SMA(values, Slow)
  IN  CASE n < Slow + 1 -> "Hold"
        [] n >= Slow + 1 /\ AtMost(fast[n-1], slow[n-1]) /\ Above(fast[n], slow[n]) -> "Buy"
        [] n >= Slow + 1 /\ AtMost(slow[n-1], fast[n-1]) /\ Above(slow[n], fast[n]) -> "Sell"
        [] OTHER -> "Hold"
=============================================================================
