-------------------------------- MODULE Fill --------------------------------
(* The money arithmetic of an order: its exposure (Intent.orderValue), the   *)
(* units a Buy asks for, the simulated fill of a paper order                 *)
(* (simulatePaperFill) and the fill read from the exchange (computeFill).    *)
(*                                                                           *)
(* Amounts are satang, quantities are coin units, prices are satang per      *)
(* Scale units; Scale is 1e8 in the code.  int64 is the interval             *)
(* -(MaxInt+1) .. MaxInt, and every product, sum and difference of the code  *)
(* is wrapped to it.                                                         *)
EXTENDS Integers

CONSTANTS
  Scale,    \* coin units per whole coin (1e8)
  MaxInt    \* math.MaxInt64

ASSUME FillAssumption == Scale \in Nat \ {0} /\ MaxInt \in Nat \ {0}

Sides == {"BUY", "SELL"}

(* A positions row: quantity held, average cost, realized profit.            *)
Position == [qty: Int, avg: Int, pnl: Int]

(* GetPosition of a symbol that has no row.                                  *)
Flat == [qty |-> 0, avg |-> 0, pnl |-> 0]

(* Two's complement wrap-around of an int64 result.                          *)
Wrap(x) == ((x + MaxInt + 1) % (2 * MaxInt + 2)) - MaxInt - 1

(* Integer division of Go: truncation toward zero, for a positive divisor.   *)
TruncDiv(a, b) == IF a >= 0 THEN a \div b ELSE -((-a) \div b)

(* a * b / 1e8: the satang value of a units at price b.                      *)
ValueOf(units, price) == TruncDiv(Wrap(units * price), Scale)

-----------------------------------------------------------------------------
\* A plausible fault: computed on integers of any width.
UnitsForUnwrapped(value, price) == TruncDiv(value * Scale, price)

(* Units of a Buy worth value satang at price: ValueTHB * 1e8 / RefPrice.    *)
UnitsFor(value, price) == TruncDiv(Wrap(value * Scale), price)

(* An order as the strategy asks for it: value is set on a Buy, qty on a     *)
(* Sell.                                                                     *)
orderValue(in) == IF in.side = "BUY" THEN in.value ELSE ValueOf(in.qty, in.price)

\* A plausible fault: the units bought are taken for the satang spent.
simulatePaperFillUnits(pos, in) ==
  IF in.side = "BUY"
  THEN [pos   |-> [qty |-> Wrap(pos.qty + UnitsFor(in.value, in.price)),
                   avg |-> in.price, pnl |-> pos.pnl],
        spent |-> UnitsFor(in.value, in.price)]
  ELSE [pos   |-> [qty |-> Wrap(pos.qty - in.qty), avg |-> pos.avg,
                   pnl |-> Wrap(pos.pnl + Wrap(ValueOf(in.qty, in.price)
                                               - ValueOf(in.qty, pos.avg)))],
        spent |-> 0]

(* simulatePaperFill: the whole order fills at RefPrice at once.  A Buy sets *)
(* the average cost to RefPrice, a Sell keeps it and realizes the profit;    *)
(* only a Buy spends.                                                        *)
simulatePaperFill(pos, in) ==
  IF in.side = "BUY"
  THEN [pos   |-> [qty |-> Wrap(pos.qty + UnitsFor(in.value, in.price)),
                   avg |-> in.price, pnl |-> pos.pnl],
        spent |-> in.value]
  ELSE [pos   |-> [qty |-> Wrap(pos.qty - in.qty), avg |-> pos.avg,
                   pnl |-> Wrap(pos.pnl + Wrap(ValueOf(in.qty, in.price)
                                               - ValueOf(in.qty, pos.avg)))],
        spent |-> 0]

(* The loss a paper fill books against the day: the drop of the realized     *)
(* profit.                                                                   *)
LossOf(before, after) ==
  LET change == Wrap(after.pnl - before.pnl)
  IN IF change < 0 THEN Wrap(-change) ELSE 0

-----------------------------------------------------------------------------
(* computeFill's test before a multiplication: a > MaxInt64 / b.             *)
MulOverflows(a, b) == \/ b > 0 /\ a > MaxInt \div b
                      \/ b < 0 /\ a > -(MaxInt \div (-b))

BuyAvg(pos, total, newQty) == IF newQty > 0 THEN TruncDiv(Wrap(total * Scale), newQty) ELSE pos.avg

(* computeFill: the position after `executed` units filled at avgPrice, the  *)
(* loss it realizes, and ok = FALSE where the code returns an overflow error.*)
computeFill(pos, side, executed, avgPrice) ==
  LET total    == Wrap(ValueOf(pos.qty, pos.avg) + ValueOf(executed, avgPrice))
      newQty   == IF side = "BUY" THEN Wrap(pos.qty + executed) ELSE Wrap(pos.qty - executed)
      realized == Wrap(ValueOf(executed, avgPrice) - ValueOf(executed, pos.avg))
      overflow == \/ MulOverflows(executed, avgPrice)
                  \/ side = "BUY" /\ MulOverflows(pos.qty, pos.avg)
                  \/ side = "BUY" /\ newQty > 0 /\ total > MaxInt \div Scale
                  \/ side = "SELL" /\ MulOverflows(executed, pos.avg)
  IN IF overflow
     THEN [ok |-> FALSE, pos |-> pos, loss |-> 0]
     ELSE IF side = "BUY"
     THEN [ok |-> TRUE, loss |-> 0,
           pos |-> [qty |-> newQty, avg |-> BuyAvg(pos, total, newQty), pnl |-> pos.pnl]]
     ELSE [ok |-> TRUE, loss |-> IF realized < 0 THEN Wrap(-realized) ELSE 0,
           pos |-> [qty |-> newQty, avg |-> pos.avg, pnl |-> Wrap(pos.pnl + realized)]]
=============================================================================
