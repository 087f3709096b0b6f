--------------------------- MODULE BacktestProofs ---------------------------
(* The account of a backtest: typed, no trade creates value, and the win     *)
(* rate explains the profit; and the indicators and the report against their *)
(* definitions: for all prices, fees, scales, periods and strategies.        *)
EXTENDS BacktestProps, SumProofs, SequenceTheorems, TLAPS

(* Division truncates downwards by less than the divisor.                    *)
LEMMA DivBounds ==
  ASSUME NEW a \in Nat, NEW p \in Nat \ {0}
  PROVE  /\ a \div p \in Nat
         /\ (a \div p) * p <= a
         /\ a < (a \div p) * p + p
  BY Z3

(* A product of naturals is a natural and grows with its factors.            *)
LEMMA MulMonotone ==
  ASSUME NEW a \in Nat, NEW b \in Nat, NEW c \in Nat, a <= b
  PROVE  a * c \in Nat /\ a * c <= b * c
  BY Z3

(* A quotient of a at most q * p is at most q.                               *)
LEMMA DivMonotone ==
  ASSUME NEW a \in Nat, NEW p \in Nat \ {0}, NEW q \in Nat, a <= q * p
  PROVE  a \div p <= q
  BY Z3

(* The fee is part of the amount it is taken from.                           *)
LEMMA FeeBounds ==
  ASSUME NEW gross \in Nat
  PROVE  FeeOf(gross) \in Nat /\ FeeOf(gross) <= gross
<1>1. gross * FeeBps \in Nat /\ gross * FeeBps <= gross * Bps
  BY BacktestAssumption, Z3
<1>2. FeeOf(gross) \in Nat
  BY <1>1, DivBounds, BacktestAssumption DEF FeeOf
<1>3. FeeOf(gross) <= gross
  BY <1>1, DivMonotone, BacktestAssumption DEF FeeOf
<1>4. QED  BY <1>2, <1>3

(* The worth of units, in scaled satang, is short of their price by less     *)
(* than one satang.                                                          *)
LEMMA WorthBounds ==
  ASSUME NEW units \in Nat, NEW price \in Nat
  PROVE  /\ WorthOf(units, price) \in Nat
         /\ WorthOf(units, price) * Scale <= units * price
         /\ units * price < WorthOf(units, price) * Scale + Scale
<1>1. units * price \in Nat
  BY Z3
<1>2. QED
  BY <1>1, DivBounds, BacktestAssumption DEF WorthOf

(* The units bought cost what is left after the fee, to less than a price.   *)
LEMMA BoughtBounds ==
  ASSUME NEW money \in Nat, NEW price \in Nat \ {0}
  PROVE  /\ UnitsBought(money, price) \in Nat
         /\ UnitsBought(money, price) * price <= (money - FeeOf(money)) * Scale
         /\ (money - FeeOf(money)) * Scale < UnitsBought(money, price) * price + price
<1>1. money - FeeOf(money) \in Nat
  BY FeeBounds
<1>2. (money - FeeOf(money)) * Scale \in Nat
  BY <1>1, BacktestAssumption, MulMonotone
<1>3. QED
  BY <1>2, DivBounds DEF UnitsBought

-----------------------------------------------------------------------------
(* What each kind of trade does to the account.                              *)

AccountType ==
  /\ cash \in Nat /\ posUnits \in Nat /\ entryCash \in Nat
  /\ wins \in Nat /\ closed \in Nat /\ numTrades \in Nat

(* A trade at a price keeps the account typed, and with it what it is worth: *)
(* it creates no value and loses no more than its fee and its rounding.      *)
Fair(price) ==
  /\ ValueAt(cash', posUnits', price) <= ValueAt(cash, posUnits, price)
  /\ ValueAt(cash, posUnits, price) - ValueAt(cash', posUnits', price) <=
       FeeOf(cash + WorthOf(posUnits, price)) * Scale
         + (IF price > Scale THEN price ELSE Scale)

LEMMA BuyIsFair ==
  ASSUME AccountType, NEW price \in Nat, NEW signal, Buys(price, signal), BuyAll(price)
  PROVE  AccountType' /\ Fair(price)
<1> DEFINE fee == FeeOf(cash)
           units == UnitsBought(cash, price)
<1>1. /\ units \in Nat /\ units * price <= (cash - fee) * Scale
      /\ (cash - fee) * Scale < units * price + price
  BY BoughtBounds DEF AccountType, Buys
<1>2. AccountType'
  BY <1>1 DEF AccountType, BuyAll
<1>3. fee \in Nat /\ fee <= cash
  BY FeeBounds DEF AccountType
<1>4. cash + WorthOf(posUnits, price) = cash
  BY BacktestAssumption DEF WorthOf, Buys, AccountType
<1>5. ValueAt(cash, posUnits, price) = cash * Scale
  BY BacktestAssumption DEF ValueAt, Buys, AccountType
<1>6. ValueAt(cash', posUnits', price) = units * price
  BY <1>1, BacktestAssumption DEF ValueAt, BuyAll
<1>7. (cash - fee) * Scale = cash * Scale - fee * Scale /\ fee * Scale \in Nat
      /\ cash * Scale \in Nat /\ units * price \in Nat
  <2> HIDE DEF fee, units
  <2> QED  BY <1>1, <1>3, BacktestAssumption, Z3 DEF AccountType
<1>8. Fair(price)
  <2> HIDE DEF units
  <2>1. units * price <= cash * Scale
    BY <1>1, <1>7, Z3
  <2>2. cash * Scale - units * price <= fee * Scale + price
    BY <1>1, <1>7, Z3
  <2>3. QED
    BY <2>1, <2>2, <1>4, <1>5, <1>6, <1>7, BacktestAssumption DEF Fair
<1>9. QED  BY <1>2, <1>8

LEMMA SellIsFair ==
  ASSUME AccountType, AccountInv, NEW price \in Nat, NEW signal, Sells(signal), SellAll(price)
  PROVE  AccountType' /\ Fair(price)
<1> DEFINE gross == WorthOf(posUnits, price)
           fee == FeeOf(gross)
<1>1. /\ gross \in Nat /\ gross * Scale <= posUnits * price
      /\ posUnits * price < gross * Scale + Scale
  BY WorthBounds DEF AccountType
<1>2. fee \in Nat /\ fee <= gross
  BY <1>1, FeeBounds
<1>3. cash = 0 /\ cash' = gross - fee /\ posUnits' = 0
  BY <1>1, <1>2 DEF AccountInv, Sells, SellAll
<1>4. AccountType'
  BY <1>1, <1>2, <1>3 DEF AccountType, SellAll
<1>5. ValueAt(cash, posUnits, price) = posUnits * price
  BY <1>3, BacktestAssumption DEF ValueAt, AccountType
<1>6. ValueAt(cash', posUnits', price) = (gross - fee) * Scale
  BY <1>1, <1>2, <1>3, BacktestAssumption DEF ValueAt
<1>7. (gross - fee) * Scale = gross * Scale - fee * Scale /\ fee * Scale \in Nat
      /\ gross * Scale \in Nat /\ posUnits * price \in Nat
  <2> HIDE DEF fee, gross
  <2> QED  BY <1>1, <1>2, BacktestAssumption, Z3 DEF AccountType
<1>8. Fair(price)
  <2>1. cash + gross = gross
    BY <1>1, <1>3
  <2> HIDE DEF gross
  <2>2. (gross - fee) * Scale <= posUnits * price
    BY <1>1, <1>7, Z3
  <2>3. posUnits * price - (gross - fee) * Scale <= fee * Scale + Scale
    BY <1>1, <1>7, BacktestAssumption, Z3
  <2>4. QED
    BY <2>1, <2>2, <2>3, <1>5, <1>6, <1>7, BacktestAssumption DEF Fair, gross
<1>9. QED  BY <1>4, <1>8

LEMMA IdleIsFair ==
  ASSUME AccountType, NEW price \in Nat, UNCHANGED account
  PROVE  AccountType' /\ Fair(price)
<1>1. WorthOf(posUnits, price) \in Nat
  BY WorthBounds DEF AccountType
<1>2. FeeOf(cash + WorthOf(posUnits, price)) \in Nat
  BY <1>1, FeeBounds DEF AccountType
<1>3. FeeOf(cash + WorthOf(posUnits, price)) * Scale \in Nat
  BY <1>2, BacktestAssumption, MulMonotone
<1>4. ValueAt(cash, posUnits, price) \in Nat
  BY BacktestAssumption, MulMonotone DEF ValueAt, AccountType
<1>5. UNCHANGED <<cash, posUnits>> /\ AccountType'
  BY DEF account, AccountType
<1>6. ValueAt(cash', posUnits', price) = ValueAt(cash, posUnits, price)
  BY <1>5
<1>7. QED
  BY <1>3, <1>4, <1>5, <1>6, BacktestAssumption DEF Fair

LEMMA TradeIsFair ==
  ASSUME AccountType, AccountInv, NEW price \in Nat, NEW signal, Trade(price, signal)
  PROVE  AccountType' /\ Fair(price)
  BY BuyIsFair, SellIsFair, IdleIsFair DEF Trade

LEMMA LiquidateIsFair ==
  ASSUME TypeOK, AccountInv, Liquidate
  PROVE  /\ LastClose \in Nat /\ cs' = cs /\ cs # << >>
         /\ AccountType' /\ posUnits' = 0
         /\ cash' = cash + WorthOf(posUnits, LastClose)
         /\ Fair(LastClose)
<1> DEFINE gross == WorthOf(posUnits, LastClose)
<1>1. LastClose \in Nat /\ cs' = cs /\ cs # << >>
  <2>1. cs \in Seq(Prices) /\ Len(cs) > 0 /\ cs' = cs
    BY DEF TypeOK, Liquidate
  <2>2. cs[Len(cs)] \in Prices
    BY <2>1
  <2>3. cs # << >>
    BY <2>1
  <2>4. QED  BY <2>1, <2>2, <2>3, BacktestAssumption DEF LastClose
<1>2. /\ gross \in Nat /\ gross * Scale <= posUnits * LastClose
      /\ posUnits * LastClose < gross * Scale + Scale
  BY <1>1, WorthBounds DEF TypeOK
<1>3. posUnits = 0 => gross = 0
  BY <1>1, BacktestAssumption DEF WorthOf
<1>4. cash' = cash + gross /\ posUnits' = 0
  BY <1>2, <1>3 DEF Liquidate, TypeOK, LastClose
<1>5. AccountType'
  BY <1>2, <1>4 DEF AccountType, TypeOK, Liquidate
<1>6. /\ ValueAt(cash', posUnits', LastClose) = cash * Scale + gross * Scale
      /\ cash * Scale \in Nat /\ gross * Scale \in Nat
      /\ posUnits * LastClose \in Nat
  <2>1. (cash + gross) * Scale = cash * Scale + gross * Scale
    <3> HIDE DEF gross
    <3> QED  BY <1>2, BacktestAssumption, Z3 DEF TypeOK
  <2>2. 0 * LastClose = 0
    BY <1>1
  <2>3. /\ cash * Scale \in Nat /\ gross * Scale \in Nat /\ posUnits * LastClose \in Nat
    BY <1>1, <1>2, BacktestAssumption, MulMonotone DEF TypeOK
  <2> HIDE DEF gross
  <2>4. QED  BY <1>4, <2>1, <2>2, <2>3 DEF ValueAt
<1>7. FeeOf(cash + gross) * Scale \in Nat
  <2>1. cash + gross \in Nat
    BY <1>2 DEF TypeOK
  <2>2. FeeOf(cash + gross) \in Nat
    BY <2>1, FeeBounds
  <2>3. QED  BY <2>2, BacktestAssumption, MulMonotone
<1>8. Fair(LastClose)
  <2> HIDE DEF gross
  <2>1. ValueAt(cash, posUnits, LastClose) = cash * Scale + posUnits * LastClose
    BY DEF ValueAt
  <2>2. QED
    BY <1>1, <1>2, <1>6, <1>7, <2>1, BacktestAssumption DEF Fair, gross
<1>9. QED  BY <1>1, <1>4, <1>5, <1>8

-----------------------------------------------------------------------------
(* Peak and drawdown.                                                        *)

LEMMA EquityType ==
  ASSUME AccountType', NEW price \in Nat
  PROVE  cash' + WorthOf(posUnits', price) \in Nat
<1>1. cash' \in Nat /\ posUnits' \in Nat
  BY DEF AccountType
<1>2. WorthOf(posUnits', price) \in Nat
  BY <1>1, WorthBounds
<1>3. QED  BY <1>1, <1>2

LEMMA MarkType ==
  ASSUME TypeOK, AccountType', NEW price \in Nat, MarkToMarket(price)
  PROVE  peak' \in Nat /\ drawdown' \in [num : Nat, den : Nat \ {0}]
<1>1. cash' + WorthOf(posUnits', price) \in Nat
  BY EquityType
<1>2. QED  BY <1>1 DEF MarkToMarket, TypeOK

LEMMA BarCloses ==
  ASSUME TypeOK, NEW price \in Prices, NEW signal \in Actions, Bar(price, signal)
  PROVE  /\ price \in Nat /\ cs' \in Seq(Prices) /\ cs' # << >>
         /\ LastClose' = price /\ cs'[Len(cs')] = price
  BY BacktestAssumption DEF TypeOK, Bar, LastClose

(* A share of a larger whole: if the drawdown covers the fall from the peak, *)
(* it covers the fall from any lower level.                                  *)
LEMMA SmallerLevel ==
  ASSUME NEW num \in Nat, NEW den \in Nat, num <= den, NEW high \in Nat,
         NEW low \in Nat, low <= high, NEW equity \in Nat,
         (high - equity) * den <= num * high
  PROVE  (low - equity) * den <= num * low
<1>1. (den - num) * low <= (den - num) * high
  BY Z3
<1>2. (high - equity) * den = high * den - equity * den
  BY Z3
<1>3. (den - num) * high = den * high - num * high
  BY Z3
<1>4. (den - num) * low = den * low - num * low
  BY Z3
<1>5. (low - equity) * den = low * den - equity * den
  BY Z3
<1>6. QED  BY <1>1, <1>2, <1>3, <1>4, <1>5, Z3

LEMMA MarkKeepsDrawdown ==
  ASSUME TypeOK, DrawdownInv, AccountType', NEW price \in Nat, MarkToMarket(price)
  PROVE  /\ StartCash <= peak'
         /\ drawdown'.num <= drawdown'.den
         /\ (peak' - (cash' + WorthOf(posUnits', price))) * drawdown'.den
              <= drawdown'.num * peak'
<1> DEFINE equity == cash' + WorthOf(posUnits', price)
<1>1. equity \in Nat
  BY EquityType
<1>2. /\ peak' = IF equity > peak THEN equity ELSE peak
      /\ drawdown' = IF peak' > 0 /\ (peak' - equity) * drawdown.den > drawdown.num * peak'
                     THEN [num |-> peak' - equity, den |-> peak'] ELSE drawdown
  BY DEF MarkToMarket
<1> HIDE DEF equity
<1>3. peak \in Nat /\ peak' \in Nat /\ StartCash <= peak' /\ equity <= peak' /\ peak' > 0
  <2>1. peak \in Nat /\ StartCash <= peak
    BY DEF TypeOK, DrawdownInv
  <2>2. peak' = IF equity > peak THEN equity ELSE peak
    BY <1>2
  <2>3. QED  BY <1>1, <2>1, <2>2, BacktestAssumption
<1>4. CASE (peak' - equity) * drawdown.den > drawdown.num * peak'
  <2>1. drawdown'.num = peak' - equity /\ drawdown'.den = peak'
    BY <1>2, <1>3, <1>4
  <2>2. peak' - equity <= peak' /\ (peak' - equity) * peak' <= (peak' - equity) * peak'
    <3>1. \A p, e \in Nat : p - e <= p /\ (p - e) * p <= (p - e) * p
      BY Z3
    <3>2. QED  BY <1>1, <1>3, <3>1
  <2>3. QED  BY <1>3, <2>1, <2>2, Zenon DEF equity
<1>5. CASE ~((peak' - equity) * drawdown.den > drawdown.num * peak')
  <2>1. drawdown' = drawdown /\ drawdown \in [num : Nat, den : Nat \ {0}]
    BY <1>2, <1>5 DEF TypeOK
  <2>2. (peak' - equity) * drawdown.den <= drawdown.num * peak'
    BY <1>1, <1>3, <1>5, <2>1, Z3
  <2>3. QED  BY <1>3, <2>1, <2>2 DEF DrawdownInv, equity
<1>6. QED  BY <1>4, <1>5

-----------------------------------------------------------------------------
(* Preservation, step by step.                                               *)

IInv == TypeOK /\ AccountInv /\ DrawdownInv

LEMMA InitIInv == Init => IInv
<1> SUFFICES ASSUME Init PROVE IInv
  OBVIOUS
<1>1. TypeOK
  <2>1. << >> \in Seq(Prices)
    OBVIOUS
  <2>2. [num |-> 0, den |-> 1] \in [num : Nat, den : Nat \ {0}]
    OBVIOUS
  <2>3. StartCash \in Nat
    BY BacktestAssumption
  <2>4. QED  BY <2>1, <2>2, <2>3 DEF Init, TypeOK
<1>2. AccountInv
  BY BacktestAssumption DEF Init, AccountInv, Stake
<1>3. DrawdownInv
  BY BacktestAssumption DEF Init, DrawdownInv
<1>4. QED  BY <1>1, <1>2, <1>3 DEF IInv

(* The stake and the count of wins through each kind of trade.               *)
LEMMA TradeKeepsAccount ==
  ASSUME AccountType, AccountInv, ~done, NEW price \in Nat, NEW signal,
         Trade(price, signal), done' = done
  PROVE  AccountInv'
<1>1. AccountType'
  BY TradeIsFair
<1>2. CASE Buys(price, signal) /\ BuyAll(price)
  BY <1>1, <1>2, BacktestAssumption DEF AccountType, AccountInv, Stake, Buys, BuyAll
<1>3. CASE Sells(signal) /\ SellAll(price)
  <2>1. cash = 0 /\ entryCash > 0 /\ Stake = entryCash /\ Stake' = cash'
    BY <1>3, BacktestAssumption DEF AccountType, AccountInv, Stake, Sells, SellAll
  <2>2. /\ wins' = IF cash' > entryCash THEN wins + 1 ELSE wins
        /\ closed' = closed + 1 /\ posUnits' = 0
    BY <1>3 DEF SellAll
  <2>3. /\ entryCash > StartCash => wins > 0
        /\ closed = 0 /\ entryCash > 0 => entryCash = StartCash
        /\ closed > 0 /\ wins = closed /\ entryCash > 0 => entryCash > StartCash
        /\ wins <= closed /\ StartCash \in Nat \ {0}
    BY <2>1, BacktestAssumption DEF AccountInv
  <2>4. /\ cash' \in Nat /\ entryCash \in Nat /\ wins \in Nat /\ closed \in Nat
    BY <1>1 DEF AccountType
  <2>5. wins' <= closed'
    BY <2>2, <2>3, <2>4
  <2>6. cash' > StartCash => wins' > 0
    BY <2>2, <2>3, <2>4
  <2>7. wins' = closed' /\ cash' > 0 => cash' > StartCash
    <3>1. CASE cash' > entryCash
      <4>1. wins' = closed' => wins = closed
        BY <2>2, <2>4, <3>1
      <4>2. wins = closed => entryCash >= StartCash
        BY <2>1, <2>3, <2>4
      <4>3. QED  BY <2>3, <2>4, <3>1, <4>1, <4>2
    <3>2. CASE ~(cash' > entryCash)
      <4>1. wins' = wins /\ closed' = closed + 1
        BY <2>2, <3>2
      <4>2. wins' # closed'
        BY <2>3, <2>4, <4>1
      <4>3. QED  BY <4>2
    <3>3. QED  BY <3>1, <3>2
  <2>8. closed' # 0
    BY <2>2, <2>4
  <2>9. QED
    BY <2>1, <2>2, <2>5, <2>6, <2>7, <2>8 DEF AccountInv
<1>4. CASE UNCHANGED account
  BY <1>4 DEF account, AccountInv, Stake
<1>5. QED  BY <1>2, <1>3, <1>4 DEF Trade

LEMMA TypeHasAccount == TypeOK => AccountType
  BY DEF TypeOK, AccountType

LEMMA BarKeepsIInv ==
  ASSUME IInv, NEW price \in Prices, NEW signal \in Actions, Bar(price, signal)
  PROVE  IInv'
<1>1. TypeOK /\ AccountInv /\ DrawdownInv /\ AccountType /\ ~done
  BY TypeHasAccount DEF IInv, Bar
<1>2. /\ price \in Nat /\ cs' \in Seq(Prices) /\ cs' # << >> /\ LastClose' = price
  BY <1>1, BarCloses
<1>3. Trade(price, signal) /\ MarkToMarket(price) /\ done' = done
  BY DEF Bar
<1>4. AccountType'
  BY <1>1, <1>2, <1>3, TradeIsFair
<1>5. TypeOK'
  <2>1. peak' \in Nat /\ drawdown' \in [num : Nat, den : Nat \ {0}]
    BY <1>1, <1>2, <1>3, <1>4, MarkType
  <2>2. done' \in BOOLEAN
    BY <1>1, <1>3 DEF TypeOK
  <2>3. QED  BY <1>2, <1>4, <2>1, <2>2 DEF TypeOK, AccountType
<1>6. AccountInv'
  BY <1>1, <1>2, <1>3, TradeKeepsAccount
<1>7. DrawdownInv'
  <2>1. Equity' = cash' + WorthOf(posUnits', price)
    BY <1>2 DEF Equity, WorthOf
  <2>2. QED
    BY <1>1, <1>2, <1>3, <1>4, <2>1, MarkKeepsDrawdown DEF DrawdownInv
<1>8. QED  BY <1>5, <1>6, <1>7 DEF IInv

LEMMA LiquidateKeepsIInv == ASSUME IInv, Liquidate PROVE IInv'
<1>1. TypeOK /\ AccountInv /\ DrawdownInv
  BY DEF IInv
<1>2. /\ LastClose \in Nat /\ cs' = cs /\ cs # << >> /\ AccountType' /\ posUnits' = 0
      /\ cash' = cash + WorthOf(posUnits, LastClose)
  BY <1>1, LiquidateIsFair
<1>3. UNCHANGED <<wins, closed, peak, drawdown>> /\ done'
  BY DEF Liquidate
<1>4. TypeOK'
  BY <1>1, <1>2, <1>3 DEF TypeOK, AccountType, Liquidate
<1>5. AccountInv'
  BY <1>1, <1>2, <1>3 DEF AccountInv
<1>6. Equity' = Equity
  <2>1. LastClose' = LastClose
    BY <1>2 DEF LastClose
  <2>2. WorthOf(0, LastClose) = 0
    BY <1>2, BacktestAssumption DEF WorthOf
  <2>3. Equity' = cash' + WorthOf(posUnits', LastClose')
    BY DEF Equity, WorthOf
  <2>4. Equity' = cash' + 0
    BY <1>2, <2>1, <2>2, <2>3
  <2>5. cash' \in Nat
    BY <1>2 DEF AccountType
  <2>6. QED  BY <1>2, <2>4, <2>5 DEF Equity
<1>7. DrawdownInv'
  BY <1>1, <1>2, <1>3, <1>6 DEF DrawdownInv
<1>8. QED  BY <1>4, <1>5, <1>7 DEF IInv

LEMMA StutterKeepsIInv == ASSUME IInv, UNCHANGED vars PROVE IInv'
  BY DEF IInv, vars, account, TypeOK, AccountInv, Stake, DrawdownInv, Equity, LastClose, WorthOf

THEOREM BacktestInvariant == Spec => []IInv
<1>1. IInv /\ [Next]_vars => IInv'
  BY BarKeepsIInv, LiquidateKeepsIInv, StutterKeepsIInv DEF Next
<1>2. QED  BY <1>1, InitIInv, PTL DEF Spec

(* The account of a backtest stays typed: cash and units are never negative, *)
(* whatever the strategy, the prices and the fee.                            *)
THEOREM BacktestTyped == Spec => []TypeOK
<1>1. IInv => TypeOK
  BY DEF IInv
<1>2. QED  BY <1>1, BacktestInvariant, PTL

-----------------------------------------------------------------------------
(* The properties.                                                           *)

(* Whatever the strategy, the prices, the fee and the scale, no trade and no *)
(* liquidation creates value, and none loses more than its fee and rounding. *)
THEOREM NoValueFromTrades == Spec => TradesCreateNoValue
<1> DEFINE Step ==
      LET price == cs'[Len(cs')]
          before == ValueAt(cash, posUnits, price)
          after == ValueAt(cash', posUnits', price)
      IN  /\ after <= before
          /\ before - after <=
               FeeOf(cash + WorthOf(posUnits, price)) * Scale
                 + (IF price > Scale THEN price ELSE Scale)
<1>1. IInv /\ [Next]_vars => [Step]_vars
  <2> SUFFICES ASSUME IInv, Next PROVE Step
    OBVIOUS
  <2>1. TypeOK /\ AccountInv /\ AccountType
    BY TypeHasAccount DEF IInv
  <2>2. ASSUME NEW price \in Prices, NEW signal \in Actions, Bar(price, signal)
        PROVE  Step
    <3>1. price \in Nat /\ cs'[Len(cs')] = price
      BY <2>1, <2>2, BarCloses
    <3>2. Fair(price)
      BY <2>1, <2>2, <3>1, TradeIsFair DEF Bar
    <3>3. QED  BY <3>1, <3>2 DEF Fair
  <2>3. CASE Liquidate
    <3>1. Fair(LastClose) /\ cs'[Len(cs')] = LastClose
      BY <2>1, <2>3, LiquidateIsFair DEF LastClose
    <3>2. QED  BY <3>1 DEF Fair
  <2>4. QED  BY <2>2, <2>3 DEF Next
<1>2. Spec => [][Step]_vars
  BY <1>1, BacktestInvariant, PTL DEF Spec
<1>3. QED  BY <1>2 DEF TradesCreateNoValue

(* The win rate and the profit tell the same story.                          *)
THEOREM WinsAndProfitAgree == Spec => []WinsExplainProfit
<1>1. IInv => WinsExplainProfit
  BY DEF IInv, TypeOK, AccountInv, Stake, WinsExplainProfit
<1>2. QED  BY <1>1, BacktestInvariant, PTL

(* The reported drawdown is no smaller than the loss on the starting cash.   *)
THEOREM DrawdownIsHonest == Spec => []DrawdownCoversLoss
<1>1. ASSUME IInv PROVE DrawdownCoversLoss
  <2>1. SUFFICES ASSUME cs # << >>
                 PROVE  (StartCash - Equity) * drawdown.den <= drawdown.num * StartCash
    BY DEF DrawdownCoversLoss
  <2>2. /\ drawdown.num \in Nat /\ drawdown.den \in Nat /\ drawdown.num <= drawdown.den
        /\ peak \in Nat /\ StartCash \in Nat /\ StartCash <= peak
        /\ (peak - Equity) * drawdown.den <= drawdown.num * peak
    BY <1>1, <2>1, BacktestAssumption DEF IInv, TypeOK, DrawdownInv
  <2>3. Equity \in Nat
    <3>1. cs \in Seq(Prices) /\ cash \in Nat /\ posUnits \in Nat
      BY <1>1 DEF IInv, TypeOK
    <3>2. cs[Len(cs)] \in Prices
      BY <2>1, <3>1
    <3>3. LastClose \in Nat
      BY <3>2, BacktestAssumption DEF LastClose
    <3>4. WorthOf(posUnits, LastClose) \in Nat
      BY <3>1, <3>3, WorthBounds
    <3>5. QED  BY <3>1, <3>4 DEF Equity
  <2>4. QED  BY <2>2, <2>3, SmallerLevel
<1>2. QED  BY <1>1, BacktestInvariant, PTL
-----------------------------------------------------------------------------
(* The moving averages: the running sum of SMA is the sum of its window.     *)

Window(i, period) == (IF i > period THEN i - period + 1 ELSE 1) .. i

RunsOver(g, values, period) ==
  g = [i \in 0..Len(values) |->
         IF i = 0 THEN 0
         ELSE g[i - 1] + values[i] - (IF i > period THEN values[i - period] ELSE 0)]

LEMMA RunningSumIs ==
  ASSUME NEW values, NEW period
  PROVE  RunningSum(values, period) = CHOOSE g : RunsOver(g, values, period)
BY DEF RunningSum, RunsOver

LEMMA WindowFinite ==
  ASSUME NEW values \in Seq(Int), NEW a \in Nat \ {0}, NEW b \in 0..Len(values)
  PROVE  IsFiniteSet(a..b) /\ \A j \in a..b : values[j] \in Int
<1>1. IsFiniteSet(a..b)
  BY FS_Interval
<1>2. ASSUME NEW j \in a..b PROVE values[j] \in Int
  <2>1. j \in 1..Len(values)
    OBVIOUS
  <2>2. QED  BY <2>1
<1>3. QED  BY <1>1, <1>2

(* The window moves on by one value: the new one joins, the oldest leaves.   *)
LEMMA WindowMoves ==
  ASSUME NEW values \in Seq(Int), NEW period \in Nat \ {0}, NEW i \in 1..Len(values)
  PROVE  SumFunctionOnSet(values, Window(i, period)) =
           SumFunctionOnSet(values, Window(i - 1, period)) + values[i]
             - (IF i > period THEN values[i - period] ELSE 0)
<1> DEFINE low == IF i > period THEN i - period + 1 ELSE 1
           kept == low .. (i - 1)
<1>1. low \in Nat \ {0} /\ i \in Nat /\ i - 1 \in 0..Len(values) /\ low <= i
  OBVIOUS
<1>2. IsFiniteSet(kept) /\ \A j \in kept : values[j] \in Int
  BY <1>1, WindowFinite
<1>3. values[i] \in Int /\ i \notin kept
  OBVIOUS
<1>4. Window(i, period) = kept \cup {i}
  BY <1>1 DEF Window
<1> DEFINE total == SumFunctionOnSet(values, kept)
<1>5. total \in Int
  BY <1>2, SumInt
<1>6. SumFunctionOnSet(values, Window(i, period)) = total + values[i]
  <2> HIDE DEF kept
  <2>1. \A j \in kept \cup {i} : values[j] \in Int
    BY <1>2, <1>3
  <2>2. SumFunctionOnSet(values, kept \cup {i}) = SumFunctionOnSet(values, kept) + values[i]
    BY <1>2, <1>3, <2>1, SumAdd
  <2>3. QED  BY <1>4, <2>2
<1>7. CASE i <= period
  <2>1. Window(i - 1, period) = kept
    BY <1>7 DEF Window
  <2> HIDE DEF kept, total
  <2>2. SumFunctionOnSet(values, Window(i - 1, period)) = total
    BY <2>1 DEF total
  <2>3. QED  BY <1>3, <1>5, <1>6, <1>7, <2>2
<1>8. CASE i > period
  <2> DEFINE old == i - period
  <2>1. Window(i - 1, period) = kept \cup {old} /\ old \notin kept
    BY <1>8 DEF Window
  <2>2. values[old] \in Int
    BY <1>8
  <2> HIDE DEF old, kept
  <2>3. \A j \in kept \cup {old} : values[j] \in Int
    BY <1>2, <2>2
  <2>4. SumFunctionOnSet(values, kept \cup {old}) = SumFunctionOnSet(values, kept) + values[old]
    BY <1>2, <2>1, <2>3, SumAdd
  <2> DEFINE before == SumFunctionOnSet(values, Window(i - 1, period))
  <2>5. before = total + values[old]
    BY <2>1, <2>4
  <2> HIDE DEF total, before
  <2>6. total + values[i] = before + values[i] - values[old]
    BY <1>3, <1>5, <2>2, <2>5
  <2>7. QED  BY <1>6, <1>8, <2>6 DEF before, old
<1>9. QED  BY <1>1, <1>7, <1>8

LEMMA RunningSumIsWindow ==
  ASSUME NEW values \in Seq(Int), NEW period \in Nat \ {0}
  PROVE  \A i \in 0..Len(values) :
           RunningSum(values, period)[i] = SumFunctionOnSet(values, Window(i, period))
<1> DEFINE Sum(i) == SumFunctionOnSet(values, Window(i, period))
           c == [i \in 0..Len(values) |-> Sum(i)]
           g == RunningSum(values, period)
           Left(i) == IF i > period THEN values[i - period] ELSE 0
<1>1. Sum(0) = 0
  <2>1. Window(0, period) = {}
    BY DEF Window
  <2>2. QED  BY <2>1, SumEmpty
<1>2. \A i \in 1..Len(values) : Sum(i) = Sum(i - 1) + values[i] - Left(i)
  BY WindowMoves
<1>3. Len(values) \in Nat
  OBVIOUS
<1> HIDE DEF Sum
<1>4. RunsOver(c, values, period)
  <2>1. ASSUME NEW i \in 0..Len(values)
        PROVE  c[i] = IF i = 0 THEN 0 ELSE c[i - 1] + values[i] - Left(i)
    <3>1. CASE i = 0
      BY <1>1, <1>3, <3>1
    <3>2. CASE i # 0
      <4>1. i \in 1..Len(values) /\ i - 1 \in 0..Len(values)
        BY <3>2
      <4>2. QED  BY <1>2, <3>2, <4>1
    <3>3. QED  BY <3>1, <3>2
  <2>2. c = [i \in 0..Len(values) |-> c[i]]
    OBVIOUS
  <2> HIDE DEF c
  <2>3. QED  BY <2>1, <2>2 DEF RunsOver
<1> HIDE DEF c
<1>5. RunsOver(g, values, period)
  BY <1>4, RunningSumIs
<1> DEFINE Bad == {i \in 0..Len(values) : g[i] # c[i]}
<1>6. ASSUME Bad # {} PROVE FALSE
  <2>1. PICK i \in Bad : \A j \in Bad : i <= j
    <3>1. Bad \subseteq Nat
      OBVIOUS
    <3> HIDE DEF Bad
    <3>2. QED  BY <1>6, <3>1, SmallestNumber
  <2>2. i \in 0..Len(values) /\ g[i] # c[i]
    BY <2>1
  <2>3. i # 0
    BY <1>4, <1>5, <2>2 DEF RunsOver
  <2>4. i - 1 \in 0..Len(values) /\ ~(i <= i - 1)
    BY <2>2, <2>3
  <2>5. g[i - 1] = c[i - 1]
    BY <2>1, <2>4
  <2>6. QED  BY <1>4, <1>5, <2>2, <2>3, <2>5 DEF RunsOver
<1>7. \A i \in 0..Len(values) : c[i] = Sum(i)
  BY DEF c
<1>8. QED  BY <1>6, <1>7 DEF Sum

LEMMA SMAIs ==
  ASSUME NEW values \in Seq(Int), NEW period \in Nat, NEW i \in 1..Len(values)
  PROVE  SMA(values, period)[i] =
           IF period > 0 /\ i >= period
           THEN [warm |-> TRUE, sum |-> WindowSum(values, i, period), period |-> period]
           ELSE NaN
<1>1. CASE period > 0 /\ i >= period
  <2>1. Window(i, period) = (i - period + 1)..i
    BY <1>1 DEF Window
  <2>2. RunningSum(values, period)[i] = WindowSum(values, i, period)
    BY <1>1, <2>1, RunningSumIsWindow DEF WindowSum
  <2>3. QED  BY <1>1, <2>2 DEF SMA
<1>2. QED  BY <1>1 DEF SMA

LEMMA WindowSumInt ==
  ASSUME NEW values \in Seq(Int), NEW period \in Nat, NEW i \in period..Len(values)
  PROVE  WindowSum(values, i, period) \in Int
<1>1. i - period + 1 \in Nat \ {0} /\ i \in 0..Len(values)
  OBVIOUS
<1>2. QED  BY <1>1, WindowFinite, SumInt DEF WindowSum

(* Comparing two averages is comparing the means of their windows.           *)
LEMMA AveragesCompare ==
  ASSUME NEW values \in Seq(Int), NEW p \in Nat, NEW q \in Nat, NEW i \in 1..Len(values)
  PROVE  LET warm == p > 0 /\ q > 0 /\ i >= p /\ i >= q
             a == SMA(values, p)[i]
             b == SMA(values, q)[i]
         IN  /\ Above(a, b) <=> warm /\ MeanAbove(values, i, p, q)
             /\ AtMost(a, b) <=> warm /\ ~MeanAbove(values, i, p, q)
<1> DEFINE a == SMA(values, p)[i]
           b == SMA(values, q)[i]
           warm == p > 0 /\ q > 0 /\ i >= p /\ i >= q
<1>1. CASE warm
  <2> DEFINE x == WindowSum(values, i, p)
             y == WindowSum(values, i, q)
  <2>1. a = [warm |-> TRUE, sum |-> x, period |-> p] /\ b = [warm |-> TRUE, sum |-> y, period |-> q]
    BY <1>1, SMAIs
  <2>2. x \in Int /\ y \in Int
    BY <1>1, WindowSumInt
  <2> HIDE DEF x, y, a, b
  <2>3. x * q \in Int /\ y * p \in Int
    BY <2>2
  <2>4. MeanAbove(values, i, p, q) <=> x * q > y * p
    BY DEF MeanAbove, x, y
  <2>5. Above(a, b) <=> x * q > y * p
    BY <2>1 DEF Above
  <2>6. AtMost(a, b) <=> x * q <= y * p
    BY <2>1 DEF AtMost
  <2>7. QED  BY <1>1, <2>3, <2>4, <2>5, <2>6 DEF a, b
<1>2. CASE ~warm
  <2>1. a = NaN \/ b = NaN
    BY <1>2, SMAIs
  <2> HIDE DEF a, b
  <2>2. ~a.warm \/ ~b.warm
    BY <2>1 DEF NaN
  <2>3. ~Above(a, b) /\ ~AtMost(a, b)
    BY <2>2 DEF Above, AtMost
  <2>4. QED  BY <1>2, <2>3 DEF a, b
<1>3. QED  BY <1>1, <1>2

LEMMA CrossIsEvaluated ==
  ASSUME NEW values \in Seq(Int) PROVE Evaluate(values) = CrossOfMeans(values)
<1> DEFINE n == Len(values)
           fast == SMA(values, Fast)
           slow == SMA(values, Slow)
           warm == Fast > 0 /\ n > Fast /\ n > Slow
           Up(i) == MeanAbove(values, i, Fast, Slow)
           Down(i) == MeanAbove(values, i, Slow, Fast)
           rises == AtMost(fast[n-1], slow[n-1]) /\ Above(fast[n], slow[n])
           falls == AtMost(slow[n-1], fast[n-1]) /\ Above(slow[n], fast[n])
<1>1. n \in Nat /\ Fast \in Nat /\ Slow \in Nat /\ Slow > 0
  BY StrategyAssumption
<1>2. ASSUME n >= Slow + 1
      PROVE  /\ rises <=> warm /\ Up(n) /\ ~Up(n - 1)
             /\ falls <=> warm /\ Down(n) /\ ~Down(n - 1)
  <2>1. n \in 1..Len(values) /\ n - 1 \in 1..Len(values) /\ n > Slow /\ n - 1 >= Slow
    BY <1>1, <1>2
  <2>2. /\ Above(fast[n], slow[n]) <=> Fast > 0 /\ Slow > 0 /\ n >= Fast /\ n >= Slow /\ Up(n)
        /\ Above(slow[n], fast[n]) <=> Fast > 0 /\ Slow > 0 /\ n >= Fast /\ n >= Slow /\ Down(n)
    BY <1>1, <2>1, AveragesCompare
  <2>3. /\ AtMost(fast[n-1], slow[n-1])
             <=> Fast > 0 /\ Slow > 0 /\ n - 1 >= Fast /\ n - 1 >= Slow /\ ~Up(n - 1)
        /\ AtMost(slow[n-1], fast[n-1])
             <=> Fast > 0 /\ Slow > 0 /\ n - 1 >= Fast /\ n - 1 >= Slow /\ ~Down(n - 1)
    <3>1. PICK m \in 1..Len(values) : m = n - 1
      BY <2>1
    <3>2. /\ AtMost(fast[m], slow[m])
               <=> Fast > 0 /\ Slow > 0 /\ m >= Fast /\ m >= Slow /\ ~Up(m)
          /\ AtMost(slow[m], fast[m])
               <=> Fast > 0 /\ Slow > 0 /\ m >= Fast /\ m >= Slow /\ ~Down(m)
      BY <1>1, AveragesCompare
    <3>3. QED  BY <3>1, <3>2
  <2>4. n - 1 >= Fast <=> n > Fast
    BY <1>1
  <2> HIDE DEF Up, Down, fast, slow
  <2>5. n > Fast => n >= Fast
    BY <1>1
  <2> HIDE DEF n
  <2>6. QED  BY <1>1, <2>1, <2>2, <2>3, <2>4, <2>5
<1>3. Evaluate(values) = IF n < Slow + 1 THEN "Hold" ELSE IF rises THEN "Buy"
                         ELSE IF falls THEN "Sell" ELSE "Hold"
  <2>1. Evaluate(values) = CASE n < Slow + 1 -> "Hold"
                             [] n >= Slow + 1 /\ rises -> "Buy"
                             [] n >= Slow + 1 /\ falls -> "Sell"
                             [] OTHER -> "Hold"
    BY DEF Evaluate
  <2>2. n >= Slow + 1 => ~(rises /\ falls)
    <3>1. Fast \in 0..n => WindowSum(values, n, Fast) \in Int
      BY <1>1, WindowSumInt
    <3>2. Slow \in 0..n => WindowSum(values, n, Slow) \in Int
      BY <1>1, WindowSumInt
    <3>3. warm => ~(Up(n) /\ Down(n))
      BY <1>1, <3>1, <3>2 DEF MeanAbove
    <3> HIDE DEF rises, falls, Up, Down, warm
    <3>4. QED  BY <1>2, <3>3
  <2> HIDE DEF rises, falls
  <2>3. QED  BY <1>1, <2>1, <2>2
<1>4. CrossOfMeans(values) = IF warm /\ Up(n) /\ ~Up(n - 1) THEN "Buy"
                             ELSE IF warm /\ Down(n) /\ ~Down(n - 1) THEN "Sell" ELSE "Hold"
  BY DEF CrossOfMeans
<1> HIDE DEF Up, Down, rises, falls
<1>5. n < Slow + 1 <=> ~(n >= Slow + 1)
  BY <1>1
<1>6. n < Slow + 1 => ~warm
  BY <1>1
<1>7. QED  BY <1>2, <1>3, <1>4, <1>5, <1>6
LEMMA ClosesAreInts == ASSUME TypeOK PROVE cs \in Seq(Int)
<1>1. Prices \subseteq Int
  BY BacktestAssumption
<1>2. QED  BY <1>1, SeqMonotonic DEF TypeOK

(* MACross with its running sums signals exactly the crosses of the means,   *)
(* on every series of prices and for every pair of periods.                  *)
THEOREM MACrossIsCross == Spec => []EvaluateIsCrossOfMeans
<1>1. ASSUME TypeOK PROVE EvaluateIsCrossOfMeans
  <2>1. cs \in Seq(Int)
    BY <1>1, ClosesAreInts
  <2>2. QED  BY <2>1, CrossIsEvaluated DEF EvaluateIsCrossOfMeans
<1>2. QED  BY <1>1, BacktestTyped, PTL

-----------------------------------------------------------------------------
(* What the trade daemon sees of the series: its end.                        *)

LEMMA WindowOfEnd ==
  ASSUME NEW values \in Seq(Int), NEW k \in 1..Len(values), NEW i \in 1..k,
         NEW period \in 0..i
  PROVE  LET end == SubSeq(values, Len(values) - k + 1, Len(values))
         IN  WindowSum(end, i, period) = WindowSum(values, i + (Len(values) - k), period)
<1> DEFINE n == Len(values)
           d == n - k
           end == SubSeq(values, n - k + 1, n)
           low == i - period + 1
<1>1. n \in Nat /\ d \in Nat /\ low \in Int /\ low >= 1 /\ i \in Int /\ i <= k
  OBVIOUS
<1>2. ASSUME NEW j \in low..i PROVE end[j] \in Int /\ values[j + d] = end[j]
  <2>1. j \in 1..k /\ j + d \in 1..n
    BY <1>1
  <2>2. end[j] = values[(n - k + 1) + j - 1]
    BY <1>1, <2>1
  <2>3. (n - k + 1) + j - 1 = j + d
    BY <1>1, <2>1
  <2>4. \A x \in 1..n : values[x] \in Int
    OBVIOUS
  <2> HIDE DEF end, d, n
  <2>5. QED  BY <2>1, <2>2, <2>3, <2>4
<1>3. (i + d) - period + 1 = low + d
  BY <1>1
<1> DEFINE m == i + d
<1>4. m - period + 1 = low + d
  BY <1>3
<1>9. d \in Int /\ low \in Int /\ i \in Int
  BY <1>1
<1> HIDE DEF end, low, d
<1>5. SumFunctionOnSet(values, (low + d)..(i + d)) = SumFunctionOnSet(end, low..i)
  <2>1. low + d \in Int /\ i + d \in Int /\ (i + d) - (low + d) = i - low /\ (low + d) - low = d
    BY <1>9
  <2> DEFINE c == low + d
             e == i + d
  <2>2. c \in Int /\ e \in Int /\ e - c = i - low /\ c - low = d
    BY <2>1
  <2> HIDE DEF c, e
  <2>3. \A j \in low..i : end[j] \in Int /\ values[j + (c - low)] = end[j]
    BY <1>2, <2>2
  <2>4. SumFunctionOnSet(values, c..e) = SumFunctionOnSet(end, low..i)
    <3>1. Shifted(end, low, i, values, c, e)
      BY <1>9, <2>2, <2>3 DEF Shifted
    <3>2. QED  BY <3>1, SumShift
  <2>5. QED  BY <2>4 DEF c, e
<1>6. WindowSum(end, i, period) = SumFunctionOnSet(end, low..i)
  BY DEF WindowSum, low
<1>7. WindowSum(values, m, period) = SumFunctionOnSet(values, (low + d)..(i + d))
  BY <1>4 DEF WindowSum
<1>8. QED  BY <1>5, <1>6, <1>7 DEF end, d

LEMMA EndDecidesAlike ==
  ASSUME NEW values \in Seq(Int), NEW k \in 1..Len(values), k > Slow, k > Fast
  PROVE  Evaluate(SubSeq(values, Len(values) - k + 1, Len(values))) = Evaluate(values)
<1> DEFINE n == Len(values)
           end == SubSeq(values, n - k + 1, n)
<1>1. /\ n \in Nat /\ k \in 1..n /\ n >= k
      /\ Fast \in Nat /\ Slow \in Nat /\ Slow > 0 /\ k - 1 \in 1..k
  BY StrategyAssumption
<1>2. end \in Seq(Int) /\ Len(end) = k
  <2>1. n - k + 1 \in 1..(n + 1) /\ n \in 0..n
    BY <1>1
  <2>2. QED  BY <1>1, <2>1
<1>3. ASSUME NEW p \in Nat, NEW q \in Nat, p < k, q < k
      PROVE  /\ MeanAbove(end, k, p, q) = MeanAbove(values, n, p, q)
             /\ MeanAbove(end, k - 1, p, q) = MeanAbove(values, n - 1, p, q)
  <2>1. ASSUME NEW r \in Nat, r < k
        PROVE  /\ WindowSum(end, k, r) = WindowSum(values, n, r)
               /\ WindowSum(end, k - 1, r) = WindowSum(values, n - 1, r)
    <3>1. k + (n - k) = n /\ (k - 1) + (n - k) = n - 1
      BY <1>1
    <3>2. k \in 1..k /\ r \in 0..k /\ r \in 0..(k - 1)
      BY <1>1, <2>1
    <3>3. WindowSum(end, k, r) = WindowSum(values, k + (n - k), r)
      BY <1>1, <3>2, WindowOfEnd
    <3>4. WindowSum(end, k - 1, r) = WindowSum(values, (k - 1) + (n - k), r)
      <4>1. PICK i \in 1..k : i = k - 1
        BY <1>1
      <4>2. WindowSum(end, i, r) = WindowSum(values, i + (n - k), r)
        BY <1>1, <3>2, <4>1, WindowOfEnd
      <4>3. QED  BY <4>1, <4>2
    <3>5. QED  BY <3>1, <3>3, <3>4
  <2> HIDE DEF n, end
  <2>2. QED  BY <1>3, <2>1 DEF MeanAbove
<1>4. CrossOfMeans(end) = CrossOfMeans(values)
  <2>1. /\ MeanAbove(end, k, Fast, Slow) = MeanAbove(values, n, Fast, Slow)
        /\ MeanAbove(end, k - 1, Fast, Slow) = MeanAbove(values, n - 1, Fast, Slow)
        /\ MeanAbove(end, k, Slow, Fast) = MeanAbove(values, n, Slow, Fast)
        /\ MeanAbove(end, k - 1, Slow, Fast) = MeanAbove(values, n - 1, Slow, Fast)
    BY <1>1, <1>3
  <2>2. n > Fast /\ n > Slow
    BY <1>1
  <2> HIDE DEF end
  <2>3. QED  BY <1>2, <2>1, <2>2 DEF CrossOfMeans
<1> HIDE DEF end
<1>5. QED  BY <1>2, <1>4, CrossIsEvaluated DEF end

(* The trade daemon, which lists a day of candles, decides on every bar as   *)
(* the backtest does on all of them, once the day holds the warm-up.         *)
THEOREM LiveDecidesAsBacktest == Spec => []LiveSeesBacktest
<1>1. ASSUME TypeOK PROVE LiveSeesBacktest
  <2>1. cs \in Seq(Int)
    BY <1>1, ClosesAreInts
  <2>2. QED  BY <2>1, EndDecidesAlike DEF LiveSeesBacktest
<1>2. QED  BY <1>1, BacktestTyped, PTL
-----------------------------------------------------------------------------
(* The exponential mean.                                                     *)

Fractions == [warm : {TRUE}, num : Int, den : Nat \ {0}]

EmaRun(f, values, period) ==
  f = [i \in period..Len(values) |->
         IF i = period THEN EmaSeed(values, period) ELSE EmaStep(f[i - 1], values[i], period)]

LEMMA EmaIs ==
  ASSUME NEW values, NEW period
  PROVE  EMA(values, period) =
           [i \in 1..Len(values) |->
              IF period > 0 /\ i >= period THEN (CHOOSE f : EmaRun(f, values, period))[i] ELSE NaN]
BY DEF EMA, EmaRun

LEMMA EmaSeedIs ==
  ASSUME NEW values \in Seq(Int), NEW p \in 1..Len(values)
  PROVE  /\ EmaSeed(values, p) = Fraction(WindowSum(values, p, p), p)
         /\ WindowSum(values, p, p) \in Int /\ EmaSeed(values, p) \in Fractions
<1>1. p \in Nat \ {0} /\ p \in 0..Len(values) /\ 1 \in Nat \ {0}
  OBVIOUS
<1>2. RunningSum(values, p)[p] = SumFunctionOnSet(values, Window(p, p))
  BY <1>1, RunningSumIsWindow
<1>3. Window(p, p) = 1..p /\ (p - p + 1)..p = 1..p
  BY <1>1 DEF Window
<1>4. SumFunctionOnSet(values, 1..p) \in Int
  <2>1. IsFiniteSet(1..p) /\ \A j \in 1..p : values[j] \in Int
    BY <1>1, WindowFinite
  <2>2. QED  BY <2>1, SumInt
<1>5. WindowSum(values, p, p) = SumFunctionOnSet(values, 1..p)
  BY <1>3 DEF WindowSum
<1>6. QED  BY <1>1, <1>2, <1>3, <1>4, <1>5 DEF EmaSeed, Fraction, Fractions

LEMMA EmaStepType ==
  ASSUME NEW prev \in Fractions, NEW v \in Int, NEW p \in Nat \ {0}
  PROVE  EmaStep(prev, v, p) \in Fractions
<1>1. prev.num \in Int /\ prev.den \in Nat \ {0} /\ p + 1 \in Nat \ {0} /\ p - 1 \in Int
      /\ 2 * v \in Int
  BY DEF Fractions
<1>2. prev.den * (p + 1) \in Nat \ {0} /\ (2 * v) * prev.den \in Int /\ (p - 1) * prev.num \in Int
  BY <1>1, ProductTypes
<1>3. 2 * v * prev.den + (p - 1) * prev.num \in Int
  BY <1>2
<1>4. QED  BY <1>2, <1>3 DEF EmaStep, Fraction, Fractions

(* EMA is its recursion.                                                     *)
LEMMA EmaRuns ==
  ASSUME NEW values \in Seq(Int), NEW p \in 1..Len(values)
  PROVE  /\ \A i \in 1..Len(values) : i < p => EMA(values, p)[i] = NaN
         /\ \A i \in p..Len(values) : EMA(values, p)[i] \in Fractions
         /\ EMA(values, p)[p] = EmaSeed(values, p)
         /\ \A i \in (p + 1)..Len(values) :
              EMA(values, p)[i] = EmaStep(EMA(values, p)[i - 1], values[i], p)
<1> DEFINE n == Len(values)
           seed == EmaSeed(values, p)
           step == [i \in p..n |-> [x \in Fractions |-> EmaStep(x, values[i], p)]]
<1>1. n \in Nat /\ p \in Int /\ p > 0 /\ p \in Nat \ {0} /\ n \in Int /\ p \in p..n
      /\ \A i \in p..n : values[i] \in Int /\ i \in 1..n
  OBVIOUS
<1>2. seed \in Fractions
  BY EmaSeedIs
<1>3. step \in [p..n -> [Fractions -> Fractions]]
  BY <1>1, EmaStepType
<1>4. \A i \in p..n, x \in Fractions : step[i][x] = EmaStep(x, values[i], p)
  OBVIOUS
<1> HIDE DEF step, seed
<1>5. PICK f \in [p..n -> Fractions] : Solves(f, p, n, seed, step)
  BY <1>1, <1>2, <1>3, RecursionExists
<1>6. ASSUME NEW i \in p..n PROVE f[i] = IF i = p THEN seed ELSE EmaStep(f[i - 1], values[i], p)
  <2>1. i # p => i - 1 \in p..n
    BY <1>1
  <2>2. QED  BY <1>4, <1>5, <2>1 DEF Solves
<1>7. EmaRun(f, values, p)
  <2>1. f = [i \in p..n |-> f[i]]
    BY <1>5
  <2>2. QED  BY <1>6, <2>1 DEF EmaRun, seed
<1> DEFINE g == CHOOSE h : EmaRun(h, values, p)
<1>8. EmaRun(g, values, p)
  BY <1>7
<1>9. EMA(values, p) = [i \in 1..n |-> IF p > 0 /\ i >= p THEN g[i] ELSE NaN]
  BY EmaIs
<1> HIDE DEF g
<1>10. \A i \in p..n : g[i] = IF i = p THEN seed ELSE EmaStep(g[i - 1], values[i], p)
  BY <1>8 DEF EmaRun, seed
<1>11. \A i \in p..n : g[i] = f[i]
  <2>1. g[p] = f[p]
    BY <1>1, <1>6, <1>10
  <2>2. \A i \in (p + 1)..n : g[i - 1] = f[i - 1] => g[i] = f[i]
    <3>1. ASSUME NEW i \in (p + 1)..n, g[i - 1] = f[i - 1] PROVE g[i] = f[i]
      <4>1. i \in p..n /\ i # p
        BY <1>1
      <4>2. QED  BY <1>6, <1>10, <3>1, <4>1
    <3>2. QED  BY <3>1
  <2>3. SameSteps(g, f, p, n)
    BY <2>1, <2>2 DEF SameSteps
  <2>4. QED  BY <1>1, <2>3, RecursionsAgree
<1>12. ASSUME NEW i \in p..n PROVE EMA(values, p)[i] = g[i] /\ g[i] \in Fractions
  <2>1. i \in 1..n /\ p > 0 /\ i >= p
    BY <1>1
  <2>2. EMA(values, p)[i] = g[i]
    BY <1>9, <2>1
  <2>3. f[i] \in Fractions
    BY <1>5
  <2>4. QED  BY <1>11, <2>2, <2>3
<1>13. ASSUME NEW i \in (p + 1)..n
       PROVE  EMA(values, p)[i] = EmaStep(EMA(values, p)[i - 1], values[i], p)
  <2>1. i \in p..n /\ i # p /\ i - 1 \in p..n
    BY <1>1
  <2>2. g[i] = EmaStep(g[i - 1], values[i], p)
    BY <1>10, <2>1
  <2>3. QED  BY <1>12, <2>1, <2>2
<1>14. EMA(values, p)[p] = seed
  BY <1>1, <1>10, <1>12
<1>15. \A i \in 1..n : i < p => EMA(values, p)[i] = NaN
  BY <1>1, <1>9
<1>16. QED  BY <1>12, <1>13, <1>14, <1>15 DEF seed

(* The terms of the weighted mean, one bar later.                            *)
LEMMA EmaTermsFade ==
  ASSUME NEW values \in Seq(Int), NEW p \in 1..Len(values), NEW n \in p..(Len(values) - 1)
  PROVE  /\ Fades(EmaTerms(values, n, p), EmaTerms(values, n + 1, p), p + 1, n, p - 1)
         /\ EmaTerms(values, n + 1, p)[n + 1] = 2 * p * values[n + 1] * Power(p + 1, n - p)
<1> DEFINE f == EmaTerms(values, n, p)
           g == EmaTerms(values, n + 1, p)
<1>1. /\ p \in Int /\ n \in Int /\ p - 1 \in Int /\ p + 1 \in Int /\ p > 0 /\ p <= n
      /\ n + 1 \in 1..Len(values) /\ n - p \in Nat /\ n + 1 \in (p + 1)..(n + 1)
  OBVIOUS
<1>2. ASSUME NEW i \in (p + 1)..n PROVE f[i] \in Int /\ g[i] = (p - 1) * f[i]
  <2>1. /\ i \in 1..Len(values) /\ n - i \in Nat /\ i - p - 1 \in Nat /\ i \in (p + 1)..(n + 1)
        /\ n + 1 - i = (n - i) + 1 /\ n + 1 - i \in Int /\ n - i \in Int
    BY <1>1
  <2> DEFINE a == 2 * p * values[i]
             c == Power(p - 1, n - i)
             d == Power(p + 1, i - p - 1)
  <2>2. a \in Int
    <3>1. values[i] \in Int /\ 2 * p \in Int
      BY <1>1, <2>1
    <3>2. \A x, y \in Int : x * y \in Int
      OBVIOUS
    <3>3. QED  BY <3>1, <3>2
  <2>3. c \in Int /\ d \in Int
    BY <1>1, <2>1, PowerInt
  <2>4. f[i] = a * (c * d) /\ g[i] = a * (Power(p - 1, n + 1 - i) * d)
    BY <2>1 DEF EmaTerms
  <2>5. Power(p - 1, n + 1 - i) = (p - 1) * c
    BY <1>1, <2>1, PowerNext
  <2> HIDE DEF a, c, d
  <2>6. a * (((p - 1) * c) * d) = (p - 1) * (a * (c * d))
    BY <1>1, <2>2, <2>3, Factors
  <2>7. c * d \in Int /\ a * (c * d) \in Int
    <3>1. \A x, y \in Int : x * y \in Int
      OBVIOUS
    <3>2. QED  BY <2>2, <2>3, <3>1
  <2>8. QED  BY <2>4, <2>5, <2>6, <2>7
<1>3. g[n + 1] = 2 * p * values[n + 1] * Power(p + 1, n - p)
  <2>1. g[n + 1] = 2 * p * values[n + 1] * (Power(p - 1, n + 1 - (n + 1)) * Power(p + 1, n + 1 - p - 1))
    BY <1>1 DEF EmaTerms
  <2>2. n + 1 - (n + 1) = 0 /\ n + 1 - p - 1 = n - p /\ 0 \in Nat
    BY <1>1
  <2>3. Power(p - 1, 0) = 1 /\ Power(p + 1, n - p) \in Int
    BY <1>1, <2>2, PowerStep
  <2>4. \A x \in Int : 1 * x = x
    OBVIOUS
  <2>5. QED  BY <2>1, <2>2, <2>3, <2>4
<1>4. g[n + 1] \in Int
  <2>1. values[n + 1] \in Int /\ 2 * p \in Int
    BY <1>1
  <2> DEFINE m == n - p
  <2>2. m \in Nat /\ p + 1 \in Int
    BY <1>1
  <2> HIDE DEF m
  <2>3. Power(p + 1, m) \in Int
    BY <2>2, PowerInt
  <2>4. \A x, y \in Int : x * y \in Int
    OBVIOUS
  <2>5. QED  BY <1>3, <2>1, <2>3, <2>4 DEF m
<1> HIDE DEF f, g
<1>5. Fades(f, g, p + 1, n, p - 1)
  BY <1>1, <1>2, <1>4 DEF Fades
<1>6. QED  BY <1>3, <1>5 DEF f, g

LEMMA EmaWeightsNext ==
  ASSUME NEW values \in Seq(Int), NEW p \in 1..Len(values), NEW n \in p..(Len(values) - 1)
  PROVE  /\ EmaWeights(values, n, p) \in Int
         /\ EmaWeights(values, n + 1, p) =
              (p - 1) * EmaWeights(values, n, p) + 2 * p * values[n + 1] * Power(p + 1, n - p)
<1> DEFINE s == WindowSum(values, p, p)
           t == SumFunctionOnSet(EmaTerms(values, n, p), (p + 1)..n)
           w == Power(p - 1, n - p)
           last == 2 * p * values[n + 1] * Power(p + 1, n - p)
<1>1. p - 1 \in Int /\ n - p \in Nat /\ n - p \in Int /\ n + 1 - p = (n - p) + 1 /\ n + 1 - p \in Int
      /\ n - p >= 0
  OBVIOUS
<1>2. s \in Int
  BY EmaSeedIs
<1>3. w \in Int /\ Power(p - 1, n + 1 - p) = (p - 1) * w
  BY <1>1, PowerInt, PowerNext
<1>4. /\ Fades(EmaTerms(values, n, p), EmaTerms(values, n + 1, p), p + 1, n, p - 1)
      /\ EmaTerms(values, n + 1, p)[n + 1] = last
  BY EmaTermsFade
<1>5. t \in Int /\ last \in Int
      /\ SumFunctionOnSet(EmaTerms(values, n + 1, p), (p + 1)..(n + 1)) = (p - 1) * t + last
  <2> DEFINE f == EmaTerms(values, n, p)
             g == EmaTerms(values, n + 1, p)
             a == p + 1
             c == p - 1
  <2>1. Fades(f, g, a, n, c) /\ g[n + 1] = last
    BY <1>4
  <2> HIDE DEF last
  <2>2. last \in Int
    BY <2>1 DEF Fades
  <2> HIDE DEF f, g, a, c
  <2>3. /\ SumFunctionOnSet(f, a..n) \in Int
        /\ SumFunctionOnSet(g, a..(n + 1)) = c * SumFunctionOnSet(f, a..n) + g[n + 1]
    BY <2>1, FadedSum
  <2>4. QED  BY <2>1, <2>2, <2>3 DEF f, g, a, c
<1>6. /\ EmaWeights(values, n, p) = s * w + t
      /\ EmaWeights(values, n + 1, p) = s * ((p - 1) * w) + ((p - 1) * t + last)
  BY <1>3, <1>5 DEF EmaWeights
<1> HIDE DEF s, t, w, last
<1>7. s * ((p - 1) * w) = (p - 1) * (s * w) /\ s * w \in Int
  BY <1>1, <1>2, <1>3, Z3
<1>8. (p - 1) * (s * w) + (p - 1) * t = (p - 1) * (s * w + t)
  <2>1. \A x, y, z \in Int : x * y + x * z = x * (y + z)
    OBVIOUS
  <2>2. QED  BY <1>1, <1>5, <1>7, <2>1
<1>9. (p - 1) * (s * w) \in Int /\ (p - 1) * t \in Int
  BY <1>1, <1>5, <1>7
<1>10. EmaWeights(values, n + 1, p) = (p - 1) * (s * w + t) + last
  BY <1>5, <1>6, <1>7, <1>8, <1>9
<1>11. QED  BY <1>5, <1>6, <1>7, <1>10 DEF last

(* One bar: the sum of the two shares is the share of the sum.               *)
IsMean(N, d, W, P, p) == N * (p * P) = W * d

LEMMA MeanStep ==
  ASSUME NEW N \in Int, NEW d \in Int, NEW v \in Int, NEW p \in Int, NEW P \in Int, NEW W \in Int,
         IsMean(N, d, W, P, p)
  PROVE  IsMean(2 * v * d + (p - 1) * N, d * (p + 1), (p - 1) * W + 2 * p * v * P, (p + 1) * P, p)
<1> DEFINE Q == p * P
           r == p + 1
           q == p - 1
           V == 2 * v
<1>1. Q \in Int /\ r \in Int /\ q \in Int /\ V \in Int
  BY Z3
<1>2. p * (r * P) = r * Q /\ 2 * p * v * P = V * Q
  <2>1. p * (r * P) = r * (p * P)
    BY <1>1, Z3
  <2>2. 2 * p * v * P = (2 * v) * (p * P)
    BY Z3
  <2>3. QED  BY <2>1, <2>2
<1>3. N * Q = W * d
  BY DEF IsMean
<1> HIDE DEF Q, r, q, V
<1>4. (V * d + q * N) * (r * Q) = r * (V * d * Q + q * (N * Q))
  BY <1>1, Z3
<1>5. r * (V * d * Q + q * (W * d)) = (q * W + V * Q) * (d * r)
  BY <1>1, Z3
<1>6. (V * d + q * N) * (r * Q) = (q * W + V * Q) * (d * r)
  BY <1>3, <1>4, <1>5
<1>7. (V * d + q * N) * (p * (r * P)) = (q * W + 2 * p * v * P) * (d * r)
  BY <1>2, <1>6
<1>8. QED  BY <1>7 DEF IsMean, r, q, V

LEMMA EmaIsMean ==
  ASSUME NEW values \in Seq(Int), NEW p \in 1..Len(values)
  PROVE  \A n \in p..Len(values) :
           EMA(values, p)[n].num * (p * Power(p + 1, n - p))
             = EmaWeights(values, n, p) * EMA(values, p)[n].den
<1> DEFINE ema == EMA(values, p)
           Holds(n) == ema[n].num * (p * Power(p + 1, n - p)) = EmaWeights(values, n, p) * ema[n].den
           Bad == {n \in p..Len(values) : ~Holds(n)}
<1>1. p \in Nat /\ p \in Int /\ p - 1 \in Int /\ p + 1 \in Int /\ Len(values) \in Nat /\ p \in p..Len(values)
      /\ p - p = 0 /\ (p + 1)..p = {} /\ 0 \in Nat
  OBVIOUS
<1>2. Holds(p)
  <2> DEFINE s == WindowSum(values, p, p)
  <2>1. ema[p] = Fraction(s, p) /\ s \in Int
    BY EmaRuns, EmaSeedIs
  <2>2. Power(p - 1, 0) = 1 /\ Power(p + 1, 0) = 1
    BY <1>1, PowerStep
  <2>3. SumFunctionOnSet(EmaTerms(values, p, p), (p + 1)..p) = 0
    BY <1>1, SumEmpty
  <2>4. EmaWeights(values, p, p) = s * 1 + 0
    BY <1>1, <2>2, <2>3 DEF EmaWeights
  <2>5. ema[p].num = s /\ ema[p].den = p
    BY <2>1 DEF Fraction
  <2> HIDE DEF ema, s
  <2>6. s * (p * 1) = (s * 1 + 0) * p
    BY <1>1, <2>1
  <2>7. QED  BY <1>1, <2>2, <2>4, <2>5, <2>6
<1>3. ASSUME NEW n \in p..(Len(values) - 1), Holds(n) PROVE Holds(n + 1)
  <2> DEFINE N == ema[n].num
             d == ema[n].den
             v == values[n + 1]
             P == Power(p + 1, n - p)
             W == EmaWeights(values, n, p)
  <2>1. /\ n + 1 \in (p + 1)..Len(values) /\ n \in p..Len(values) /\ (n + 1) - 1 = n
        /\ n + 1 \in 1..Len(values)
        /\ n - p \in Int /\ n - p >= 0 /\ n + 1 - p = (n - p) + 1 /\ n + 1 - p \in Int
    BY <1>1
  <2>2. ema[n + 1] = EmaStep(ema[n], v, p) /\ ema[n] \in Fractions
    BY <2>1, EmaRuns
  <2>3. N \in Int /\ d \in Int /\ v \in Int
    <3>1. v \in Int
      BY <2>1
    <3>2. \A f \in Fractions : f.num \in Int /\ f.den \in Int
      BY DEF Fractions
    <3> HIDE DEF v, ema
    <3>3. QED  BY <2>2, <3>1, <3>2
  <2>4. ema[n + 1].num = 2 * v * d + (p - 1) * N /\ ema[n + 1].den = d * (p + 1)
    BY <2>2 DEF EmaStep, Fraction
  <2>5. /\ W \in Int
        /\ EmaWeights(values, n + 1, p) = (p - 1) * W + 2 * p * v * P
    BY EmaWeightsNext
  <2>6. Power(p + 1, n + 1 - p) = (p + 1) * P
    BY <1>1, <2>1, PowerNext
  <2>7. P \in Int
    <3>1. PICK m \in Nat : m = n - p
      BY <2>1
    <3>2. Power(p + 1, m) \in Int
      BY <1>1, PowerInt
    <3>3. QED  BY <3>1, <3>2
  <2>8. IsMean(N, d, W, P, p)
    BY <1>3 DEF IsMean
  <2> HIDE DEF N, d, v, P, W, ema
  <2>9. IsMean(2 * v * d + (p - 1) * N, d * (p + 1), (p - 1) * W + 2 * p * v * P, (p + 1) * P, p)
    BY <1>1, <2>3, <2>5, <2>7, <2>8, MeanStep
  <2>10. ema[n + 1].num * (p * Power(p + 1, n + 1 - p))
           = EmaWeights(values, n + 1, p) * ema[n + 1].den
    BY <2>4, <2>5, <2>6, <2>9, Zenon DEF IsMean
  <2>11. QED  BY <2>10
<1> HIDE DEF Holds
<1>4. ASSUME Bad # {} PROVE FALSE
  <2>1. PICK n \in Bad : \A m \in Bad : n <= m
    <3>1. Bad \subseteq Nat
      BY <1>1
    <3> HIDE DEF Bad
    <3>2. QED  BY <1>4, <3>1, SmallestNumber
  <2>2. n \in p..Len(values) /\ ~Holds(n)
    BY <2>1
  <2>3. n # p
    BY <1>2, <2>2
  <2>4. n - 1 \in p..(Len(values) - 1) /\ n - 1 \in p..Len(values) /\ ~(n <= n - 1) /\ (n - 1) + 1 = n
    BY <1>1, <2>2, <2>3
  <2>5. PICK m \in p..(Len(values) - 1) : m = n - 1
    BY <2>4
  <2>6. Holds(m)
    BY <2>1, <2>4, <2>5
  <2>7. Holds(m + 1)
    BY <1>3, <2>6
  <2>8. QED  BY <2>2, <2>4, <2>5, <2>7
<1>5. \A n \in p..Len(values) : Holds(n)
  BY <1>4
<1>6. QED  BY <1>5 DEF Holds

(* The report's exponential mean, computed one bar from the last, is the     *)
(* weighted mean of its definition: for closes of any number and period.     *)
THEOREM EmaIsItsDefinition == Spec => []EmaIsWeightedMean
<1>1. ASSUME TypeOK PROVE EmaIsWeightedMean
  <2>1. SUFFICES ASSUME EmaPeriod > 0, Len(cs) >= EmaPeriod
                 PROVE  LET p == EmaPeriod
                            n == Len(cs)
                            ema == Compute(cs)[n].ema
                        IN  ema.num * (p * Power(p + 1, n - p)) = EmaWeights(cs, n, p) * ema.den
    BY DEF EmaIsWeightedMean
  <2>2. cs \in Seq(Int) /\ Len(cs) \in Nat
    BY <1>1, ClosesAreInts
  <2>3. EmaPeriod \in 1..Len(cs) /\ Len(cs) \in EmaPeriod..Len(cs) /\ Len(cs) \in 1..Len(cs)
    BY <2>1, <2>2, ReportAssumption
  <2>4. Compute(cs)[Len(cs)].ema = EMA(cs, EmaPeriod)[Len(cs)]
    BY <2>3 DEF Compute
  <2>5. QED  BY <2>2, <2>3, <2>4, EmaIsMean
<1>2. QED  BY <1>1, BacktestTyped, PTL
-----------------------------------------------------------------------------
(* Wilder's averages.                                                        *)

Averages == [warm : {TRUE}, num : Nat, den : Nat \ {0}]

SmoothStep(avg, change, i, p) ==
  IF i <= p + 1 THEN [avg EXCEPT !.num = @ + change]
  ELSE Fraction(avg.num * (p - 1) + change * avg.den, avg.den * p)

SmoothRun(f, change, p) ==
  f = [i \in {1} \cup DOMAIN change |->
         IF i = 1 THEN Fraction(0, p) ELSE SmoothStep(f[i - 1], change[i], i, p)]

LEMMA SmoothedIs ==
  ASSUME NEW change, NEW p PROVE Smoothed(change, p) = CHOOSE f : SmoothRun(f, change, p)
BY DEF Smoothed, SmoothRun, SmoothStep

LEMMA SmoothStepType ==
  ASSUME NEW avg \in Averages, NEW c \in Nat, NEW i \in Int, NEW p \in Nat \ {0}
  PROVE  SmoothStep(avg, c, i, p) \in Averages
<1>1. avg.num \in Nat /\ avg.den \in Nat \ {0} /\ p - 1 \in Nat
  BY DEF Averages
<1>2. CASE i <= p + 1
  <2>1. [avg EXCEPT !.num = @ + c] \in Averages
    <3>1. PICK sum \in Nat : sum = avg.num + c
      BY <1>1
    <3>2. [avg EXCEPT !.num = sum] \in Averages
      BY DEF Averages
    <3>3. QED  BY <3>1, <3>2
  <2>2. QED  BY <1>2, <2>1 DEF SmoothStep
<1>3. CASE ~(i <= p + 1)
  <2>1. avg.den * p \in Nat \ {0}
    BY <1>1, ProductTypes
  <2>2. \A x, y \in Nat : x * y \in Nat
    OBVIOUS
  <2>3. avg.num * (p - 1) \in Nat /\ c * avg.den \in Nat
    BY <1>1, <2>2
  <2>4. Fraction(avg.num * (p - 1) + c * avg.den, avg.den * p) \in Averages
    BY <2>1, <2>3 DEF Fraction, Averages
  <2>5. QED  BY <1>3, <2>4 DEF SmoothStep
<1>4. QED  BY <1>2, <1>3

LEMMA SmoothedRuns ==
  ASSUME NEW n \in Nat, n >= 2, NEW change \in [2..n -> Nat], NEW p \in Nat \ {0}
  PROVE  /\ Smoothed(change, p) \in [1..n -> Averages]
         /\ Smoothed(change, p)[1] = Fraction(0, p)
         /\ \A i \in 2..n :
              Smoothed(change, p)[i] = SmoothStep(Smoothed(change, p)[i - 1], change[i], i, p)
<1> DEFINE base == Fraction(0, p)
           c(i) == IF i = 1 THEN 0 ELSE change[i]
           step == [i \in 1..n |-> [x \in Averages |-> SmoothStep(x, c(i), i, p)]]
<1>1. /\ n \in Int /\ 1 \in Int /\ {1} \cup 2..n = 1..n /\ DOMAIN change = 2..n
      /\ \A i \in 1..n : i # 1 => i \in 2..n /\ i - 1 \in 1..n
      /\ \A i \in 2..n : i \in 1..n /\ i # 1 /\ i - 1 \in 1..n
  OBVIOUS
<1>2. base \in Averages
  BY DEF Fraction, Averages
<1>3. \A i \in 1..n : c(i) \in Nat /\ i \in Int
  BY <1>1
<1>4. step \in [1..n -> [Averages -> Averages]]
  <2> HIDE DEF c
  <2>1. QED  BY <1>3, SmoothStepType
<1>5. \A i \in 1..n, x \in Averages : step[i][x] = SmoothStep(x, c(i), i, p)
  OBVIOUS
<1> HIDE DEF step, base
<1>6. 1 \in Int /\ n \in Int
  OBVIOUS
<1>7. PICK f \in [1..n -> Averages] : Solves(f, 1, n, base, step)
  BY <1>2, <1>4, <1>6, RecursionExists
<1>8. ASSUME NEW i \in 1..n
      PROVE  f[i] = IF i = 1 THEN base ELSE SmoothStep(f[i - 1], change[i], i, p)
  <2>1. CASE i = 1
    BY <1>7, <2>1 DEF Solves
  <2>2. CASE i # 1
    <3>1. i - 1 \in 1..n /\ f[i - 1] \in Averages /\ c(i) = change[i]
      BY <1>1, <2>2
    <3>2. f[i] = step[i][f[i - 1]]
      BY <1>7, <2>2 DEF Solves
    <3>3. QED  BY <1>5, <2>2, <3>1, <3>2
  <2>3. QED  BY <2>1, <2>2
<1>9. SmoothRun(f, change, p)
  <2>1. f = [i \in 1..n |-> f[i]]
    BY <1>7
  <2>2. QED  BY <1>1, <1>8, <2>1 DEF SmoothRun, base
<1> DEFINE g == Smoothed(change, p)
<1>10. SmoothRun(g, change, p)
  BY <1>9, SmoothedIs
<1> HIDE DEF g
<1>11. g = [i \in 1..n |-> IF i = 1 THEN base ELSE SmoothStep(g[i - 1], change[i], i, p)]
  BY <1>1, <1>10 DEF SmoothRun, base
<1>12. \A i \in 1..n : g[i] = IF i = 1 THEN base ELSE SmoothStep(g[i - 1], change[i], i, p)
  BY <1>11
<1>13. \A i \in 1..n : g[i] = f[i]
  <2>1. SameSteps(g, f, 1, n)
    <3>1. 1 \in 1..n
      OBVIOUS
    <3>2. ASSUME NEW i \in (1 + 1)..n, g[i - 1] = f[i - 1] PROVE g[i] = f[i]
      <4>1. i \in 1..n /\ i # 1
        OBVIOUS
      <4>2. QED  BY <1>8, <1>12, <3>2, <4>1
    <3>3. QED  BY <1>8, <1>12, <3>1, <3>2 DEF SameSteps
  <2>2. QED  BY <1>6, <2>1, RecursionsAgree
<1>14. g \in [1..n -> Averages]
  BY <1>7, <1>11, <1>13
<1>15. g[1] = base
  <2>1. 1 \in 1..n
    OBVIOUS
  <2>2. QED  BY <1>12, <2>1
<1>16. \A i \in 2..n : g[i] = SmoothStep(g[i - 1], change[i], i, p)
  BY <1>1, <1>12
<1>17. QED  BY <1>14, <1>15, <1>16 DEF g, base

LEMMA ChangesFinite ==
  ASSUME NEW n \in Nat, NEW change \in [2..n -> Nat], NEW a \in Int, NEW b \in Int, a >= 2, b <= n
  PROVE  IsFiniteSet(a..b) /\ \A i \in a..b : change[i] \in Int
<1>1. IsFiniteSet(a..b)
  BY FS_Interval
<1>2. ASSUME NEW i \in a..b PROVE change[i] \in Int
  <2>1. i \in 2..n
    OBVIOUS
  <2>2. QED  BY <2>1
<1>3. QED  BY <1>1, <1>2

(* While it warms up the average is that of the changes so far.              *)
LEMMA SmoothedStart ==
  ASSUME NEW n \in Nat, n >= 2, NEW change \in [2..n -> Nat], NEW p \in Nat \ {0}, n > p
  PROVE  /\ Smoothed(change, p)[p + 1].num = SumFunctionOnSet(change, 2..(p + 1))
         /\ Smoothed(change, p)[p + 1].den = p
<1> DEFINE s == Smoothed(change, p)
           f == [i \in 1..n |-> <<s[i].num, s[i].den>>]
           c == [i \in 1..n |-> <<SumFunctionOnSet(change, 2..i), p>>]
<1>1. /\ s \in [1..n -> Averages] /\ s[1] = Fraction(0, p)
      /\ \A i \in 2..n : s[i] = SmoothStep(s[i - 1], change[i], i, p)
  BY SmoothedRuns
<1> HIDE DEF s
<1>2. c[1] = f[1]
  <2>1. 2..1 = {} /\ 1 \in 1..n
    OBVIOUS
  <2>2. s[1].num = 0 /\ s[1].den = p
    BY <1>1 DEF Fraction
  <2>3. QED  BY <2>1, <2>2, SumEmpty
<1>3. ASSUME NEW i \in (1 + 1)..(p + 1), c[i - 1] = f[i - 1] PROVE c[i] = f[i]
  <2>1. /\ i \in 2..n /\ i <= p + 1 /\ i - 1 \in 1..n /\ i \in 1..n
        /\ i \in Int /\ i - 1 \in Int /\ i - 1 <= n /\ 2 \in Int /\ i <= n
    OBVIOUS
  <2> DEFINE S == 2..(i - 1)
             t == SumFunctionOnSet(change, S)
  <2>2. IsFiniteSet(S) /\ 2..i = S \cup {i} /\ i \notin S
    <3>1. IsFiniteSet(S)
      BY <2>1, FS_Interval
    <3>2. QED  BY <2>1, <3>1
  <2>3. \A j \in 2..i : change[j] \in Int
    <3>1. \A j \in 2..i : j \in 2..n
      BY <2>1
    <3>2. QED  BY <3>1
  <2>4. \A j \in S \cup {i} : change[j] \in Int
    BY <2>2, <2>3
  <2> HIDE DEF S
  <2>5. SumFunctionOnSet(change, S \cup {i}) = t + change[i]
    BY <2>2, <2>4, SumAdd
  <2>6. c[i - 1] = <<t, p>> /\ c[i] = <<t + change[i], p>>
    BY <2>1, <2>2, <2>5 DEF S
  <2>7. s[i] = [s[i - 1] EXCEPT !.num = @ + change[i]]
    BY <1>1, <2>1 DEF SmoothStep
  <2>8. s[i - 1].num = t /\ s[i - 1].den = p
    BY <1>3, <2>1, <2>6
  <2>9. s[i].num = t + change[i] /\ s[i].den = p
    <3>1. s[i - 1] \in Averages
      BY <1>1, <2>1
    <3>2. \A r \in Averages : \A x : /\ [r EXCEPT !.num = r.num + x].num = r.num + x
                                     /\ [r EXCEPT !.num = r.num + x].den = r.den
      BY DEF Averages
    <3>3. QED  BY <2>7, <2>8, <3>1, <3>2
  <2>10. QED  BY <2>1, <2>6, <2>9
<1> HIDE DEF c, f
<1>4. \A i \in 1..(p + 1) : c[i] = f[i]
  <2>1. p + 1 \in Int /\ 1 \in Int
    OBVIOUS
  <2>2. SameSteps(c, f, 1, p + 1)
    BY <1>2, <1>3 DEF SameSteps
  <2>3. QED  BY <2>1, <2>2, RecursionsAgree
<1>5. p + 1 \in 1..(p + 1) /\ p + 1 \in 1..n
  OBVIOUS
<1>6. QED  BY <1>4, <1>5 DEF s, c, f

LEMMA WilderTermsFade ==
  ASSUME NEW n \in Nat, NEW change \in [2..n -> Nat], NEW p \in Nat \ {0}, NEW m \in (p + 1)..(n - 1)
  PROVE  /\ Fades(WilderTerms(change, m, p), WilderTerms(change, m + 1, p), p + 2, m, p - 1)
         /\ WilderTerms(change, m + 1, p)[m + 1] = change[m + 1] * Power(p, m - p)
<1> DEFINE f == WilderTerms(change, m, p)
           g == WilderTerms(change, m + 1, p)
<1>1. /\ p \in Int /\ m \in Int /\ p - 1 \in Int /\ p > 0 /\ p + 1 <= m /\ p + 2 \in Int
      /\ m + 1 \in 2..n /\ m - p \in Nat /\ m + 1 \in (p + 2)..(m + 1)
  OBVIOUS
<1>2. ASSUME NEW i \in (p + 2)..m PROVE f[i] \in Int /\ g[i] = (p - 1) * f[i]
  <2>1. /\ i \in 2..n /\ m - i \in Nat /\ i - p - 1 \in Nat /\ i \in (p + 2)..(m + 1)
        /\ m + 1 - i = (m - i) + 1 /\ m + 1 - i \in Int /\ m - i \in Int
    BY <1>1
  <2> DEFINE a == change[i]
             c == Power(p - 1, m - i)
             d == Power(p, i - p - 1)
  <2>2. a \in Int
    BY <2>1
  <2>3. c \in Int /\ d \in Int
    BY <1>1, <2>1, PowerInt
  <2>4. f[i] = a * (c * d) /\ g[i] = a * (Power(p - 1, m + 1 - i) * d)
    BY <2>1 DEF WilderTerms
  <2>5. Power(p - 1, m + 1 - i) = (p - 1) * c
    BY <1>1, <2>1, PowerNext
  <2> HIDE DEF a, c, d
  <2>6. a * (((p - 1) * c) * d) = (p - 1) * (a * (c * d))
    BY <1>1, <2>2, <2>3, Factors
  <2>7. c * d \in Int /\ a * (c * d) \in Int
    <3>1. \A x, y \in Int : x * y \in Int
      OBVIOUS
    <3>2. QED  BY <2>2, <2>3, <3>1
  <2>8. QED  BY <2>4, <2>5, <2>6, <2>7
<1>3. /\ g[m + 1] = change[m + 1] * Power(p, m - p)
      /\ g[m + 1] \in Int
  <2>1. g[m + 1] = change[m + 1] * (Power(p - 1, m + 1 - (m + 1)) * Power(p, m + 1 - p - 1))
    BY <1>1 DEF WilderTerms
  <2>2. m + 1 - (m + 1) = 0 /\ m + 1 - p - 1 = m - p /\ 0 \in Nat
    BY <1>1
  <2>3. Power(p - 1, 0) = 1
    BY <1>1, <2>2, PowerStep
  <2>4. Power(p, m - p) \in Int
    <3>1. PICK k \in Nat : k = m - p
      BY <1>1
    <3>2. Power(p, k) \in Int
      BY <1>1, PowerInt
    <3>3. QED  BY <3>1, <3>2
  <2>5. change[m + 1] \in Int
    BY <1>1
  <2>6. \A x, y \in Int : 1 * x = x /\ x * y \in Int
    OBVIOUS
  <2>7. QED  BY <2>1, <2>2, <2>3, <2>4, <2>5, <2>6
<1> HIDE DEF f, g
<1>4. Fades(f, g, p + 2, m, p - 1)
  BY <1>1, <1>2, <1>3 DEF Fades
<1>5. QED  BY <1>3, <1>4 DEF f, g

LEMMA WilderSumNext ==
  ASSUME NEW n \in Nat, NEW change \in [2..n -> Nat], NEW p \in Nat \ {0}, NEW m \in (p + 1)..(n - 1)
  PROVE  /\ WilderSum(change, m, p) \in Int
         /\ WilderSum(change, m + 1, p) =
              (p - 1) * WilderSum(change, m, p) + change[m + 1] * Power(p, m - p)
<1> DEFINE s == SumFunctionOnSet(change, 2..(p + 1))
           f == WilderTerms(change, m, p)
           g == WilderTerms(change, m + 1, p)
           a == p + 2
           c == p - 1
           t == SumFunctionOnSet(f, a..m)
           w == Power(p - 1, m - p - 1)
           last == change[m + 1] * Power(p, m - p)
<1>1. /\ c \in Int /\ m - p - 1 \in Nat /\ m - p - 1 \in Int /\ m - p - 1 >= 0
      /\ m + 1 - p - 1 = (m - p - 1) + 1 /\ m + 1 - p - 1 \in Int
      /\ p + 1 \in Int /\ p + 1 <= n /\ 2 \in Int
  OBVIOUS
<1>2. s \in Int
  <2>1. IsFiniteSet(2..(p + 1)) /\ \A i \in 2..(p + 1) : change[i] \in Int
    BY <1>1, ChangesFinite
  <2>2. QED  BY <2>1, SumInt
<1>3. w \in Int /\ Power(p - 1, m + 1 - p - 1) = (p - 1) * w
  BY <1>1, PowerInt, PowerNext
<1>4. Fades(f, g, a, m, c) /\ g[m + 1] = last
  BY WilderTermsFade
<1>5. /\ WilderSum(change, m, p) = s * w + t
      /\ WilderSum(change, m + 1, p) = s * (c * w) + SumFunctionOnSet(g, a..(m + 1))
  BY <1>3 DEF WilderSum
<1> HIDE DEF s, f, g, w, last, a
<1>6. last \in Int
  BY <1>4 DEF Fades
<1> HIDE DEF c
<1>7. t \in Int /\ SumFunctionOnSet(g, a..(m + 1)) = c * t + last
  BY <1>4, FadedSum
<1> HIDE DEF t
<1>8. s * (c * w) = c * (s * w) /\ s * w \in Int
  BY <1>1, <1>2, <1>3, Z3
<1>9. c * (s * w) + c * t = c * (s * w + t)
  <2>1. \A x, y, z \in Int : x * y + x * z = x * (y + z)
    OBVIOUS
  <2>2. QED  BY <1>1, <1>7, <1>8, <2>1
<1>10. c * (s * w) \in Int /\ c * t \in Int
  BY <1>1, <1>7, <1>8
<1>11. WilderSum(change, m + 1, p) = c * (s * w + t) + last
  BY <1>5, <1>6, <1>7, <1>8, <1>9, <1>10
<1>12. QED  BY <1>5, <1>7, <1>8, <1>11 DEF last, c

IsAverage(N, d, W, P) == N * P = W * d

LEMMA AverageStep ==
  ASSUME NEW N \in Int, NEW d \in Int, NEW c \in Int, NEW p \in Int, NEW P \in Int, NEW W \in Int,
         IsAverage(N, d, W, P)
  PROVE  IsAverage(N * (p - 1) + c * d, d * p, (p - 1) * W + c * P, p * P)
<1> DEFINE q == p - 1
<1>1. q \in Int /\ N * P = W * d
  BY DEF IsAverage
<1> HIDE DEF q
<1>2. (N * q + c * d) * (p * P) = p * (q * (N * P) + c * d * P)
  BY <1>1, Z3
<1>3. p * (q * (W * d) + c * d * P) = (q * W + c * P) * (d * p)
  BY <1>1, Z3
<1>4. (N * q + c * d) * (p * P) = (q * W + c * P) * (d * p)
  BY <1>1, <1>2, <1>3
<1>5. QED  BY <1>4 DEF IsAverage, q

LEMMA SmoothedIsWilder ==
  ASSUME NEW n \in Nat, n >= 2, NEW change \in [2..n -> Nat], NEW p \in Nat \ {0}, n > p
  PROVE  \A m \in (p + 1)..n :
           Smoothed(change, p)[m].num * Power(p, m - p)
             = WilderSum(change, m, p) * Smoothed(change, p)[m].den
<1> DEFINE s == Smoothed(change, p)
           Holds(m) == s[m].num * Power(p, m - p) = WilderSum(change, m, p) * s[m].den
           Bad == {m \in (p + 1)..n : ~Holds(m)}
<1>1. /\ p \in Int /\ p - 1 \in Int /\ p + 1 \in Int /\ p + 1 \in (p + 1)..n
      /\ (p + 2)..(p + 1) = {} /\ 0 \in Nat
      /\ p + 1 - p = 0 + 1 /\ p + 1 - p - 1 = 0
  OBVIOUS
<1>2. /\ s \in [1..n -> Averages]
      /\ \A i \in 2..n : s[i] = SmoothStep(s[i - 1], change[i], i, p)
  BY SmoothedRuns
<1>3. Holds(p + 1)
  <2> DEFINE t == SumFunctionOnSet(change, 2..(p + 1))
  <2>1. s[p + 1].num = t /\ s[p + 1].den = p
    BY SmoothedStart
  <2>2. Power(p, 0 + 1) = p * 1
    <3>1. Power(p, 0) = 1 /\ Power(p, 0 + 1) = p * Power(p, 0)
      BY <1>1, PowerStep
    <3>2. QED  BY <3>1
  <2>3. Power(p - 1, 0) = 1
    BY <1>1, PowerStep
  <2>4. t \in Int
    <3>1. 2 \in Int /\ p + 1 \in Int /\ p + 1 <= n
      OBVIOUS
    <3>2. IsFiniteSet(2..(p + 1)) /\ \A i \in 2..(p + 1) : change[i] \in Int
      BY <3>1, ChangesFinite
    <3>3. QED  BY <3>2, SumInt
  <2>5. WilderSum(change, p + 1, p) = t * 1 + 0
    BY <1>1, <2>3, SumEmpty DEF WilderSum
  <2> HIDE DEF s, t
  <2>6. t * (p * 1) = (t * 1 + 0) * p
    BY <1>1, <2>4
  <2>7. QED  BY <1>1, <2>1, <2>2, <2>5, <2>6
<1>4. ASSUME NEW m \in (p + 1)..(n - 1), Holds(m) PROVE Holds(m + 1)
  <2> DEFINE N == s[m].num
             d == s[m].den
             c == change[m + 1]
             P == Power(p, m - p)
             W == WilderSum(change, m, p)
  <2>1. /\ m + 1 \in 2..n /\ (m + 1) - 1 = m /\ m \in 1..n /\ ~(m + 1 <= p + 1)
        /\ m - p \in Int /\ m - p >= 0 /\ m + 1 - p = (m - p) + 1 /\ m + 1 - p \in Int
    BY <1>1
  <2>2. s[m] \in Averages /\ s[m + 1] = SmoothStep(s[m], c, m + 1, p)
    BY <1>2, <2>1
  <2>3. N \in Int /\ d \in Int /\ c \in Int
    <3>1. c \in Int
      BY <2>1
    <3>2. \A a \in Averages : a.num \in Int /\ a.den \in Int
      BY DEF Averages
    <3> HIDE DEF c, s
    <3>3. QED  BY <2>2, <3>1, <3>2
  <2>4. s[m + 1].num = N * (p - 1) + c * d /\ s[m + 1].den = d * p
    BY <2>1, <2>2 DEF SmoothStep, Fraction
  <2>5. W \in Int /\ WilderSum(change, m + 1, p) = (p - 1) * W + c * P
    BY WilderSumNext
  <2>6. Power(p, m + 1 - p) = p * P
    BY <1>1, <2>1, PowerNext
  <2>7. P \in Int
    <3>1. PICK k \in Nat : k = m - p
      BY <2>1
    <3>2. Power(p, k) \in Int
      BY <1>1, PowerInt
    <3>3. QED  BY <3>1, <3>2
  <2>8. IsAverage(N, d, W, P)
    BY <1>4 DEF IsAverage
  <2> HIDE DEF N, d, c, P, W, s
  <2>9. IsAverage(N * (p - 1) + c * d, d * p, (p - 1) * W + c * P, p * P)
    BY <1>1, <2>3, <2>5, <2>7, <2>8, AverageStep
  <2>10. s[m + 1].num * Power(p, m + 1 - p) = WilderSum(change, m + 1, p) * s[m + 1].den
    BY <2>4, <2>5, <2>6, <2>9, Zenon DEF IsAverage
  <2>11. QED  BY <2>10
<1> HIDE DEF Holds
<1>5. ASSUME Bad # {} PROVE FALSE
  <2>1. PICK m \in Bad : \A k \in Bad : m <= k
    <3>1. Bad \subseteq Nat
      BY <1>1
    <3> HIDE DEF Bad
    <3>2. QED  BY <1>5, <3>1, SmallestNumber
  <2>2. m \in (p + 1)..n /\ ~Holds(m)
    BY <2>1
  <2>3. m # p + 1
    BY <1>3, <2>2
  <2>4. m - 1 \in (p + 1)..(n - 1) /\ m - 1 \in (p + 1)..n /\ ~(m <= m - 1) /\ (m - 1) + 1 = m
    BY <1>1, <2>2, <2>3
  <2>5. PICK k \in (p + 1)..(n - 1) : k = m - 1
    BY <2>4
  <2>6. Holds(k)
    BY <2>1, <2>4, <2>5
  <2>7. Holds(k + 1)
    BY <1>4, <2>6
  <2>8. QED  BY <2>2, <2>4, <2>5, <2>7
<1>6. \A m \in (p + 1)..n : Holds(m)
  BY <1>5
<1>7. QED  BY <1>6 DEF Holds

(* Two averages over the same bars have the same denominator.                *)
LEMMA SmoothedDens ==
  ASSUME NEW n \in Nat, n >= 2, NEW x \in [2..n -> Nat], NEW y \in [2..n -> Nat],
         NEW p \in Nat \ {0}
  PROVE  \A i \in 1..n : Smoothed(x, p)[i].den = Smoothed(y, p)[i].den
<1> DEFINE s == Smoothed(x, p)
           t == Smoothed(y, p)
           f == [i \in 1..n |-> s[i].den]
           g == [i \in 1..n |-> t[i].den]
<1>1. /\ s \in [1..n -> Averages] /\ s[1] = Fraction(0, p)
      /\ \A i \in 2..n : s[i] = SmoothStep(s[i - 1], x[i], i, p)
  BY SmoothedRuns
<1>2. /\ t \in [1..n -> Averages] /\ t[1] = Fraction(0, p)
      /\ \A i \in 2..n : t[i] = SmoothStep(t[i - 1], y[i], i, p)
  BY SmoothedRuns
<1> HIDE DEF s, t
<1>3. ASSUME NEW a \in Averages, NEW c, NEW i \in 2..n
      PROVE  SmoothStep(a, c, i, p).den = IF i <= p + 1 THEN a.den ELSE a.den * p
  BY DEF SmoothStep, Averages, Fraction
<1>4. f[1] = g[1]
  <2>1. 1 \in 1..n
    OBVIOUS
  <2>2. QED  BY <1>1, <1>2, <2>1
<1>5. ASSUME NEW i \in (1 + 1)..n, f[i - 1] = g[i - 1] PROVE f[i] = g[i]
  <2>1. i \in 2..n /\ i \in 1..n /\ i - 1 \in 1..n
    OBVIOUS
  <2>2. s[i - 1] \in Averages /\ t[i - 1] \in Averages
    BY <1>1, <1>2, <2>1
  <2>3. s[i].den = (IF i <= p + 1 THEN s[i - 1].den ELSE s[i - 1].den * p)
    BY <1>1, <1>3, <2>1, <2>2
  <2>4. t[i].den = (IF i <= p + 1 THEN t[i - 1].den ELSE t[i - 1].den * p)
    BY <1>2, <1>3, <2>1, <2>2
  <2>5. s[i - 1].den = t[i - 1].den
    BY <1>5, <2>1
  <2>6. QED  BY <2>1, <2>3, <2>4, <2>5
<1> HIDE DEF f, g
<1>6. \A i \in 1..n : f[i] = g[i]
  <2>1. 1 \in Int /\ n \in Int
    OBVIOUS
  <2>2. SameSteps(f, g, 1, n)
    BY <1>4, <1>5 DEF SameSteps
  <2>3. QED  BY <2>1, <2>2, RecursionsAgree
<1>7. QED  BY <1>6 DEF f, g, s, t

(* The share of one number in two is that of what they are proportional to.  *)
LEMMA CancelFactor ==
  ASSUME NEW a \in Int, NEW b \in Int, NEW q \in Int, q > 0, a * q = b * q PROVE a = b
  BY Z3

LEMMA SameShare ==
  ASSUME NEW G \in Nat, NEW L \in Nat, NEW Q \in Nat \ {0}, NEW g \in Int, NEW l \in Int,
         NEW D \in Nat \ {0}, G * Q = g * D, L * Q = l * D
  PROVE  /\ L = 0 <=> l = 0
         /\ 100 * G * (g + l) = 100 * g * (G + L)
<1>1. L = 0 => l = 0
  <2>1. ASSUME L = 0 PROVE l * D = 0 * D
    BY <2>1
  <2>2. QED  BY <2>1, CancelFactor
<1>2. l = 0 => L = 0
  <2>1. ASSUME l = 0 PROVE L * Q = 0 * Q
    BY <2>1
  <2>2. QED  BY <2>1, CancelFactor
<1>3. G * l = g * L
  <2>1. (G * l) * Q = l * (G * Q) /\ (g * L) * Q = g * (L * Q)
    BY Z3
  <2>2. l * (g * D) = g * (l * D)
    BY Z3
  <2>3. G * l \in Int /\ g * L \in Int /\ Q \in Int /\ Q > 0
    BY Z3
  <2>4. (G * l) * Q = (g * L) * Q
    BY <2>1, <2>2
  <2>5. QED  BY <2>3, <2>4, CancelFactor
<1>4. 100 * G * (g + l) = 100 * g * (G + L)
  <2>1. 100 * G * (g + l) = 100 * (G * g) + 100 * (G * l)
    BY Z3
  <2>2. 100 * g * (G + L) = 100 * (G * g) + 100 * (g * L)
    BY Z3
  <2>3. QED  BY <1>3, <2>1, <2>2
<1>5. QED  BY <1>1, <1>2, <1>4

LEMMA WilderSumInt ==
  ASSUME NEW n \in Nat, NEW change \in [2..n -> Nat], NEW p \in Nat \ {0}, n > p
  PROVE  WilderSum(change, n, p) \in Int
<1> DEFINE s == SumFunctionOnSet(change, 2..(p + 1))
           f == WilderTerms(change, n, p)
           t == SumFunctionOnSet(f, (p + 2)..n)
           w == Power(p - 1, n - p - 1)
<1>1. /\ p \in Int /\ p - 1 \in Int /\ p + 1 \in Int /\ p + 1 <= n /\ 2 \in Int
      /\ n - p - 1 \in Nat /\ p + 2 \in Int /\ n \in Int
  OBVIOUS
<1>2. s \in Int
  <2>1. IsFiniteSet(2..(p + 1)) /\ \A i \in 2..(p + 1) : change[i] \in Int
    BY <1>1, ChangesFinite
  <2>2. QED  BY <2>1, SumInt
<1>3. w \in Int
  <2>1. PICK k \in Nat : k = n - p - 1
    BY <1>1
  <2>2. Power(p - 1, k) \in Int
    BY <1>1, PowerInt
  <2>3. QED  BY <2>1, <2>2
<1>4. t \in Int
  <2>1. IsFiniteSet((p + 2)..n)
    BY <1>1, FS_Interval
  <2>2. ASSUME NEW i \in (p + 2)..n PROVE f[i] \in Int
    <3>1. PICK j \in Nat, k \in Nat : j = n - i /\ k = i - p - 1
      BY <1>1
    <3>2. Power(p - 1, j) \in Int /\ Power(p, k) \in Int
      BY <1>1, PowerInt
    <3>3. change[i] \in Int
      <4>1. i \in 2..n
        BY <1>1
      <4>2. QED  BY <4>1
    <3>4. f[i] = change[i] * (Power(p - 1, j) * Power(p, k))
      BY <3>1 DEF WilderTerms
    <3>5. \A x, y \in Int : x * y \in Int
      OBVIOUS
    <3>6. QED  BY <3>2, <3>3, <3>4, <3>5
  <2> HIDE DEF f
  <2>3. QED  BY <2>1, <2>2, SumInt
<1>5. WilderSum(change, n, p) = s * w + t
  BY DEF WilderSum
<1> HIDE DEF s, t, w
<1>6. QED  BY <1>2, <1>3, <1>4, <1>5

(* The gains and the losses of a series, as functions of the position.       *)
Gains(values) == [i \in 2..Len(values) |-> GainAt(values, i)]
Losses(values) == [i \in 2..Len(values) |-> LossAt(values, i)]

LEMMA ChangesType ==
  ASSUME NEW values \in Seq(Int)
  PROVE  Gains(values) \in [2..Len(values) -> Nat] /\ Losses(values) \in [2..Len(values) -> Nat]
<1>1. ASSUME NEW i \in 2..Len(values) PROVE GainAt(values, i) \in Nat /\ LossAt(values, i) \in Nat
  <2>1. i \in 1..Len(values) /\ i - 1 \in 1..Len(values)
    OBVIOUS
  <2>2. Change(values, i) \in Int
    BY <2>1 DEF Change
  <2>3. QED  BY <2>2 DEF GainAt, LossAt
<1>2. QED  BY <1>1 DEF Gains, Losses

LEMMA RSIIs ==
  ASSUME NEW values \in Seq(Int), NEW p \in Nat, NEW i \in 1..Len(values)
  PROVE  RSI(values, p)[i] =
           IF p > 0 /\ i > p
           THEN rsiFrom(Smoothed(Gains(values), p)[i], Smoothed(Losses(values), p)[i]) ELSE NaN
BY DEF RSI, Gains, Losses

LEMMA RsiIsShare ==
  ASSUME NEW values \in Seq(Int), NEW p \in Nat \ {0}, Len(values) > p
  PROVE  LET n == Len(values)
             rsi == RSI(values, p)[n]
             gains == WilderSum(Gains(values), n, p)
             losses == WilderSum(Losses(values), n, p)
         IN  IF losses = 0 THEN rsi.num = 100 * rsi.den
             ELSE rsi.num * (gains + losses) = 100 * gains * rsi.den
<1> DEFINE n == Len(values)
           gain == Smoothed(Gains(values), p)[n]
           loss == Smoothed(Losses(values), p)[n]
           g == WilderSum(Gains(values), n, p)
           l == WilderSum(Losses(values), n, p)
           Q == Power(p, n - p)
           rsi == RSI(values, p)[n]
<1>1. n \in Nat /\ n >= 2 /\ n > p /\ p \in Nat /\ n \in 1..n /\ n \in (p + 1)..n
  OBVIOUS
<1>2. Gains(values) \in [2..n -> Nat] /\ Losses(values) \in [2..n -> Nat]
  BY ChangesType
<1>3. gain \in Averages /\ loss \in Averages
  <2>1. /\ Smoothed(Gains(values), p) \in [1..n -> Averages]
        /\ Smoothed(Losses(values), p) \in [1..n -> Averages]
    BY <1>1, <1>2, SmoothedRuns
  <2>2. QED  BY <1>1, <2>1
<1>4. /\ gain.num \in Nat /\ gain.den \in Nat \ {0}
      /\ loss.num \in Nat /\ loss.den \in Nat \ {0}
  <2> HIDE DEF gain, loss
  <2>1. QED  BY <1>3 DEF Averages
<1>5. gain.den = loss.den
  BY <1>1, <1>2, SmoothedDens
<1>6. gain.num * Q = g * gain.den /\ loss.num * Q = l * loss.den
  BY <1>1, <1>2, SmoothedIsWilder
<1>7. g \in Int /\ l \in Int
  BY <1>1, <1>2, WilderSumInt
<1>8. Q \in Nat \ {0}
  <2>1. PICK k \in Nat : k = n - p
    BY <1>1
  <2>2. Power(p, k) \in Nat \ {0}
    BY PowerPositive
  <2>3. QED  BY <2>1, <2>2
<1>9. rsi = rsiFrom(gain, loss)
  BY <1>1, RSIIs
<1> HIDE DEF n, gain, loss, g, l, Q, rsi
<1>10. /\ loss.num = 0 <=> l = 0
       /\ 100 * gain.num * (g + l) = 100 * g * (gain.num + loss.num)
  <2>1. PICK G \in Nat, L \in Nat, D \in Nat \ {0} : G = gain.num /\ L = loss.num /\ D = gain.den
    BY <1>4
  <2>2. G * Q = g * D /\ L * Q = l * D
    BY <1>5, <1>6, <2>1
  <2>3. (L = 0 <=> l = 0) /\ 100 * G * (g + l) = 100 * g * (G + L)
    BY <1>7, <1>8, <2>2, SameShare
  <2>4. QED  BY <2>1, <2>3
<1>11. CASE l = 0
  <2>1. rsi.num = 100 /\ rsi.den = 1
    BY <1>9, <1>10, <1>11 DEF rsiFrom, Fraction
  <2>2. rsi.num = 100 * rsi.den
    BY <2>1
  <2>3. QED  BY <1>11, <2>2 DEF n, l, rsi
<1>12. CASE l # 0
  <2>1. rsi.num = 100 * gain.num /\ rsi.den = gain.num + loss.num
    BY <1>9, <1>10, <1>12 DEF rsiFrom, Fraction
  <2>2. rsi.num * (g + l) = 100 * g * rsi.den
    BY <1>10, <2>1
  <2>3. QED  BY <1>12, <2>2 DEF n, l, g, rsi
<1>13. QED  BY <1>11, <1>12

(* The report's relative strength, smoothed one bar from the last, is the    *)
(* share of Wilder's average gain in both averages, and 100 without losses.  *)
THEOREM RsiIsItsDefinition == Spec => []RsiIsGainShare
<1>1. ASSUME TypeOK PROVE RsiIsGainShare
  <2> DEFINE p == RsiPeriod
             n == Len(cs)
  <2>1. CASE ~(p > 0 /\ n > p)
    BY <2>1 DEF RsiIsGainShare
  <2>2. CASE p > 0 /\ n > p
    <3>1. cs \in Seq(Int) /\ n \in Nat
      BY <1>1, ClosesAreInts
    <3>2. p \in Nat \ {0} /\ n \in 1..n
      BY <2>2, <3>1, ReportAssumption
    <3>3. Compute(cs)[n].rsi = RSI(cs, p)[n]
      BY <3>2 DEF Compute
    <3>4. LET rsi == RSI(cs, p)[n]
              gains == WilderSum(Gains(cs), n, p)
              losses == WilderSum(Losses(cs), n, p)
          IN  IF losses = 0 THEN rsi.num = 100 * rsi.den
              ELSE rsi.num * (gains + losses) = 100 * gains * rsi.den
      BY <2>2, <3>1, <3>2, RsiIsShare
    <3>5. QED  BY <3>3, <3>4, Zenon DEF RsiIsGainShare, Gains, Losses
  <2>3. QED  BY <2>1, <2>2
<1>2. QED  BY <1>1, BacktestTyped, PTL
-----------------------------------------------------------------------------
(* A longer series leaves the report of the shorter one alone.               *)

Extends(longer, values) ==
  /\ Len(values) <= Len(longer)
  /\ \A i \in 1..Len(values) : longer[i] = values[i]

LEMMA WindowSumExtends ==
  ASSUME NEW values \in Seq(Int), NEW longer \in Seq(Int), Extends(longer, values),
         NEW p \in Nat, NEW i \in p..Len(values)
  PROVE  WindowSum(longer, i, p) = WindowSum(values, i, p)
<1> DEFINE S == (i - p + 1)..i
<1>1. i - p + 1 \in Nat \ {0} /\ i \in 0..Len(values)
  OBVIOUS
<1>2. IsFiniteSet(S)
  BY <1>1, WindowFinite
<1>3. \A j \in S : longer[j] = values[j]
  <2>1. \A j \in S : j \in 1..Len(values)
    BY <1>1
  <2>2. QED  BY <2>1 DEF Extends
<1> HIDE DEF S
<1>4. SumFunctionOnSet(longer, S) = SumFunctionOnSet(values, S)
  BY <1>2, <1>3, SumSame
<1>5. QED  BY <1>4 DEF WindowSum, S

LEMMA SMAExtends ==
  ASSUME NEW values \in Seq(Int), NEW longer \in Seq(Int), Extends(longer, values),
         NEW p \in Nat, NEW i \in 1..Len(values)
  PROVE  SMA(longer, p)[i] = SMA(values, p)[i]
<1>1. i \in 1..Len(longer)
  BY DEF Extends
<1>2. p > 0 /\ i >= p => WindowSum(longer, i, p) = WindowSum(values, i, p)
  <2>1. i >= p => i \in p..Len(values)
    OBVIOUS
  <2>2. QED  BY <2>1, WindowSumExtends
<1>3. SMA(values, p)[i] =
        IF p > 0 /\ i >= p
        THEN [warm |-> TRUE, sum |-> WindowSum(values, i, p), period |-> p] ELSE NaN
  BY SMAIs
<1>4. SMA(longer, p)[i] =
        IF p > 0 /\ i >= p
        THEN [warm |-> TRUE, sum |-> WindowSum(longer, i, p), period |-> p] ELSE NaN
  BY <1>1, SMAIs
<1>5. CASE p > 0 /\ i >= p
  BY <1>2, <1>3, <1>4, <1>5
<1>6. CASE ~(p > 0 /\ i >= p)
  BY <1>3, <1>4, <1>6
<1>7. QED  BY <1>5, <1>6

LEMMA EMAExtends ==
  ASSUME NEW values \in Seq(Int), NEW longer \in Seq(Int), Extends(longer, values),
         NEW p \in Nat, NEW i \in 1..Len(values)
  PROVE  EMA(longer, p)[i] = EMA(values, p)[i]
<1> DEFINE n == Len(values)
           f == EMA(values, p)
           g == EMA(longer, p)
<1>1. /\ n \in Nat /\ Len(longer) \in Nat /\ n <= Len(longer) /\ i \in 1..Len(longer)
      /\ \A k \in 1..n : longer[k] = values[k]
  BY DEF Extends
<1>2. CASE ~(p > 0 /\ i >= p)
  <2>1. f[i] = NaN
    BY <1>2, EmaIs
  <2>2. g[i] = NaN
    BY <1>1, <1>2, EmaIs
  <2>3. QED  BY <2>1, <2>2
<1>3. CASE p > 0 /\ i >= p
  <2>1. p \in 1..n /\ p \in 1..Len(longer) /\ p \in p..n /\ i \in p..n /\ p \in Int /\ n \in Int
    BY <1>1, <1>3
  <2>2. f[p] = EmaSeed(values, p) /\ \A k \in (p + 1)..n : f[k] = EmaStep(f[k - 1], values[k], p)
    BY <2>1, EmaRuns
  <2>3. /\ g[p] = EmaSeed(longer, p)
        /\ \A k \in (p + 1)..Len(longer) : g[k] = EmaStep(g[k - 1], longer[k], p)
    BY <2>1, EmaRuns
  <2>4. EmaSeed(longer, p) = EmaSeed(values, p)
    <3>1. EmaSeed(longer, p) = Fraction(WindowSum(longer, p, p), p)
      BY <2>1, EmaSeedIs
    <3>2. EmaSeed(values, p) = Fraction(WindowSum(values, p, p), p)
      BY <2>1, EmaSeedIs
    <3>3. WindowSum(longer, p, p) = WindowSum(values, p, p)
      BY <2>1, WindowSumExtends
    <3>4. QED  BY <3>1, <3>2, <3>3
  <2> HIDE DEF f, g
  <2>5. ASSUME NEW k \in (p + 1)..n, g[k - 1] = f[k - 1] PROVE g[k] = f[k]
    <3>1. k \in 1..n /\ k \in (p + 1)..Len(longer)
      BY <1>1, <2>1
    <3>2. longer[k] = values[k]
      BY <1>1, <3>1
    <3>3. g[k] = EmaStep(g[k - 1], longer[k], p) /\ f[k] = EmaStep(f[k - 1], values[k], p)
      BY <2>2, <2>3, <3>1
    <3>4. QED  BY <2>5, <3>2, <3>3
  <2>6. SameSteps(g, f, p, n)
    BY <2>2, <2>3, <2>4, <2>5 DEF SameSteps
  <2>7. g[i] = f[i]
    BY <2>1, <2>6, RecursionsAgree
  <2>8. QED  BY <2>7 DEF f, g
<1>4. QED  BY <1>2, <1>3

Continues(more, change, m, n) ==
  /\ change \in [2..n -> Nat] /\ more \in [2..m -> Nat]
  /\ \A i \in 2..n : more[i] = change[i]

LEMMA SmoothedExtends ==
  ASSUME NEW n \in Nat, n >= 2, NEW m \in Nat, m >= n, NEW p \in Nat \ {0},
         NEW change, NEW more, Continues(more, change, m, n)
  PROVE  \A i \in 1..n : Smoothed(more, p)[i] = Smoothed(change, p)[i]
<1> DEFINE f == Smoothed(change, p)
           g == Smoothed(more, p)
<1>1. f[1] = Fraction(0, p) /\ \A i \in 2..n : f[i] = SmoothStep(f[i - 1], change[i], i, p)
  BY SmoothedRuns DEF Continues
<1>2. g[1] = Fraction(0, p) /\ \A i \in 2..m : g[i] = SmoothStep(g[i - 1], more[i], i, p)
  <2>1. m >= 2
    OBVIOUS
  <2>2. QED  BY <2>1, SmoothedRuns DEF Continues
<1> HIDE DEF f, g
<1>3. ASSUME NEW i \in (1 + 1)..n, g[i - 1] = f[i - 1] PROVE g[i] = f[i]
  <2>1. i \in 2..n /\ i \in 2..m /\ more[i] = change[i]
    BY DEF Continues
  <2>2. QED  BY <1>1, <1>2, <1>3, <2>1
<1>4. SameSteps(g, f, 1, n) /\ 1 \in Int /\ n \in Int
  BY <1>1, <1>2, <1>3 DEF SameSteps
<1>5. QED  BY <1>4, RecursionsAgree DEF f, g

LEMMA RSIExtends ==
  ASSUME NEW values \in Seq(Int), NEW longer \in Seq(Int), Extends(longer, values),
         NEW p \in Nat, NEW i \in 1..Len(values)
  PROVE  RSI(longer, p)[i] = RSI(values, p)[i]
<1>0. PICK n \in Nat, m \in Nat : n = Len(values) /\ m = Len(longer)
  OBVIOUS
<1>1. /\ m >= n /\ i \in 1..n /\ i \in 1..m
      /\ \A k \in 1..n : longer[k] = values[k]
  BY <1>0 DEF Extends
<1>2. CASE ~(p > 0 /\ i > p)
  <2>1. RSI(values, p)[i] = NaN
    BY <1>2, RSIIs
  <2>2. RSI(longer, p)[i] = NaN
    BY <1>0, <1>1, <1>2, RSIIs
  <2>3. QED  BY <2>1, <2>2
<1>3. CASE p > 0 /\ i > p
  <2>1. n >= 2 /\ p \in Nat \ {0}
    BY <1>1, <1>3
  <2>2. /\ Gains(values) \in [2..n -> Nat] /\ Losses(values) \in [2..n -> Nat]
        /\ Gains(longer) \in [2..m -> Nat] /\ Losses(longer) \in [2..m -> Nat]
    BY <1>0, ChangesType
  <2>3. ASSUME NEW k \in 2..n
        PROVE  Gains(longer)[k] = Gains(values)[k] /\ Losses(longer)[k] = Losses(values)[k]
    <3>1. k \in 2..m /\ k \in 1..n /\ k - 1 \in 1..n
      BY <1>1
    <3>2. Change(longer, k) = Change(values, k)
      BY <1>1, <3>1 DEF Change
    <3>3. QED  BY <1>0, <3>1, <3>2 DEF Gains, Losses, GainAt, LossAt
  <2>4. Smoothed(Gains(longer), p)[i] = Smoothed(Gains(values), p)[i]
    <3>1. Continues(Gains(longer), Gains(values), m, n)
      BY <2>2, <2>3 DEF Continues
    <3>2. QED  BY <1>1, <2>1, <3>1, SmoothedExtends
  <2>5. Smoothed(Losses(longer), p)[i] = Smoothed(Losses(values), p)[i]
    <3>1. Continues(Losses(longer), Losses(values), m, n)
      BY <2>2, <2>3 DEF Continues
    <3>2. QED  BY <1>1, <2>1, <3>1, SmoothedExtends
  <2>6. /\ RSI(values, p)[i] = rsiFrom(Smoothed(Gains(values), p)[i], Smoothed(Losses(values), p)[i])
        /\ RSI(longer, p)[i] = rsiFrom(Smoothed(Gains(longer), p)[i], Smoothed(Losses(longer), p)[i])
    BY <1>0, <1>1, <1>3, RSIIs
  <2>7. QED  BY <2>4, <2>5, <2>6
<1>4. QED  BY <1>2, <1>3

LEMMA ReportExtends ==
  ASSUME NEW values \in Seq(Int), NEW longer \in Seq(Int), Extends(longer, values)
  PROVE  Compute(values) = SubSeq(Compute(longer), 1, Len(values))
<1> DEFINE n == Len(values)
           Row(series, i) == [close |-> series[i], sma |-> SMA(series, SmaPeriod)[i],
                              ema |-> EMA(series, EmaPeriod)[i], rsi |-> RSI(series, RsiPeriod)[i]]
<1>1. /\ n \in Nat /\ Len(longer) \in Nat /\ n <= Len(longer)
      /\ \A i \in 1..n : i \in 1..Len(longer) /\ longer[i] = values[i]
      /\ SmaPeriod \in Nat /\ EmaPeriod \in Nat /\ RsiPeriod \in Nat
  BY ReportAssumption DEF Extends
<1>2. ASSUME NEW i \in 1..n PROVE Row(longer, i) = Row(values, i)
  <2>1. /\ SMA(longer, SmaPeriod)[i] = SMA(values, SmaPeriod)[i]
        /\ EMA(longer, EmaPeriod)[i] = EMA(values, EmaPeriod)[i]
        /\ RSI(longer, RsiPeriod)[i] = RSI(values, RsiPeriod)[i]
    BY <1>1, SMAExtends, EMAExtends, RSIExtends
  <2>2. QED  BY <1>1, <2>1
<1>3. /\ Compute(values) = [i \in 1..n |-> Row(values, i)]
      /\ Compute(longer) = [i \in 1..Len(longer) |-> Row(longer, i)]
  BY DEF Compute
<1> HIDE DEF Row
<1>4. SubSeq(Compute(longer), 1, n) = [i \in 1..n |-> Compute(longer)[i]]
  <2>1. \A s : SubSeq(s, 1, n) = [i \in 1..(1 + n - 1) |-> s[i + 1 - 1]]
    OBVIOUS
  <2>2. 1 + n - 1 = n /\ \A i \in 1..n : i + 1 - 1 = i
    BY <1>1
  <2>3. QED  BY <2>1, <2>2
<1>5. \A i \in 1..n : Compute(longer)[i] = Row(values, i)
  BY <1>1, <1>2, <1>3
<1>6. QED  BY <1>3, <1>4, <1>5

(* The report of `analyze` never looks ahead: for all closes and periods, a  *)
(* later bar changes no row that an earlier report had.                      *)
THEOREM ReportNeverLooksAhead == Spec => ReportIsCausal
<1> DEFINE Kept == Compute(cs) = SubSeq(Compute(cs'), 1, Len(cs))
<1>1. ASSUME TypeOK, TypeOK', [Next]_vars PROVE Kept
  <2>1. cs \in Seq(Prices) /\ cs' \in Seq(Prices) /\ Prices \subseteq Int
    BY <1>1, BacktestAssumption DEF TypeOK
  <2>2. cs \in Seq(Int) /\ cs' \in Seq(Int)
    BY <2>1, SeqMonotonic
  <2>3. cs' = cs \/ \E price \in Prices : cs' = Append(cs, price)
    BY <1>1 DEF Next, Bar, Liquidate, vars
  <2>4. Extends(cs', cs)
    <3>1. ASSUME NEW price \in Prices, cs' = Append(cs, price) PROVE Extends(cs', cs)
      <4>1. Len(cs) \in Nat /\ Len(cs') = Len(cs) + 1
        BY <2>1, <3>1
      <4>2. \A i \in 1..Len(cs) : cs'[i] = cs[i]
        BY <2>1, <3>1
      <4>3. QED  BY <4>1, <4>2 DEF Extends
    <3>2. CASE cs' = cs
      BY <2>1, <3>2 DEF Extends
    <3>3. QED  BY <2>3, <3>1, <3>2
  <2>5. QED  BY <2>2, <2>4, ReportExtends
<1>2. QED  BY <1>1, BacktestTyped, PTL DEF Spec, ReportIsCausal
=============================================================================
