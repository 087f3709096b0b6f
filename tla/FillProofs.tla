------------------------------ MODULE FillProofs ------------------------------
(* Lemmas about the operators of Fill, for every value of its constants.     *)
EXTENDS Fill, TLAPS

(* The arithmetic of Fill stays within the integers.                         *)

LEMMA WrapInt == ASSUME NEW x \in Int PROVE Wrap(x) \in Int
  BY FillAssumption DEF Wrap

LEMMA TruncDivInt == ASSUME NEW a \in Int, NEW b \in Int, b > 0 PROVE TruncDiv(a, b) \in Int
  BY DEF TruncDiv

LEMMA ValueOfInt == ASSUME NEW u \in Int, NEW p \in Int PROVE ValueOf(u, p) \in Int
  <1>1. u * p \in Int
    OBVIOUS
  <1>2. Wrap(u * p) \in Int
    BY <1>1, WrapInt
  <1>3. Scale \in Int /\ Scale > 0
    BY FillAssumption
  <1> QED
    BY <1>2, <1>3, TruncDivInt DEF ValueOf

LEMMA UnitsForInt ==
  ASSUME NEW v \in Int, NEW p \in Int, p > 0 PROVE UnitsFor(v, p) \in Int
  <1>1. v * Scale \in Int
    BY FillAssumption
  <1> QED
    BY <1>1, WrapInt, TruncDivInt DEF UnitsFor

LEMMA PaperFillType ==
  ASSUME NEW pos \in Position, NEW in, in.value \in Int, in.qty \in Int,
         in.price \in Int, in.price > 0
  PROVE  /\ simulatePaperFill(pos, in).pos \in Position
         /\ simulatePaperFill(pos, in).spent \in Int
  <1> DEFINE units == UnitsFor(in.value, in.price)
             cost  == ValueOf(in.qty, pos.avg)
             proceeds == ValueOf(in.qty, in.price)
  <1>1. pos.qty \in Int /\ pos.avg \in Int /\ pos.pnl \in Int
    BY DEF Position
  <1>2. units \in Int /\ cost \in Int /\ proceeds \in Int
    BY <1>1, UnitsForInt, ValueOfInt
  <1> HIDE DEF units, cost, proceeds
  <1>3. Wrap(pos.qty + units) \in Int /\ Wrap(pos.qty - in.qty) \in Int
    BY <1>1, <1>2, WrapInt
  <1>4. Wrap(proceeds - cost) \in Int
    BY <1>2, WrapInt
  <1>5. Wrap(pos.pnl + Wrap(proceeds - cost)) \in Int
    BY <1>1, <1>4, WrapInt
  <1> QED
    BY <1>1, <1>3, <1>5 DEF simulatePaperFill, Position, units, cost, proceeds

LEMMA LossOfInt ==
  ASSUME NEW before \in Position, NEW after \in Position PROVE LossOf(before, after) \in Int
  <1>1. after.pnl - before.pnl \in Int
    BY DEF Position
  <1> DEFINE change == Wrap(after.pnl - before.pnl)
  <1>2. change \in Int
    BY <1>1, WrapInt
  <1>3. LossOf(before, after) = IF change < 0 THEN Wrap(-change) ELSE 0
    BY DEF LossOf
  <1> HIDE DEF change
  <1>4. Wrap(-change) \in Int
    BY <1>2, WrapInt
  <1> QED
    BY <1>3, <1>4

LEMMA FillType ==
  ASSUME NEW pos \in Position, NEW side, NEW executed \in Int, NEW avgPrice \in Int
  PROVE  /\ computeFill(pos, side, executed, avgPrice).ok \in BOOLEAN
         /\ computeFill(pos, side, executed, avgPrice).pos \in Position
         /\ computeFill(pos, side, executed, avgPrice).loss \in Int
  <1> DEFINE held   == ValueOf(pos.qty, pos.avg)
             traded == ValueOf(executed, avgPrice)
             cost   == ValueOf(executed, pos.avg)
             total  == Wrap(held + traded)
             bought == Wrap(pos.qty + executed)
             sold   == Wrap(pos.qty - executed)
             realized == Wrap(traded - cost)
             overflow(newQty) ==
               \/ MulOverflows(executed, avgPrice)
               \/ side = "BUY" /\ MulOverflows(pos.qty, pos.avg)
               \/ side = "BUY" /\ newQty > 0 /\ total > MaxInt \div Scale
               \/ side = "SELL" /\ MulOverflows(executed, pos.avg)
  <1>1. pos.qty \in Int /\ pos.avg \in Int /\ pos.pnl \in Int
    BY DEF Position
  <1>2. held \in Int /\ traded \in Int /\ cost \in Int
    BY <1>1, ValueOfInt
  <1> HIDE DEF held, traded, cost
  <1>3. total \in Int /\ realized \in Int
    BY <1>2, WrapInt
  <1>4. bought \in Int /\ sold \in Int
    BY <1>1, WrapInt
  <1> HIDE DEF total, realized, bought, sold
  <1>5. Wrap(-realized) \in Int /\ Wrap(pos.pnl + realized) \in Int
    BY <1>1, <1>3, WrapInt
  <1>6. total * Scale \in Int
    BY <1>3, FillAssumption
  <1>7. Wrap(total * Scale) \in Int
    BY <1>6, WrapInt
  <1>8. BuyAvg(pos, total, bought) \in Int
    BY <1>1, <1>4, <1>7, TruncDivInt DEF BuyAvg
  <1>9. computeFill(pos, side, executed, avgPrice) =
          IF overflow(IF side = "BUY" THEN bought ELSE sold)
          THEN [ok |-> FALSE, pos |-> pos, loss |-> 0]
          ELSE IF side = "BUY"
          THEN [ok |-> TRUE, loss |-> 0,
                pos |-> [qty |-> IF side = "BUY" THEN bought ELSE sold,
                         avg |-> BuyAvg(pos, total, IF side = "BUY" THEN bought ELSE sold),
                         pnl |-> pos.pnl]]
          ELSE [ok |-> TRUE, loss |-> IF realized < 0 THEN Wrap(-realized) ELSE 0,
                pos |-> [qty |-> IF side = "BUY" THEN bought ELSE sold, avg |-> pos.avg,
                         pnl |-> Wrap(pos.pnl + realized)]]
    BY DEF computeFill, held, traded, cost, total, realized, bought, sold
  <1> HIDE DEF overflow
  <1>10. CASE overflow(IF side = "BUY" THEN bought ELSE sold)
    BY <1>9, <1>10
  <1>11. CASE ~overflow(IF side = "BUY" THEN bought ELSE sold) /\ side = "BUY"
    BY <1>1, <1>4, <1>8, <1>9, <1>11 DEF Position
  <1>12. CASE ~overflow(IF side = "BUY" THEN bought ELSE sold) /\ side # "BUY"
    BY <1>1, <1>4, <1>5, <1>9, <1>12 DEF Position
  <1> QED
    BY <1>10, <1>11, <1>12

-----------------------------------------------------------------------------
(* What the overflow tests of computeFill buy.                               *)

LEMMA WrapsNothing == ASSUME NEW x \in 0..MaxInt PROVE Wrap(x) = x
  BY FillAssumption DEF Wrap

LEMMA DivBelow == ASSUME NEW a \in Nat, NEW b \in Nat, b > 0
                  PROVE  a \div b \in Nat /\ (a \div b) * b <= a
  OBVIOUS

LEMMA ProductGrows == ASSUME NEW a \in Nat, NEW b \in Nat, NEW c \in Nat, a <= c
                      PROVE  a * b <= c * b
  OBVIOUS

(* A product that passed the test fits in an int64.                          *)
LEMMA TestedProductFits ==
  ASSUME NEW a \in Nat, NEW b \in Nat, ~MulOverflows(a, b)
  PROVE  a * b \in 0..MaxInt
  <1>1. CASE b = 0
    BY <1>1, FillAssumption
  <1>2. CASE b > 0
    <2> DEFINE most == MaxInt \div b
    <2>1. most \in Nat /\ most * b <= MaxInt
      BY <1>2, DivBelow, FillAssumption
    <2>2. a <= most
      BY <1>2, <2>1 DEF MulOverflows
    <2> HIDE DEF most
    <2>3. a * b <= most * b
      BY <2>1, <2>2, ProductGrows
    <2>4. a * b \in Nat /\ most * b \in Int
      BY <2>1
    <2> QED
      BY <2>1, <2>3, <2>4, FillAssumption
  <1> QED
    BY <1>1, <1>2

LEMMA ValueOfExact ==
  ASSUME NEW a \in Nat, NEW b \in Nat, a * b \in 0..MaxInt
  PROVE  ValueOf(a, b) \in Nat /\ ValueOf(a, b) * Scale <= a * b
  <1>1. ValueOf(a, b) = (a * b) \div Scale
    BY WrapsNothing, FillAssumption DEF ValueOf, TruncDiv
  <1>2. a * b \in Nat
    OBVIOUS
  <1> QED
    BY <1>1, <1>2, DivBelow, FillAssumption

(* A Buy that computeFill does not refuse is booked exactly, and its average *)
(* cost never overstates what the units cost, as long as the two sums the    *)
(* code does not test (the quantity held and its value, fill.go:53) fit in   *)
(* an int64.                                                                 *)
THEOREM BuyCostIsCovered ==
  ASSUME NEW pos \in Position, pos.qty >= 0, pos.avg >= 0,
         NEW executed \in Nat, NEW avgPrice \in Nat,
         pos.qty + executed \in 1..MaxInt,
         ValueOf(pos.qty, pos.avg) + ValueOf(executed, avgPrice) <= MaxInt,
         computeFill(pos, "BUY", executed, avgPrice).ok
  PROVE  LET after == computeFill(pos, "BUY", executed, avgPrice).pos
         IN  /\ after.qty = pos.qty + executed
             /\ after.avg >= 0
             /\ after.avg * after.qty <= pos.avg * pos.qty + avgPrice * executed
  <1> DEFINE held == ValueOf(pos.qty, pos.avg)
             paid == ValueOf(executed, avgPrice)
             total == Wrap(held + paid)
             newQty == Wrap(pos.qty + executed)
             fill == computeFill(pos, "BUY", executed, avgPrice)
  <1>1. pos.qty \in Nat /\ pos.avg \in Nat
    BY DEF Position
  <1>2. newQty = pos.qty + executed /\ newQty \in Nat /\ newQty > 0
    BY WrapsNothing, <1>1
  <1>3. /\ ~MulOverflows(executed, avgPrice) /\ ~MulOverflows(pos.qty, pos.avg)
        /\ ~(newQty > 0 /\ total > MaxInt \div Scale)
    BY DEF computeFill
  <1>4. fill.pos = [qty |-> newQty, avg |-> BuyAvg(pos, total, newQty), pnl |-> pos.pnl]
    BY DEF computeFill
  <1>5. held \in Nat /\ held * Scale <= pos.qty * pos.avg
    BY <1>1, <1>3, TestedProductFits, ValueOfExact
  <1>6. paid \in Nat /\ paid * Scale <= executed * avgPrice
    BY <1>3, TestedProductFits, ValueOfExact
  <1>7. total = held + paid
    BY <1>5, <1>6, WrapsNothing, FillAssumption
  <1> HIDE DEF held, paid, total, newQty, fill
  <1>8. total \in Nat /\ total * Scale \in 0..MaxInt
    <2>1. total \in Nat /\ total <= MaxInt \div Scale
      BY <1>2, <1>3, <1>5, <1>6, <1>7, FillAssumption
    <2>2. MaxInt \div Scale \in Nat /\ (MaxInt \div Scale) * Scale <= MaxInt
      BY DivBelow, FillAssumption
    <2>3. total * Scale <= (MaxInt \div Scale) * Scale
      BY <2>1, <2>2, ProductGrows, FillAssumption
    <2>4. total * Scale \in Nat
      BY <2>1, FillAssumption
    <2> QED
      BY <2>1, <2>2, <2>3, <2>4, FillAssumption
  <1>9. BuyAvg(pos, total, newQty) = (total * Scale) \div newQty
    BY <1>2, <1>8, WrapsNothing DEF BuyAvg, TruncDiv
  <1>10. /\ (total * Scale) \div newQty \in Nat
         /\ ((total * Scale) \div newQty) * newQty <= total * Scale
    BY <1>2, <1>8, DivBelow
  <1>11. total * Scale = held * Scale + paid * Scale
    BY <1>5, <1>6, <1>7, FillAssumption
  <1>12. pos.qty * pos.avg = pos.avg * pos.qty /\ executed * avgPrice = avgPrice * executed
    BY <1>1
  <1>13. fill.pos.qty = newQty /\ fill.pos.avg = (total * Scale) \div newQty
    BY <1>4, <1>9
  <1>14. ((total * Scale) \div newQty) * newQty <= pos.avg * pos.qty + avgPrice * executed
    BY <1>1, <1>2, <1>5, <1>6, <1>8, <1>10, <1>11, <1>12, FillAssumption
  <1> QED
    BY <1>2, <1>10, <1>13, <1>14 DEF fill

-----------------------------------------------------------------------------
(* Wrapping: a sum may be wrapped once, at the end.                          *)

LEMMA DivMod ==
  ASSUME NEW a \in Int, NEW n \in Nat \ {0}
  PROVE  /\ a % n \in 0 .. n - 1 /\ a \div n \in Int
         /\ a = n * (a \div n) + (a % n)
  BY Z3

LEMMA RemainderUnique ==
  ASSUME NEW n \in Nat \ {0}, NEW q \in Int, NEW p \in Int, NEW r \in 0 .. n - 1,
         NEW s \in 0 .. n - 1, n * q + r = n * p + s
  PROVE  r = s
  <1>1. n * (q - p) = s - r
    BY Z3
  <1>2. CASE q - p >= 1
    <2>1. n * (q - p) >= n
      BY <1>2, Z3
    <2> QED
      BY <1>1, <2>1
  <1>3. CASE q - p <= -1
    <2>1. n * (q - p) <= -n
      BY <1>3, Z3
    <2> QED
      BY <1>1, <2>1
  <1>4. CASE q = p
    BY <1>1, <1>4
  <1> QED
    BY <1>2, <1>3, <1>4

LEMMA ModUnique ==
  ASSUME NEW a \in Int, NEW n \in Nat \ {0}, NEW q \in Int, NEW r \in 0 .. n - 1, a = n * q + r
  PROVE  a % n = r
  <1> DEFINE p == a \div n
             s == a % n
  <1>1. s \in 0 .. n - 1 /\ p \in Int /\ a = n * p + s
    BY DivMod
  <1> HIDE DEF p, s
  <1>2. n * q + r = n * p + s
    BY <1>1
  <1>3. r = s
    BY <1>1, <1>2, RemainderUnique
  <1> QED
    BY <1>3 DEF s

LEMMA ModAdd ==
  ASSUME NEW a \in Int, NEW y \in Int, NEW n \in Nat \ {0}
  PROVE  ((a % n) + y) % n = (a + y) % n
  <1> DEFINE q == a \div n
             r == a % n
             p == (r + y) \div n
             s == (r + y) % n
  <1>1. r \in 0 .. n - 1 /\ q \in Int /\ a = n * q + r
    BY DivMod
  <1>2. r + y \in Int
    BY <1>1
  <1>3. s \in 0 .. n - 1 /\ p \in Int /\ r + y = n * p + s
    BY <1>2, DivMod
  <1> HIDE DEF q, r, p, s
  <1>4. a + y = n * (p + q) + s
    <2>1. n * (p + q) = n * p + n * q
      BY <1>1, <1>3, Z3
    <2>2. n * p \in Int /\ n * q \in Int
      BY <1>1, <1>3
    <2> DEFINE np == n * p
               nq == n * q
    <2> HIDE DEF np, nq
    <2> QED
      BY <1>1, <1>3, <2>1, <2>2 DEF np, nq
  <1> DEFINE b == a + y
             k == p + q
  <1>5. b \in Int /\ k \in Int /\ b = n * k + s
    BY <1>1, <1>3, <1>4
  <1> HIDE DEF b, k
  <1>6. b % n = s
    BY <1>3, <1>5, ModUnique
  <1> QED
    BY <1>6 DEF b, r, s

LEMMA WrapAdd ==
  ASSUME NEW x \in Int, NEW y \in Int PROVE Wrap(Wrap(x) + y) = Wrap(x + y)
  <1> DEFINE n == 2 * MaxInt + 2
             a == x + MaxInt + 1
             r == a % n
  <1>1. n \in Nat \ {0} /\ a \in Int /\ MaxInt \in Int
    BY FillAssumption
  <1>2. (r + y) % n = (a + y) % n /\ r \in Int
    <2> HIDE DEF n, a
    <2>1. r \in 0 .. n - 1
      BY <1>1, DivMod
    <2>2. r \in Int
      BY <1>1, <2>1
    <2>3. (r + y) % n = (a + y) % n
      BY <1>1, ModAdd
    <2> QED
      BY <2>2, <2>3
  <1>3. Wrap(x) = r - MaxInt - 1
    BY DEF Wrap
  <1>4. Wrap(x + y) = ((a + y) % n) - MaxInt - 1
    <2>1. x + y + MaxInt + 1 = a + y
      BY <1>1
    <2> QED
      BY <2>1 DEF Wrap
  <1>5. Wrap(Wrap(x) + y) = ((r + y) % n) - MaxInt - 1
    <2> HIDE DEF r
    <2>1. Wrap(x) + y + MaxInt + 1 = r + y
      BY <1>1, <1>2, <1>3
    <2> QED
      BY <2>1 DEF Wrap
  <1> QED
    BY <1>2, <1>4, <1>5

(* An int64 is not wrapped.                                                  *)
LEMMA WrapSmall == ASSUME NEW x \in -MaxInt .. MaxInt PROVE Wrap(x) = x
  <1> DEFINE n == 2 * MaxInt + 2
             a == x + MaxInt + 1
  <1>1. MaxInt \in Nat /\ n \in Nat \ {0} /\ a \in 0 .. n - 1 /\ a = n * 0 + a
    BY FillAssumption
  <1> HIDE DEF n, a
  <1>2. a \in Int /\ 0 \in Int
    BY <1>1
  <1>3. a % n = a
    BY <1>1, <1>2, ModUnique
  <1> QED
    BY <1>1, <1>3 DEF Wrap, n, a
(* A realized profit that is within half the int64 range before and after a  *)
(* fill was not wrapped by it.                                               *)
Half(x) == 2 * x \in -MaxInt .. MaxInt

LEMMA WrapBack ==
  ASSUME NEW x \in Int, NEW y \in Int, Half(x), Half(Wrap(x + Wrap(y)))
  PROVE  /\ Wrap(x + Wrap(y)) = x + Wrap(y)
         /\ Wrap(y) \in -MaxInt .. MaxInt
  <1> DEFINE r == Wrap(y)
             a == Wrap(x + r)
  <1>1. r \in Int
    BY WrapInt
  <1>2. Wrap(r + 0) = Wrap(y + 0)
    BY WrapAdd
  <1>3. y + 0 = y /\ r + 0 = r
    BY <1>1
  <1>4. Wrap(r) = r
    BY <1>2, <1>3
  <1> HIDE DEF r
  <1>5. a \in Int
    BY <1>1, WrapInt
  <1>6. Wrap(a + (-x)) = Wrap((x + r) + (-x))
    BY <1>1, WrapAdd
  <1>7. (x + r) + (-x) = r
    BY <1>1
  <1>8. Half(a)
    BY DEF r
  <1> HIDE DEF a
  <1>9. a + (-x) \in -MaxInt .. MaxInt
    BY <1>5, <1>8, FillAssumption DEF Half
  <1>10. a + (-x) = r
    BY <1>4, <1>6, <1>7, <1>9, WrapSmall
  <1>11. a = x + r /\ r \in -MaxInt .. MaxInt
    BY <1>1, <1>5, <1>9, <1>10
  <1> QED
    BY <1>11 DEF a, r

(* The loss that is booked with a fill is the profit it took.                *)
LEMMA PaperLossIs ==
  ASSUME NEW before \in Position, NEW after \in Position, Half(before.pnl), Half(after.pnl)
  PROVE  LossOf(before, after) =
           IF after.pnl < before.pnl THEN before.pnl - after.pnl ELSE 0
  <1> DEFINE change == after.pnl - before.pnl
  <1>1. before.pnl \in Int /\ after.pnl \in Int
    BY DEF Position
  <1>2. change \in -MaxInt .. MaxInt
    BY <1>1, FillAssumption DEF Half
  <1>3. LossOf(before, after) = IF Wrap(change) < 0 THEN Wrap(-Wrap(change)) ELSE 0
    BY DEF LossOf
  <1>4. change < 0 <=> after.pnl < before.pnl
    BY <1>1
  <1>5. -change = before.pnl - after.pnl
    BY <1>1
  <1> HIDE DEF change
  <1>6. Wrap(change) = change /\ -change \in -MaxInt .. MaxInt
    BY <1>2, WrapSmall, FillAssumption
  <1>7. Wrap(-change) = -change
    BY <1>6, WrapSmall
  <1> QED
    BY <1>3, <1>4, <1>5, <1>6, <1>7

LEMMA LiveLossIs ==
  ASSUME NEW pos \in Position, NEW side, NEW executed \in Int, NEW avgPrice \in Int,
         NEW fill, fill = computeFill(pos, side, executed, avgPrice),
         Half(pos.pnl), Half(fill.pos.pnl)
  PROVE  fill.loss = IF fill.pos.pnl < pos.pnl THEN pos.pnl - fill.pos.pnl ELSE 0
  <1> DEFINE traded == ValueOf(executed, avgPrice)
             cost == ValueOf(executed, pos.avg)
             realized == Wrap(traded - cost)
  <1>1. pos.pnl \in Int /\ pos.avg \in Int
    BY DEF Position
  <1>2. traded \in Int /\ cost \in Int
    BY <1>1, ValueOfInt
  <1>3. \/ fill.pos.pnl = pos.pnl /\ fill.loss = 0
        \/ /\ fill.pos.pnl = Wrap(pos.pnl + realized)
           /\ fill.loss = IF realized < 0 THEN Wrap(-realized) ELSE 0
    BY DEF computeFill
  <1> HIDE DEF traded, cost
  <1>4. CASE fill.pos.pnl = pos.pnl /\ fill.loss = 0
    BY <1>1, <1>4
  <1>5. CASE /\ fill.pos.pnl = Wrap(pos.pnl + realized)
             /\ fill.loss = IF realized < 0 THEN Wrap(-realized) ELSE 0
    <2>1. traded - cost \in Int /\ Half(Wrap(pos.pnl + realized))
      BY <1>2, <1>5
    <2>2. Wrap(pos.pnl + realized) = pos.pnl + realized /\ realized \in -MaxInt .. MaxInt
      BY <1>1, <2>1, WrapBack
    <2> HIDE DEF realized
    <2>3. -realized \in -MaxInt .. MaxInt
      BY <2>2, FillAssumption
    <2>4. Wrap(-realized) = -realized
      BY <2>3, WrapSmall
    <2> QED
      BY <1>1, <1>5, <2>2, <2>4
  <1> QED
    BY <1>3, <1>4, <1>5
=============================================================================
