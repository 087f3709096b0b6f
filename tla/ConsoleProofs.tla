----------------------------- MODULE ConsoleProofs -----------------------------
(* Numbers written and read back, what an order command posts and lists, and *)
(* what a session row is worth.  A text is the sum of its digits by their    *)
(* places; Parse and Format are proved against that, and the commands follow *)
(* from an invariant that says what each of their stages was made from.      *)
EXTENDS ConsoleProps, FillProofs, SumProofs, SequenceTheorems

-----------------------------------------------------------------------------
(* Powers of ten.                                                            *)
LEMMA TenPower ==
  ASSUME NEW k \in Nat
  PROVE  /\ Power(10, 0) = 1 /\ Power(10, k) \in Nat \ {0} /\ Power(10, k) \in Int
         /\ Power(10, k + 1) = 10 * Power(10, k)
  <1>1. PICK b \in Nat \ {0} : b = 10
    OBVIOUS
  <1>2. b \in Int
    OBVIOUS
  <1>3. Power(b, 0) = 1 /\ Power(b, k + 1) = b * Power(b, k) /\ Power(b, k) \in Nat \ {0}
    BY <1>2, PowerStep, PowerPositive, Zenon
  <1> QED
    BY <1>1, <1>3

LEMMA TenPowerAdd ==
  ASSUME NEW m \in Nat, NEW n \in Nat PROVE Power(10, m + n) = Power(10, m) * Power(10, n)
  <1>1. PICK b \in Int : b = 10
    OBVIOUS
  <1>2. Power(b, m + n) = Power(b, m) * Power(b, n)
    BY PowerAdd, Zenon
  <1> QED
    BY <1>1, <1>2

LEMMA TenPowerExceeds == ASSUME NEW n \in Nat PROVE n < Power(10, n)
  <1>1. PICK b \in Nat : b = 10 /\ b > 1
    OBVIOUS
  <1>2. n < Power(b, n)
    BY <1>1, PowerExceeds
  <1> QED
    BY <1>1, <1>2

-----------------------------------------------------------------------------
(* The number of the first j digits.                                         *)
UpTo(d, j) == SumFunctionOnSet([i \in 1..j |-> d[i] * Power(10, j - i)], 1..j)

LEMMA NumberIs == ASSUME NEW d \in Seq(Digit) PROVE NumberOf(d) = UpTo(d, Len(d))
  <1>1. DOMAIN d = 1..Len(d)
    OBVIOUS
  <1> QED
    BY <1>1 DEF NumberOf, Weighed, UpTo

LEMMA UpToNone == ASSUME NEW d PROVE UpTo(d, 0) = 0
  <1>1. 1..0 = {}
    OBVIOUS
  <1> QED
    BY <1>1, SumEmpty DEF UpTo

LEMMA UpToNext ==
  ASSUME NEW d \in Seq(Digit), NEW j \in Nat, j < Len(d)
  PROVE  UpTo(d, j) \in Int /\ UpTo(d, j + 1) = 10 * UpTo(d, j) + d[j + 1]
  <1> DEFINE f == [i \in 1..j |-> d[i] * Power(10, j - i)]
             g == [i \in 1..(j + 1) |-> d[i] * Power(10, (j + 1) - i)]
  <1>1. \A i \in 1..(j + 1) : d[i] \in Digit /\ d[i] \in Int
    BY DEF Digit
  <1>2. ASSUME NEW i \in 1..j PROVE f[i] \in Int /\ g[i] = 10 * f[i]
    <2>1. PICK k \in Nat : k = j - i
      OBVIOUS
    <2>2. Power(10, k + 1) = 10 * Power(10, k) /\ Power(10, k) \in Int
      BY TenPower
    <2>3. (j + 1) - i = k + 1 /\ f[i] = d[i] * Power(10, k) /\ g[i] = d[i] * Power(10, k + 1)
      BY <2>1
    <2>4. \A x, y \in Int : x * y \in Int /\ x * (10 * y) = 10 * (x * y)
      BY Z3
    <2>5. d[i] \in Int
      BY <1>1
    <2> HIDE DEF f, g
    <2> QED
      BY <2>2, <2>3, <2>4, <2>5
  <1>3. g[j + 1] = d[j + 1]
    <2>1. j + 1 \in 1..(j + 1) /\ (j + 1) - (j + 1) = 0 /\ d[j + 1] \in Int
      BY <1>1
    <2>2. g[j + 1] = d[j + 1] * Power(10, 0)
      BY <2>1
    <2>3. Power(10, 0) = 1
      BY TenPower
    <2> HIDE DEF g
    <2> QED
      BY <2>1, <2>2, <2>3
  <1>4. Fades(f, g, 1, j, 10)
    <2>1. g[j + 1] \in Int
      BY <1>1, <1>3
    <2> HIDE DEF f, g
    <2> QED
      BY <1>2, <2>1 DEF Fades
  <1> HIDE DEF f, g
  <1>5. SumFunctionOnSet(f, 1..j) \in Int
        /\ SumFunctionOnSet(g, 1..(j + 1)) = 10 * SumFunctionOnSet(f, 1..j) + g[j + 1]
    BY <1>4, FadedSum
  <1> QED
    BY <1>3, <1>5 DEF UpTo, f, g

LEMMA DigitAppended ==
  ASSUME NEW x \in Nat, NEW p \in Int, x < p, NEW y \in 0..9
  PROVE  10 * x + y \in Nat /\ 10 * x + y < 10 * p
  BY Z3

(* A number of j digits is below 10^j, and less is read before more.         *)
LEMMA UpToBounds ==
  ASSUME NEW d \in Seq(Digit), NEW j \in 0..Len(d)
  PROVE  UpTo(d, j) \in Nat /\ UpTo(d, j) < Power(10, j)
  <1> DEFINE S == {k \in Nat : k <= Len(d) => UpTo(d, k) \in Nat /\ UpTo(d, k) < Power(10, k)}
  <1>1. 0 \in S
    <2>1. UpTo(d, 0) = 0 /\ Power(10, 0) = 1
      BY UpToNone, TenPower
    <2> QED
      BY <2>1
  <1>2. ASSUME NEW k \in Nat, k \in S PROVE k + 1 \in S
    <2> SUFFICES ASSUME k + 1 <= Len(d)
                 PROVE  UpTo(d, k + 1) \in Nat /\ UpTo(d, k + 1) < Power(10, k + 1)
      OBVIOUS
    <2>1. k < Len(d) /\ d[k + 1] \in 0..9
      BY DEF Digit
    <2>2. UpTo(d, k) \in Nat /\ UpTo(d, k) < Power(10, k)
      BY <1>2, <2>1
    <2>3. UpTo(d, k + 1) = 10 * UpTo(d, k) + d[k + 1]
      BY <2>1, UpToNext
    <2>4. Power(10, k + 1) = 10 * Power(10, k) /\ Power(10, k) \in Int
      BY TenPower
    <2> QED
      BY <2>1, <2>2, <2>3, <2>4, DigitAppended
  <1>3. Nat \subseteq S
    <2> HIDE DEF S
    <2> QED
      BY <1>1, <1>2, InductiveSet
  <1> QED
    BY <1>3

LEMMA UpToGrows ==
  ASSUME NEW d \in Seq(Digit), NEW j \in Nat, j < Len(d)
  PROVE  /\ UpTo(d, j) \in Nat /\ UpTo(d, j + 1) = 10 * UpTo(d, j) + d[j + 1]
         /\ d[j + 1] \in 0..9 /\ UpTo(d, j) <= UpTo(d, j + 1)
  <1>1. UpTo(d, j) \in Nat
    BY UpToBounds
  <1>2. UpTo(d, j + 1) = 10 * UpTo(d, j) + d[j + 1] /\ d[j + 1] \in 0..9
    BY UpToNext DEF Digit
  <1> QED
    BY <1>1, <1>2

(* Digits side by side: b's number at its place after a's.                   *)
LEMMA UpToSame ==
  ASSUME NEW a \in Seq(Digit), NEW c \in Seq(Digit), NEW m \in Nat, m <= Len(a), m <= Len(c),
         \A i \in 1..m : a[i] = c[i]
  PROVE  UpTo(a, m) = UpTo(c, m)
  <1>1. [i \in 1..m |-> a[i] * Power(10, m - i)] = [i \in 1..m |-> c[i] * Power(10, m - i)]
    OBVIOUS
  <1> QED
    BY <1>1 DEF UpTo

LEMMA UpToBeside ==
  ASSUME NEW a \in Seq(Digit), NEW b \in Seq(Digit), NEW j \in 0..Len(b)
  PROVE  UpTo(a \o b, Len(a) + j) = UpTo(a, Len(a)) * Power(10, j) + UpTo(b, j)
  <1> DEFINE m == Len(a)
             c == a \o b
             S == {k \in Nat : k <= Len(b) =>
                     UpTo(c, m + k) = UpTo(a, m) * Power(10, k) + UpTo(b, k)}
  <1>1. /\ c \in Seq(Digit) /\ Len(c) = m + Len(b) /\ m \in Nat
        /\ \A i \in 1..m : c[i] = a[i]
        /\ \A i \in 1..Len(b) : c[m + i] = b[i]
    OBVIOUS
  <1> HIDE DEF c, m
  <1>2. UpTo(a, m) \in Nat
    BY UpToBounds DEF m
  <1>3. 0 \in S
    <2>1. UpTo(c, m) = UpTo(a, m)
      <3>1. m <= Len(a) /\ m <= Len(c)
        BY <1>1 DEF m
      <3> QED
        BY <1>1, <3>1, UpToSame
    <2>2. UpTo(b, 0) = 0 /\ Power(10, 0) = 1 /\ m + 0 = m /\ UpTo(a, m) * 1 = UpTo(a, m)
      <3>1. \A x \in Int : x * 1 = x
        OBVIOUS
      <3>2. UpTo(b, 0) = 0 /\ Power(10, 0) = 1
        BY UpToNone, TenPower
      <3> QED
        BY <1>1, <1>2, <3>1, <3>2
    <2> QED
      BY <1>2, <2>1, <2>2
  <1>4. ASSUME NEW k \in Nat, k \in S PROVE k + 1 \in S
    <2> SUFFICES ASSUME k + 1 <= Len(b)
                 PROVE  UpTo(c, m + (k + 1)) = UpTo(a, m) * Power(10, k + 1) + UpTo(b, k + 1)
      OBVIOUS
    <2>1. k < Len(b) /\ UpTo(c, m + k) = UpTo(a, m) * Power(10, k) + UpTo(b, k)
      BY <1>4
    <2>2. UpTo(b, k) \in Nat /\ UpTo(b, k + 1) = 10 * UpTo(b, k) + b[k + 1] /\ b[k + 1] \in 0..9
      BY <2>1, UpToGrows
    <2>3. UpTo(c, (m + k) + 1) = 10 * UpTo(c, m + k) + c[(m + k) + 1]
      <3>1. m + k \in Nat /\ m + k < Len(c)
        BY <1>1, <2>1
      <3> QED
        BY <1>1, <3>1, UpToNext
    <2>4. (m + k) + 1 = m + (k + 1) /\ c[m + (k + 1)] = b[k + 1]
      BY <1>1
    <2>5. Power(10, k + 1) = 10 * Power(10, k) /\ Power(10, k) \in Int
      BY TenPower
    <2>6. \A x, y \in Int : x * (10 * y) = 10 * (x * y) /\ x * y \in Int
      BY Z3
    <2>7. UpTo(a, m) * Power(10, k + 1) = 10 * (UpTo(a, m) * Power(10, k))
          /\ UpTo(a, m) * Power(10, k) \in Int
      BY <1>2, <2>5, <2>6
    <2>8. UpTo(c, m + (k + 1)) = 10 * (UpTo(a, m) * Power(10, k) + UpTo(b, k)) + b[k + 1]
      BY <2>1, <2>3, <2>4
    <2>9. \A x, y, z \in Int : 10 * (x + y) + z = 10 * x + (10 * y + z)
      OBVIOUS
    <2>10. UpTo(b, k) \in Int /\ b[k + 1] \in Int
      BY <2>2
    <2> QED
      BY <2>2, <2>7, <2>8, <2>9, <2>10
  <1>5. Nat \subseteq S
    <2> HIDE DEF S
    <2> QED
      BY <1>3, <1>4, InductiveSet
  <1> QED
    BY <1>5 DEF c, m

LEMMA NumberBounds ==
  ASSUME NEW d \in Seq(Digit) PROVE NumberOf(d) \in Nat /\ NumberOf(d) < Power(10, Len(d))
  BY NumberIs, UpToBounds

LEMMA NumberBeside ==
  ASSUME NEW a \in Seq(Digit), NEW b \in Seq(Digit)
  PROVE  NumberOf(a \o b) = NumberOf(a) * Power(10, Len(b)) + NumberOf(b)
  <1>1. a \o b \in Seq(Digit) /\ Len(a \o b) = Len(a) + Len(b) /\ Len(b) \in 0..Len(b)
    OBVIOUS
  <1>2. NumberOf(a \o b) = UpTo(a \o b, Len(a) + Len(b))
    BY <1>1, NumberIs
  <1>3. UpTo(a \o b, Len(a) + Len(b)) = UpTo(a, Len(a)) * Power(10, Len(b)) + UpTo(b, Len(b))
    BY <1>1, UpToBeside
  <1> QED
    BY <1>2, <1>3, NumberIs

LEMMA NumberOfZeros ==
  ASSUME NEW d \in Seq(Digit), \A i \in 1..Len(d) : d[i] = 0 PROVE NumberOf(d) = 0
  <1> DEFINE S == {k \in Nat : k <= Len(d) => UpTo(d, k) = 0}
  <1>1. 0 \in S
    BY UpToNone
  <1>2. ASSUME NEW k \in Nat, k \in S PROVE k + 1 \in S
    BY <1>2, UpToNext
  <1>3. Nat \subseteq S
    <2> HIDE DEF S
    <2> QED
      BY <1>1, <1>2, InductiveSet
  <1> QED
    BY <1>3, NumberIs

-----------------------------------------------------------------------------
(* The loop over the digits: the recursion has a solution, and it is the     *)
(* number of the digits as long as that fits in an int64.                    *)
Int64 == -(MaxInt + 1)..MaxInt

LEMMA WrapInt64 == ASSUME NEW x \in Int PROVE Wrap(x) \in Int64
  <1> DEFINE n == 2 * MaxInt + 2
  <1>1. n \in Nat \ {0} /\ x + MaxInt + 1 \in Int /\ MaxInt \in Nat
    BY FillAssumption
  <1>2. (x + MaxInt + 1) % n \in 0..(n - 1)
    <2> HIDE DEF n
    <2> QED
      BY <1>1, DivMod
  <1>3. PICK r \in 0..(n - 1) : r = (x + MaxInt + 1) % n
    BY <1>2
  <1>4. Wrap(x) = r - MaxInt - 1
    BY <1>3 DEF Wrap
  <1> QED
    BY <1>1, <1>4 DEF Int64

IsReading(v, d) == v = [i \in 0..Len(d) |-> IF i = 0 THEN 0 ELSE Wrap(v[i - 1] * 10 + d[i])]

Reading(d) == CHOOSE v : IsReading(v, d)

LEMMA ReadingSolution ==
  ASSUME NEW d \in Seq(Digit)
  PROVE  /\ ReadDigits(d) = Reading(d)[Len(d)]
         /\ \A i \in 0..Len(d) : Reading(d)[i] \in Int64
         /\ Reading(d)[0] = 0
         /\ \A i \in 1..Len(d) : Reading(d)[i] = Wrap(Reading(d)[i - 1] * 10 + d[i])
  <1> DEFINE n == Len(d)
             step == [k \in 0..n |-> [x \in Int64 |-> Wrap(x * 10 + d[k])]]
  <1>1. n \in Nat /\ \A k \in 1..n : d[k] \in Int
    BY DEF Digit
  <1>2. ASSUME NEW k \in 1..n, NEW x \in Int64 PROVE Wrap(x * 10 + d[k]) \in Int64
    <2>1. x * 10 + d[k] \in Int
      BY <1>1, FillAssumption DEF Int64
    <2> QED
      BY <2>1, WrapInt64
  <1> DEFINE total == [k \in 0..n |-> IF k = 0 THEN [x \in Int64 |-> 0] ELSE step[k]]
  <1>3. 0 \in Int64 /\ 0 \in Int /\ n \in Int
    BY <1>1, FillAssumption DEF Int64
  <1>4. total \in [0..n -> [Int64 -> Int64]]
    BY <1>2, <1>3
  <1>5. \A k \in 1..n, x \in Int64 : total[k][x] = Wrap(x * 10 + d[k])
    BY <1>1
  <1> HIDE DEF step, total
  <1>6. PICK f \in [0..n -> Int64] : Solves(f, 0, n, 0, total)
    <2> HIDE DEF n
    <2> QED
      BY <1>3, <1>4, RecursionExists
  <1>7. ASSUME NEW k \in 0..n PROVE f[k] = IF k = 0 THEN 0 ELSE Wrap(f[k - 1] * 10 + d[k])
    <2>1. k # 0 => k - 1 \in 0..n /\ k \in 1..n
      BY <1>1
    <2>2. f[k] = IF k = 0 THEN 0 ELSE total[k][f[k - 1]]
      BY <1>6 DEF Solves
    <2> QED
      BY <1>5, <1>6, <2>1, <2>2
  <1>8. IsReading(f, d)
    <2>1. f = [k \in 0..n |-> f[k]]
      BY <1>6
    <2> QED
      BY <1>7, <2>1 DEF IsReading
  <1>9. IsReading(Reading(d), d)
    BY <1>8 DEF Reading
  <1> DEFINE g == Reading(d)
  <1> HIDE DEF g
  <1>10. g = [i \in 0..n |-> IF i = 0 THEN 0 ELSE Wrap(g[i - 1] * 10 + d[i])]
    BY <1>9 DEF IsReading, g
  <1>11. /\ g[0] = 0 /\ f[0] = 0
         /\ \A i \in 1..n : g[i] = Wrap(g[i - 1] * 10 + d[i]) /\ f[i] = Wrap(f[i - 1] * 10 + d[i])
    BY <1>1, <1>7, <1>10
  <1>12. \A i \in 0..n : g[i] = f[i]
    <2>1. SameSteps(g, f, 0, n)
      BY <1>11 DEF SameSteps
    <2> HIDE DEF n
    <2> QED
      BY <1>3, <2>1, RecursionsAgree
  <1>13. \A i \in 0..n : g[i] \in Int64
    BY <1>6, <1>12
  <1>14. ReadDigits(d) = Reading(d)[n]
    BY DEF ReadDigits, Reading, IsReading
  <1> QED
    BY <1>11, <1>13, <1>14 DEF g

LEMMA ReadingIsNumber ==
  ASSUME NEW d \in Seq(Digit)
  PROVE  ReadDigits(d) \in Int64 /\ (NumberOf(d) <= MaxInt => ReadDigits(d) = NumberOf(d))
  <1> DEFINE n == Len(d)
             g == Reading(d)
             S == {k \in Nat : k <= n /\ UpTo(d, k) <= MaxInt => g[k] = UpTo(d, k)}
  <1>1. /\ n \in Nat /\ g[0] = 0
        /\ \A i \in 1..n : g[i] = Wrap(g[i - 1] * 10 + d[i])
        /\ ReadDigits(d) = g[n] /\ g[n] \in Int64
    BY ReadingSolution
  <1>2. 0 \in S
    BY <1>1, UpToNone
  <1>3. ASSUME NEW k \in Nat, k \in S PROVE k + 1 \in S
    <2> SUFFICES ASSUME k + 1 <= n, UpTo(d, k + 1) <= MaxInt PROVE g[k + 1] = UpTo(d, k + 1)
      OBVIOUS
    <2>1. /\ UpTo(d, k) \in Nat /\ UpTo(d, k + 1) = 10 * UpTo(d, k) + d[k + 1]
          /\ d[k + 1] \in 0..9 /\ UpTo(d, k) <= UpTo(d, k + 1)
      BY UpToGrows
    <2>2. UpTo(d, k) <= MaxInt /\ UpTo(d, k + 1) \in 0..MaxInt
      BY <2>1, FillAssumption
    <2>3. g[k] = UpTo(d, k)
      BY <1>3, <2>2
    <2>4. g[k + 1] = Wrap(g[k] * 10 + d[k + 1])
      <3>1. k + 1 \in 1..n /\ (k + 1) - 1 = k
        BY <1>1
      <3> QED
        BY <1>1, <3>1
    <2>5. g[k] * 10 + d[k + 1] = UpTo(d, k + 1)
      BY <2>1, <2>3
    <2> QED
      BY <2>2, <2>4, <2>5, WrapsNothing
  <1>4. Nat \subseteq S
    <2> HIDE DEF S
    <2> QED
      BY <1>2, <1>3, InductiveSet
  <1> QED
    BY <1>1, <1>4, NumberIs

-----------------------------------------------------------------------------
(* The digits of a number denote it.                                         *)
LEMMA QuotientUnique ==
  ASSUME NEW a \in Int, NEW n \in Nat \ {0}, NEW q \in Int, NEW r \in 0..(n - 1), a = n * q + r
  PROVE  a \div n = q
  <1>1. PICK p \in Int, t \in 0..(n - 1) : p = a \div n /\ a = n * p + t
    BY DivMod
  <1>2. r = t
    BY <1>1, RemainderUnique
  <1>3. n * q = n * p
    <2>1. \A x \in Int : n * x \in Int
      OBVIOUS
    <2> QED
      BY <1>1, <1>2, <2>1
  <1>4. \A x, y \in Int : n * x = n * y => x = y
    BY Z3
  <1> QED
    BY <1>1, <1>3, <1>4

LEMMA DivOfDiv ==
  ASSUME NEW v \in Nat, NEW p \in Nat \ {0}
  PROVE  v \div (10 * p) = (v \div p) \div 10
  <1> DEFINE q == v \div p
             r == v % p
             s == q \div 10
             t == q % 10
  <1>1. q \in Int /\ r \in 0..(p - 1) /\ v = p * q + r
    BY DivMod
  <1>2. 10 \in Nat \ {0}
    OBVIOUS
  <1>3. s \in Int /\ t \in 0..9 /\ q = 10 * s + t
    <2> HIDE DEF q
    <2>1. 10 - 1 = 9
      OBVIOUS
    <2> QED
      BY <1>1, <1>2, <2>1, DivMod
  <1> HIDE DEF q, r, s, t
  <1>4. v = (10 * p) * s + (p * t + r)
    BY <1>1, <1>3, Z3
  <1>5. p * t + r \in 0..(10 * p - 1)
    <2>1. p * t >= 0 /\ p * t <= p * 9 /\ p * t \in Int
      BY <1>3, Z3
    <2> QED
      BY <1>1, <2>1
  <1>6. 10 * p \in Nat \ {0}
    OBVIOUS
  <1>7. v \div (10 * p) = s
    <2>1. PICK n \in Nat \ {0} : n = 10 * p
      BY <1>6
    <2>2. PICK c \in 0..(n - 1) : c = p * t + r
      BY <1>5, <2>1
    <2>3. v = n * s + c
      BY <1>4, <2>1, <2>2
    <2>4. v \div n = s
      BY <1>3, <2>3, QuotientUnique
    <2> QED
      BY <2>1, <2>4
  <1> QED
    BY <1>7 DEF s, q

LEMMA SmallQuotient == ASSUME NEW v \in Nat, NEW p \in Nat \ {0}, v < p PROVE v \div p = 0
  BY Z3

Takes10(v, n) == v < Power(10, n) /\ (n = 1 \/ Power(10, n - 1) <= v)

LEMMA DigitsCounted ==
  ASSUME NEW v \in Nat PROVE \E n \in 1..(v + 1) : Takes10(v, n)
  <1> DEFINE B == {n \in Nat : n >= 1 /\ v < Power(10, n)}
  <1>1. v + 1 \in B
    <2>1. PICK m \in Nat : m = v + 1
      OBVIOUS
    <2>2. m < Power(10, m)
      BY TenPowerExceeds
    <2>3. Power(10, m) \in Int
      BY TenPower
    <2> QED
      BY <2>1, <2>2, <2>3
  <1>2. PICK n \in B : \A m \in B : n <= m
    <2>1. B \subseteq Nat
      OBVIOUS
    <2> HIDE DEF B
    <2> QED
      BY <1>1, <2>1, SmallestNumber
  <1>3. n \in 1..(v + 1)
    BY <1>1, <1>2
  <1>4. n = 1 \/ Power(10, n - 1) <= v
    <2> SUFFICES ASSUME n # 1 PROVE Power(10, n - 1) <= v
      OBVIOUS
    <2>1. PICK m \in Nat : m = n - 1 /\ m >= 1 /\ ~(n <= m)
      BY <1>3
    <2>2. m \notin B
      BY <1>2, <2>1
    <2>3. Power(10, m) \in Int
      BY TenPower
    <2> QED
      BY <2>1, <2>2, <2>3
  <1> QED
    BY <1>2, <1>3, <1>4 DEF Takes10

LEMMA DigitsOfNumber ==
  ASSUME NEW v \in Nat
  PROVE  DigitsOf(v) \in Seq(Digit) /\ Len(DigitsOf(v)) \in Nat \ {0} /\ NumberOf(DigitsOf(v)) = v
  <1>1. PICK n \in 1..(v + 1) :
          /\ Takes10(v, n)
          /\ DigitsOf(v) = [i \in 1..n |-> (v \div Power(10, n - i)) % 10]
    BY DigitsCounted DEF DigitsOf, Takes10
  <1>2. n \in Nat \ {0} /\ v < Power(10, n)
    BY <1>1 DEF Takes10
  <1> DEFINE d == DigitsOf(v)
  <1>3. ASSUME NEW i \in 1..n PROVE d[i] \in Digit
    <2>1. PICK k \in Nat : k = n - i
      BY <1>2
    <2>2. PICK p \in Nat \ {0} : p = Power(10, k)
      BY TenPower
    <2>3. v \div p \in Int /\ 10 \in Nat \ {0}
      BY DivMod
    <2>4. (v \div p) % 10 \in 0..(10 - 1)
      BY <2>3, DivMod
    <2> QED
      BY <1>1, <2>1, <2>2, <2>4 DEF Digit
  <1>4. d \in Seq(Digit) /\ Len(d) = n
    <2>1. d = [i \in 1..n |-> d[i]] /\ DOMAIN d = 1..n
      BY <1>1
    <2> HIDE DEF d
    <2>2. d \in [1..n -> Digit]
      BY <1>3, <2>1
    <2> QED
      BY <1>2, <2>2
  <1>5. \A i \in 1..n : d[i] = (v \div Power(10, n - i)) % 10
    BY <1>1
  <1> HIDE DEF d
  <1> DEFINE S == {k \in Nat : k <= n => UpTo(d, k) = v \div Power(10, n - k)}
  <1>6. 0 \in S
    <2>1. v \div Power(10, n) = 0
      <3>1. PICK p \in Nat \ {0} : p = Power(10, n)
        BY <1>2, TenPower
      <3>2. v \div p = 0
        BY <1>2, <3>1, SmallQuotient
      <3> QED
        BY <3>1, <3>2
    <2>2. n - 0 = n
      BY <1>2
    <2> QED
      BY <2>1, <2>2, UpToNone
  <1>7. ASSUME NEW k \in Nat, k \in S PROVE k + 1 \in S
    <2> SUFFICES ASSUME k + 1 <= n PROVE UpTo(d, k + 1) = v \div Power(10, n - (k + 1))
      OBVIOUS
    <2>1. PICK m \in Nat : m = n - (k + 1) /\ n - k = m + 1
      BY <1>2
    <2>2. UpTo(d, k) = v \div Power(10, m + 1)
      BY <1>7, <2>1
    <2>3. UpTo(d, k + 1) = 10 * UpTo(d, k) + d[k + 1]
      BY <1>4, UpToNext
    <2>4. d[k + 1] = (v \div Power(10, m)) % 10
      BY <1>5, <2>1
    <2>5. PICK p \in Nat \ {0} : p = Power(10, m) /\ Power(10, m + 1) = 10 * p
      BY TenPower
    <2>6. v \div (10 * p) = (v \div p) \div 10
      BY DivOfDiv
    <2>7. v \div p \in Int
      BY DivMod
    <2>8. 10 \in Nat \ {0}
      OBVIOUS
    <2>9. \A w \in Int : w = 10 * (w \div 10) + (w % 10)
      BY <2>8, DivMod
    <2>10. v \div p = 10 * ((v \div p) \div 10) + ((v \div p) % 10)
      BY <2>7, <2>9
    <2>11. UpTo(d, k + 1) = v \div p
      BY <2>2, <2>3, <2>4, <2>5, <2>6, <2>10
    <2> QED
      BY <2>1, <2>5, <2>11
  <1>8. Nat \subseteq S
    <2> HIDE DEF S
    <2> QED
      BY <1>6, <1>7, InductiveSet
  <1>9. UpTo(d, n) = v
    <2>1. n - n = 0 /\ Power(10, 0) = 1 /\ v \div 1 = v
      <3>1. v \div 1 = v
        OBVIOUS
      <3>2. Power(10, 0) = 1
        BY TenPower
      <3> QED
        BY <1>2, <3>1, <3>2
    <2> QED
      BY <1>2, <1>8, <2>1
  <1>10. NumberOf(d) = v
    BY <1>4, <1>9, NumberIs
  <1> QED
    BY <1>2, <1>4, <1>10 DEF d

-----------------------------------------------------------------------------
(* Texts.                                                                    *)
LEMMA FirstPointIs ==
  ASSUME NEW s \in Text
  PROVE  /\ (\A i \in DOMAIN s : s[i] # Point) => FirstPoint(s) = 0
         /\ \A p \in DOMAIN s : (\A i \in DOMAIN s : s[i] = Point <=> i = p) => FirstPoint(s) = p
  <1> DEFINE I == {i \in 1..Len(s) : s[i] = Point}
  <1>1. FirstPoint(s) = IF I = {} THEN 0 ELSE CHOOSE x \in I : \A y \in I : x <= y
    BY DEF FirstPoint, SelectInSeq, Min
  <1>2. DOMAIN s = 1..Len(s)
    BY DEF Text
  <1>3. ASSUME NEW p \in DOMAIN s, \A i \in DOMAIN s : s[i] = Point <=> i = p PROVE I = {p}
    BY <1>2, <1>3
  <1>4. ASSUME NEW p \in DOMAIN s, I = {p} PROVE (CHOOSE x \in I : \A y \in I : x <= y) = p
    <2>1. p <= p
      BY <1>2
    <2> QED
      BY <1>4, <2>1
  <1> QED
    BY <1>1, <1>2, <1>3, <1>4

(* At most one character that is no digit, and that is the point.            *)
AlmostDigits(u) ==
  \A i, j \in {k \in DOMAIN u : u[k] \notin Digit} : u[i] = Point /\ i = j

LEMMA PointIsNoDigit == Point \notin Digit /\ Minus \notin Digit /\ Point # Minus
  BY CharacterAssumption

LEMMA PartsOfText ==
  ASSUME NEW u \in Text, AlmostDigits(u)
  PROVE  /\ IntPart(u) = Whole(u) /\ FracPart(u) = Rest(u)
         /\ Whole(u) \in Seq(Digit) /\ Rest(u) \in Seq(Digit)
  <1> DEFINE n == Len(u)
  <1>1. n \in Nat /\ DOMAIN u = 1..n
    BY DEF Text
  <1>2. CASE \A i \in DOMAIN u : u[i] # Point
    <2>1. FirstPoint(u) = 0 /\ PointAt(u) = n + 1
      BY <1>2, FirstPointIs DEF PointAt
    <2>2. u \in Seq(Digit)
      <3>1. \A i \in 1..n : u[i] \in Digit
        BY <1>1, <1>2 DEF AlmostDigits
      <3> QED
        BY <1>1, <3>1 DEF Text
    <2>3. Whole(u) = SubSeq(u, 1, n)
      BY <1>1, <2>1 DEF Whole
    <2>4. Whole(u) = u
      BY <2>2, <2>3, SubSeqFull
    <2>5. Rest(u) = << >>
      BY <1>1, <2>1, SubSeqEmpty DEF Rest
    <2> QED
      BY <2>1, <2>2, <2>4, <2>5 DEF IntPart, FracPart
  <1>3. CASE \E i \in DOMAIN u : u[i] = Point
    <2>1. PICK p \in 1..n : u[p] = Point
      BY <1>1, <1>3
    <2>2. \A i \in DOMAIN u : (u[i] = Point <=> i = p) /\ (i # p => u[i] \in Digit)
      BY <1>1, <2>1, PointIsNoDigit DEF AlmostDigits
    <2>3. FirstPoint(u) = p
      BY <1>1, <2>2, FirstPointIs
    <2>4. PointAt(u) = p
      BY <1>3, <2>2 DEF PointAt
    <2>5. SubSeq(u, 1, p - 1) \in Seq(Digit) /\ SubSeq(u, p + 1, n) \in Seq(Digit)
      <3>1. \A i \in 1..(p - 1) : u[i] \in Digit
        BY <1>1, <2>2
      <3>2. \A i \in (p + 1)..n : u[i] \in Digit
        BY <1>1, <2>2
      <3> QED
        BY <1>1, <3>1, <3>2, SubSeqProperties
    <2> QED
      BY <2>3, <2>4, <2>5 DEF IntPart, FracPart, Whole, Rest
  <1> QED
    BY <1>2, <1>3

-----------------------------------------------------------------------------
(* Digits after the point cut off or filled up.                              *)
Cut(r, decimals) == [i \in 1..decimals |-> IF i <= Len(r) THEN r[i] ELSE 0]

LEMMA CutDigits ==
  ASSUME NEW r \in Seq(Digit), NEW decimals \in Nat
  PROVE  /\ Cut(r, decimals) \in Seq(Digit) /\ Len(Cut(r, decimals)) = decimals
         /\ \A i \in 1..decimals : Cut(r, decimals)[i] = IF i <= Len(r) THEN r[i] ELSE 0
  <1>1. \A i \in 1..decimals : (IF i <= Len(r) THEN r[i] ELSE 0) \in Digit
    BY DEF Digit
  <1>2. Cut(r, decimals) \in [1..decimals -> Digit]
    BY <1>1 DEF Cut
  <1>3. \A i \in 1..decimals : Cut(r, decimals)[i] = IF i <= Len(r) THEN r[i] ELSE 0
    BY Zenon DEF Cut
  <1> QED
    BY <1>2, <1>3

(* m is n / p, in units of 1 / d, cut off.                                   *)
CutsTo(m, n, p, d) == m * p <= n * d /\ n * d < (m + 1) * p

LEMMA FilledUp ==
  ASSUME NEW w \in Int, NEW r \in Int, NEW e \in Int, NEW p \in Int, p > 0
  PROVE  CutsTo(w * (p * e) + r * e, w * p + r, p, p * e)
  <1> DEFINE m == w * (p * e) + r * e
  <1>1. m * p = (w * p + r) * (p * e)
    BY Z3
  <1>2. m \in Int /\ m * p \in Int /\ (m + 1) * p = m * p + p
    BY Z3
  <1> HIDE DEF m
  <1> QED
    BY <1>1, <1>2 DEF CutsTo, m

LEMMA Dropped ==
  ASSUME NEW w \in Int, NEW f \in Int, NEW e \in Int, NEW t \in 0..(e - 1), NEW d \in Int, d > 0
  PROVE  CutsTo(w * d + f, w * (d * e) + (f * e + t), d * e, d)
  <1> DEFINE m == w * d + f
  <1>1. (w * (d * e) + (f * e + t)) * d = m * (d * e) + t * d
    BY Z3
  <1>2. m \in Int /\ m * (d * e) \in Int /\ (m + 1) * (d * e) = m * (d * e) + d * e
    BY Z3
  <1>3. t * d >= 0 /\ t * d < d * e /\ t * d \in Int /\ d * e \in Int
    BY Z3
  <1> HIDE DEF m
  <1> QED
    BY <1>1, <1>2, <1>3 DEF CutsTo, m

IsBeside(c, a, b) ==
  /\ c \in Seq(Digit) /\ Len(c) = Len(a) + Len(b)
  /\ \A i \in 1..Len(a) : c[i] = a[i]
  /\ \A i \in 1..Len(b) : c[Len(a) + i] = b[i]

LEMMA Beside == ASSUME NEW a \in Seq(Digit), NEW b \in Seq(Digit) PROVE IsBeside(a \o b, a, b)
  BY DEF IsBeside

LEMMA SameText ==
  ASSUME NEW S, NEW a \in Seq(S), NEW b \in Seq(S), Len(a) = Len(b),
         \A i \in 1..Len(a) : a[i] = b[i]
  PROVE  a = b
  BY SeqEqual

LEMMA DigitsCut ==
  ASSUME NEW w \in Seq(Digit), NEW r \in Seq(Digit), NEW decimals \in Nat
  PROVE  CutsTo(NumberOf(w \o Cut(r, decimals)), NumberOf(w \o r),
                Power(10, Len(r)), Power(10, decimals))
  <1> DEFINE k == Len(r)
             f == Cut(r, decimals)
  <1>1. k \in Nat /\ f \in Seq(Digit) /\ Len(f) = decimals
    <2>1. k \in Nat
      OBVIOUS
    <2> HIDE DEF k
    <2> QED
      BY <2>1, CutDigits, Zenon
  <1>2. \A i \in 1..decimals : f[i] = IF i <= k THEN r[i] ELSE 0
    BY CutDigits, Zenon
  <1>3. /\ NumberOf(w \o f) = NumberOf(w) * Power(10, decimals) + NumberOf(f)
        /\ NumberOf(w \o r) = NumberOf(w) * Power(10, k) + NumberOf(r)
        /\ NumberOf(w) \in Int /\ NumberOf(f) \in Int /\ NumberOf(r) \in Int
    <2>1. /\ NumberOf(w) \in Nat /\ NumberOf(f) \in Nat /\ NumberOf(r) \in Nat
      BY <1>1, NumberBounds
    <2>2. NumberOf(w \o f) = NumberOf(w) * Power(10, decimals) + NumberOf(f)
      BY <1>1, NumberBeside
    <2>3. NumberOf(w \o r) = NumberOf(w) * Power(10, k) + NumberOf(r)
      BY NumberBeside
    <2> QED
      BY <2>1, <2>2, <2>3
  <1> HIDE DEF f, k
  <1>4. CASE k <= decimals
    <2>1. PICK z \in Nat : z = decimals - k /\ decimals = k + z
      BY <1>1, <1>4
    <2> DEFINE zeros == [i \in 1..z |-> 0]
    <2>2. zeros \in Seq(Digit) /\ Len(zeros) = z /\ \A i \in 1..z : zeros[i] = 0
      BY DEF Digit
    <2> HIDE DEF zeros
    <2>3. f = r \o zeros
      <3> DEFINE c == r \o zeros
      <3>1. /\ c \in Seq(Digit) /\ Len(c) = decimals
            /\ \A i \in 1..k : c[i] = r[i]
            /\ \A i \in 1..z : c[k + i] = 0
        <4>1. k = Len(r)
          BY DEF k
        <4>3. IsBeside(c, r, zeros)
          BY <2>2, Beside
        <4> HIDE DEF c
        <4>2. /\ c \in Seq(Digit) /\ Len(c) = k + z
              /\ \A i \in 1..k : c[i] = r[i]
              /\ \A i \in 1..z : c[k + i] = zeros[i]
          BY <2>2, <4>1, <4>3 DEF IsBeside
        <4> HIDE DEF c
        <4> QED
          BY <2>1, <2>2, <4>2
      <3> HIDE DEF c
      <3>2. ASSUME NEW i \in 1..decimals PROVE f[i] = c[i]
        <4>1. CASE i <= k
          BY <1>1, <1>2, <3>1, <4>1
        <4>2. CASE i > k
          <5>1. i - k \in 1..z /\ k + (i - k) = i /\ ~(i <= k)
            BY <1>1, <2>1, <4>2
          <5>2. c[i] = 0
            BY <3>1, <5>1
          <5> QED
            BY <1>2, <5>1, <5>2
        <4> QED
          BY <1>1, <4>1, <4>2
      <3>3. f = c
        BY <1>1, <3>1, <3>2, SameText
      <3> QED
        BY <3>3 DEF c
    <2>4. NumberOf(f) = NumberOf(r) * Power(10, z) + 0
      BY <2>2, <2>3, NumberBeside, NumberOfZeros
    <2>5. Power(10, decimals) = Power(10, k) * Power(10, z)
      BY <1>1, <2>1, TenPowerAdd
    <2>6. PICK e \in Int, p \in Int, a \in Int, b \in Int :
            e = Power(10, z) /\ p = Power(10, k) /\ p > 0 /\ a = NumberOf(w) /\ b = NumberOf(r)
      <3>1. Power(10, z) \in Nat \ {0} /\ Power(10, k) \in Nat \ {0}
        BY <1>1, TenPower
      <3> QED
        BY <1>3, <3>1
    <2>7. NumberOf(w \o f) = a * (p * e) + b * e
      <3>1. b * e \in Int /\ b * e + 0 = b * e
        OBVIOUS
      <3> QED
        BY <1>3, <2>4, <2>5, <2>6, <3>1
    <2>8. CutsTo(a * (p * e) + b * e, a * p + b, p, p * e)
      BY <2>6, FilledUp
    <2> QED
      BY <1>3, <2>5, <2>6, <2>7, <2>8 DEF k, f
  <1>5. CASE k > decimals
    <2>1. PICK z \in Nat : z = k - decimals /\ k = decimals + z
      BY <1>1, <1>5
    <2> DEFINE tail == SubSeq(r, decimals + 1, k)
    <2>2. tail \in Seq(Digit) /\ Len(tail) = z /\ \A i \in 1..z : tail[i] = r[decimals + i]
      <3>1. \A i \in (decimals + 1)..k : r[i] \in Digit
        BY DEF k
      <3>2. k - (decimals + 1) + 1 = z /\ decimals + 1 <= k /\ k \in Int /\ decimals + 1 \in Int
        BY <1>1, <1>5, <2>1
      <3>3. /\ tail \in Seq(Digit)
            /\ Len(tail) = k - (decimals + 1) + 1
            /\ \A i \in 1..(k - (decimals + 1) + 1) : tail[i] = r[(decimals + 1) + i - 1]
        BY <3>1, <3>2, SubSeqProperties
      <3>4. \A i \in 1..z : (decimals + 1) + i - 1 = decimals + i
        OBVIOUS
      <3> QED
        BY <3>2, <3>3, <3>4
    <2> HIDE DEF tail
    <2>3. r = f \o tail
      <3> DEFINE c == f \o tail
      <3>1. /\ c \in Seq(Digit) /\ Len(c) = k
            /\ \A i \in 1..decimals : c[i] = f[i]
            /\ \A i \in 1..z : c[decimals + i] = tail[i]
        <4>2. IsBeside(c, f, tail)
          BY <1>1, <2>2, Beside
        <4> HIDE DEF c
        <4>1. /\ c \in Seq(Digit) /\ Len(c) = decimals + z
              /\ \A i \in 1..decimals : c[i] = f[i]
              /\ \A i \in 1..z : c[decimals + i] = tail[i]
          BY <1>1, <2>2, <4>2 DEF IsBeside
        <4> QED
          BY <2>1, <4>1
      <3> HIDE DEF c
      <3>2. ASSUME NEW i \in 1..k PROVE r[i] = c[i]
        <4>1. CASE i <= decimals
          <5>1. i \in 1..decimals /\ i <= k
            BY <4>1
          <5> QED
            BY <1>2, <3>1, <5>1
        <4>2. CASE i > decimals
          <5>1. i - decimals \in 1..z /\ decimals + (i - decimals) = i
            BY <1>1, <2>1, <4>2
          <5> QED
            BY <2>2, <3>1, <5>1
        <4> QED
          BY <1>1, <4>1, <4>2
      <3>3. k = Len(r)
        BY DEF k
      <3>4. r = c
        BY <1>1, <3>1, <3>2, <3>3, SameText
      <3> QED
        BY <3>4 DEF c
    <2>4. NumberOf(r) = NumberOf(f) * Power(10, z) + NumberOf(tail)
      BY <1>1, <2>2, <2>3, NumberBeside
    <2>5. Power(10, k) = Power(10, decimals) * Power(10, z)
      BY <2>1, TenPowerAdd
    <2>6. PICK e \in Int, d \in Int, a \in Int, b \in Int :
            e = Power(10, z) /\ d = Power(10, decimals) /\ d > 0 /\ a = NumberOf(w) /\ b = NumberOf(f)
      <3>1. Power(10, z) \in Nat \ {0} /\ Power(10, decimals) \in Nat \ {0}
        BY TenPower
      <3> QED
        BY <1>3, <3>1
    <2>7. PICK t \in 0..(e - 1) : t = NumberOf(tail)
      BY <2>2, <2>6, NumberBounds
    <2>8. CutsTo(a * d + b, a * (d * e) + (b * e + t), d * e, d)
      BY <2>6, Dropped
    <2> QED
      BY <1>3, <2>4, <2>5, <2>6, <2>7, <2>8 DEF k, f
  <1> QED
    BY <1>1, <1>4, <1>5

-----------------------------------------------------------------------------
(* A text read.                                                              *)
Signed(s, n) == IF Head(s) = Minus THEN -n ELSE n

(* Parse of a decimal that fits: the number it denotes, cut off.             *)
ParsedAs(s, decimals, m, n, p) ==
  /\ Parse(s, decimals) = [ok |-> TRUE, value |-> Signed(s, m)]
  /\ Denoted(s) = [num |-> Signed(s, n), den |-> p]
  /\ CutsTo(m, n, p, Power(10, decimals))

LEMMA MagnitudeOf ==
  ASSUME NEW s, NEW n \in Nat, NEW p
  PROVE  Magnitude([num |-> Signed(s, n), den |-> p]) = [num |-> n, den |-> p]
  BY DEF Magnitude, Signed

LEMMA UnsignedText == ASSUME NEW s \in Text PROVE Unsigned(s) \in Text
  BY DEF Unsigned, Text

LEMMA FactorFits ==
  ASSUME NEW m \in Int, NEW n \in Int, NEW p \in Int, p > 0, NEW x \in Int, m * p <= x, x <= n * p
  PROVE  m <= n
  <1>1. m * p <= n * p
    <2>1. m * p \in Int /\ n * p \in Int
      OBVIOUS
    <2> QED
      BY <2>1
  <1> QED
    BY <1>1, Z3

LEMMA ParseCuts ==
  ASSUME NEW s \in Text, NEW decimals \in Nat \ {0}, Representable(s, decimals)
  PROVE  \E m \in 0..MaxInt, n \in Nat, p \in Nat \ {0} : ParsedAs(s, decimals, m, n, p)
  <1> DEFINE u == Unsigned(s)
             w == Whole(u)
             r == Rest(u)
             digits == w \o Cut(r, decimals)
             m == NumberOf(digits)
             n == NumberOf(w \o r)
             p == Power(10, Len(r))
             d == Power(10, decimals)
  <1>1. u \in Text /\ AlmostDigits(u)
    BY UnsignedText DEF Representable, IsDecimal, AlmostDigits
  <1>2. s # << >>
    <2> SUFFICES ASSUME s = << >> PROVE FALSE
      OBVIOUS
    <2>1. Unsigned(s) = << >>
      BY DEF Unsigned
    <2>2. DOMAIN Unsigned(s) = {}
      BY <2>1
    <2> QED
      BY <2>2 DEF Representable, IsDecimal
  <1>3. IntPart(u) = w /\ FracPart(u) = r /\ w \in Seq(Digit) /\ r \in Seq(Digit)
    BY <1>1, PartsOfText
  <1>4. AtScale(u, decimals) = digits
    BY <1>3 DEF AtScale, Cut
  <1>5. Cut(r, decimals) \in Seq(Digit) /\ Len(Cut(r, decimals)) = decimals /\ decimals \in Nat
    BY <1>3, CutDigits
  <1>6. digits \in Seq(Digit) /\ digits # << >> /\ w \o r \in Seq(Digit)
    <2> HIDE DEF w, r
    <2>1. IsBeside(digits, w, Cut(r, decimals)) /\ IsBeside(w \o r, w, r)
      BY <1>3, <1>5, Beside
    <2>2. Len(w) \in Nat /\ Len(digits) = Len(w) + decimals
      BY <1>3, <1>5, <2>1 DEF IsBeside
    <2> HIDE DEF digits
    <2>3. digits # << >>
      BY <2>2
    <2> QED
      BY <2>1, <2>3 DEF IsBeside
  <1>7. m \in Nat /\ n \in Nat /\ p \in Nat \ {0} /\ d \in Nat \ {0}
    <2>1. Len(r) \in Nat
      BY <1>3
    <2> HIDE DEF w, r
    <2>2. m \in Nat /\ n \in Nat
      BY <1>6, NumberBounds
    <2> QED
      BY <1>5, <2>1, <2>2, TenPower
  <1>8. CutsTo(m, n, p, d)
    <2> HIDE DEF w, r
    <2> QED
      BY <1>3, <1>5, DigitsCut
  <1>9. Denoted(s) = [num |-> Signed(s, n), den |-> p]
    BY DEF Denoted, Signed
  <1> HIDE DEF u, w, r, digits, n, p
  <1>10. n * d <= MaxInt * p
    <2>1. Leq(Magnitude([num |-> Signed(s, n), den |-> p]), [num |-> MaxInt, den |-> d])
      BY <1>9 DEF Representable, Units
    <2>2. Magnitude([num |-> Signed(s, n), den |-> p]) = [num |-> n, den |-> p]
      BY <1>7, MagnitudeOf
    <2> QED
      BY <2>1, <2>2 DEF Leq
  <1>11. m \in 0..MaxInt
    <2>1. m * p <= n * d /\ n * d \in Int /\ MaxInt \in Int
      BY <1>7, <1>8, FillAssumption DEF CutsTo
    <2> HIDE DEF m, d
    <2>2. m <= MaxInt
      BY <1>7, <1>10, <2>1, FactorFits
    <2> QED
      BY <1>7, <2>1, <2>2
  <1>12. ReadDigits(digits) = m
    BY <1>6, <1>11, ReadingIsNumber
  <1>13. Parse(s, decimals) = [ok |-> TRUE, value |-> Signed(s, m)]
    <2>1. \A i \in DOMAIN digits : digits[i] \in Digit
      BY <1>6
    <2>2. Wrap(-m) = -m
      BY <1>11, FillAssumption, WrapSmall
    <2>3. AtScale(Unsigned(s), decimals) = digits
      BY <1>4 DEF u
    <2> HIDE DEF m
    <2> QED
      BY <1>2, <1>6, <1>12, <2>1, <2>2, <2>3 DEF Parse, Signed
  <1> QED
    BY <1>7, <1>8, <1>9, <1>11, <1>13 DEF ParsedAs

(* A cut towards zero, whatever the sign.                                    *)
LEMMA CutIsCutOff ==
  ASSUME NEW s \in Text, NEW decimals \in Nat \ {0}, NEW m \in Nat, NEW n \in Nat,
         NEW p \in Nat \ {0}, ParsedAs(s, decimals, m, n, p)
  PROVE  Parse(s, decimals).ok /\ CutOff(Parse(s, decimals).value, s, decimals)
  <1> DEFINE d == Power(10, decimals)
  <1>1. /\ Parse(s, decimals) = [ok |-> TRUE, value |-> Signed(s, m)]
        /\ Denoted(s) = [num |-> Signed(s, n), den |-> p]
        /\ m * p <= n * d /\ n * d < (m + 1) * p
    BY DEF ParsedAs, CutsTo
  <1>2. /\ Magnitude(Denoted(s)) = [num |-> n, den |-> p]
        /\ Magnitude(Units(Signed(s, m), decimals)) = [num |-> m, den |-> d]
    <2>1. Units(Signed(s, m), decimals) = [num |-> Signed(s, m), den |-> d]
      BY DEF Units
    <2> HIDE DEF d
    <2> QED
      BY <1>1, <2>1, MagnitudeOf
  <1>3. Signed(s, m) * Signed(s, n) >= 0
    <2>1. m * n >= 0 /\ (-m) * (-n) = m * n
      BY Z3
    <2> QED
      BY <2>1 DEF Signed
  <1> HIDE DEF d
  <1> QED
    BY <1>1, <1>2, <1>3 DEF CutOff, Leq, Lt, Units, d

-----------------------------------------------------------------------------
(* Digits, a point and digits.                                               *)
Decimals(w, r) == w \o <<Point>> \o r

LEMMA DecimalsAre ==
  ASSUME NEW w \in Seq(Digit), NEW r \in Seq(Digit)
  PROVE  LET t == Decimals(w, r)
         IN  /\ t \in Text /\ Len(t) = Len(w) + 1 + Len(r)
             /\ \A i \in 1..Len(w) : t[i] = w[i] /\ t[i] \in Digit
             /\ t[Len(w) + 1] = Point
             /\ \A i \in 1..Len(r) : t[Len(w) + 1 + i] = r[i] /\ r[i] \in Digit
  <1>1. w \in Text /\ r \in Text /\ <<Point>> \in Text
    BY DEF Text
  <1>2. \A a, b \in Text : a \o b \in Text
    BY DEF Text
  <1>3. Decimals(w, r) \in Text
    BY <1>1, <1>2 DEF Decimals
  <1>4. /\ Len(Decimals(w, r)) = Len(w) + 1 + Len(r)
        /\ \A i \in 1..Len(w) : Decimals(w, r)[i] = w[i]
        /\ Decimals(w, r)[Len(w) + 1] = Point
        /\ \A i \in 1..Len(r) : Decimals(w, r)[Len(w) + 1 + i] = r[i]
    BY DEF Decimals
  <1>5. (\A i \in 1..Len(w) : w[i] \in Digit) /\ (\A i \in 1..Len(r) : r[i] \in Digit)
    OBVIOUS
  <1> QED
    BY <1>3, <1>4, <1>5

LEMMA DecimalsDenote ==
  ASSUME NEW w \in Seq(Digit), NEW r \in Seq(Digit), w # << >>
  PROVE  LET t == Decimals(w, r)
         IN  /\ t \in Text /\ t # << >> /\ Head(t) # Minus /\ IsDecimal(t)
             /\ Denoted(t) = [num |-> NumberOf(w \o r), den |-> Power(10, Len(r))]
  <1> DEFINE t == Decimals(w, r)
             a == Len(w)
             b == Len(r)
  <1>1. a \in Nat \ {0} /\ b \in Nat
    OBVIOUS
  <1>2. /\ t \in Text /\ Len(t) = a + 1 + b
        /\ \A i \in 1..a : t[i] = w[i] /\ t[i] \in Digit
        /\ t[a + 1] = Point
        /\ \A i \in 1..b : t[a + 1 + i] = r[i] /\ r[i] \in Digit
    BY DecimalsAre
  <1> HIDE DEF t
  <1>3. DOMAIN t = 1..(a + 1 + b) /\ t # << >> /\ t \in Seq(Digit \cup {Minus, Point, Letter})
    BY <1>1, <1>2 DEF Text
  <1>4. ASSUME NEW i \in DOMAIN t PROVE t[i] \in Digit <=> i # a + 1
    <2>1. CASE i <= a
      BY <1>1, <1>2, <1>3, <2>1
    <2>2. CASE i = a + 1
      BY <1>2, <2>2, PointIsNoDigit
    <2>3. CASE i > a + 1
      <3>1. i - (a + 1) \in 1..b /\ a + 1 + (i - (a + 1)) = i
        BY <1>1, <1>3, <2>3
      <3>2. t[i] \in Digit
        BY <1>2, <3>1
      <3> QED
        BY <1>1, <1>3, <2>3, <3>2
    <2> QED
      BY <1>1, <1>3, <2>1, <2>2, <2>3
  <1>5. Head(t) \in Digit
    <2>1. Head(t) = t[1] /\ 1 \in 1..a
      BY <1>1, <1>3
    <2> QED
      BY <1>2, <2>1
  <1>6. Head(t) # Minus /\ Unsigned(t) = t
    BY <1>5, PointIsNoDigit DEF Unsigned
  <1>7. PointAt(t) = a + 1
    <2>1. \A i \in DOMAIN t : t[i] = Point <=> i = a + 1
      BY <1>2, <1>4, PointIsNoDigit
    <2>2. a + 1 \in DOMAIN t
      BY <1>1, <1>3
    <2> QED
      BY <1>2, <2>1, <2>2 DEF PointAt
  <1>8. Whole(t) = w
    <2>1. Whole(t) = SubSeq(t, 1, a)
      BY <1>1, <1>7 DEF Whole
    <2>2. \A i \in 1..a : t[i] \in Digit
      BY <1>2
    <2>3. /\ SubSeq(t, 1, a) \in Seq(Digit) /\ Len(SubSeq(t, 1, a)) = a
          /\ \A i \in 1..a : SubSeq(t, 1, a)[i] = t[i]
      <3>1. 1 \in Int /\ a \in Int /\ 1 <= a /\ a - 1 + 1 = a /\ \A i \in 1..a : 1 + i - 1 = i
        BY <1>1
      <3> HIDE DEF a
      <3> QED
        BY <2>2, <3>1, SubSeqProperties
    <2>4. SubSeq(t, 1, a) = w
      <3>1. a = Len(w)
        OBVIOUS
      <3> HIDE DEF a
      <3> QED
        BY <1>2, <2>3, <3>1, SameText
    <2> QED
      BY <2>1, <2>4
  <1>9. Rest(t) = r
    <2>1. Rest(t) = SubSeq(t, a + 2, a + 1 + b)
      <3>1. a + 1 + 1 = a + 2
        BY <1>1
      <3> QED
        BY <1>2, <1>7, <3>1 DEF Rest
    <2>2. \A i \in (a + 2)..(a + 1 + b) : t[i] \in Digit
      <3> HIDE DEF a, b
      <3>1. \A i \in (a + 2)..(a + 1 + b) : i \in 1..(a + 1 + b) /\ i # a + 1
        BY <1>1
      <3> QED
        BY <1>3, <1>4, <3>1
    <2>3. /\ SubSeq(t, a + 2, a + 1 + b) \in Seq(Digit) /\ Len(SubSeq(t, a + 2, a + 1 + b)) = b
          /\ \A i \in 1..b : SubSeq(t, a + 2, a + 1 + b)[i] = t[a + 1 + i]
      <3>1. /\ a + 2 \in Int /\ a + 1 + b \in Int
            /\ (a + 1 + b) - (a + 2) + 1 = b
            /\ \A i \in 1..b : (a + 2) + i - 1 = a + 1 + i
            /\ (IF a + 2 <= a + 1 + b THEN (a + 1 + b) - (a + 2) + 1 ELSE 0) = b
        BY <1>1
      <3>2. PICK x \in Int, y \in Int : x = a + 2 /\ y = a + 1 + b
        BY <3>1
      <3>3. /\ SubSeq(t, x, y) \in Seq(Digit)
            /\ Len(SubSeq(t, x, y)) = IF x <= y THEN y - x + 1 ELSE 0
            /\ \A i \in 1..(y - x + 1) : SubSeq(t, x, y)[i] = t[x + i - 1]
        BY <2>2, <3>2, SubSeqProperties
      <3> HIDE DEF a, b
      <3> QED
        BY <3>1, <3>2, <3>3
    <2>4. SubSeq(t, a + 2, a + 1 + b) = r
      <3>1. b = Len(r)
        OBVIOUS
      <3> HIDE DEF a, b
      <3> QED
        BY <1>2, <2>3, <3>1, SameText
    <2> QED
      BY <2>1, <2>4
  <1>10. IsDecimal(t)
    <2> DEFINE marks == {i \in DOMAIN t : t[i] \notin Digit}
    <2>1. marks = {a + 1} /\ 1 \in DOMAIN t /\ 1 # a + 1
      BY <1>1, <1>3, <1>4
    <2>2. marks # DOMAIN t /\ \A i, j \in marks : t[i] = Point /\ i = j
      BY <1>2, <2>1
    <2> QED
      BY <1>6, <2>2 DEF IsDecimal
  <1>11. Denoted(t) = [num |-> NumberOf(w \o r), den |-> Power(10, b)]
    BY <1>6, <1>8, <1>9 DEF Denoted
  <1> QED
    BY <1>2, <1>3, <1>6, <1>10, <1>11 DEF t

(* What Format writes.                                                       *)
LEMMA Padded ==
  ASSUME NEW s \in Seq(Digit), NEW n \in Nat
  PROVE  /\ PadTo(s, n) \in Seq(Digit) /\ Len(PadTo(s, n)) \in Nat /\ Len(PadTo(s, n)) >= n
         /\ NumberOf(PadTo(s, n)) = NumberOf(s)
  <1> DEFINE zeros == [i \in 1..(n - Len(s)) |-> 0]
  <1>1. PICK z \in Nat : /\ z = (IF n >= Len(s) THEN n - Len(s) ELSE 0)
                         /\ 1..(n - Len(s)) = 1..z
    <2>1. CASE n >= Len(s)
      BY <2>1
    <2>2. CASE ~(n >= Len(s))
      <3>1. 1..(n - Len(s)) = 1..0
        BY <2>2
      <3> QED
        BY <2>2, <3>1
    <2> QED
      BY <2>1, <2>2
  <1>2. zeros = [i \in 1..z |-> 0]
    BY <1>1
  <1> HIDE DEF zeros
  <1>3. zeros \in Seq(Digit) /\ \A i \in 1..Len(zeros) : zeros[i] = 0
    BY <1>2 DEF Digit
  <1>4. Len(zeros) = (IF n >= Len(s) THEN n - Len(s) ELSE 0)
    BY <1>1, <1>2
  <1>5. PadTo(s, n) = zeros \o s
    BY DEF PadTo, zeros
  <1>6. IsBeside(zeros \o s, zeros, s)
    BY <1>3, Beside
  <1>7. zeros \o s \in Seq(Digit) /\ Len(zeros \o s) = Len(zeros) + Len(s)
    BY <1>6 DEF IsBeside
  <1>8. Len(PadTo(s, n)) \in Nat /\ Len(PadTo(s, n)) >= n
    <2>1. Len(s) \in Nat /\ Len(zeros) \in Nat
      BY <1>3
    <2> QED
      BY <1>4, <1>5, <1>7, <2>1
  <1>9. NumberOf(zeros \o s) = NumberOf(zeros) * Power(10, Len(s)) + NumberOf(s)
    BY <1>3, NumberBeside
  <1>10. NumberOf(zeros \o s) = NumberOf(s)
    <2>1. NumberOf(zeros) = 0
      BY <1>3, NumberOfZeros
    <2>2. Power(10, Len(s)) \in Int /\ NumberOf(s) \in Int
      BY TenPower, NumberBounds
    <2>3. \A x, y \in Int : 0 * x + y = y
      OBVIOUS
    <2> QED
      BY <1>9, <2>1, <2>2, <2>3
  <1> QED
    BY <1>5, <1>7, <1>8, <1>10

LEMMA FormatWrites ==
  ASSUME NEW v \in 1..MaxInt, NEW decimals \in Nat \ {0}
  PROVE  \E w, r \in Seq(Digit) :
           /\ w # << >> /\ Len(r) = decimals /\ NumberOf(w \o r) = v
           /\ Format(v, decimals) = Decimals(w, r)
  <1> DEFINE s == PadTo(Decimal(v), decimals + 1)
             n == Len(s)
             k == n - decimals
             w == SubSeq(s, 1, k)
             r == SubSeq(s, k + 1, n)
  <1>1. v \in Nat /\ ~(v < 0) /\ decimals \in Nat
    BY FillAssumption
  <1>2. Decimal(v) = DigitsOf(v)
    BY <1>1 DEF Decimal
  <1>3. s \in Seq(Digit) /\ n \in Nat /\ n >= decimals + 1 /\ NumberOf(s) = v
    <2>1. DigitsOf(v) \in Seq(Digit) /\ NumberOf(DigitsOf(v)) = v
      BY <1>1, DigitsOfNumber
    <2>2. PICK m \in Nat : m = decimals + 1
      BY <1>1
    <2>3. s = PadTo(DigitsOf(v), m)
      BY <1>2, <2>2
    <2> HIDE DEF s
    <2> QED
      BY <2>1, <2>2, <2>3, Padded
  <1>4. Format(v, decimals) = << >> \o w \o <<Point>> \o r
    BY <1>1 DEF Format
  <1> HIDE DEF s
  <1>5. k \in Nat \ {0} /\ k <= n /\ n - k = decimals
    BY <1>1, <1>3
  <1> HIDE DEF k
  <1>6. w \in Seq(Digit) /\ Len(w) = k /\ \A i \in 1..k : w[i] = s[i]
    <2>1. \A i \in 1..k : s[i] \in Digit
      BY <1>3, <1>5
    <2>2. 1 \in Int /\ k \in Int /\ 1 <= k /\ k - 1 + 1 = k /\ \A i \in 1..k : 1 + i - 1 = i
      BY <1>5
    <2> QED
      BY <2>1, <2>2, SubSeqProperties
  <1>7. r \in Seq(Digit) /\ Len(r) = decimals /\ \A i \in 1..decimals : r[i] = s[k + i]
    <2>1. \A i \in (k + 1)..n : s[i] \in Digit
      BY <1>3, <1>5
    <2>2. PICK x \in Int, y \in Int : x = k + 1 /\ y = n
      BY <1>3, <1>5
    <2>3. /\ SubSeq(s, x, y) \in Seq(Digit)
          /\ Len(SubSeq(s, x, y)) = IF x <= y THEN y - x + 1 ELSE 0
          /\ \A i \in 1..(y - x + 1) : SubSeq(s, x, y)[i] = s[x + i - 1]
      BY <2>1, <2>2, SubSeqProperties
    <2>4. x <= y /\ y - x + 1 = decimals /\ \A i \in 1..decimals : x + i - 1 = k + i
      BY <1>1, <1>3, <1>5, <2>2
    <2> HIDE DEF n
    <2> QED
      BY <2>2, <2>3, <2>4
  <1> HIDE DEF w, r
  <1>8. w \o r = s
    <2>1. IsBeside(w \o r, w, r)
      BY <1>6, <1>7, Beside
    <2> DEFINE c == w \o r
    <2>2. /\ c \in Seq(Digit) /\ Len(c) = k + decimals
          /\ \A i \in 1..k : c[i] = w[i]
          /\ \A i \in 1..decimals : c[k + i] = r[i]
      BY <1>6, <1>7, <2>1 DEF IsBeside
    <2> HIDE DEF c
    <2>3. Len(c) = n
      BY <1>1, <1>3, <1>5, <2>2
    <2>4. ASSUME NEW i \in 1..n PROVE c[i] = s[i]
      <3>1. CASE i <= k
        BY <1>5, <1>6, <2>2, <3>1
      <3>2. CASE i > k
        <4>1. i - k \in 1..decimals /\ k + (i - k) = i
          BY <1>1, <1>3, <1>5, <3>2
        <4> QED
          BY <1>7, <2>2, <4>1
      <3> QED
        BY <1>3, <1>5, <3>1, <3>2
    <2>5. c = s
      BY <1>3, <2>2, <2>3, <2>4, SameText
    <2> QED
      BY <2>5 DEF c
  <1>9. w # << >>
    BY <1>5, <1>6
  <1>10. Format(v, decimals) = Decimals(w, r)
    <2>1. << >> \o w = w
      BY <1>6
    <2> QED
      BY <1>4, <2>1 DEF Decimals
  <1> QED
    BY <1>3, <1>6, <1>7, <1>8, <1>9, <1>10

-----------------------------------------------------------------------------
(* A number written, and read again.                                         *)
LEMMA FormatDenotes ==
  ASSUME NEW v \in 1..MaxInt, NEW decimals \in Nat \ {0}
  PROVE  LET t == Format(v, decimals)
         IN  /\ t \in Text /\ t # << >> /\ IsDecimal(t)
             /\ Denoted(t) = [num |-> v, den |-> Power(10, decimals)]
  <1>1. PICK w, r \in Seq(Digit) :
          /\ w # << >> /\ Len(r) = decimals /\ NumberOf(w \o r) = v
          /\ Format(v, decimals) = Decimals(w, r)
    BY FormatWrites
  <1>2. LET t == Decimals(w, r)
        IN  /\ t \in Text /\ t # << >> /\ Head(t) # Minus /\ IsDecimal(t)
            /\ Denoted(t) = [num |-> NumberOf(w \o r), den |-> Power(10, Len(r))]
    BY <1>1, DecimalsDenote
  <1> QED
    BY <1>1, <1>2

(* A text that denotes v units is read as v.                                 *)
LEMMA CutOfExact ==
  ASSUME NEW m \in Int, NEW v \in Int, NEW p \in Int, p > 0, m * p <= v * p, v * p < (m + 1) * p
  PROVE  m = v
  <1>1. m <= v
    BY Z3
  <1>2. v < m + 1
    BY Z3
  <1> QED
    BY <1>1, <1>2

LEMMA ReadExactly ==
  ASSUME NEW t \in Text, NEW decimals \in Nat \ {0}, NEW v \in 1..MaxInt, NEW n \in Nat,
         NEW p \in Nat \ {0}, IsDecimal(t), Head(t) # Minus, Denoted(t) = [num |-> n, den |-> p],
         n * Power(10, decimals) = v * p
  PROVE  Parse(t, decimals) = [ok |-> TRUE, value |-> v]
  <1>1. Representable(t, decimals)
    <2>1. n * Power(10, decimals) <= MaxInt * p
      <3>1. v * p <= MaxInt * p
        BY FillAssumption, Z3
      <3> QED
        BY <3>1
    <2>2. Magnitude(Denoted(t)) = [num |-> n, den |-> p]
      BY DEF Magnitude
    <2> QED
      BY <2>1, <2>2 DEF Representable, Leq, Units
  <1>2. PICK m \in 0..MaxInt, k \in Nat, q \in Nat \ {0} : ParsedAs(t, decimals, m, k, q)
    BY <1>1, ParseCuts
  <1>3. /\ Parse(t, decimals) = [ok |-> TRUE, value |-> m]
        /\ [num |-> n, den |-> p] = [num |-> k, den |-> q]
        /\ m * q <= k * Power(10, decimals) /\ k * Power(10, decimals) < (m + 1) * q
    BY <1>2 DEF ParsedAs, CutsTo, Signed
  <1>4. n = k /\ p = q
    BY <1>3
  <1>5. m = v
    <2>1. m * p <= v * p /\ v * p < (m + 1) * p
      BY <1>3, <1>4
    <2>2. m \in Int /\ v \in Int /\ p \in Int /\ p > 0
      BY FillAssumption
    <2> QED
      BY <2>1, <2>2, CutOfExact
  <1> QED
    BY <1>3, <1>5

LEMMA AppendBeside ==
  ASSUME NEW S, NEW a \in Seq(S), NEW b \in Seq(S), NEW e \in S
  PROVE  Append(a \o b, e) = a \o (b \o <<e>>)
  <1>1. a \o b \in Seq(S) /\ <<e>> \in Seq(S)
    OBVIOUS
  <1>2. Append(a \o b, e) = (a \o b) \o <<e>>
    BY <1>1, AppendIsConcat
  <1>3. (a \o b) \o <<e>> = a \o (b \o <<e>>)
    BY <1>1, ConcatAssociative
  <1> QED
    BY <1>2, <1>3

LEMMA ZeroDigit ==
  /\ <<0>> \in Seq(Digit) /\ Len(<<0>>) = 1 /\ NumberOf(<<0>>) = 0 /\ Power(10, 1) = 10
  <1>1. <<0>> \in Seq(Digit) /\ Len(<<0>>) = 1 /\ \A i \in 1..Len(<<0>>) : <<0>>[i] = 0
    BY DEF Digit
  <1>2. NumberOf(<<0>>) = 0
    BY <1>1, NumberOfZeros
  <1>3. PICK z \in Nat : z = 0 /\ z + 1 = 1
    OBVIOUS
  <1>4. Power(10, z + 1) = 10 * Power(10, z) /\ Power(10, 0) = 1
    BY TenPower
  <1> QED
    BY <1>1, <1>2, <1>3, <1>4

(* Parse undoes Format, also of a text with one zero more.                   *)
LEMMA ParseUndoesFormat ==
  ASSUME NEW v \in 1..MaxInt, NEW decimals \in Nat \ {0}, NEW longer \in BOOLEAN
  PROVE  LET t == Spelled(Format(v, decimals), longer)
         IN  t # << >> /\ Parse(t, decimals) = [ok |-> TRUE, value |-> v]
  <1>1. PICK w, r \in Seq(Digit) :
          /\ w # << >> /\ Len(r) = decimals /\ NumberOf(w \o r) = v
          /\ Format(v, decimals) = Decimals(w, r)
    BY FormatWrites
  <1> DEFINE d == Power(10, decimals)
  <1>2. v \in Nat /\ v \in Int /\ d \in Nat \ {0}
    <2>1. decimals \in Nat
      OBVIOUS
    <2>2. d \in Nat \ {0}
      BY <2>1, TenPower
    <2> HIDE DEF d
    <2> QED
      BY <2>2, FillAssumption
  <1>3. CASE ~longer
    <2> DEFINE t == Decimals(w, r)
    <2>1. /\ t \in Text /\ t # << >> /\ Head(t) # Minus /\ IsDecimal(t)
          /\ Denoted(t) = [num |-> v, den |-> d]
      BY <1>1, DecimalsDenote
    <2>2. Spelled(Format(v, decimals), longer) = t
      BY <1>1, <1>3 DEF Spelled
    <2> HIDE DEF t, d
    <2>3. v * Power(10, decimals) = v * d
      BY DEF d
    <2>4. Parse(t, decimals) = [ok |-> TRUE, value |-> v]
      BY <1>2, <2>1, <2>3, ReadExactly
    <2> QED
      BY <2>1, <2>2, <2>4
  <1>4. CASE longer
    <2> DEFINE s == r \o <<0>>
               t == Decimals(w, s)
    <2>1. IsBeside(s, r, <<0>>) /\ IsBeside(w \o r, w, r)
      BY ZeroDigit, Beside
    <2>2. s \in Seq(Digit) /\ Len(s) = decimals + 1 /\ w \o r \in Seq(Digit)
      BY <1>1, <2>1, ZeroDigit DEF IsBeside
    <2>3. w \o s = (w \o r) \o <<0>>
      BY ZeroDigit, ConcatAssociative
    <2>4. NumberOf(w \o s) = 10 * v
      <3>1. NumberOf((w \o r) \o <<0>>) = NumberOf(w \o r) * Power(10, Len(<<0>>)) + NumberOf(<<0>>)
        BY <2>2, ZeroDigit, NumberBeside
      <3>2. v * 10 + 0 = 10 * v
        BY <1>2
      <3> QED
        BY <1>1, <2>3, <3>1, <3>2, ZeroDigit
    <2>5. Power(10, decimals + 1) = 10 * d
      BY TenPower
    <2>6. Spelled(Format(v, decimals), longer) = t
      <3>1. Format(v, decimals) # << >>
        BY FormatDenotes
      <3>2. Append(Decimals(w, r), 0) = Decimals(w, s)
        <4> DEFINE Chars == Digit \cup {Point}
        <4>1. w \o <<Point>> \in Seq(Chars) /\ r \in Seq(Chars) /\ <<0>> \in Seq(Chars)
          BY ZeroDigit
        <4>2. (w \o <<Point>>) \o r \in Seq(Chars) /\ 0 \in Chars
          BY <4>1 DEF Digit
        <4> HIDE DEF Chars
        <4>3. Append((w \o <<Point>>) \o r, 0) = (w \o <<Point>>) \o (r \o <<0>>)
          BY <4>1, <4>2, AppendBeside
        <4> QED
          BY <4>3 DEF Decimals
      <3> QED
        BY <1>1, <1>4, <3>1, <3>2 DEF Spelled, Given
    <2> HIDE DEF s, t, d
    <2>7. /\ t \in Text /\ t # << >> /\ Head(t) # Minus /\ IsDecimal(t)
          /\ Denoted(t) = [num |-> 10 * v, den |-> 10 * d]
      <3>1. Denoted(t) = [num |-> NumberOf(w \o s), den |-> Power(10, Len(s))]
        BY <1>1, <2>2, DecimalsDenote DEF t
      <3>2. t \in Text /\ t # << >> /\ Head(t) # Minus /\ IsDecimal(t)
        BY <1>1, <2>2, DecimalsDenote DEF t
      <3> QED
        BY <2>2, <2>4, <2>5, <3>1, <3>2
    <2>8. PICK n \in Nat, p \in Nat \ {0} : n = 10 * v /\ p = 10 * d
      BY <1>2
    <2>9. n * Power(10, decimals) = v * p
      <3>1. (10 * v) * d = v * (10 * d)
        BY <1>2, Z3
      <3> QED
        BY <2>8, <3>1 DEF d
    <2>10. Parse(t, decimals) = [ok |-> TRUE, value |-> v]
      BY <2>7, <2>8, <2>9, ReadExactly
    <2> QED
      BY <2>6, <2>7, <2>10
  <1> QED
    BY <1>3, <1>4

-----------------------------------------------------------------------------
(* Every text is read as an int64, if it is read at all.                     *)
LEMMA ScaledText ==
  ASSUME NEW s \in Text, NEW decimals \in Nat PROVE AtScale(s, decimals) \in Text
  <1> DEFINE p == FirstPoint(s)
             n == Len(s)
             Chars == Digit \cup {Minus, Point, Letter}
  <1>1. s \in Seq(Chars) /\ n \in Nat /\ \A i \in 1..n : s[i] \in Chars
    BY DEF Text
  <1>2. p \in 0..n
    <2> DEFINE I == {i \in 1..n : s[i] = Point}
    <2>1. p = IF I # {} THEN CHOOSE x \in I : \A y \in I : x <= y ELSE 0
      BY DEF FirstPoint, SelectInSeq, Min
    <2>2. ASSUME I # {} PROVE \E x \in I : \A y \in I : x <= y
      <3>1. I \subseteq Nat
        OBVIOUS
      <3> HIDE DEF I
      <3> QED
        BY <2>2, <3>1, SmallestNumber
    <2>3. I \subseteq 1..n
      OBVIOUS
    <2> HIDE DEF I, p
    <2>4. CASE I = {}
      BY <1>1, <2>1, <2>4
    <2>5. CASE I # {}
      <3>1. p \in I
        BY <2>1, <2>2, <2>5
      <3> QED
        BY <1>1, <2>3, <3>1
    <2> QED
      BY <2>4, <2>5
  <1> HIDE DEF p, n, Chars
  <1>3. IntPart(s) \in Seq(Chars)
    <2>1. CASE p = 0
      BY <1>1, <2>1 DEF IntPart, p
    <2>2. CASE p # 0
      <3>1. \A i \in 1..(p - 1) : s[i] \in Chars
        BY <1>1, <1>2
      <3>2. SubSeq(s, 1, p - 1) \in Seq(Chars)
        BY <1>1, <1>2, <3>1, SubSeqProperties
      <3> QED
        BY <2>2, <3>2 DEF IntPart, p
    <2> QED
      BY <2>1, <2>2
  <1>4. FracPart(s) \in Seq(Chars)
    <2>1. CASE p = 0
      BY <2>1 DEF FracPart, p
    <2>2. CASE p # 0
      <3>1. \A i \in (p + 1)..n : s[i] \in Chars
        BY <1>1, <1>2
      <3>2. SubSeq(s, p + 1, n) \in Seq(Chars)
        BY <1>1, <1>2, <3>1, SubSeqProperties
      <3> QED
        BY <2>2, <3>2 DEF FracPart, p, n
    <2> QED
      BY <2>1, <2>2
  <1> DEFINE f == [i \in 1..decimals |-> IF i <= Len(FracPart(s)) THEN FracPart(s)[i] ELSE 0]
  <1>5. f \in Seq(Chars)
    <2>1. 0 \in Chars
      BY DEF Chars, Digit
    <2>2. \A i \in 1..decimals : (IF i <= Len(FracPart(s)) THEN FracPart(s)[i] ELSE 0) \in Chars
      BY <1>4, <2>1
    <2>3. f \in [1..decimals -> Chars]
      BY <2>2
    <2> HIDE DEF f
    <2> QED
      BY <2>3
  <1> HIDE DEF f
  <1>6. IntPart(s) \o f \in Seq(Chars)
    BY <1>3, <1>5
  <1> QED
    BY <1>6 DEF AtScale, Text, Chars, f

LEMMA ParseInt64 ==
  ASSUME NEW s \in Text, NEW decimals \in Nat PROVE Parse(s, decimals).value \in Int64
  <1> DEFINE digits == AtScale(Unsigned(s), decimals)
  <1>1. digits \in Text
    BY UnsignedText, ScaledText
  <1> HIDE DEF digits
  <1>2. 0 \in Int64
    BY FillAssumption DEF Int64
  <1>3. CASE s = << >> \/ digits = << >> \/ \E i \in DOMAIN digits : digits[i] \notin Digit
    <2>1. Parse(s, decimals) = NotANumber
      BY <1>3 DEF Parse, digits
    <2> QED
      BY <1>2, <2>1 DEF NotANumber
  <1>4. CASE ~(s = << >> \/ digits = << >> \/ \E i \in DOMAIN digits : digits[i] \notin Digit)
    <2>1. digits \in Seq(Digit)
      <3>1. Len(digits) \in Nat /\ digits \in [1..Len(digits) -> Digit]
        BY <1>1, <1>4 DEF Text
      <3> QED
        BY <3>1
    <2>2. ReadDigits(digits) \in Int64 /\ ReadDigits(digits) \in Int
      BY <2>1, ReadingIsNumber, FillAssumption DEF Int64
    <2>3. Wrap(-ReadDigits(digits)) \in Int64
      BY <2>2, WrapInt64
    <2>4. Parse(s, decimals).value = IF Head(s) = Minus THEN Wrap(-ReadDigits(digits))
                                     ELSE ReadDigits(digits)
      BY <1>4 DEF Parse, digits
    <2> QED
      BY <2>2, <2>3, <2>4
  <1> QED
    BY <1>3, <1>4

-----------------------------------------------------------------------------
(* The numbers of an order.                                                  *)
LEMMA FlagNumbers ==
  ASSUME NEW flags \in Flags
  PROVE  /\ flags.price \in Text /\ flags.qty \in Text /\ flags.value \in Text
         /\ PriceOf(flags) \in Int64 /\ QtyOf(flags) \in Int64 /\ ValueAsked(flags) \in Int64
  <1>1. flags.price \in Text /\ flags.qty \in Text /\ flags.value \in Text
    BY ConsoleAssumption
  <1>2. 0 \in Int64 /\ PriceDecimals \in Nat /\ QtyDecimals \in Nat
    BY FillAssumption, DecimalsAssumption DEF Int64
  <1> QED
    BY <1>1, <1>2, ParseInt64 DEF PriceOf, QtyOf, ValueAsked, Number

(* A value turned into units.                                                *)
LEMMA QuotientSmaller ==
  ASSUME NEW a \in Nat, NEW b \in Nat \ {0} PROVE a \div b \in Nat /\ a \div b <= a
  BY Z3

LEMMA DivInt64 ==
  ASSUME NEW a \in Int64, NEW b \in Nat \ {0} PROVE TruncDiv(a, b) \in Int64
  <1>1. CASE a >= 0
    <2>1. a \in Nat
      BY <1>1, FillAssumption DEF Int64
    <2>2. a \div b \in Nat /\ a \div b <= a
      BY <2>1, QuotientSmaller
    <2> QED
      BY <1>1, <2>2, FillAssumption DEF TruncDiv, Int64
  <1>2. CASE ~(a >= 0)
    <2>1. -a \in Nat /\ -a <= MaxInt + 1
      BY <1>2, FillAssumption DEF Int64
    <2>2. (-a) \div b \in Nat /\ (-a) \div b <= -a
      BY <2>1, QuotientSmaller
    <2> QED
      BY <1>2, <2>1, <2>2, FillAssumption DEF TruncDiv, Int64
  <1> QED
    BY <1>1, <1>2

LEMMA UnitsBoundsOf ==
  ASSUME NEW a \in Nat, NEW price \in Nat \ {0}
  PROVE  /\ a \div price \in Nat /\ (a \div price) * price <= a
         /\ a < (a \div price + 1) * price
  <1>1. PICK q \in Int, r \in 0..(price - 1) : q = a \div price /\ a = price * q + r
    BY DivMod
  <1>2. price * q = q * price /\ (q + 1) * price = q * price + price /\ q * price \in Int
    BY Z3
  <1>3. a \div price \in Nat
    BY DivBelow
  <1> QED
    BY <1>1, <1>2, <1>3

LEMMA InputNumbers ==
  ASSUME NEW flags \in Flags, Accepts(flags)
  PROVE  LET in == SendOrderInput(flags)
         IN  /\ in.price \in Int64 /\ in.qty \in Int64 /\ in.value \in Int64
             /\ in.side \in Sides /\ in.type \in OrderTypes
  <1>1. PriceOf(flags) \in Int64 /\ QtyOf(flags) \in Int64 /\ ValueAsked(flags) \in Int64
    BY FlagNumbers
  <1>2. 0 \in Int64 /\ \A x \in Int64 : x \in Int
    BY FillAssumption DEF Int64
  <1>3. Converts(flags) => UnitsFor(ValueAsked(flags), PriceOf(flags)) \in Int64
    <2> SUFFICES ASSUME Converts(flags)
                 PROVE  UnitsFor(ValueAsked(flags), PriceOf(flags)) \in Int64
      OBVIOUS
    <2>1. PriceOf(flags) > 0
      BY DEF Accepts
    <2>2. PriceOf(flags) \in Nat \ {0}
      BY <1>1, <1>2, <2>1
    <2>3. ValueAsked(flags) * Scale \in Int
      BY <1>1, <1>2, FillAssumption
    <2>4. Wrap(ValueAsked(flags) * Scale) \in Int64
      BY <2>3, WrapInt64
    <2> QED
      BY <2>2, <2>4, DivInt64 DEF UnitsFor
  <1> QED
    BY <1>1, <1>2, <1>3 DEF SendOrderInput, Accepts

-----------------------------------------------------------------------------
(* The invariant of an order command: what each of its stages was made from. *)
SentFrom(c, flags) ==
  flags \in Flags /\ Accepts(flags) /\ c.in = SendOrderInput(flags)

ListedFrom(c, flags) ==
  /\ SentFrom(c, flags) /\ Takes(RequestFields(c.in))
  /\ \E row \in RowsOf(RequestFields(c.in)) : c.raws = <<row>>

CommandInv ==
  /\ cmd.pc \in {"none", "typed", "asked", "posted", "listed", "shown"}
  /\ cmd.pc = "typed" => cmd.flags \in Flags
  /\ cmd.pc \in {"asked", "posted"} => SentFrom(cmd, cmd.flags)
  /\ cmd.pc = "posted" => cmd.body = RequestFields(cmd.in)
  /\ cmd.pc = "listed" => \E flags \in Flags : ListedFrom(cmd, flags)
  /\ cmd.pc = "shown" /\ "infos" \in DOMAIN cmd =>
       (\E flags \in Flags : ListedFrom(cmd, flags)) /\ cmd.infos = parseOrderList(cmd.raws)

LEMMA CommandInitInv == ASSUME Init PROVE CommandInv
  BY DEF Init, NoCommand, CommandInv

LEMMA CommandNextInv == ASSUME CommandInv, [Next]_vars PROVE CommandInv'
  <1>1. CASE TypeSend
    <2>1. PICK flags \in Flags : cmd' = [pc |-> "typed", flags |-> flags]
      BY <1>1 DEF TypeSend
    <2> QED
      BY <2>1 DEF CommandInv
  <1>2. CASE RefuseFlags \/ QuitCommand \/ EndCommand
    BY <1>2 DEF RefuseFlags, QuitCommand, EndCommand, NoCommand, CommandInv
  <1>3. CASE AcceptFlags
    <2>1. /\ cmd.flags \in Flags /\ Accepts(cmd.flags)
          /\ cmd' = [pc |-> "asked", flags |-> cmd.flags, in |-> SendOrderInput(cmd.flags)]
      BY <1>3 DEF AcceptFlags, CommandInv
    <2>2. /\ cmd'.pc = "asked" /\ cmd'.flags = cmd.flags
          /\ cmd'.in = SendOrderInput(cmd.flags)
      BY <2>1
    <2> QED
      BY <2>1, <2>2 DEF CommandInv, SentFrom
  <1>4. CASE SendOrder
    <2>1. /\ SentFrom(cmd, cmd.flags)
          /\ cmd' = [pc |-> "posted", flags |-> cmd.flags, in |-> cmd.in,
                     body |-> RequestFields(cmd.in)]
      BY <1>4 DEF SendOrder, CommandInv
    <2>2. /\ cmd'.pc = "posted" /\ cmd'.flags = cmd.flags /\ cmd'.in = cmd.in
          /\ cmd'.body = RequestFields(cmd.in)
      BY <2>1
    <2> QED
      BY <2>1, <2>2 DEF CommandInv, SentFrom
  <1>5. CASE ExchangeLists
    <2>1. SentFrom(cmd, cmd.flags) /\ cmd.body = RequestFields(cmd.in) /\ Takes(cmd.body)
      BY <1>5 DEF ExchangeLists, CommandInv
    <2>2. PICK row \in RowsOf(cmd.body) :
            cmd' = [pc |-> "listed", in |-> cmd.in, raws |-> <<row>>]
      BY <1>5 DEF ExchangeLists
    <2>3. cmd'.pc = "listed" /\ cmd'.in = cmd.in /\ cmd'.raws = <<row>>
      BY <2>2
    <2>4. PICK flags \in Flags : flags = cmd.flags
      BY <2>1 DEF SentFrom
    <2>5. ListedFrom(cmd', flags)
      BY <2>1, <2>2, <2>3, <2>4 DEF ListedFrom, SentFrom
    <2> QED
      BY <2>3, <2>5 DEF CommandInv
  <1>6. CASE ShowList
    <2>1. PICK flags \in Flags : ListedFrom(cmd, flags)
      BY <1>6 DEF ShowList, CommandInv
    <2>2. /\ cmd'.pc = "shown" /\ cmd'.in = cmd.in /\ cmd'.raws = cmd.raws
          /\ cmd'.infos = parseOrderList(cmd.raws)
      BY <1>6 DEF ShowList
    <2> QED
      BY <2>1, <2>2 DEF CommandInv, ListedFrom, SentFrom
  <1>7. CASE TypeCancel
    <2>1. PICK ids \in CancelIds : cmd' = [pc |-> "shown", cancel |-> CancelFields(ids)]
      BY <1>7 DEF TypeCancel
    <2>2. cmd'.pc = "shown" /\ "infos" \notin DOMAIN cmd'
      BY <2>1
    <2> QED
      BY <2>2 DEF CommandInv
  <1>8. CASE SessionStep \/ UNCHANGED vars
    <2>1. cmd' = cmd
      BY <1>8 DEF SessionStep, vars
    <2> QED
      BY <2>1 DEF CommandInv, ListedFrom, SentFrom
  <1> QED
    BY <1>1, <1>2, <1>3, <1>4, <1>5, <1>6, <1>7, <1>8 DEF Next, OrderStep

THEOREM CommandsAreTraced == Spec => []CommandInv
  BY CommandInitInv, CommandNextInv, PTL DEF Spec

-----------------------------------------------------------------------------
(* Every number flag is read as typed, cut off toward zero, as long as what  *)
(* was typed fits in an int64: of any length and for any number of decimals. *)
THEOREM NumbersAreCutOff == Spec => []ParseTruncates
  <1>1. ASSUME CommandInv PROVE ParseTruncates
    <2> SUFFICES ASSUME cmd.pc = "typed", NEW s \in Text, NEW decimals \in Nat \ {0},
                        Representable(s, decimals)
                 PROVE  Parse(s, decimals).ok /\ CutOff(Parse(s, decimals).value, s, decimals)
      <3>1. cmd.pc = "typed" => cmd.flags \in Flags
        BY <1>1 DEF CommandInv
      <3>2. cmd.pc = "typed" => \A flag \in {"price", "qty", "value"} : cmd.flags[flag] \in Text
        BY <3>1, FlagNumbers
      <3>3. PriceDecimals \in Nat \ {0} /\ QtyDecimals \in Nat \ {0}
        BY DecimalsAssumption
      <3> QED
        BY <3>2, <3>3 DEF ParseTruncates
    <2>1. PICK m \in 0..MaxInt, n \in Nat, p \in Nat \ {0} : ParsedAs(s, decimals, m, n, p)
      BY ParseCuts
    <2>2. m \in Nat
      BY FillAssumption
    <2> QED
      BY <2>1, <2>2, CutIsCutOff
  <1> QED
    BY <1>1, CommandsAreTraced, PTL

(* No raw value is ever sent, and an order with no size is sent only for a   *)
(* number typed negative, a value below one unit's price, or an overflow.    *)
LEMMA NothingIsNoField ==
  ASSUME NEW v \in Int64, NEW decimals \in Nat \ {0}
  PROVE  Given(Field(v, decimals)) <=> v > 0
  <1>1. CASE v > 0
    <2>1. v \in 1..MaxInt
      BY <1>1 DEF Int64
    <2> QED
      BY <1>1, <2>1, FormatDenotes DEF Field, Given
  <1>2. CASE ~(v > 0)
    BY <1>2 DEF Field, Given
  <1> QED
    BY <1>1, <1>2

THEOREM OnlyQuantitiesArePosted == Spec => []OnlyQuantitiesSent
  <1>1. ASSUME CommandInv PROVE OnlyQuantitiesSent
    <2> SUFFICES ASSUME NEW flags \in Flags, Accepts(flags), NEW in, in = SendOrderInput(flags)
                 PROVE  /\ ~Given(RequestFields(in).value)
                        /\ ~Given(RequestFields(in).quantity) =>
                             \/ QtyOf(flags) < 0 \/ ValueAsked(flags) < 0
                             \/ /\ Converts(flags)
                                /\ \/ ValueAsked(flags) * Scale < PriceOf(flags)
                                   \/ ValueAsked(flags) * Scale > MaxInt
      BY <1>1 DEF CommandInv, SentFrom, OnlyQuantitiesSent
    <2>1. /\ PriceOf(flags) \in Int64 /\ QtyOf(flags) \in Int64 /\ ValueAsked(flags) \in Int64
          /\ \A x \in Int64 : x \in Int
      BY FlagNumbers, FillAssumption DEF Int64
    <2>2. in.qty \in Int64 /\ in.value \in Int64
      BY InputNumbers
    <2>3. /\ Given(RequestFields(in).value) <=> in.value > 0
          /\ Given(RequestFields(in).quantity) <=> in.qty > 0
      BY <2>2, NothingIsNoField, DecimalsAssumption DEF RequestFields
    <2>4. ~(in.value > 0)
      <3>1. CASE Converts(flags)
        BY <3>1 DEF SendOrderInput
      <3>2. CASE ~Converts(flags)
        <4>1. Given(flags.value) => QtyOf(flags) = 0
          BY DEF Accepts, QtyOf, Number, Given
        <4>2. ~Given(flags.value) => ValueAsked(flags) = 0
          BY DEF ValueAsked, Number
        <4>3. ~(ValueAsked(flags) > 0)
          BY <3>2, <4>1, <4>2 DEF Converts
        <4> QED
          BY <3>2, <4>3 DEF SendOrderInput
      <3> QED
        BY <3>1, <3>2
    <2>5. ASSUME ~(in.qty > 0)
          PROVE  \/ QtyOf(flags) < 0 \/ ValueAsked(flags) < 0
                 \/ /\ Converts(flags)
                    /\ \/ ValueAsked(flags) * Scale < PriceOf(flags)
                       \/ ValueAsked(flags) * Scale > MaxInt
      <3>1. CASE Converts(flags)
        <4> DEFINE a == ValueAsked(flags) * Scale
                   price == PriceOf(flags)
        <4>1. ValueAsked(flags) > 0 /\ price \in Nat \ {0} /\ ValueAsked(flags) \in Nat
          BY <2>1, <3>1 DEF Accepts, Converts
        <4>2. a \in Nat
          BY <4>1, FillAssumption
        <4>3. in.qty = TruncDiv(Wrap(a), price)
          BY <3>1 DEF SendOrderInput, UnitsFor
        <4> HIDE DEF a, price
        <4>4. CASE a > MaxInt
          BY <3>1, <4>4 DEF a
        <4>5. CASE ~(a > MaxInt)
          <5>1. a \in 0..MaxInt
            BY <4>2, <4>5, FillAssumption
          <5>2. in.qty = a \div price
            BY <4>2, <4>3, <5>1, WrapsNothing DEF TruncDiv
          <5>3. a \div price \in Nat /\ a < (a \div price + 1) * price
            BY <4>1, <4>2, UnitsBoundsOf
          <5>4. a \div price = 0
            BY <2>5, <5>2, <5>3
          <5>5. a < price
            BY <4>1, <5>3, <5>4
          <5> QED
            BY <3>1, <5>5 DEF a, price
        <4> QED
          BY <4>4, <4>5
      <3>2. CASE ~Converts(flags)
        <4>1. in.qty = QtyOf(flags)
          BY <3>2 DEF SendOrderInput
        <4>2. QtyOf(flags) # 0 \/ ValueAsked(flags) # 0
          BY DEF Accepts
        <4> QED
          BY <2>1, <2>5, <3>2, <4>1, <4>2 DEF Converts
      <3> QED
        BY <3>1, <3>2
    <2> QED
      BY <2>3, <2>4, <2>5
  <1> QED
    BY <1>1, CommandsAreTraced, PTL

-----------------------------------------------------------------------------
(* A row of the list, read.                                                  *)
LEMMA ZeroIsRead == ASSUME NEW decimals \in Nat PROVE Parse(<<0>>, decimals).value = 0
  <1> DEFINE zeros == [i \in 1..decimals |-> 0]
  <1>1. <<0>> \in Text /\ Head(<<0>>) = 0 /\ 0 # Minus /\ <<0>> # << >> /\ DOMAIN <<0>> = {1}
    BY CharacterAssumption DEF Text, Digit
  <1>2. Unsigned(<<0>>) = <<0>>
    BY <1>1 DEF Unsigned
  <1>3. FirstPoint(<<0>>) = 0
    <2>1. \A i \in DOMAIN <<0>> : <<0>>[i] # Point
      BY <1>1, CharacterAssumption DEF Digit
    <2> QED
      BY <1>1, <2>1, FirstPointIs
  <1>4. IntPart(<<0>>) = <<0>> /\ FracPart(<<0>>) = << >>
    BY <1>3 DEF IntPart, FracPart
  <1>5. AtScale(<<0>>, decimals) = <<0>> \o zeros
    <2>1. \A i \in 1..decimals : ~(i <= Len(<< >>))
      OBVIOUS
    <2>2. [i \in 1..decimals |-> IF i <= Len(<< >>) THEN << >>[i] ELSE 0] = zeros
      BY <2>1
    <2> QED
      BY <1>4, <2>2 DEF AtScale
  <1>6. zeros \in Seq(Digit) /\ Len(zeros) = decimals /\ \A i \in 1..decimals : zeros[i] = 0
    BY DEF Digit
  <1> HIDE DEF zeros
  <1> DEFINE digits == <<0>> \o zeros
  <1>7. digits \in Seq(Digit) /\ (\A i \in 1..Len(digits) : digits[i] = 0) /\ digits # << >>
    <2>1. IsBeside(digits, <<0>>, zeros)
      BY <1>6, ZeroDigit, Beside
    <2>2. /\ digits \in Seq(Digit) /\ Len(digits) = 1 + decimals
          /\ \A i \in 1..1 : digits[i] = <<0>>[i]
          /\ \A i \in 1..decimals : digits[1 + i] = zeros[i]
      BY <1>6, <2>1, ZeroDigit DEF IsBeside
    <2> HIDE DEF digits
    <2>3. ASSUME NEW i \in 1..Len(digits) PROVE digits[i] = 0
      <3>1. CASE i = 1
        BY <2>2, <3>1
      <3>2. CASE i # 1
        <4>1. i - 1 \in 1..decimals /\ 1 + (i - 1) = i
          BY <2>2, <3>2
        <4> QED
          BY <1>6, <2>2, <4>1
      <3> QED
        BY <3>1, <3>2
    <2> QED
      BY <2>2, <2>3
  <1> HIDE DEF digits
  <1>8. ReadDigits(digits) = 0
    <2>1. NumberOf(digits) = 0
      BY <1>7, NumberOfZeros
    <2> QED
      BY <1>7, <2>1, ReadingIsNumber, FillAssumption
  <1> QED
    BY <1>1, <1>2, <1>5, <1>7, <1>8 DEF Parse, NotANumber, digits

LEMMA ListedNumber ==
  ASSUME NEW v \in Int64, NEW decimals \in Nat \ {0}, NEW longer \in BOOLEAN
  PROVE  LET t == Spelled(Field(v, decimals), longer)
         IN  /\ Given(t) <=> v > 0
             /\ ParseOrZero(t, decimals) = IF v > 0 THEN v ELSE 0
  <1>1. CASE v > 0
    <2>1. v \in 1..MaxInt
      BY <1>1 DEF Int64
    <2>2. Field(v, decimals) = Format(v, decimals)
      BY <1>1 DEF Field
    <2> QED
      BY <1>1, <2>1, <2>2, ParseUndoesFormat DEF Given, ParseOrZero, zeroIfEmpty
  <1>2. CASE ~(v > 0)
    <2>1. Spelled(Field(v, decimals), longer) = << >>
      BY <1>2 DEF Field, Spelled, Given
    <2>2. ParseOrZero(<< >>, decimals) = 0
      BY ZeroIsRead DEF ParseOrZero, zeroIfEmpty
    <2> QED
      BY <1>2, <2>1, <2>2 DEF Given
  <1> QED
    BY <1>1, <1>2

LEMMA ExecutionIsCutOff ==
  ASSUME NEW t \in Text, NEW decimals \in Nat \ {0}, Representable(t, decimals)
  PROVE  CutOff(ParseOrZero(t, decimals), t, decimals)
  <1>1. PICK m \in 0..MaxInt, n \in Nat, p \in Nat \ {0} : ParsedAs(t, decimals, m, n, p)
    BY ParseCuts
  <1>2. m \in Nat
    BY FillAssumption
  <1>3. CutOff(Parse(t, decimals).value, t, decimals)
    BY <1>1, <1>2, CutIsCutOff
  <1>4. t # << >>
    <2> SUFFICES ASSUME t = << >> PROVE FALSE
      OBVIOUS
    <2>1. Unsigned(t) = << >> /\ DOMAIN << >> = {}
      BY DEF Unsigned
    <2> QED
      BY <2>1 DEF Representable, IsDecimal
  <1> QED
    BY <1>3, <1>4 DEF ParseOrZero, zeroIfEmpty

LEMMA RowIsRead ==
  ASSUME NEW in, in.price \in Int64, in.qty \in Int64, in.side \in Sides, in.type \in OrderTypes,
         Takes(RequestFields(in)), NEW raw \in RowsOf(RequestFields(in))
  PROVE  /\ toInfo(raw).side = in.side /\ toInfo(raw).type = in.type
         /\ toInfo(raw).price = (IF in.price > 0 THEN in.price ELSE 0)
         /\ toInfo(raw).origQuantity = in.qty
         /\ raw.quantityExecuted \in Text /\ raw.avgPrice \in Text
  <1> DEFINE body == RequestFields(in)
  <1>1. /\ body.side = in.side /\ body.type = in.type
        /\ body.limitPrice = Field(in.price, PriceDecimals)
        /\ body.quantity = Field(in.qty, QtyDecimals)
    BY DEF RequestFields
  <1> HIDE DEF body
  <1>2. PICK names \in {Words(body), Codes(body)}, longer \in BOOLEAN, older \in BOOLEAN,
             x \in Executions :
          raw = [side |-> names.side, orderType |-> names.type,
                 price |-> Spelled(body.limitPrice, longer),
                 origQuantity |-> IF older THEN Spelled(body.quantity, longer) ELSE << >>,
                 quantity |-> IF older THEN << >> ELSE Spelled(body.quantity, longer),
                 quantityExecuted |-> x[1], avgPrice |-> x[2]]
    BY DEF RowsOf, body
  <1>3. PriceDecimals \in Nat \ {0} /\ QtyDecimals \in Nat \ {0}
    BY DecimalsAssumption
  <1>4. Given(body.quantity)
    BY DEF Takes, body
  <1>5. in.qty > 0
    BY <1>1, <1>3, <1>4, NothingIsNoField
  <1> DEFINE q == Spelled(Field(in.qty, QtyDecimals), longer)
             c == Spelled(Field(in.price, PriceDecimals), longer)
  <1>6. Given(q) /\ ParseOrZero(q, QtyDecimals) = in.qty
    BY <1>3, <1>5, ListedNumber
  <1>7. ParseOrZero(c, PriceDecimals) = IF in.price > 0 THEN in.price ELSE 0
    BY <1>3, ListedNumber
  <1>8. OrigOf(raw) = q
    BY <1>1, <1>2, <1>6 DEF OrigOf, Given
  <1>9. sideFromString(names.side) = in.side /\ typeFromString(names.type) = in.type
    BY <1>1 DEF Words, Codes, sideFromString, typeFromString, Sides, OrderTypes
  <1>10. x[1] \in Text /\ x[2] \in Text
    BY ConsoleAssumption
  <1> HIDE DEF q
  <1>11. /\ raw.side = names.side /\ raw.orderType = names.type /\ raw.price = c
         /\ raw.quantityExecuted = x[1] /\ raw.avgPrice = x[2]
    BY <1>1, <1>2
  <1> HIDE DEF c
  <1> QED
    BY <1>6, <1>7, <1>8, <1>9, <1>10, <1>11 DEF toInfo

(* An order the exchange took is listed as it was sent, and what it executed *)
(* is read cut off toward zero: for every order and every execution.         *)
THEOREM OrdersReadBack == Spec => []ReadBackExact
  <1>1. ASSUME CommandInv PROVE ReadBackExact
    <2> SUFFICES ASSUME cmd.pc = "shown", "infos" \in DOMAIN cmd
                 PROVE  LET info == cmd.infos[1]
                            raw == cmd.raws[1]
                        IN  /\ info.side = cmd.in.side /\ info.type = cmd.in.type
                            /\ info.price = (IF cmd.in.price > 0 THEN cmd.in.price ELSE 0)
                            /\ info.origQuantity = cmd.in.qty
                            /\ Representable(raw.quantityExecuted, QtyDecimals) =>
                                 CutOff(info.executed, raw.quantityExecuted, QtyDecimals)
                            /\ Representable(raw.avgPrice, PriceDecimals) =>
                                 CutOff(info.avgPrice, raw.avgPrice, PriceDecimals)
      BY DEF ReadBackExact
    <2>1. PICK flags \in Flags : ListedFrom(cmd, flags)
      BY <1>1 DEF CommandInv
    <2>2. PICK raw \in RowsOf(RequestFields(cmd.in)) : cmd.raws = <<raw>>
      BY <2>1 DEF ListedFrom
    <2>3. cmd.raws[1] = raw /\ cmd.infos[1] = toInfo(raw)
      <3>1. cmd.infos = [i \in DOMAIN <<raw>> |-> toInfo(<<raw>>[i])]
        BY <1>1, <2>2 DEF CommandInv, parseOrderList
      <3> QED
        BY <2>2, <3>1
    <2>4. /\ cmd.in.price \in Int64 /\ cmd.in.qty \in Int64
          /\ cmd.in.side \in Sides /\ cmd.in.type \in OrderTypes
      BY <2>1, InputNumbers DEF ListedFrom, SentFrom
    <2>5. Takes(RequestFields(cmd.in))
      BY <2>1 DEF ListedFrom
    <2>6. /\ toInfo(raw).side = cmd.in.side /\ toInfo(raw).type = cmd.in.type
          /\ toInfo(raw).price = (IF cmd.in.price > 0 THEN cmd.in.price ELSE 0)
          /\ toInfo(raw).origQuantity = cmd.in.qty
          /\ raw.quantityExecuted \in Text /\ raw.avgPrice \in Text
      BY <2>4, <2>5, RowIsRead
    <2>7. /\ toInfo(raw).executed = ParseOrZero(raw.quantityExecuted, QtyDecimals)
          /\ toInfo(raw).avgPrice = ParseOrZero(raw.avgPrice, PriceDecimals)
      BY DEF toInfo
    <2> QED
      BY <2>3, <2>6, <2>7, ExecutionIsCutOff, DecimalsAssumption
  <1> QED
    BY <1>1, CommandsAreTraced, PTL

-----------------------------------------------------------------------------
(* A field posted, against what was typed.                                   *)
LEMMA FractionBelow ==
  ASSUME NEW n \in Int, NEW m \in Int, NEW p \in Int, NEW d \in Int, d > 0, n * d < (m + 1) * p
  PROVE  n * (d * d) < (m * d + 1 * d) * p
  <1>1. PICK a \in Int : a = n * d
    OBVIOUS
  <1>2. PICK b \in Int : b = (m + 1) * p
    OBVIOUS
  <1>3. a * d < b * d
    <2>1. a < b
      BY <1>1, <1>2
    <2> QED
      BY <2>1, Z3
  <1>4. a * d = n * (d * d)
    BY <1>1, Z3
  <1>5. b * d = (m * d + 1 * d) * p
    BY <1>2, Z3
  <1> QED
    BY <1>3, <1>4, <1>5

LEMMA ProductsOrdered ==
  ASSUME NEW x \in Int, NEW a \in Int, NEW b \in Int, NEW c \in Int, NEW d \in Nat, NEW e \in Int,
         NEW p \in Nat, x <= a * d, a * p <= b * e, c = d * e
  PROVE  x * p <= b * c
  <1>1. PICK y \in Int : y = a * d
    OBVIOUS
  <1>2. PICK z \in Int : z = a * p
    OBVIOUS
  <1>3. PICK w \in Int : w = b * e
    OBVIOUS
  <1>4. x * p <= y * p
    <2>1. x <= y /\ 0 <= p
      BY <1>1
    <2> QED
      BY <2>1, Z3
  <1>5. y * p = z * d
    BY <1>1, <1>2, Z3
  <1>6. z * d <= w * d
    <2>1. z <= w /\ 0 <= d
      BY <1>2, <1>3
    <2> QED
      BY <2>1, Z3
  <1>7. w * d = b * c
    BY <1>3, Z3
  <1> QED
    BY <1>4, <1>5, <1>6, <1>7

LEMMA ProductsBelow ==
  ASSUME NEW a \in Int, NEW b \in Int, NEW d \in Int, NEW e \in Int, e > 0, a * d < b
  PROVE  a * (d * e) < b * e
  <1>1. PICK y \in Int : y = a * d
    OBVIOUS
  <1>2. y * e < b * e
    <2>1. y < b
      BY <1>1
    <2> QED
      BY <2>1, Z3
  <1>3. y * e = a * (d * e)
    BY <1>1, Z3
  <1> QED
    BY <1>2, <1>3

LEMMA FieldFits ==
  ASSUME NEW t \in Text, NEW decimals \in Nat \ {0}
  PROVE  FieldIsTyped(Field(Number(t, decimals), decimals), t, decimals)
  <1> DEFINE v == Number(t, decimals)
             field == Field(v, decimals)
  <1> SUFFICES ASSUME Given(field), Representable(t, decimals)
               PROVE  LET sent == Denoted(field)
                          one == Units(1, decimals)
                      IN  /\ Leq(sent, Denoted(t))
                          /\ Lt(Denoted(t), [num |-> sent.num * one.den + one.num * sent.den,
                                             den |-> sent.den * one.den])
    BY DEF FieldIsTyped
  <1>1. v \in Int64 /\ v \in Int /\ 0 \in Int64
    BY ParseInt64, FillAssumption DEF Number, Int64
  <1>2. v > 0
    BY <1>1, NothingIsNoField
  <1>3. PICK m \in 0..MaxInt, n \in Nat, p \in Nat \ {0} : ParsedAs(t, decimals, m, n, p)
    BY ParseCuts
  <1>4. m \in Nat /\ MaxInt \in Nat
    BY FillAssumption
  <1>5. v = m /\ Denoted(t) = [num |-> n, den |-> p]
    <2>1. v = Signed(t, m) /\ Denoted(t) = [num |-> Signed(t, n), den |-> p]
      BY <1>2, <1>3 DEF ParsedAs, Number
    <2>2. Head(t) # Minus
      BY <1>2, <1>4, <2>1 DEF Signed
    <2> QED
      BY <2>1, <2>2 DEF Signed
  <1>6. PICK d \in Nat \ {0} : d = Power(10, decimals)
    BY TenPower
  <1>7. Denoted(field) = [num |-> m, den |-> d]
    <2>1. v \in 1..MaxInt
      BY <1>2, <1>4, <1>5
    <2>2. field = Format(v, decimals)
      BY <1>2 DEF Field
    <2> QED
      BY <1>5, <1>6, <2>1, <2>2, FormatDenotes
  <1>8. m * p <= n * d /\ n * d < (m + 1) * p
    BY <1>3, <1>6 DEF ParsedAs, CutsTo
  <1>9. n * (d * d) < (m * d + 1 * d) * p
    BY <1>4, <1>8, FractionBelow
  <1>10. Units(1, decimals) = [num |-> 1, den |-> d]
    BY <1>6 DEF Units
  <1> HIDE DEF field, v
  <1> QED
    BY <1>5, <1>7, <1>8, <1>9, <1>10 DEF Leq, Lt

(* A value turned into units at the price posted.                            *)
ConvertedIsTyped(flags) ==
  LET in == SendOrderInput(flags)
      body == RequestFields(in)
      sent == IF Given(body.quantity) THEN Denoted(body.quantity) ELSE Units(0, QtyDecimals)
      more == Units(in.qty + 1, QtyDecimals)
  IN  /\ Leq(Times(sent, Denoted(body.limitPrice)), Denoted(flags.value))
      /\ Lt(Units(ValueAsked(flags), PriceDecimals), Times(more, Denoted(body.limitPrice)))

LEMMA ConvertedFits ==
  ASSUME NEW flags \in Flags, Accepts(flags), Converts(flags),
         ValueAsked(flags) * Scale <= MaxInt, Representable(flags.value, PriceDecimals)
  PROVE  ConvertedIsTyped(flags)
  <1>1. PICK in : in = SendOrderInput(flags)
    OBVIOUS
  <1>2. PICK value \in Int : value = ValueAsked(flags)
    BY FlagNumbers, FillAssumption DEF Int64
  <1>3. PICK price \in 1..MaxInt : price = PriceOf(flags)
    BY FlagNumbers, FillAssumption DEF Int64, Accepts
  <1>4. price \in Nat \ {0} /\ value \in Nat /\ value > 0
    BY <1>2, <1>3, FillAssumption DEF Converts
  <1>5. PICK dq \in Nat \ {0}, dp \in Nat \ {0} :
          dq = Power(10, QtyDecimals) /\ dp = Power(10, PriceDecimals)
    BY TenPower, DecimalsAssumption
  <1>6. PICK a \in Nat : a = value * dq
    BY <1>4
  <1>7. a \in 0..MaxInt /\ Wrap(value * Scale) = a
    <2>1. dq = Scale
      BY <1>5, DecimalsAssumption
    <2>2. a <= MaxInt
      BY <1>2, <1>6, <2>1
    <2>3. a \in 0..MaxInt
      BY <1>6, <2>2, FillAssumption
    <2> QED
      BY <1>6, <2>1, <2>3, WrapsNothing
  <1>8. PICK q \in 0..MaxInt : q = a \div price
    <2>1. a \div price \in Nat /\ a \div price <= a
      BY <1>4, <1>6, QuotientSmaller
    <2> QED
      BY <1>7, <2>1, FillAssumption
  <1>9. q * price <= a /\ a < (q + 1) * price
    BY <1>4, <1>6, <1>8, UnitsBoundsOf
  <1>10. in.qty = q /\ in.price = price
    <2>1. in.qty = TruncDiv(Wrap(value * Scale), price)
      BY <1>1, <1>2, <1>3 DEF SendOrderInput, UnitsFor
    <2> QED
      BY <1>1, <1>3, <1>6, <1>7, <1>8, <2>1 DEF SendOrderInput, TruncDiv
  <1>11. Denoted(RequestFields(in).limitPrice) = [num |-> price, den |-> dp]
    <2>1. RequestFields(in).limitPrice = Format(price, PriceDecimals)
      BY <1>4, <1>10 DEF RequestFields, Field
    <2> QED
      BY <1>5, <2>1, FormatDenotes, DecimalsAssumption
  <1>12. (IF Given(RequestFields(in).quantity) THEN Denoted(RequestFields(in).quantity)
          ELSE Units(0, QtyDecimals)) = [num |-> q, den |-> dq]
    <2>1. CASE q > 0
      <3>1. RequestFields(in).quantity = Format(q, QtyDecimals) /\ q \in 1..MaxInt
        BY <1>8, <1>10, <2>1, FillAssumption DEF RequestFields, Field
      <3> QED
        BY <1>5, <3>1, FormatDenotes, DecimalsAssumption DEF Given
    <2>2. CASE ~(q > 0)
      <3>1. q = 0
        BY <1>8, <2>2, FillAssumption
      <3>2. RequestFields(in).quantity = << >>
        BY <1>10, <2>2 DEF RequestFields, Field
      <3> QED
        BY <1>5, <3>1, <3>2 DEF Given, Units
    <2> QED
      BY <2>1, <2>2
  <1>13. PICK m \in 0..MaxInt, n \in Nat, p \in Nat \ {0} :
           ParsedAs(flags.value, PriceDecimals, m, n, p)
    BY FlagNumbers, DecimalsAssumption, ParseCuts
  <1>14. m \in Nat /\ q \in Nat
    BY FillAssumption
  <1>15. value = m /\ Denoted(flags.value) = [num |-> n, den |-> p] /\ m * p <= n * dp
    <2>1. /\ value = Signed(flags.value, m)
          /\ Denoted(flags.value) = [num |-> Signed(flags.value, n), den |-> p]
      BY <1>2, <1>4, <1>13 DEF ParsedAs, ValueAsked, Number
    <2>2. Head(flags.value) # Minus
      BY <1>4, <1>14, <2>1 DEF Signed
    <2>3. m * p <= n * dp
      BY <1>5, <1>13 DEF ParsedAs, CutsTo
    <2> QED
      BY <2>1, <2>2, <2>3 DEF Signed
  <1>16. (q * price) * p <= n * (dq * dp)
    <2>1. PICK x \in Int : x = q * price
      BY <1>4, <1>14
    <2>2. PICK c \in Int : c = dq * dp
      OBVIOUS
    <2>3. x <= value * dq
      BY <1>6, <1>9, <2>1
    <2>4. value * p <= n * dp
      BY <1>15
    <2>5. dq \in Nat /\ p \in Nat /\ value \in Int /\ n \in Int /\ dp \in Int
      BY <1>4
    <2>6. x * p <= n * c
      BY <2>2, <2>3, <2>4, <2>5, ProductsOrdered
    <2> QED
      BY <2>1, <2>2, <2>6
  <1>17. value * (dq * dp) < ((q + 1) * price) * dp
    <2>1. PICK b \in Int : b = (q + 1) * price
      BY <1>4, <1>14
    <2>2. value * dq < b
      BY <1>6, <1>9, <2>1
    <2> QED
      BY <1>4, <2>1, <2>2, ProductsBelow
  <1>18. Leq(Times([num |-> q, den |-> dq], [num |-> price, den |-> dp]), [num |-> n, den |-> p])
    BY <1>16 DEF Leq, Times
  <1>19. Units(value, PriceDecimals) = [num |-> value, den |-> dp]
    BY <1>5 DEF Units
  <1>20. Units(q + 1, QtyDecimals) = [num |-> q + 1, den |-> dq]
    BY <1>5 DEF Units
  <1>21. Lt(Units(value, PriceDecimals),
            Times(Units(q + 1, QtyDecimals), [num |-> price, den |-> dp]))
    BY <1>17, <1>19, <1>20 DEF Lt, Times
  <1> QED
    BY <1>1, <1>2, <1>10, <1>11, <1>12, <1>15, <1>18, <1>21 DEF ConvertedIsTyped

(* What is posted is what was typed: price and quantity cut off to the units *)
(* counted in, and a value as the most units it pays for.                    *)
THEOREM OrdersArePostedAsTyped == Spec => []PostedWithinTyped
  <1>1. ASSUME CommandInv PROVE PostedWithinTyped
    <2> SUFFICES ASSUME cmd.pc = "posted" PROVE PostedWithinTyped
      BY DEF PostedWithinTyped
    <2>1. PICK flags \in Flags : flags = cmd.flags
      BY <1>1 DEF CommandInv, SentFrom
    <2>2. /\ Accepts(flags) /\ cmd.in = SendOrderInput(flags)
          /\ cmd.body = RequestFields(SendOrderInput(flags))
      BY <1>1, <2>1 DEF CommandInv, SentFrom
    <2>3. FieldIsTyped(cmd.body.limitPrice, flags.price, PriceDecimals)
      <3>1. cmd.body.limitPrice = Field(Number(flags.price, PriceDecimals), PriceDecimals)
        BY <2>2 DEF RequestFields, SendOrderInput, PriceOf
      <3> QED
        BY <3>1, FieldFits, FlagNumbers, DecimalsAssumption
    <2>4. ASSUME Given(flags.qty)
          PROVE  FieldIsTyped(cmd.body.quantity, flags.qty, QtyDecimals)
      <3>1. ~Given(flags.value)
        BY <2>2, <2>4 DEF Accepts, Given
      <3>2. ValueAsked(flags) = 0
        BY <3>1 DEF ValueAsked, Number
      <3>3. cmd.body.quantity = Field(Number(flags.qty, QtyDecimals), QtyDecimals)
        BY <2>2, <3>2 DEF RequestFields, SendOrderInput, QtyOf, Converts
      <3> QED
        BY <3>3, FieldFits, FlagNumbers, DecimalsAssumption
    <2>5. ASSUME Converts(flags), ValueAsked(flags) * Scale <= MaxInt,
                 Representable(flags.value, PriceDecimals)
          PROVE  ConvertedIsTyped(flags)
      BY <2>2, <2>5, ConvertedFits
    <2> QED
      BY <2>1, <2>2, <2>3, <2>4, <2>5 DEF PostedWithinTyped, ConvertedIsTyped
  <1> QED
    BY <1>1, CommandsAreTraced, PTL

-----------------------------------------------------------------------------
(* The products.                                                             *)

LEMMA ListOfProducts ==
  /\ Products \in Seq(Names) /\ Len(Products) \in Nat /\ DOMAIN Products = 1..Len(Products)
  /\ \A i \in 1..Len(Products) : Products[i] \in Names
  BY SessionAssumption DEF Names, Range

LEMMA ProductsCounted ==
  /\ Done(0) = {} /\ Done(Len(Products)) = Names
  /\ IsFiniteSet(Names) /\ Cardinality(Names) = Len(Products)
  <1>1. Done(0) = {} /\ Done(Len(Products)) = Names
    BY ListOfProducts DEF Done, Names, Range
  <1>2. Products \in [1..Len(Products) -> Names]
    BY ListOfProducts
  <1>3. Products \in Bijection(1..Len(Products), Names)
    BY <1>2, ListOfProducts, SessionAssumption DEF Bijection, Injection, Surjection, IsInjective, Names, Range
  <1>4. IsFiniteSet(1..Len(Products)) /\ Cardinality(1..Len(Products)) = Len(Products)
    <2>1. Len(Products) \in Int /\ 1 \in Int /\ Len(Products) >= 0
      BY ListOfProducts
    <2>2. /\ IsFiniteSet(1..Len(Products))
          /\ Cardinality(1..Len(Products)) = IF 1 > Len(Products) THEN 0 ELSE Len(Products) - 1 + 1
      BY <2>1, FS_Interval, Zenon
    <2> QED
      BY <2>1, <2>2
  <1>5. Products \in Surjection(1..Len(Products), Names) /\ Products \in Injection(1..Len(Products), Names)
    BY <1>3 DEF Bijection
  <1>6. IsFiniteSet(Names) /\ Cardinality(Names) = Cardinality(1..Len(Products))
    BY <1>4, <1>5, FS_Surjection
  <1> QED
    BY <1>1, <1>4, <1>6

LEMMA NextDone ==
  ASSUME NEW n \in 1..Len(Products)
  PROVE  /\ Products[n] \in Names /\ Products[n] \notin Done(n - 1)
         /\ Done(n) = Done(n - 1) \cup {Products[n]} /\ Done(n) \subseteq Names
  BY ListOfProducts, SessionAssumption DEF Done

-----------------------------------------------------------------------------
(* Types: a snapshot counts in integers, whatever texts the balance holds.   *)
SessionForm ==
  /\ account \in [Names -> Text] /\ close \in [Coins -> Nat] /\ moves \in Nat
  /\ snap = NoSnap \/ snap \in Snapshot
  /\ tracks \in Seq(Track)

LEMMA AmountInt ==
  ASSUME NEW t \in Text, NEW decimals \in Nat PROVE ParseOrZero(t, decimals) \in Int
  <1>1. <<0>> \in Text
    BY DEF Text, Digit
  <1>2. zeroIfEmpty(t) \in Text
    BY <1>1 DEF zeroIfEmpty
  <1> QED
    BY <1>2, ParseInt64, FillAssumption DEF ParseOrZero, Int64

LEMMA PriceOfMoney == SatangPerTHB \in Nat
  BY TenPower, DecimalsAssumption DEF SatangPerTHB

LEMMA SatangOfInt ==
  ASSUME NEW p \in Names, NEW amount \in Int, close \in [Coins -> Nat]
  PROVE  SatangOf(p, amount) \in Int
  <1>1. CASE p = THB
    <2>1. amount * SatangPerTHB \in Int
      BY PriceOfMoney
    <2> QED
      BY <1>1, <2>1, WrapInt, TruncDivInt, FillAssumption DEF SatangOf
  <1>2. CASE p # THB
    <2>1. close[p] \in Int
      BY <1>2 DEF Coins
    <2> QED
      BY <1>2, <2>1, ValueOfInt DEF SatangOf
  <1> QED
    BY <1>1, <1>2

LEMMA SessionFormInit == ASSUME Init PROVE SessionForm
  <1>1. << >> \in Text
    BY DEF Text
  <1>2. account \in [Names -> Text] /\ close \in [Coins -> Nat]
    BY <1>1 DEF Init, SessionInit
  <1> QED
    BY <1>2 DEF Init, SessionInit, SessionForm

LEMMA SnapFormNext ==
  ASSUME SessionForm, SnapshotStep
  PROVE  (snap' = NoSnap \/ snap' \in Snapshot) /\ UNCHANGED <<account, close, moves>>
  <1>1. CASE ReadBalance
    <2>1. snap \in Snapshot
      BY <1>1 DEF SessionForm, ReadBalance, NoSnap
    <2>2. PICK held \in [Names -> Int] :
            held = [p \in Names |-> ParseOrZero(account[p], QtyDecimals)]
      BY AmountInt, DecimalsAssumption DEF SessionForm
    <2>3. snap' = [snap EXCEPT !.pc = "loop", !.held = held]
      BY <1>1, <2>2 DEF ReadBalance
    <2> QED
      BY <1>1, <2>1, <2>3 DEF ReadBalance, Snapshot
  <1>2. CASE ValueProduct
    <2>1. /\ snap \in Snapshot /\ snap.at \in 1..Len(Products) /\ snap.at + 1 \in 1..(Len(Products) + 1)
          /\ snap.held \in [Names -> Int] /\ snap.total \in Int
      <3>1. snap \in Snapshot /\ snap.at <= Len(Products)
        BY <1>2 DEF SessionForm, ValueProduct, InLoop, NoSnap
      <3>2. snap.at \in 1..(Len(Products) + 1) /\ snap.held \in [Names -> Int] /\ snap.total \in Int
        BY <3>1 DEF Snapshot
      <3> QED
        BY <3>1, <3>2, ListOfProducts
    <2>2. Product \in Names
      BY <2>1, ListOfProducts DEF Product
    <2>3. PICK total \in Int : total = IF snap.held[Product] = 0 THEN snap.total
                                       ELSE Wrap(snap.total + SatangOf(Product, snap.held[Product]))
      <3>1. snap.held[Product] \in Int
        BY <2>1, <2>2
      <3>2. SatangOf(Product, snap.held[Product]) \in Int
        BY <2>2, <3>1, SatangOfInt DEF SessionForm
      <3>3. snap.total + SatangOf(Product, snap.held[Product]) \in Int
        BY <2>1, <3>2
      <3> QED
        BY <2>1, <3>3, WrapInt
    <2>4. PICK next \in 1..(Len(Products) + 1) : next = snap.at + 1
      BY <2>1
    <2>5. snap' = [snap EXCEPT !.at = next, !.total = total]
      BY <1>2, <2>3, <2>4 DEF ValueProduct
    <2> QED
      BY <1>2, <2>1, <2>5 DEF ValueProduct, Snapshot
  <1>3. CASE SkipProduct
    <2>1. snap \in Snapshot /\ snap.at <= Len(Products)
      BY <1>3 DEF SessionForm, SkipProduct, InLoop, NoSnap
    <2>2. snap.at \in 1..Len(Products)
      BY <2>1, ListOfProducts DEF Snapshot
    <2>3. PICK next \in 1..(Len(Products) + 1) : next = snap.at + 1
      BY <2>2, ListOfProducts
    <2>4. PICK missed \in SUBSET Coins : missed = snap.missed \cup {Product}
      BY <1>3, <2>1, <2>2, ListOfProducts DEF SkipProduct, Product, Coins, Snapshot
    <2>5. snap' = [snap EXCEPT !.at = next, !.missed = missed]
      BY <1>3, <2>3, <2>4 DEF SkipProduct
    <2> QED
      BY <1>3, <2>1, <2>5 DEF SkipProduct, Snapshot
  <1>4. CASE EndLoop
    <2>1. snap \in Snapshot
      BY <1>4 DEF EndLoop, SessionForm, NoSnap
    <2>2. snap' = [snap EXCEPT !.pc = "insert"] /\ UNCHANGED <<account, close, moves>>
      BY <1>4 DEF EndLoop
    <2> QED
      BY <2>1, <2>2 DEF Snapshot
  <1>5. CASE InsertTrack \/ Abandon
    BY <1>5 DEF InsertTrack, Abandon
  <1> QED
    BY <1>1, <1>2, <1>3, <1>4, <1>5 DEF SnapshotStep

LEMMA TracksFormNext ==
  ASSUME SessionForm, SnapshotStep PROVE tracks' \in Seq(Track)
  <1>1. CASE InsertTrack
    <2> DEFINE row == [event |-> snap.event, balance |-> snap.total, missed |-> snap.missed,
                       from |-> snap.from, to |-> moves]
    <2>1. snap \in Snapshot /\ moves \in Nat
      BY <1>1 DEF InsertTrack, SessionForm, NoSnap
    <2>2. row \in Track
      BY <2>1 DEF Snapshot, Track
    <2>3. tracks' = Append(tracks, row)
      BY <1>1 DEF InsertTrack
    <2> HIDE DEF row
    <2> QED
      BY <2>2, <2>3 DEF SessionForm
  <1>2. CASE ~InsertTrack
    BY <1>2 DEF SnapshotStep, SessionForm, ReadBalance, ValueProduct, SkipProduct, EndLoop, Abandon
  <1> QED
    BY <1>1, <1>2

LEMMA SessionFormNext == ASSUME SessionForm, [Next]_vars PROVE SessionForm'
  <1>1. CASE OrderStep \/ UNCHANGED vars
    <2>1. UNCHANGED sessionVars
      BY <1>1 DEF OrderStep, TypeSend, RefuseFlags, AcceptFlags, QuitCommand, SendOrder,
                  ExchangeLists, ShowList, TypeCancel, EndCommand, vars, sessionVars
    <2> QED
      BY <2>1 DEF SessionForm, sessionVars
  <1>2. CASE \E event \in Events : Begin(event)
    <2>1. PICK event \in Events : Begin(event)
      BY <1>2
    <2>2. account' \in [Names -> Text] /\ close' \in [Coins -> Nat]
      <3>1. AmountTexts \subseteq Text /\ Closes \subseteq Nat
        BY SessionAssumption
      <3>2. account' \in [Names -> AmountTexts] /\ close' \in [Coins -> Closes]
        BY <2>1 DEF Begin
      <3> QED
        BY <3>1, <3>2
    <2>3. snap' \in Snapshot
      BY <2>1, ListOfProducts DEF Begin, Snapshot, SessionForm
    <2> QED
      BY <2>1, <2>2, <2>3 DEF Begin, SessionForm
  <1>3. CASE SnapshotStep
    BY <1>3, SnapFormNext, TracksFormNext DEF SessionForm
  <1>4. CASE MarketMoves
    <2>1. close' \in [Coins -> Nat]
      BY <1>4, SessionAssumption DEF MarketMoves, SessionForm
    <2> QED
      BY <1>4, <2>1 DEF MarketMoves, SessionForm
  <1> QED
    BY <1>1, <1>2, <1>3, <1>4 DEF Next, SessionStep

(* A row of the list holds an order's side, its type and integers.           *)
LEMMA ListedForm ==
  ASSUME NEW flags \in Flags, NEW c, ListedFrom(c, flags)
  PROVE  parseOrderList(c.raws) \in Seq(Info)
  <1>1. PICK in : in = c.in
    OBVIOUS
  <1>2. /\ in.price \in Int64 /\ in.qty \in Int64 /\ in.side \in Sides /\ in.type \in OrderTypes
        /\ Takes(RequestFields(in)) /\ \E row \in RowsOf(RequestFields(in)) : c.raws = <<row>>
    BY <1>1, InputNumbers DEF ListedFrom, SentFrom
  <1>3. PICK row \in RowsOf(RequestFields(in)) : c.raws = <<row>>
    BY <1>2
  <1>4. /\ toInfo(row).side = in.side /\ toInfo(row).type = in.type
        /\ toInfo(row).price = (IF in.price > 0 THEN in.price ELSE 0)
        /\ toInfo(row).origQuantity = in.qty
        /\ row.quantityExecuted \in Text /\ row.avgPrice \in Text
    BY <1>2, RowIsRead
  <1>5. toInfo(row) \in Info
    <2>1. /\ ParseOrZero(row.quantityExecuted, QtyDecimals) \in Int
          /\ ParseOrZero(row.avgPrice, PriceDecimals) \in Int
      BY <1>4, AmountInt, DecimalsAssumption
    <2>2. /\ in.qty \in Int /\ (IF in.price > 0 THEN in.price ELSE 0) \in Int
      BY <1>2, FillAssumption DEF Int64
    <2>3. /\ sideFromString(row.side) \in Sides /\ typeFromString(row.orderType) \in OrderTypes
          /\ ParseOrZero(row.price, PriceDecimals) \in Int
          /\ ParseOrZero(OrigOf(row), QtyDecimals) \in Int
      BY <1>2, <1>4, <2>2 DEF toInfo
    <2> QED
      BY <2>1, <2>3 DEF toInfo, Info
  <1>6. parseOrderList(c.raws) = [i \in 1..1 |-> toInfo(<<row>>[i])]
    BY <1>3 DEF parseOrderList
  <1>7. parseOrderList(c.raws) \in [1..1 -> Info]
    BY <1>5, <1>6
  <1>8. parseOrderList(c.raws) \in UNION {[1..n -> Info] : n \in Nat}
    BY <1>7, Zenon
  <1> QED
    BY <1>8, SeqDef, Zenon

(* The tables, the snapshot and every stage of a command keep their types,   *)
(* whatever texts the operator and the exchange write: every number a        *)
(* command goes on with is an int64.                                         *)
THEOREM ConsoleTypes == Spec => []TypeOK
  <1>1. ASSUME SessionForm, CommandInv PROVE TypeOK
    <2>1. ASSUME cmd.pc \in {"asked", "posted"} PROVE cmd.in.qty \in -(MaxInt + 1)..MaxInt
      <3>1. PICK flags \in Flags : Accepts(flags) /\ cmd.in = SendOrderInput(flags)
        BY <1>1, <2>1 DEF CommandInv, SentFrom
      <3> QED
        BY <3>1, InputNumbers DEF Int64
    <2>2. ASSUME cmd.pc = "shown", "infos" \in DOMAIN cmd PROVE cmd.infos \in Seq(Info)
      BY <1>1, <2>2, ListedForm DEF CommandInv
    <2> QED
      BY <1>1, <2>1, <2>2 DEF TypeOK, SessionForm, CommandInv
  <1>2. Spec => []SessionForm
    BY SessionFormInit, SessionFormNext, PTL DEF Spec
  <1> QED
    BY <1>1, <1>2, CommandsAreTraced, PTL

-----------------------------------------------------------------------------
(* The worth of a product, exact and as the program counts it.  The balance  *)
(* holds no debt: an amount that can be read is not negative.                *)
NoDebt ==
  \A a \in AmountTexts : ~Malformed(a, QtyDecimals) => ParseOrZero(a, QtyDecimals) \in Nat

Readable ==
  /\ \A p \in Names : account[p] \in AmountTexts /\ ~Malformed(account[p], QtyDecimals)
  /\ close \in [Coins -> Nat]

LEMMA WorthIsNat ==
  ASSUME NoDebt, Readable, NEW p \in Names
  PROVE  /\ ParseOrZero(account[p], QtyDecimals) \in Nat /\ SatangPer(p) \in Nat
         /\ ExactWorthOf[p] = ParseOrZero(account[p], QtyDecimals) * SatangPer(p)
         /\ ExactWorthOf[p] \in Nat
  <1>1. ParseOrZero(account[p], QtyDecimals) \in Nat
    BY DEF NoDebt, Readable
  <1>2. SatangPer(p) \in Nat
    BY PriceOfMoney DEF Readable, SatangPer, Coins
  <1>3. \A a, b \in Nat : a * b \in Nat
    OBVIOUS
  <1> QED
    BY <1>1, <1>2, <1>3 DEF ExactWorthOf

LEMMA WorthOfSome ==
  ASSUME NoDebt, Readable, NEW S, S \subseteq Names
  PROVE  ExactWorth(S) \in Nat /\ ExactWorth(S) <= ExactWorth(Names)
  <1>1. \A p \in Names : ExactWorthOf[p] \in Nat
    BY WorthIsNat
  <1>2. IsFiniteSet(Names) /\ IsFiniteSet(S)
    BY ProductsCounted, FS_Subset
  <1> QED
    BY <1>1, <1>2, SumNat, SumMonotone DEF ExactWorth

LEMMA WorthOfOneMore ==
  ASSUME NoDebt, Readable, NEW S, S \subseteq Names, NEW p \in Names, p \notin S
  PROVE  ExactWorth(S \cup {p}) = ExactWorth(S) + ExactWorthOf[p]
  <1>1. \A q \in S \cup {p} : ExactWorthOf[q] \in Int
    BY WorthIsNat
  <1>2. IsFiniteSet(S)
    BY ProductsCounted, FS_Subset
  <1> QED
    BY <1>1, <1>2, SumAdd DEF ExactWorth

(* One product's satang, cut off to whole ones.                              *)
LEMMA CutOffDivision ==
  ASSUME NEW a \in 0..MaxInt
  PROVE  /\ TruncDiv(Wrap(a), Scale) \in Nat
         /\ Approximates(TruncDiv(Wrap(a), Scale), a, 1)
  <1>1. TruncDiv(Wrap(a), Scale) = a \div Scale
    BY WrapsNothing DEF TruncDiv
  <1>2. /\ a % Scale \in 0 .. Scale - 1 /\ a \div Scale \in Int
        /\ a = Scale * (a \div Scale) + (a % Scale)
    BY DivMod, FillAssumption
  <1>3. a \div Scale \in Nat
    BY DivBelow, FillAssumption
  <1> QED
    BY <1>1, <1>2, <1>3, FillAssumption DEF Approximates

LEMMA SatangApproximates ==
  ASSUME NoDebt, Readable, NEW p \in Names, ExactWorthOf[p] <= MaxInt
  PROVE  LET satang == SatangOf(p, ParseOrZero(account[p], QtyDecimals))
         IN  satang \in Nat /\ Approximates(satang, ExactWorthOf[p], 1)
  <1> DEFINE amount == ParseOrZero(account[p], QtyDecimals)
  <1>1. SatangOf(p, amount) = TruncDiv(Wrap(amount * SatangPer(p)), Scale)
    BY DEF SatangOf, ValueOf, SatangPer
  <1>2. ExactWorthOf[p] = amount * SatangPer(p) /\ ExactWorthOf[p] \in 0..MaxInt
    BY WorthIsNat, FillAssumption
  <1> QED
    BY <1>1, <1>2, CutOffDivision

(* Approximations add up, and a total that approximates something that fits  *)
(* in an int64 fits too.                                                     *)
LEMMA ApproximationsAdd ==
  ASSUME NEW a \in Int, NEW b \in Int, NEW x \in Int, NEW y \in Int, NEW n \in Int,
         Approximates(a, x, n), Approximates(b, y, 1)
  PROVE  Approximates(a + b, x + y, n + 1)
  <1>1. (a + b) * Scale = a * Scale + b * Scale
    BY FillAssumption
  <1>2. (n + 1) * (Scale - 1) = n * (Scale - 1) + 1 * (Scale - 1)
    BY FillAssumption
  <1>3. a * Scale \in Int /\ b * Scale \in Int /\ n * (Scale - 1) \in Int /\ 1 * (Scale - 1) \in Int
    BY FillAssumption
  <1> QED
    BY <1>1, <1>2, <1>3 DEF Approximates

(* A product that adds nothing keeps the approximation.                      *)
LEMMA ApproximationKept ==
  ASSUME NEW a \in Int, NEW x \in Int, NEW n \in Int, Approximates(a, x, n - 1)
  PROVE  Approximates(a, x, n)
  <1>1. Approximates(0, 0, 1)
    BY FillAssumption DEF Approximates
  <1>2. n - 1 \in Int /\ a + 0 = a /\ x + 0 = x /\ (n - 1) + 1 = n
    OBVIOUS
  <1>3. Approximates(a + 0, x + 0, (n - 1) + 1)
    BY <1>1, <1>2, ApproximationsAdd
  <1> QED
    BY <1>2, <1>3

LEMMA ApproximationFits ==
  ASSUME NEW a \in Nat, NEW x \in Int, NEW n \in Int, Approximates(a, x, n), x <= MaxInt
  PROVE  Wrap(a) = a
  <1>1. 1 * a <= Scale * a
    BY ProductGrows, FillAssumption
  <1>2. a <= a * Scale
    BY <1>1, FillAssumption
  <1>3. a * Scale \in Int
    BY FillAssumption
  <1>4. a \in 0..MaxInt
    BY <1>2, <1>3, FillAssumption DEF Approximates
  <1> QED
    BY <1>4, WrapsNothing

-----------------------------------------------------------------------------
(* The invariant.                                                            *)
SnapshotForm ==
  /\ moves \in Nat
  /\ snap = NoSnap \/ snap \in Snapshot
  /\ snap # NoSnap => account \in [Names -> AmountTexts] /\ close \in [Coins -> Nat]
  /\ snap.pc = "loop" => snap.at \in 1..(Len(Products) + 1)

TotalInv == snap # NoSnap /\ snap.from = moves /\ ExactWorth(Names) <= MaxInt => snap.total >= 0

SnapshotIInv == SnapshotForm /\ SnapshotInv /\ TotalInv

LEMMA SnapshotInitInv == ASSUME Init PROVE SnapshotIInv
  BY DEF Init, SessionInit, SnapshotIInv, SnapshotForm, SnapshotInv, TotalInv, NoSnap

LEMMA ReadableInLoop ==
  ASSUME SnapshotIInv, snap.pc \in {"loop", "insert"}
  PROVE  /\ Readable /\ snap # NoSnap /\ snap \in Snapshot
         /\ \A p \in Names : snap.held[p] = ParseOrZero(account[p], QtyDecimals)
  BY DEF SnapshotIInv, SnapshotForm, SnapshotInv, NoSnap, Readable

(* A product is valued or left out.                                          *)
LEMMA LoopStep ==
  ASSUME NoDebt, SnapshotIInv, ValueProduct \/ SkipProduct
  PROVE  SnapshotIInv'
  <1> DEFINE n == snap.at
             done == Done(n - 1) \ snap.missed
             p == Products[n]
  <1>1. /\ snap.pc = "loop" /\ n \in 1..Len(Products) /\ n - 1 \in Nat
        /\ UNCHANGED <<account, close, moves>>
    BY ListOfProducts DEF ValueProduct, SkipProduct, InLoop, SnapshotIInv, SnapshotForm
  <1>2. /\ Readable /\ snap # NoSnap /\ snap \in Snapshot /\ snap.missed \subseteq Done(n - 1)
        /\ snap.held[p] = ParseOrZero(account[p], QtyDecimals)
        /\ snap.held = [q \in Names |-> ParseOrZero(account[q], QtyDecimals)]
    BY <1>1, ReadableInLoop, NextDone DEF SnapshotIInv, SnapshotInv
  <1>3. /\ p \in Names /\ p \notin Done(n - 1) /\ Done(n) = Done(n - 1) \cup {p}
        /\ Done(n) \subseteq Names /\ done \subseteq Names /\ p \notin done
    BY <1>1, NextDone
  <1>4a. n + 1 \in 1..(Len(Products) + 1)
    BY <1>1, ListOfProducts
  <1>4. /\ snap'.pc = "loop" /\ snap'.held = snap.held /\ snap'.at = n + 1
        /\ snap'.from = snap.from /\ snap' \in Snapshot
    <2>1. CASE ValueProduct
      <3>1. PICK total : /\ total = (IF snap.held[p] = 0 THEN snap.total
                                     ELSE Wrap(snap.total + SatangOf(p, snap.held[p])))
                         /\ snap' = [snap EXCEPT !.at = n + 1, !.total = total]
        BY <2>1 DEF ValueProduct, Product
      <3>2. total \in Int
        <4>1. SatangOf(p, snap.held[p]) \in Int
          <5>1. snap.held[p] \in Int
            BY <1>2, <1>3 DEF Snapshot
          <5> QED
            BY <1>2, <1>3, <5>1, SatangOfInt DEF Readable
        <4>2. snap.total \in Int
          BY <1>2 DEF Snapshot
        <4> QED
          BY <3>1, <4>1, <4>2, WrapInt
      <3> QED
        BY <1>1, <1>2, <1>4a, <3>1, <3>2 DEF Snapshot
    <2>2. CASE SkipProduct
      <3>1. snap' = [snap EXCEPT !.at = n + 1, !.missed = @ \cup {p}]
        BY <2>2 DEF SkipProduct, Product
      <3>2. p \in Coins
        BY <1>3, <2>2 DEF SkipProduct, Product, Coins
      <3> QED
        BY <1>1, <1>2, <1>4a, <3>1, <3>2 DEF Snapshot
    <2> QED
      BY <2>1, <2>2
  <1>5. \/ SkipProduct /\ snap'.missed = snap.missed \cup {p} /\ snap'.total = snap.total /\ p # THB
        \/ /\ ValueProduct /\ snap'.missed = snap.missed
           /\ snap'.total = IF snap.held[p] = 0 THEN snap.total
                            ELSE Wrap(snap.total + SatangOf(p, snap.held[p]))
    BY <1>2 DEF ValueProduct, SkipProduct, Snapshot, Product
  <1>6. ExactWorthOf' = ExactWorthOf /\ ExactWorth(Names)' = ExactWorth(Names)
    BY <1>1 DEF ExactWorth, ExactWorthOf, SatangPer
  <1>7. SnapshotForm'
    <2>1. snap'.at \in 1..(Len(Products) + 1)
      BY <1>4, <1>4a
    <2> QED
      BY <1>1, <1>2, <1>4, <2>1 DEF SnapshotForm, SnapshotIInv
  <1>8. /\ snap'.missed \subseteq Done(n)
        /\ Readable'
    BY <1>1, <1>2, <1>3, <1>5 DEF Readable
  <1>9. ASSUME snap'.from = moves', ExactWorth(Names)' <= MaxInt
        PROVE  /\ snap'.total \in Nat
               /\ Approximates(snap'.total, ExactWorth(Done(n) \ snap'.missed), n)
    <2>1. /\ Approximates(snap.total, ExactWorth(done), n - 1)
          /\ snap.total \in Nat /\ ExactWorth(done) \in Nat /\ ExactWorthOf[p] \in Nat
          /\ ExactWorth(Names) <= MaxInt
      <3>1. snap.from = moves /\ ExactWorth(Names) <= MaxInt
        BY <1>1, <1>4, <1>6, <1>9
      <3>2. snap.total \in Int
        BY <1>2 DEF Snapshot
      <3> QED
        BY <1>2, <1>3, <3>1, <3>2, WorthOfSome, WorthIsNat DEF SnapshotIInv, SnapshotInv, TotalInv
    <2>2. Approximates(snap.total, ExactWorth(done), n)
      <3>1. snap.total \in Int /\ ExactWorth(done) \in Int /\ n \in Int
        BY <1>1, <2>1
      <3> HIDE DEF done, n
      <3> QED
        BY <2>1, <3>1, ApproximationKept
    <2>3. CASE SkipProduct /\ snap'.missed = snap.missed \cup {p} /\ snap'.total = snap.total
      <3>1. Done(n) \ snap'.missed = done
        BY <1>3, <2>3
      <3> HIDE DEF done
      <3> QED
        BY <2>1, <2>2, <2>3, <3>1
    <2>4. CASE /\ snap'.missed = snap.missed
               /\ snap'.total = IF snap.held[p] = 0 THEN snap.total
                                ELSE Wrap(snap.total + SatangOf(p, snap.held[p]))
      <3>1. Done(n) \ snap'.missed = done \cup {p}
        BY <1>2, <1>3, <2>4
      <3>2. /\ ExactWorth(done \cup {p}) = ExactWorth(done) + ExactWorthOf[p]
            /\ ExactWorth(done \cup {p}) <= ExactWorth(Names)
            /\ ExactWorth(done) <= ExactWorth(Names)
            /\ ExactWorth(done \cup {p}) \in Nat /\ ExactWorth(Names) \in Nat
        <4>1. done \cup {p} \subseteq Names
          BY <1>3
        <4> HIDE DEF done
        <4> QED
          BY <1>2, <1>3, <4>1, WorthOfOneMore, WorthOfSome
      <3> HIDE DEF done
      <3>3. ExactWorthOf[p] <= MaxInt
        BY <2>1, <3>2, FillAssumption
      <3> DEFINE satang == SatangOf(p, snap.held[p])
      <3>4. satang \in Nat /\ Approximates(satang, ExactWorthOf[p], 1)
        BY <1>2, <1>3, <3>3, SatangApproximates
      <3>5. CASE snap.held[p] = 0
        <4>1. ExactWorthOf[p] = 0 /\ snap'.total = snap.total
          <5>1. \A b \in Nat : 0 * b = 0
            OBVIOUS
          <5> QED
            BY <1>2, <1>3, <3>5, <2>4, <5>1, WorthIsNat
        <4>2. ExactWorth(done \cup {p}) = ExactWorth(done)
          BY <2>1, <3>2, <4>1
        <4> QED
          BY <2>1, <2>2, <3>1, <4>1, <4>2
      <3>6. CASE snap.held[p] # 0
        <4> HIDE DEF satang
        <4>1. Approximates(snap.total + satang, ExactWorth(done) + ExactWorthOf[p], (n - 1) + 1)
          <5>1. /\ snap.total \in Int /\ satang \in Int /\ ExactWorth(done) \in Int
                /\ ExactWorthOf[p] \in Int /\ n - 1 \in Int
            BY <1>1, <2>1, <3>4
          <5> QED
            BY <2>1, <3>4, <5>1, ApproximationsAdd
        <4>2. (n - 1) + 1 = n /\ snap.total + satang \in Nat
          BY <1>1, <2>1, <3>4
        <4>3. Approximates(snap.total + satang, ExactWorth(done \cup {p}), n)
          BY <3>2, <4>1, <4>2
        <4>4. Wrap(snap.total + satang) = snap.total + satang
          <5>1. ExactWorth(done \cup {p}) \in Int /\ ExactWorth(done \cup {p}) <= MaxInt /\ n \in Int
            BY <1>1, <2>1, <3>2, FillAssumption
          <5> QED
            BY <4>2, <4>3, <5>1, ApproximationFits
        <4>5. snap'.total = Wrap(snap.total + satang)
          BY <2>4, <3>6 DEF satang
        <4> QED
          BY <3>1, <4>2, <4>3, <4>4, <4>5
      <3> QED
        BY <3>5, <3>6
    <2> QED
      BY <1>5, <2>3, <2>4
  <1>10. TotalInv'
    BY <1>9 DEF TotalInv
  <1>11. SnapshotInv'
    <2>1. snap' # NoSnap
      BY <1>4 DEF NoSnap
    <2>2. snap'.at - 1 = n
      BY <1>1, <1>4
    <2>3. snap'.from <= moves'
      BY <1>1, <1>2, <1>4 DEF SnapshotIInv, SnapshotInv
    <2>4. snap'.from = moves' /\ ExactWorth(Names)' <= MaxInt =>
            Approximates(snap'.total, ExactWorth(Done(snap'.at - 1) \ snap'.missed), snap'.at - 1)
      BY <1>9, <2>2
    <2>5. ExactWorth(Done(snap.at - 1) \ snap.missed)' = ExactWorth(Done(snap'.at - 1) \ snap'.missed)
      BY <1>6 DEF ExactWorth, Done
    <2>6. /\ snap'.held = [q \in Names |-> ParseOrZero(account'[q], QtyDecimals)]
          /\ \A q \in Names : ~Malformed(account'[q], QtyDecimals)
      BY <1>1, <1>2, <1>4, <1>8 DEF Readable
    <2>7. snap'.missed \subseteq Done(snap'.at - 1)
      BY <1>8, <2>2
    <2>8. (Done(snap.at - 1))' = Done(snap'.at - 1)
      BY DEF Done
    <2> QED
      BY <1>4, <2>1, <2>3, <2>4, <2>5, <2>6, <2>7, <2>8 DEF SnapshotInv, Approximates
  <1> QED
    BY <1>7, <1>10, <1>11 DEF SnapshotIInv

-----------------------------------------------------------------------------
(* A step that leaves the snapshot, its account and its markets as they are. *)
LEMMA RestingStep ==
  ASSUME SnapshotIInv, UNCHANGED <<account, close, moves, snap>> PROVE SnapshotIInv'
  BY DEF SnapshotIInv, SnapshotForm, SnapshotInv, TotalInv, NoSnap, Snapshot, ExactWorth,
         ExactWorthOf, SatangPer, Readable, Done, Approximates

LEMMA BeginStep ==
  ASSUME SnapshotIInv, NEW event \in Events, Begin(event) PROVE SnapshotIInv'
  <1>1. /\ account' \in [Names -> AmountTexts] /\ close' \in [Coins -> Nat] /\ moves' = moves
        /\ snap' \in Snapshot /\ snap'.pc = "balance" /\ snap'.from = moves /\ moves \in Nat
        /\ snap'.at = 1 /\ snap'.total = 0 /\ snap'.missed = {}
    <2>1. snap' = [pc |-> "balance", event |-> event, held |-> [q \in Names |-> 0], at |-> 1,
                   total |-> 0, missed |-> {}, from |-> moves]
      BY DEF Begin
    <2>2. 1 \in 1..(Len(Products) + 1) /\ [q \in Names |-> 0] \in [Names -> Int] /\ moves \in Nat
      BY ListOfProducts DEF SnapshotIInv, SnapshotForm
    <2>3. snap' \in Snapshot
      BY <2>1, <2>2 DEF Snapshot
    <2>4. /\ account' \in [Names -> AmountTexts] /\ close' \in [Coins -> Nat] /\ moves' = moves
      BY SessionAssumption DEF Begin
    <2> QED
      BY <2>1, <2>2, <2>3, <2>4
  <1>2. snap' # NoSnap
    BY <1>1 DEF NoSnap
  <1>3. ExactWorth(Done(snap.at - 1) \ snap.missed)' = 0
    <2>1. (Done(snap.at - 1) \ snap.missed)' = {}
      BY <1>1, ProductsCounted DEF Done
    <2> QED
      BY <2>1, SumEmpty DEF ExactWorth
  <1>4. Approximates(snap.total, ExactWorth(Done(snap.at - 1) \ snap.missed), snap.at - 1)'
    BY <1>1, <1>3, FillAssumption DEF Approximates
  <1>5. SnapshotInv'
    BY <1>1, <1>2, <1>4 DEF SnapshotInv
  <1> QED
    BY <1>1, <1>2, <1>5 DEF SnapshotIInv, SnapshotForm, TotalInv

LEMMA NoSnapStep ==
  ASSUME SnapshotIInv, snap' = NoSnap, moves' = moves PROVE SnapshotIInv'
  BY DEF SnapshotIInv, SnapshotForm, SnapshotInv, TotalInv, NoSnap

(* The snapshot goes on to where the same products are done.                 *)
SameCount ==
  /\ UNCHANGED <<account, close, moves>> /\ snap # NoSnap /\ snap' \in Snapshot
  /\ snap'.at = snap.at /\ snap'.total = snap.total /\ snap'.missed = snap.missed
  /\ snap'.from = snap.from

LEMMA SameCountKept ==
  ASSUME SnapshotIInv, SameCount,
         snap'.pc \in {"loop", "insert"},
         snap'.held = [p \in Names |-> ParseOrZero(account[p], QtyDecimals)],
         \A p \in Names : ~Malformed(account[p], QtyDecimals),
         snap'.pc = "insert" => snap.at = Len(Products) + 1
  PROVE  SnapshotIInv'
  <1>1. snap' # NoSnap /\ snap'.at \in 1..(Len(Products) + 1)
    BY DEF NoSnap, SameCount, Snapshot
  <1>2. /\ (Done(snap.at - 1) \ snap.missed)' = Done(snap.at - 1) \ snap.missed
        /\ (Done(snap.at - 1))' = Done(snap.at - 1)
    BY DEF Done, SameCount
  <1>3. /\ ExactWorth(Names)' = ExactWorth(Names)
        /\ ExactWorth(Done(snap.at - 1) \ snap.missed)' = ExactWorth(Done(snap.at - 1) \ snap.missed)
    BY <1>2 DEF ExactWorth, ExactWorthOf, SatangPer, SameCount
  <1>5. SnapshotForm'
    BY <1>1 DEF SnapshotForm, SnapshotIInv, SameCount
  <1>6. TotalInv'
    BY <1>3 DEF TotalInv, SnapshotIInv, SameCount
  <1>7. SnapshotInv'
    BY <1>1, <1>2, <1>3 DEF SnapshotInv, SnapshotIInv, SameCount, Approximates
  <1> QED
    BY <1>5, <1>6, <1>7 DEF SnapshotIInv

LEMMA MoveOn ==
  ASSUME NoDebt, SnapshotIInv, ReadBalance \/ EndLoop PROVE SnapshotIInv'
  <1>1. CASE ReadBalance
    <2>1. /\ snap # NoSnap /\ snap \in Snapshot /\ account \in [Names -> AmountTexts]
      BY <1>1 DEF ReadBalance, SnapshotIInv, SnapshotForm, NoSnap
    <2>2. \A p \in Names : ~Malformed(account[p], QtyDecimals)
      BY <1>1 DEF ReadBalance
    <2>3. [p \in Names |-> ParseOrZero(account[p], QtyDecimals)] \in [Names -> Int]
      BY <2>1, <2>2 DEF NoDebt
    <2>4. snap' = [snap EXCEPT !.pc = "loop",
                               !.held = [p \in Names |-> ParseOrZero(account[p], QtyDecimals)]]
      BY <1>1 DEF ReadBalance
    <2>5. SameCount /\ snap'.pc = "loop"
          /\ snap'.held = [p \in Names |-> ParseOrZero(account[p], QtyDecimals)]
      BY <1>1, <2>1, <2>3, <2>4 DEF ReadBalance, SameCount, Snapshot
    <2> QED
      BY <2>2, <2>5, SameCountKept
  <1>2. CASE EndLoop
    <2>1. /\ snap # NoSnap /\ snap \in Snapshot /\ snap.at = Len(Products) + 1
      BY <1>2, ListOfProducts DEF EndLoop, SnapshotIInv, SnapshotForm, NoSnap
    <2>2. /\ \A p \in Names : ~Malformed(account[p], QtyDecimals)
          /\ snap.held = [p \in Names |-> ParseOrZero(account[p], QtyDecimals)]
      BY <1>2 DEF EndLoop, SnapshotIInv, SnapshotInv
    <2>3. SameCount /\ snap'.pc = "insert" /\ snap'.held = snap.held
      BY <1>2, <2>1 DEF EndLoop, SameCount, Snapshot
    <2> QED
      BY <2>1, <2>2, <2>3, SameCountKept
  <1> QED
    BY <1>1, <1>2

LEMMA MarketStep ==
  ASSUME SnapshotIInv, MarketMoves PROVE SnapshotIInv'
  <1>1. /\ snap' = snap /\ account' = account /\ moves' = moves + 1 /\ moves \in Nat
        /\ snap # NoSnap /\ snap \in Snapshot /\ snap.from <= moves
    BY DEF MarketMoves, SnapshotIInv, SnapshotForm, SnapshotInv
  <1>2. close' \in [Coins -> Nat]
    BY SessionAssumption DEF MarketMoves, SnapshotIInv, SnapshotForm
  <1>3. snap'.from # moves' /\ snap'.from <= moves'
    BY <1>1 DEF Snapshot
  <1> QED
    BY <1>1, <1>2, <1>3 DEF SnapshotIInv, SnapshotForm, SnapshotInv, TotalInv, Done

LEMMA SnapshotNextInv == ASSUME NoDebt, SnapshotIInv, [Next]_vars PROVE SnapshotIInv'
  <1>1. CASE OrderStep
    <2>1. UNCHANGED sessionVars
      BY <1>1 DEF OrderStep, TypeSend, RefuseFlags, AcceptFlags, QuitCommand, SendOrder,
                  ExchangeLists, ShowList, TypeCancel, EndCommand
    <2> QED
      BY <2>1, RestingStep DEF sessionVars
  <1>2. CASE UNCHANGED vars
    BY <1>2, RestingStep DEF vars, sessionVars
  <1>3. CASE SessionStep
    <2>1. CASE \E event \in Events : Begin(event)
      BY <2>1, BeginStep
    <2>2. CASE ReadBalance \/ EndLoop
      BY <2>2, MoveOn
    <2>3. CASE ValueProduct \/ SkipProduct
      BY <2>3, LoopStep
    <2>4. CASE InsertTrack \/ Abandon
      BY <2>4, NoSnapStep DEF InsertTrack, Abandon
    <2>5. CASE MarketMoves
      BY <2>5, MarketStep
    <2> QED
      BY <1>3, <2>1, <2>2, <2>3, <2>4, <2>5 DEF SessionStep, SnapshotStep
  <1> QED
    BY <1>1, <1>2, <1>3 DEF Next

-----------------------------------------------------------------------------
(* A row inserted.                                                           *)
SnapshotIsWorthStep ==
  tracks' # tracks =>
    LET row == tracks'[Len(tracks')]
    IN  row.from = row.to /\ ExactWorth(Names) <= MaxInt =>
          Approximates(row.balance, ExactWorth(Names \ row.missed), Cardinality(Names))

LEMMA TracksGrow ==
  ASSUME tracks \in Seq(Track), [Next]_vars
  PROVE  \/ tracks' = tracks
         \/ InsertTrack
  BY DEF Next, vars, sessionVars, OrderStep, TypeSend, RefuseFlags, AcceptFlags, QuitCommand,
         SendOrder, ExchangeLists, ShowList, TypeCancel, EndCommand, SessionStep, SnapshotStep,
         Begin, ReadBalance, ValueProduct, SkipProduct, EndLoop, Abandon, MarketMoves

LEMMA RowInserted ==
  ASSUME SnapshotIInv, tracks \in Seq(Track), InsertTrack
  PROVE  SnapshotIsWorthStep /\ tracks' \in Seq(Track)
  <1> DEFINE row == [event |-> snap.event, balance |-> snap.total, missed |-> snap.missed,
                     from |-> snap.from, to |-> moves]
  <1>1. /\ snap # NoSnap /\ snap \in Snapshot /\ snap.at = Len(Products) + 1 /\ moves \in Nat
    BY DEF InsertTrack, SnapshotIInv, SnapshotForm, SnapshotInv, NoSnap
  <1>2. row \in Track
    BY <1>1 DEF Snapshot, Track
  <1>3. tracks' = Append(tracks, row)
    BY DEF InsertTrack
  <1>4. tracks'[Len(tracks')] = row /\ tracks' \in Seq(Track)
    <2> HIDE DEF row
    <2> QED
      BY <1>2, <1>3
  <1>5. snap.at - 1 = Len(Products)
    BY <1>1, ListOfProducts
  <1>6. ASSUME snap.from = moves, ExactWorth(Names) <= MaxInt
        PROVE  Approximates(snap.total, ExactWorth(Names \ snap.missed), Cardinality(Names))
    BY <1>1, <1>5, <1>6, ProductsCounted DEF SnapshotIInv, SnapshotInv
  <1> QED
    BY <1>4, <1>6 DEF SnapshotIsWorthStep

(* Every row of session_tracks taken while no market moved is worth of the   *)
(* account, but for the coins whose ticker failed, to less than a satang per *)
(* product: of every list of products, every prices and every number of      *)
(* sessions, as long as no amount is negative and the worth fits in an int64.*)
THEOREM RowsAreWorth == ASSUME NoDebt PROVE Spec => SnapshotIsWorth
  <1> DEFINE Inv == SnapshotIInv /\ tracks \in Seq(Track)
  <1>1. Init => Inv
    BY SnapshotInitInv DEF Init, SessionInit
  <1>2. Inv /\ [Next]_vars => Inv' /\ [SnapshotIsWorthStep]_vars
    <2> SUFFICES ASSUME Inv, [Next]_vars PROVE Inv' /\ [SnapshotIsWorthStep]_vars
      OBVIOUS
    <2>1. SnapshotIInv'
      BY SnapshotNextInv
    <2>2. CASE tracks' = tracks
      BY <2>1, <2>2 DEF SnapshotIsWorthStep
    <2>3. CASE InsertTrack
      BY <2>1, <2>3, RowInserted
    <2> QED
      BY <2>2, <2>3, TracksGrow
  <1>3. [SnapshotIsWorthStep]_vars <=> [tracks' # tracks =>
            LET row == tracks'[Len(tracks')]
            IN  row.from = row.to /\ ExactWorth(Names) <= MaxInt =>
                  Approximates(row.balance, ExactWorth(Names \ row.missed), Cardinality(Names))]_vars
    BY DEF SnapshotIsWorthStep
  <1> QED
    BY <1>1, <1>2, <1>3, PTL DEF Spec, SnapshotIsWorth
=============================================================================
