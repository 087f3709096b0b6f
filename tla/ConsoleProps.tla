----------------------------- MODULE ConsoleProps -----------------------------
(* What the console's commands promise of the numbers they read and write,   *)
(* against the exact decimals the texts denote.                              *)
EXTENDS Console, FiniteSetsExt

Info == [side : Sides, type : OrderTypes, price : Int, origQuantity : Int, executed : Int,
         avgPrice : Int]

TypeOK ==
  /\ account \in [Names -> Text] /\ close \in [Coins -> Nat] /\ moves \in Nat
  /\ snap = NoSnap \/ snap \in Snapshot
  /\ tracks \in Seq(Track)
  /\ cmd.pc \in {"none", "typed", "asked", "posted", "listed", "shown"}
  /\ cmd.pc \in {"asked", "posted"} => cmd.in.qty \in -(MaxInt + 1)..MaxInt
  /\ cmd.pc = "shown" /\ "infos" \in DOMAIN cmd => cmd.infos \in Seq(Info)

-----------------------------------------------------------------------------
(* The number a text denotes, as a fraction: its digits by their place, of   *)
(* which the last of the whole ones is before the point or else at the end.  *)
PointAt(u) == IF \E i \in DOMAIN u : u[i] = Point
              THEN CHOOSE i \in DOMAIN u : u[i] = Point ELSE Len(u) + 1
Whole(u) == SubSeq(u, 1, PointAt(u) - 1)
Rest(u) == SubSeq(u, PointAt(u) + 1, Len(u))

Weighed(digits) == [i \in DOMAIN digits |-> digits[i] * Power(10, Len(digits) - i)]
NumberOf(digits) == SumFunctionOnSet(Weighed(digits), DOMAIN digits)

IsDecimal(s) ==
  LET u == Unsigned(s)
      marks == {i \in DOMAIN u : u[i] \notin Digit}
  IN  /\ marks # DOMAIN u
      /\ \A i, j \in marks : u[i] = Point /\ i = j

Denoted(s) ==
  LET u == Unsigned(s)
      n == NumberOf(Whole(u) \o Rest(u))
  IN  [num |-> IF Head(s) = Minus THEN -n ELSE n, den |-> Power(10, Len(Rest(u)))]

Leq(a, b) == a.num * b.den <= b.num * a.den
Lt(a, b) == a.num * b.den < b.num * a.den
Units(v, decimals) == [num |-> v, den |-> Power(10, decimals)]
Times(a, b) == [num |-> a.num * b.num, den |-> a.den * b.den]
Magnitude(a) == [a EXCEPT !.num = IF @ < 0 THEN -@ ELSE @]

(* A decimal the program can hold.                                           *)
Representable(s, decimals) ==
  IsDecimal(s) /\ Leq(Magnitude(Denoted(s)), Units(MaxInt, decimals))

(* The scaled integer v is the number of the text, cut off after its         *)
(* decimals, toward zero.                                                    *)
CutOff(v, s, decimals) ==
  LET exact == Denoted(s)
  IN  /\ Leq(Magnitude(Units(v, decimals)), Magnitude(exact))
      /\ Lt(Magnitude(exact), Units(Magnitude(Units(v, decimals)).num + 1, decimals))
      /\ v * exact.num >= 0

(* Parse of any decimal that fits an int64 is that decimal cut off toward    *)
(* zero (pkg/scale: "Digits beyond `decimals` are truncated"), in every      *)
(* number flag of `order send`.                                              *)
ParseTruncates ==
  cmd.pc = "typed" =>
    \A flag \in {"price", "qty", "value"}, decimals \in {PriceDecimals, QtyDecimals} :
      Representable(cmd.flags[flag], decimals) =>
        /\ Parse(cmd.flags[flag], decimals).ok
        /\ CutOff(Parse(cmd.flags[flag], decimals).value, cmd.flags[flag], decimals)

-----------------------------------------------------------------------------
(* A field of a request is the flag typed, cut off to the units the program  *)
(* counts in.                                                                *)
FieldIsTyped(field, flag, decimals) ==
  Given(field) /\ Representable(flag, decimals) =>
    LET sent == Denoted(field)
        one == Units(1, decimals)
    IN  /\ Leq(sent, Denoted(flag))
        /\ Lt(Denoted(flag), [num |-> sent.num * one.den + one.num * sent.den,
                              den |-> sent.den * one.den])

(* The real order is the one typed: price and quantity as typed, and for     *)
(* --value the most units whose worth at the posted price does not exceed    *)
(* the value typed, while value * 1e8 fits an int64.                         *)
PostedWithinTyped ==
  cmd.pc = "posted" =>
    LET flags == cmd.flags
        body == cmd.body
    IN  /\ FieldIsTyped(body.limitPrice, flags.price, PriceDecimals)
        /\ Given(flags.qty) => FieldIsTyped(body.quantity, flags.qty, QtyDecimals)
        /\ Converts(flags) /\ ValueAsked(flags) * Scale <= MaxInt
             /\ Representable(flags.value, PriceDecimals) =>
             LET sent == IF Given(body.quantity) THEN Denoted(body.quantity)
                         ELSE Units(0, QtyDecimals)
                 more == Units(cmd.in.qty + 1, QtyDecimals)
             IN  /\ Leq(Times(sent, Denoted(body.limitPrice)), Denoted(flags.value))
                 /\ Lt(Units(ValueAsked(flags), PriceDecimals),
                       Times(more, Denoted(body.limitPrice)))

(* A raw value is never sent, the exchange would misread it (MANUAL.md,      *)
(* "CLI always sends quantity"), and an order without any size gets past the *)
(* zero-size check only when a number typed is negative, when the value is   *)
(* below one unit's price, or when value * 1e8 leaves int64.                 *)
OnlyQuantitiesSent ==
  cmd.pc = "posted" =>
    /\ ~Given(cmd.body.value)
    /\ ~Given(cmd.body.quantity) =>
         \/ QtyOf(cmd.flags) < 0 \/ ValueAsked(cmd.flags) < 0
         \/ /\ Converts(cmd.flags)
            /\ \/ ValueAsked(cmd.flags) * Scale < PriceOf(cmd.flags)
               \/ ValueAsked(cmd.flags) * Scale > MaxInt

(* An order the exchange took is listed as it was sent, and what it executed *)
(* is read cut off toward zero: Format and Parse undo each other, whichever  *)
(* field and spelling the exchange uses.                                     *)
ReadBackExact ==
  cmd.pc = "shown" /\ "infos" \in DOMAIN cmd =>
    LET info == cmd.infos[1]
        raw == cmd.raws[1]
    IN  /\ info.side = cmd.in.side /\ info.type = cmd.in.type
        /\ info.price = (IF cmd.in.price > 0 THEN cmd.in.price ELSE 0)
        /\ info.origQuantity = cmd.in.qty
        /\ Representable(raw.quantityExecuted, QtyDecimals) =>
             CutOff(info.executed, raw.quantityExecuted, QtyDecimals)
        /\ Representable(raw.avgPrice, PriceDecimals) =>
             CutOff(info.avgPrice, raw.avgPrice, PriceDecimals)

-----------------------------------------------------------------------------
(* The exact worth of products, in satang times Scale, at the close of the   *)
(* candle each ticker lists first; which candle that is, the newest or the   *)
(* oldest, is the exchange's affair.                                         *)
SatangPer(p) == IF p = THB THEN SatangPerTHB ELSE close[p]
ExactWorthOf == [p \in Names |-> ParseOrZero(account[p], QtyDecimals) * SatangPer(p)]
ExactWorth(S) == SumFunctionOnSet(ExactWorthOf, S)

(* The money a balance of this worth is at most below it: less than a satang *)
(* per product.                                                              *)
Approximates(balance, exact, products) ==
  balance * Scale <= exact /\ exact <= balance * Scale + products * (Scale - 1)

(* A row inserted while the first candles stood still is worth of the        *)
(* account at their closes, but for the coins whose ticker failed, and less  *)
(* than a satang per product below it (session.go: skipped coins are left    *)
(* out).                                                                     *)
SnapshotIsWorth ==
  [][tracks' # tracks =>
       LET row == tracks'[Len(tracks')]
       IN  row.from = row.to /\ ExactWorth(Names) <= MaxInt =>
             Approximates(row.balance, ExactWorth(Names \ row.missed), Cardinality(Names))]_vars

(* The same of a snapshot on its way through the products: the total is that *)
(* of the products done, while the market is as it was at the beginning.     *)
Done(n) == {Products[i] : i \in 1..n}

SnapshotInv ==
  /\ snap # NoSnap => snap \in Snapshot /\ snap.from <= moves /\ snap.missed \subseteq Done(snap.at - 1)
  /\ snap.pc = "balance" => snap.at = 1 /\ snap.total = 0
  /\ snap.pc = "insert" => snap.at = Len(Products) + 1
  /\ snap.pc \in {"loop", "insert"} =>
       /\ snap.held = [p \in Names |-> ParseOrZero(account[p], QtyDecimals)]
       /\ \A p \in Names : ~Malformed(account[p], QtyDecimals)
  /\ snap # NoSnap /\ snap.from = moves /\ ExactWorth(Names) <= MaxInt =>
       Approximates(snap.total, ExactWorth(Done(snap.at - 1) \ snap.missed), snap.at - 1)
=============================================================================
