------------------------------- MODULE OrderForm -------------------------------
(* What `order send`, `order cancel` and the order lists do with numbers     *)
(* (internal/cli/order.go, internal/invx/orders.go): flags to an order, the  *)
(* order to the fields of a request, and a listed row back to an order.  A   *)
(* field that is not sent, and a flag not given, is the empty text.          *)
EXTENDS FixedPoint

CONSTANTS
  PriceDecimals,  \* 2 in the code: prices and values are satang
  QtyDecimals     \* 8 in the code

ASSUME DecimalsAssumption ==
  /\ PriceDecimals \in Nat \ {0} /\ QtyDecimals \in Nat \ {0}
  /\ Scale = Power(10, QtyDecimals)

OrderTypes == {"LIMIT", "MARKET"}

-----------------------------------------------------------------------------
Given(text) == text # << >>
Malformed(text, decimals) == Given(text) /\ ~Parse(text, decimals).ok
Number(text, decimals) == IF Given(text) THEN Parse(text, decimals).value ELSE 0

PriceOf(flags) == Number(flags.price, PriceDecimals)
QtyOf(flags) == Number(flags.qty, QtyDecimals)
ValueAsked(flags) == Number(flags.value, PriceDecimals)

(* A value and no quantity: the value becomes a quantity at the price.       *)
Converts(flags) == ValueAsked(flags) > 0 /\ QtyOf(flags) = 0

(* The checks of `order send` on its flags, made before any conversion.      *)
Accepts(flags) ==
  /\ Given(flags.qty) # Given(flags.value)
  /\ flags.side \in Sides /\ flags.type \in OrderTypes
  /\ Given(flags.price) \/ flags.type = "MARKET"
  /\ ~Malformed(flags.price, PriceDecimals)
  /\ ~Malformed(flags.qty, QtyDecimals)
  /\ ~Malformed(flags.value, PriceDecimals)
  /\ QtyOf(flags) # 0 \/ ValueAsked(flags) # 0
  /\ Converts(flags) => PriceOf(flags) > 0

\* A plausible fault: the quantity is rounded up.
SendOrderInputRoundedUp(flags) ==
  [side |-> flags.side, type |-> flags.type, price |-> PriceOf(flags),
   qty |-> IF Converts(flags)
           THEN TruncDiv(ValueAsked(flags) * Scale + PriceOf(flags) - 1, PriceOf(flags))
           ELSE QtyOf(flags),
   value |-> IF Converts(flags) THEN 0 ELSE ValueAsked(flags)]

(* The SendOrderInput of accepted flags.                                     *)
SendOrderInput(flags) ==
  [side |-> flags.side, type |-> flags.type, price |-> PriceOf(flags),
   qty |-> IF Converts(flags)
           THEN UnitsFor(ValueAsked(flags), PriceOf(flags))
           ELSE QtyOf(flags),
   value |-> IF Converts(flags) THEN 0 ELSE ValueAsked(flags)]

-----------------------------------------------------------------------------
Field(v, decimals) == IF v > 0 THEN Format(v, decimals) ELSE << >>

\* A plausible fault: the value is sent beside the quantity.
RequestFieldsWithValue(in) ==
  [side |-> in.side, type |-> in.type,
   limitPrice |-> Field(in.price, PriceDecimals),
   quantity |-> Field(in.qty, QtyDecimals),
   value |-> Field(TruncDiv(in.qty * in.price, Scale), PriceDecimals)]

(* The fields SendOrder posts, whatever the type: only positive numbers.     *)
RequestFields(in) ==
  [side |-> in.side, type |-> in.type,
   limitPrice |-> Field(in.price, PriceDecimals),
   quantity |-> Field(in.qty, QtyDecimals),
   value |-> Field(in.value, PriceDecimals)]

(* The ids CancelOrder posts; 0 stands for one left out.  The command tests  *)
(* that one of them is not 0, the client sends the positive ones.            *)
CancelAccepts(ids) == ids.order # 0 \/ ids.client # 0
CancelFields(ids) ==
  [order |-> IF ids.order > 0 THEN ids.order ELSE 0,
   client |-> IF ids.client > 0 THEN ids.client ELSE 0]

-----------------------------------------------------------------------------
OrigOf(raw) == IF Given(raw.origQuantity) THEN raw.origQuantity ELSE raw.quantity

RawMalformed(raw) ==
  \/ Malformed(raw.price, PriceDecimals) \/ Malformed(OrigOf(raw), QtyDecimals)
  \/ Malformed(raw.quantityExecuted, QtyDecimals) \/ Malformed(raw.avgPrice, PriceDecimals)

\* A plausible fault: "Sell" only, where the exchange may answer "1".
sideFromWordOnly(s) == IF s = "Sell" THEN "SELL" ELSE "BUY"

sideFromString(s) == IF s \in {"Sell", "1"} THEN "SELL" ELSE "BUY"
typeFromString(s) == IF s \in {"Market", "1"} THEN "MARKET" ELSE "LIMIT"

ParseOrZero(text, decimals) == Parse(zeroIfEmpty(text), decimals).value

toInfo(raw) ==
  [side |-> sideFromString(raw.side), type |-> typeFromString(raw.orderType),
   price |-> ParseOrZero(raw.price, PriceDecimals),
   origQuantity |-> ParseOrZero(OrigOf(raw), QtyDecimals),
   executed |-> ParseOrZero(raw.quantityExecuted, QtyDecimals),
   avgPrice |-> ParseOrZero(raw.avgPrice, PriceDecimals)]

(* parseOrderList: one row that cannot be read fails the whole list.         *)
ListFails(raws) == \E i \in DOMAIN raws : RawMalformed(raws[i])
parseOrderList(raws) == [i \in DOMAIN raws |-> toInfo(raws[i])]
=============================================================================
