------------------------------ MODULE OrderStore ------------------------------
(* The Postgres tables behind internal/order/store.go (statements in         *)
(* internal/sql/orders.sql) and the operations of Store on them.  Every      *)
(* operator below is one statement or one transaction, so it is one step.    *)
EXTENDS Integers

CONSTANTS
  Symbols,    \* traded pairs
  MaxOrders,  \* bound: rows the orders table can take
  MaxDay      \* bound: UTC days 1 .. MaxDay pass

ASSUME StoreAssumption == MaxOrders \in Nat /\ MaxDay \in Nat \ {0}

VARIABLES
  orders,     \* orders table, by id
  lastId,     \* the id sequence (BIGSERIAL): the last id handed out
  positions,  \* positions table, by symbol; an absent row reads as Flat
  risk,       \* risk_state table, by day; exists tells an absent row apart
  applied,    \* HISTORY: how often the fill of an order changed a position
  lost        \* HISTORY: by order, the realized profit its fills took off a position

storeVars == <<orders, lastId, positions, risk, applied, lost>>

-----------------------------------------------------------------------------
OrderIds == 1 .. MaxOrders

(* An operator's local date may be a day off the UTC date.                   *)
Days == 0 .. MaxDay + 1

NoRow == [status |-> "none"]

(* A row of orders.  day and value are not columns: they remember the day    *)
(* whose risk row admitted the order and its exposure, for the properties.   *)
Rows(S) == [symbol : Symbols, side : {"BUY", "SELL"}, price : Nat \ {0}, qty : Int,
            mode : {"paper", "live"}, status : S, day : Days, value : Int]

SettledStatus == {"accepted", "rejected"}
Row == Rows({"pending"} \cup SettledStatus)

NewRisk == [exists |-> FALSE, halted |-> FALSE, spent |-> 0, loss |-> 0]
RiskState == [exists : BOOLEAN, halted : BOOLEAN, spent : Int, loss : Int]

StoreInit ==
  /\ orders = [id \in OrderIds |-> NoRow]
  /\ lastId = 0
  /\ positions = [s \in Symbols |-> [qty |-> 0, avg |-> 0, pnl |-> 0]]
  /\ risk = [d \in Days |-> NewRisk]
  /\ applied = [id \in OrderIds |-> 0]
  /\ lost = [id \in OrderIds |-> 0]

-----------------------------------------------------------------------------
\* A plausible fault of ListPendingOrders: the status is not in the WHERE.
LiveOrders == {id \in OrderIds : orders[id].status # "none" /\ orders[id].mode = "live"}

(* ListPendingOrders: WHERE status = 'pending' AND mode = 'live', whatever   *)
(* the symbol.                                                               *)
PendingLive == {id \in OrderIds : orders[id].status = "pending" /\ orders[id].mode = "live"}

(* InsertOrder: a new pending row under the next id.                         *)
InsertPending(symbol, in, mode, day, value) ==
  /\ lastId < MaxOrders
  /\ lastId' = lastId + 1
  /\ orders' = [orders EXCEPT ![lastId + 1] =
                  [symbol |-> symbol, side |-> in.side, price |-> in.price, qty |-> in.qty,
                   mode |-> mode, status |-> "pending", day |-> day, value |-> value]]
  /\ UNCHANGED <<positions, risk, applied, lost>>

(* Settle: UPDATE orders SET status ... WHERE id, whatever the status was.   *)
Settle(id, status) ==
  /\ orders' = [orders EXCEPT ![id] = [@ EXCEPT !.status = status]]
  /\ UNCHANGED <<lastId, positions, risk, applied, lost>>

(* RiskToday: the day's risk row, created when absent.                       *)
RiskToday(day) ==
  /\ risk' = [risk EXCEPT ![day] = [@ EXCEPT !.exists = TRUE]]
  /\ UNCHANGED <<orders, lastId, positions, applied, lost>>

(* UpdateRiskSpentLoss: UPDATE risk_state ... WHERE day: nothing is added    *)
(* when the day has no row.                                                  *)
AddSpentLoss(day, spent, loss) ==
  IF risk[day].exists
  THEN [risk EXCEPT ![day] = [@ EXCEPT !.spent = risk[day].spent + spent,
                                     !.loss = risk[day].loss + loss]]
  ELSE risk

(* How far the realized profit of the positions row falls when it is         *)
(* overwritten: what a fill really loses, whatever loss is handed over.      *)
Drop(row, newPos) == IF newPos.pnl < row.pnl THEN row.pnl - newPos.pnl ELSE 0

\* A plausible fault of ApplyFill: the loss is not handed to the day's counter.
ApplyFillNoLoss(id, day, newPos, spent, loss) ==
  /\ orders' = [orders EXCEPT ![id] = [@ EXCEPT !.status = "accepted"]]
  /\ positions' = [positions EXCEPT ![orders[id].symbol] = newPos]
  /\ risk' = AddSpentLoss(day, spent, 0)
  /\ applied' = [applied EXCEPT ![id] = @ + 1]
  /\ lost' = [lost EXCEPT ![id] = @ + Drop(positions[orders[id].symbol], newPos)]
  /\ UNCHANGED lastId

(* ApplyFill with SkipPosition = FALSE, one transaction: the order is        *)
(* accepted, the position overwritten, the day's counters incremented.       *)
ApplyFill(id, day, newPos, spent, loss) ==
  /\ orders' = [orders EXCEPT ![id] = [@ EXCEPT !.status = "accepted"]]
  /\ positions' = [positions EXCEPT ![orders[id].symbol] = newPos]
  /\ risk' = AddSpentLoss(day, spent, loss)
  /\ applied' = [applied EXCEPT ![id] = @ + 1]
  /\ lost' = [lost EXCEPT ![id] = @ + Drop(positions[orders[id].symbol], newPos)]
  /\ UNCHANGED lastId

(* ApplyFill with SkipPosition = TRUE: the position stays as it is.          *)
ApplyFillSkipPosition(id, day, spent) ==
  /\ orders' = [orders EXCEPT ![id] = [@ EXCEPT !.status = "accepted"]]
  /\ risk' = AddSpentLoss(day, spent, 0)
  /\ UNCHANGED <<lastId, positions, applied, lost>>

(* SetHalted: ensure the row, then write the flag.  Its two statements are   *)
(* one step here: between them only the existence of the row is visible,     *)
(* which RiskToday makes visible as well.                                    *)
SetHalted(day, halted) ==
  /\ risk' = [risk EXCEPT ![day] = [@ EXCEPT !.exists = TRUE, !.halted = halted]]
  /\ UNCHANGED <<orders, lastId, positions, applied, lost>>

-----------------------------------------------------------------------------
StoreTypeOK ==
  /\ orders \in [OrderIds -> Row \cup {NoRow}]
  /\ lastId \in 0 .. MaxOrders
  /\ positions \in [Symbols -> [qty : Int, avg : Int, pnl : Int]]
  /\ risk \in [Days -> RiskState]
  /\ applied \in [OrderIds -> Nat]
  /\ lost \in [OrderIds -> Nat]
=============================================================================
