----------------------------- MODULE TraderProps -----------------------------
(* What the trading daemons must keep, stated over Trader.                   *)
EXTENDS Trader, Functions

Ledger(d) == {id \in OrderIds : orders[id].status # "none" /\ orders[id].day = d}
Value == [id \in OrderIds |-> orders[id].value]

-----------------------------------------------------------------------------
(* The ledger of orders keeps the promise of OrderOutbox through crashes,    *)
(* lost replies and late arrivals: InsertPending comes before SendOrder      *)
(* (pipeline.go), and Place, its failure path and Reconcile, all of which    *)
(* settle unconditionally (SettleOrder), never settle a row twice.           *)
Outbox == INSTANCE OrderOutbox WITH
  Ids <- OrderIds,
  row <- [id \in OrderIds |-> orders[id].status],
  live <- {id \in OrderIds : orders[id].status # "none" /\ orders[id].mode = "live"},
  known <- {id \in OrderIds : IsTaken(id)}

OutboxSpec == Outbox!Spec

(* The units an applied order moved: what the exchange executed, or what the *)
(* paper fill simulated.                                                     *)
UnitsMoved(id) ==
  LET row == orders[id]
      units == IF row.mode = "live" THEN book[id].executed
               ELSE IF row.side = "BUY" THEN UnitsFor(row.value, row.price) ELSE row.qty
  IN IF row.side = "BUY" THEN units ELSE -units

Moved == [id \in OrderIds |-> UnitsMoved(id)]
AppliedTo(s) == {id \in OrderIds : applied[id] > 0 /\ orders[id].symbol = s}

(* With one daemon per pair, a position is exactly the sum of the fills      *)
(* applied to it, in the int64 arithmetic of the code: Reconcile and the     *)
(* paper path read it in one call and overwrite it in another, and across    *)
(* crashes and failed transactions no fill is applied twice and no update is *)
(* lost (reconcile.go:39).                                                   *)
PositionIsSumOfFills ==
  /\ \A id \in OrderIds : applied[id] <= 1
  /\ \A s \in Symbols : positions[s].qty = Wrap(SumFunctionOnSet(Moved, AppliedTo(s)))

(* A position moves only by an order that filled: an applied row is          *)
(* accepted, and a live one was fully executed at the exchange.              *)
AppliedWasFilled ==
  \A id \in OrderIds : applied[id] > 0 =>
    /\ orders[id].status = "accepted"
    /\ orders[id].mode = "live" => book[id].state = "FullyExecuted"

(* The accepted orders whose exposure Place counted: a paper Buy, and a live *)
(* order recorded by Place rather than by Reconcile.                         *)
Recorded(d) ==
  {id \in Ledger(d) :
     /\ orders[id].status = "accepted"
     /\ IF orders[id].mode = "paper" THEN orders[id].side = "BUY" ELSE applied[id] = 0}

(* spent_today is exact: the day's counter is the exposure of the orders     *)
(* that day's guard admitted and Place recorded, each once, also when the    *)
(* answer comes after midnight or the write of another order failed.         *)
SpentIsExact == \A d \in Days : risk[d].spent = SumFunctionOnSet(Value, Recorded(d))

(* INVX_MAX_DAILY with several daemons on one risk row: Place checks the cap *)
(* and spends in two transactions, so each other daemon can overrun the cap  *)
(* by one order, and by no more.                                             *)
DailyOverrunBounded ==
  MaxDaily > 0 /\ MaxOrder > 0 =>
    \A d \in Days : risk[d].spent <= MaxDaily + (Cardinality(Traders) - 1) * MaxOrder

PaperPC == {"paper", "paperApply"}
LivePC == {"send", "await", "record", "reject"}

(* The row a daemon has in hand, sent or about to be, not yet recorded.      *)
InHand(d) ==
  {id \in Ledger(d) : \E t \in Traders : daemon[t].pc \in PaperPC \cup LivePC /\ daemon[t].cur = id}

(* INVX_MAX_DAILY with a lone daemon: the orders of a day that Place         *)
(* recorded, and the one it has in hand, stay within the cap together,       *)
(* although the cap is checked in one transaction and counted in another.    *)
(* It is no bound on the THB deployed (MANUAL.md:59): an order whose record  *)
(* failed, or whose answer was lost, may fill and is counted by nobody,      *)
(* Reconcile included (reconcile.go:95).                                     *)
DailyCapHolds ==
  MaxDaily > 0 => \A d \in Days : SumFunctionOnSet(Value, Recorded(d) \cup InHand(d)) <= MaxDaily

(* A lone daemon inserts no order on a day whose loss reached INVX_MAX_LOSS, *)
(* not after `resume` either: the loss is not cleared with the halt.         *)
NoOrderPastLossStop ==
  [][lastId' # lastId => ~LossStop(risk[orders'[lastId'].day])]_vars

(* `kill` stops trading for the day but for the orders already on their way, *)
(* at most one of each daemon: past their Check, or checked against the risk *)
(* row of a day captured before midnight.                                    *)
KillOvershootBounded == sinceKill.standing => sinceKill.orders <= Cardinality(Traders)

(* The loss stop is judged by the losses of its day: in paper trading        *)
(* loss_today is, day by day, what the applied orders that day's guard       *)
(* admitted took off the realized profits, no more and no less, whichever    *)
(* day the fill is written on.                                               *)
LossesOnTheirDay == \A d \in Days : risk[d].loss = SumFunctionOnSet(lost, Ledger(d))

(* What fills took off the realized profits and no day counts.               *)
Uncounted == SumFunction(lost) - SumFunction([d \in Days |-> risk[d].loss])

(* ApplyFill increments the day's counters (store.go:105), so loss_today is  *)
(* always current (reconcile.go:29): no loss is uncounted.                   *)
LossesCounted == Uncounted = 0

(* Where that fails: no step but a Reconcile that books on a day without a   *)
(* risk row changes what is uncounted, across crashes, failing writes, stale *)
(* listings and midnight.                                                    *)
OnlyRowlessDaysLose ==
  [][Uncounted' # Uncounted =>
       \E t \in Traders : ReconcileApply(t) /\ ~risk[daemon[t].day].exists]_vars

(* Paper trading never sells more than it holds.                             *)
NeverShort == \A s \in Symbols : positions[s].qty >= 0

-----------------------------------------------------------------------------
(* The inductive invariant behind the safety properties.                     *)

(* Rows are exactly those whose id was handed out.                           *)
RowInv == \A id \in OrderIds : orders[id].status = "none" <=> id > lastId

(* A live row of a symbol.                                                   *)
LiveRow(id, symbol) ==
  id \in OrderIds /\ id <= lastId /\ orders[id].mode = "live" /\ orders[id].symbol = symbol

(* Every request and every exchange order under a row's id stems from that   *)
(* row, a live one; a request under way is the only one of its order and the *)
(* exchange has not seen it.                                                 *)
TrafficInv ==
  /\ \A r \in wire : r.id \in OrderIds =>
       /\ LiveRow(r.id, r.symbol)
       /\ book[r.id] = Unknown
       /\ \A q \in wire : q.id = r.id => q = r
  /\ \A id \in OrderIds : book[id] # Unknown => id <= lastId /\ orders[id].mode = "live"
  /\ \A id \in OrderIds : IsTaken(id) =>
       book[id].req.id = id /\ book[id].req.symbol = orders[id].symbol

(* What Place knows of its intent and of the row it inserted.                *)
PlacingInv(t) ==
  /\ daemon[t].pc \in {"place", "risk", "insert"} => daemon[t].intent # NoIntent
  /\ daemon[t].pc \in PaperPC =>
       /\ daemon[t].cur \in OrderIds /\ daemon[t].cur <= lastId
       /\ orders[daemon[t].cur].mode = "paper"
       /\ orders[daemon[t].cur].symbol = SymbolOf[t]
  /\ daemon[t].pc \in LivePC => LiveRow(daemon[t].cur, SymbolOf[t])
  /\ daemon[t].pc = "send" =>
       book[daemon[t].cur] = Unknown /\ \A r \in wire : r.id # daemon[t].cur
  /\ daemon[t].pc = "record" => IsTaken(daemon[t].cur)

(* A pending order found final in the history of the daemon's pair.          *)
Reconcilable(id, t) ==
  LiveRow(id, SymbolOf[t]) /\ IsTaken(id) /\ book[id].state \in FinalStates

(* What Reconcile knows of the orders it has left.                           *)
ReconcilingInv(t) ==
  /\ daemon[t].pc = "history" =>
       \A id \in daemon[t].todo : id <= lastId /\ orders[id].mode = "live"
  /\ daemon[t].pc \in {"loop", "apply"} => \A id \in daemon[t].todo : Reconcilable(id, t)
  /\ daemon[t].pc = "apply" =>
       daemon[t].cur \in daemon[t].todo /\ book[daemon[t].cur].state = "FullyExecuted"

(* No two daemons place the same row.                                        *)
DistinctRows ==
  \A t, u \in Traders :
    t # u /\ daemon[t].pc \in PaperPC \cup LivePC /\ daemon[u].pc \in PaperPC \cup LivePC
      => daemon[t].cur # daemon[u].cur

StateInv ==
  /\ RowInv
  /\ TrafficInv
  /\ \A t \in Traders : PlacingInv(t) /\ ReconcilingInv(t)
  /\ DistinctRows

(* With one daemon per pair the rows a daemon works on stay pending: nobody  *)
(* else settles them.                                                        *)
OneTraderPerPair == \A t, u \in Traders : SymbolOf[t] = SymbolOf[u] => t = u

LoneDaemon == \A t, u \in Traders : t = u

OwnsRows(t) ==
  /\ daemon[t].pc \in PaperPC \cup LivePC => orders[daemon[t].cur].status = "pending"
  /\ daemon[t].pc \in {"history", "loop", "apply"} =>
       \A id \in daemon[t].todo :
         orders[id].symbol = SymbolOf[t] => orders[id].status = "pending"

(* A position read for a fill is still the table's when the fill is written. *)
ReadsCurrent(t) ==
  daemon[t].pc \in {"apply", "paperApply"} => daemon[t].pos = positions[SymbolOf[t]]

PositionInv == PositionIsSumOfFills /\ \A t \in Traders : ReadsCurrent(t)

(* What a lone daemon knows from its Check until its spend is recorded: the  *)
(* loss stop does not hold, and the order still fits under the daily cap.    *)
LossInv == \A t \in Traders : daemon[t].pc = "insert" => ~LossStop(risk[daemon[t].day])

SpentInv ==
  /\ \A d \in Days : risk[d].spent <= MaxDaily
  /\ \A t \in Traders :
       /\ daemon[t].pc = "insert" =>
            risk[daemon[t].day].spent + orderValue(daemon[t].intent) <= MaxDaily
       /\ daemon[t].pc \in PaperPC \cup LivePC =>
            risk[orders[daemon[t].cur].day].spent + orders[daemon[t].cur].value <= MaxDaily

(* Place reads the risk row of the day, which creates it, before it inserts  *)
(* an order of that day: later increments of its counters find the row.      *)
DayRows ==
  /\ \A id \in OrderIds : id <= lastId => risk[orders[id].day].exists
  /\ \A t \in Traders : daemon[t].pc = "insert" => risk[daemon[t].day].exists

(* What a daemon may still add to the spend of a day: the exposure of the    *)
(* order it passed through Check on that day.                                *)
Exposure(v) == IF v > 0 THEN v ELSE 0

ClaimOn(d) ==
  [t \in Traders |->
     IF daemon[t].pc = "insert" /\ daemon[t].day = d
     THEN Exposure(orderValue(daemon[t].intent))
     ELSE IF daemon[t].pc \in PaperPC \cup LivePC /\ orders[daemon[t].cur].day = d
     THEN Exposure(orders[daemon[t].cur].value)
     ELSE 0]

(* A Check leaves room for its own claim under the cap, and the claims of    *)
(* the other daemons are capped one by one.                                  *)
OverrunInv ==
  MaxDaily > 0 /\ MaxOrder > 0 =>
    \A d \in Days :
      /\ \A t \in Traders : ClaimOn(d)[t] <= MaxOrder
      /\ risk[d].spent + SumFunctionOnSet(ClaimOn(d), Traders)
           <= MaxDaily + (Cardinality(Traders) - 1) * MaxOrder

(* While a kill stands the day is halted, so a daemon passes its Check only  *)
(* if it captured an earlier day: the rows inserted since, and those that    *)
(* may still be, are daemons past their Check or past midnight.              *)
Inserting ==
  {t \in Traders : daemon[t].pc = "insert" \/ (daemon[t].pc = "risk" /\ daemon[t].day # today)}

KillInv ==
  sinceKill.standing =>
    /\ risk[today].halted
    /\ sinceKill.orders + Cardinality(Inserting) <= Cardinality(Traders)

(* An order that leaves the pair, of which `held` units are held, at no      *)
(* less than nothing: a Buy of the buy value when flat, a Sell of it all.    *)
Fits(order, held) ==
  IF order.side = "BUY" THEN held = 0 /\ order.value = BuyValue ELSE order.qty = held

(* In paper trading the position a daemon read stays what it was until the   *)
(* fill of its order is applied.                                             *)
PaperDaemonInv(t) ==
  /\ daemon[t].mode = "paper" /\ daemon[t].pc \notin ReconcilePC \cup LivePC
  /\ daemon[t].pc \in {"place", "risk", "insert"} =>
       Fits(daemon[t].intent, positions[SymbolOf[t]].qty)
  /\ daemon[t].pc \in PaperPC =>
       /\ Fits(orders[daemon[t].cur], positions[SymbolOf[t]].qty)
       /\ orders[daemon[t].cur].price \in Prices
  /\ daemon[t].pc = "paperApply" => daemon[t].pos = positions[SymbolOf[t]]

PaperInv == NeverShort /\ \A t \in Traders : PaperDaemonInv(t)

-----------------------------------------------------------------------------
(* Fairness: a stopped daemon is started again, its ticker fires, a call in  *)
(* progress ends, and no call of Reconcile fails, or is cut off by a crash,  *)
(* every time.  The weakly fair steps are those of different pcs, so one     *)
(* condition serves them all.  Nothing is assumed of the operator, the       *)
(* strategy, the clock or of what the exchange does with an order.           *)
Fairness ==
  \A t \in Traders :
    /\ WF_vars(Start(t) \/ TickStep(t) \/ PlaceStep(t) \/ ReconcileEnd(t))
    /\ SF_vars(ListPending(t))
    /\ SF_vars(ReadHistory(t))
    /\ SF_vars(ReconcileReadPosition(t))
    /\ SF_vars(ReconcileApply(t))
    /\ SF_vars(ReconcileSettle(t))

LiveSpec == Spec /\ Fairness

(* A pending live order that the exchange filled or closed is settled in the *)
(* end, whatever crashed in between.                                         *)
FinalPendingIsSettled ==
  \A id \in OrderIds :
    (orders[id].status = "pending" /\ IsTaken(id) /\ book[id].state \in FinalStates)
      ~> orders[id].status \in SettledStatus

(* The claim of reconcile.go:28 that positions are always current: a live    *)
(* order that the exchange filled reaches the position.                      *)
FillReachesPosition ==
  \A id \in OrderIds : (IsTaken(id) /\ book[id].state = "FullyExecuted") ~> applied[id] > 0

=============================================================================
