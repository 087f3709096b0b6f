----------------------------- MODULE TraderProofs -----------------------------
(* Theorems about Trader for every value of its constants.                   *)
EXTENDS TraderProps, FillProofs, SumProofs

-----------------------------------------------------------------------------
(* Typing of the daemons' local states.                                      *)

LEMMA DownType == Down \in DaemonState
  BY StoreAssumption DEF Down, DaemonState, PC, Flat, Position, Days

LEMMA IdleType ==
  ASSUME NEW m \in {"paper", "live"}
  PROVE  Idle(m) \in DaemonState /\ Eval(m) \in DaemonState
  BY DownType DEF Idle, Eval, Down, DaemonState, PC

LEMMA BecomeType ==
  ASSUME daemon \in [Traders -> DaemonState], NEW t \in Traders,
         NEW s \in DaemonState, Become(t, s)
  PROVE  daemon' \in [Traders -> DaemonState]
  BY DEF Become

LEMMA TodayType == ASSUME TypeOK PROVE today \in Days /\ today + 1 \in Days /\ today - 1 \in Days
  BY StoreAssumption DEF TypeOK, Days

LEMMA LocalDaysType == ASSUME TypeOK PROVE LocalDays \subseteq Days
  BY StoreAssumption, TraderAssumption DEF TypeOK, Days, LocalDays

-----------------------------------------------------------------------------
(* Typing of the store's operations.                                         *)

LEMMA InsertedRow ==
  ASSUME StoreTypeOK, NEW id \in OrderIds, orders[id].status # "none"
  PROVE  orders[id] \in Row
  BY DEF StoreTypeOK, NoRow

LEMMA SettledRow ==
  ASSUME NEW row \in Row, NEW st \in SettledStatus
  PROVE  [row EXCEPT !.status = st] \in Row
  BY DEF Row, Rows, SettledStatus

LEMMA SettledOrders ==
  ASSUME StoreTypeOK, NEW id \in OrderIds, orders[id].status # "none", NEW st \in SettledStatus
  PROVE  [orders EXCEPT ![id] = [@ EXCEPT !.status = st]] \in [OrderIds -> Row \cup {NoRow}]
  <1>1. [orders[id] EXCEPT !.status = st] \in Row
    BY InsertedRow, SettledRow
  <1> QED
    BY <1>1 DEF StoreTypeOK

LEMMA SettleType ==
  ASSUME StoreTypeOK, NEW id \in OrderIds, orders[id].status # "none",
         NEW st \in SettledStatus, Settle(id, st)
  PROVE  StoreTypeOK'
  <1>1. orders' \in [OrderIds -> Row \cup {NoRow}]
    BY SettledOrders DEF Settle
  <1> QED
    BY <1>1 DEF StoreTypeOK, Settle, RiskState, OrderIds, Days, Row, Rows

LEMMA RiskTodayType ==
  ASSUME StoreTypeOK, NEW d \in Days, RiskToday(d) PROVE StoreTypeOK'
  BY DEF StoreTypeOK, RiskToday, RiskState, OrderIds, Days, Row, Rows

LEMMA SetHaltedType ==
  ASSUME StoreTypeOK, NEW d \in Days, NEW h \in BOOLEAN, SetHalted(d, h) PROVE StoreTypeOK'
  BY DEF StoreTypeOK, SetHalted, RiskState, OrderIds, Days, Row, Rows

LEMMA AddSpentLossType ==
  ASSUME StoreTypeOK, NEW d \in Days, NEW spent \in Int, NEW loss \in Int
  PROVE  AddSpentLoss(d, spent, loss) \in [Days -> RiskState]
  <1>1. risk[d] \in RiskState /\ risk[d].spent + spent \in Int /\ risk[d].loss + loss \in Int
    BY DEF StoreTypeOK, RiskState
  <1>2. [risk[d] EXCEPT !.spent = risk[d].spent + spent, !.loss = risk[d].loss + loss]
          \in RiskState
    BY <1>1 DEF RiskState
  <1> QED
    BY <1>2 DEF StoreTypeOK, AddSpentLoss

LEMMA ApplyFillType ==
  ASSUME StoreTypeOK, NEW id \in OrderIds, orders[id].status # "none", NEW d \in Days,
         NEW pos \in Position, NEW spent \in Int, NEW loss \in Int,
         ApplyFill(id, d, pos, spent, loss)
  PROVE  StoreTypeOK'
  <1>1. orders' \in [OrderIds -> Row \cup {NoRow}]
    BY SettledOrders DEF ApplyFill, SettledStatus
  <1>2. risk' \in [Days -> RiskState]
    BY AddSpentLossType DEF ApplyFill
  <1>3. positions' \in [Symbols -> [qty : Int, avg : Int, pnl : Int]]
    BY DEF StoreTypeOK, ApplyFill, Position
  <1>4. applied' \in [OrderIds -> Nat]
    BY DEF StoreTypeOK, ApplyFill
  <1>5. Drop(positions[orders[id].symbol], pos) \in Nat
    <2>1. orders[id].symbol \in Symbols
      BY InsertedRow DEF Row, Rows
    <2>2. positions[orders[id].symbol].pnl \in Int /\ pos.pnl \in Int
      BY <2>1 DEF StoreTypeOK, Position
    <2> QED
      BY <2>2 DEF Drop
  <1>6. lost' \in [OrderIds -> Nat]
    BY <1>5 DEF StoreTypeOK, ApplyFill
  <1> QED
    BY <1>1, <1>2, <1>3, <1>4, <1>6
    DEF StoreTypeOK, ApplyFill, RiskState, OrderIds, Days, Row, Rows

LEMMA ApplyFillSkipPositionType ==
  ASSUME StoreTypeOK, NEW id \in OrderIds, orders[id].status # "none", NEW d \in Days,
         NEW spent \in Int, ApplyFillSkipPosition(id, d, spent)
  PROVE  StoreTypeOK'
  <1>1. orders' \in [OrderIds -> Row \cup {NoRow}]
    BY SettledOrders DEF ApplyFillSkipPosition, SettledStatus
  <1>2. risk' \in [Days -> RiskState]
    BY AddSpentLossType DEF ApplyFillSkipPosition
  <1> QED
    BY <1>1, <1>2
    DEF StoreTypeOK, ApplyFillSkipPosition, RiskState, OrderIds, Days, Row, Rows

LEMMA PriceType == ASSUME NEW p \in Prices PROVE p \in Int /\ p > 0
  BY ExchangeAssumption

LEMMA IntentType ==
  ASSUME NEW in \in Intent
  PROVE  /\ in.side \in {"BUY", "SELL"} /\ in.price \in Prices /\ in.price \in Int
         /\ in.price > 0 /\ in.value \in Int /\ in.qty \in Int
  <1>1. in.side \in {"BUY", "SELL"} /\ in.price \in Prices /\ in.value \in Nat /\ in.qty \in Int
    BY DEF Intent, Sides
  <1> QED
    BY <1>1, PriceType

LEMMA OrderValueType == ASSUME NEW in \in Intent PROVE orderValue(in) \in Int
  BY IntentType, ValueOfInt DEF orderValue

LEMMA InsertPendingType ==
  ASSUME StoreTypeOK, NEW symbol \in Symbols, NEW in \in Intent, NEW m \in {"paper", "live"},
         NEW d \in Days, NEW v \in Int, InsertPending(symbol, in, m, d, v)
  PROVE  StoreTypeOK' /\ lastId + 1 \in OrderIds
  <1> DEFINE row == [symbol |-> symbol, side |-> in.side, price |-> in.price, qty |-> in.qty,
                     mode |-> m, status |-> "pending", day |-> d, value |-> v]
  <1>1. in.side \in {"BUY", "SELL"} /\ in.price \in Nat \ {0} /\ in.qty \in Int
    BY IntentType
  <1>2. row \in Row
    BY <1>1 DEF Row, Rows
  <1>3. orders' = [orders EXCEPT ![lastId + 1] = row] /\ lastId' = lastId + 1 /\ lastId < MaxOrders
    BY DEF InsertPending
  <1> HIDE DEF row
  <1>4. lastId + 1 \in OrderIds /\ lastId' \in 0 .. MaxOrders
    BY <1>3, StoreAssumption DEF StoreTypeOK, OrderIds
  <1>5. orders' \in [OrderIds -> Row \cup {NoRow}]
    BY <1>2, <1>3 DEF StoreTypeOK
  <1> QED
    BY <1>4, <1>5 DEF StoreTypeOK, InsertPending, Row, Rows, Days, OrderIds

-----------------------------------------------------------------------------
(* Typing of the exchange's steps.                                           *)

LEMMA TakenType ==
  ASSUME TypeOK, NEW id \in ClientIds, IsTaken(id)
  PROVE  book[id] \in Taken
  BY DEF TypeOK, IsTaken, Unknown, Refused

LEMMA WorkingType ==
  ASSUME TypeOK, NEW id \in ClientIds, book[id].state = "Working"
  PROVE  book[id] \in Taken
  BY TakenType DEF IsTaken

LEMMA PartExecutedType ==
  ASSUME NEW o \in Taken, NEW units \in Int, NEW p \in Int
  PROVE  [o EXCEPT !.executed = units, !.avg = p] \in Taken
  BY DEF Taken

(* What the exchange does with one order of the account.                     *)
BookStep(id) ==
  \/ \E p \in Prices : Execute(id, p) \/ PartlyExecute(id, p)
  \/ \E state \in Closings : Close(id, state)

LEMMA BookStepType ==
  ASSUME TypeOK, NEW id \in ClientIds, BookStep(id)
  PROVE  /\ wire' = wire /\ book' \in [ClientIds -> Taken \cup {Unknown, Refused}]
         /\ \A other \in ClientIds : other # id => book'[other] = book[other]
  <1>1. ASSUME NEW o \in Taken, wire' = wire, book' = [book EXCEPT ![id] = o]
        PROVE  /\ wire' = wire /\ book' \in [ClientIds -> Taken \cup {Unknown, Refused}]
               /\ \A other \in ClientIds : other # id => book'[other] = book[other]
    BY <1>1 DEF TypeOK
  <1>2. book[id] \in Taken /\ book[id].executed \in Int /\ book[id].req.qty \in Int
    <2>1. book[id] \in Taken
      BY WorkingType DEF BookStep, Execute, PartlyExecute, Close
    <2> QED
      BY <2>1 DEF Taken, Request
  <1>3. ASSUME NEW p \in Prices, Execute(id, p)
        PROVE  \E o \in Taken : wire' = wire /\ book' = [book EXCEPT ![id] = o]
    <2>1. [book[id] EXCEPT !.state = "FullyExecuted", !.executed = book[id].req.qty, !.avg = p]
            \in Taken
      BY <1>2, PriceType DEF Taken, FinalStates
    <2> QED
      BY <1>3, <2>1 DEF Execute
  <1>4. ASSUME NEW p \in Prices, PartlyExecute(id, p)
        PROVE  \E o \in Taken : wire' = wire /\ book' = [book EXCEPT ![id] = o]
    <2>1. PICK units \in book[id].executed + 1 .. book[id].req.qty - 1 :
            wire' = wire /\ book' = [book EXCEPT ![id] = [@ EXCEPT !.executed = units, !.avg = p]]
      BY <1>4 DEF PartlyExecute
    <2>2. units \in Int /\ p \in Int
      BY <1>2, PriceType
    <2>3. [book[id] EXCEPT !.executed = units, !.avg = p] \in Taken
      BY <1>2, <2>2, PartExecutedType
    <2> QED
      BY <2>1, <2>3
  <1>5. ASSUME NEW state \in Closings, Close(id, state)
        PROVE  \E o \in Taken : wire' = wire /\ book' = [book EXCEPT ![id] = o]
    <2>1. [book[id] EXCEPT !.state = state] \in Taken
      BY <1>2, <1>5 DEF Taken, FinalStates
    <2> QED
      BY <1>5, <2>1 DEF Close
  <1> QED
    BY <1>1, <1>3, <1>4, <1>5 DEF BookStep

LEMMA ExchangeStepType ==
  ASSUME TypeOK, ExchangeStep
  PROVE  wire' \subseteq Request /\ book' \in [ClientIds -> Taken \cup {Unknown, Refused}]
  <1>1. CASE \E r \in wire : r.qty > 0 /\ Receive(r)
    <2>1. PICK r \in wire : Receive(r)
      BY <1>1
    <2>2. r \in Request
      BY DEF TypeOK
    <2>3. [state |-> "Working", req |-> r, executed |-> 0, avg |-> 0] \in Taken
      BY <2>2 DEF Taken
    <2> QED
      BY <2>1, <2>3 DEF TypeOK, Receive
  <1>2. CASE \E r \in wire : Refuse(r)
    BY <1>2 DEF TypeOK, Refuse
  <1>3. CASE \E r \in wire : Lose(r)
    BY <1>3 DEF TypeOK, Lose
  <1>4. ASSUME NEW id \in OrderIds, BookStep(id)
        PROVE  wire' \subseteq Request /\ book' \in [ClientIds -> Taken \cup {Unknown, Refused}]
    BY <1>4, BookStepType, TraderAssumption DEF TypeOK
  <1> QED
    BY <1>1, <1>2, <1>3, <1>4 DEF ExchangeStep, BookStep

-----------------------------------------------------------------------------
(* What StateInv says of the rows a daemon works on.                         *)

LEMMA RowOfId ==
  ASSUME TypeOK, StateInv, NEW id \in OrderIds, id <= lastId
  PROVE  /\ orders[id].status # "none"
         /\ orders[id] \in Row
         /\ orders[id].symbol \in Symbols /\ orders[id].day \in Days
         /\ orders[id].value \in Int /\ orders[id].qty \in Int
         /\ orders[id].price \in Int /\ orders[id].price > 0
  <1>1. lastId \in Int /\ id \in Int
    BY StoreAssumption DEF TypeOK, StoreTypeOK, OrderIds
  <1>2. orders[id].status # "none"
    BY <1>1 DEF StateInv, RowInv
  <1>3. orders[id] \in Row
    BY <1>2, InsertedRow DEF TypeOK
  <1> QED
    BY <1>2, <1>3 DEF Row, Rows

LEMMA CurRow ==
  ASSUME TypeOK, StateInv, NEW t \in Traders, daemon[t].pc \in PaperPC \cup LivePC
  PROVE  /\ daemon[t].cur \in OrderIds /\ daemon[t].cur <= lastId
         /\ orders[daemon[t].cur].symbol = SymbolOf[t]
  BY DEF StateInv, PlacingInv, LiveRow

LEMMA TodoRow ==
  ASSUME TypeOK, StateInv, NEW t \in Traders, daemon[t].pc \in {"loop", "apply"},
         NEW id \in daemon[t].todo
  PROVE  id \in OrderIds /\ id <= lastId /\ book[id] \in Taken
  <1>1. Reconcilable(id, t)
    BY DEF StateInv, ReconcilingInv
  <1> QED
    BY <1>1, TakenType, TraderAssumption DEF Reconcilable, LiveRow

LEMMA PositionType ==
  ASSUME TypeOK, NEW s \in Symbols PROVE positions[s] \in Position
  BY DEF TypeOK, StoreTypeOK, Position

-----------------------------------------------------------------------------
(* Typing of a daemon's step: the store and its local state.                 *)

LEMMA ReconcileStepType ==
  ASSUME TypeOK, StateInv, NEW t \in Traders, ReconcileStep(t)
  PROVE  StoreTypeOK' /\ daemon' \in [Traders -> DaemonState]
  <1> DEFINE d == daemon[t]
  <1>1. daemon \in [Traders -> DaemonState] /\ d \in DaemonState
    BY DEF TypeOK
  <1>2. d.mode \in {"paper", "live"} /\ d.todo \subseteq OrderIds /\ d.day \in Days
        /\ d.pos \in Position
    BY <1>1 DEF DaemonState
  <1>3. Reconciled(t) \in DaemonState
    BY <1>2, IdleType DEF Reconciled
  <1>4. ASSUME NEW id \in OrderIds, LoopOn(t, id) PROVE daemon' \in [Traders -> DaemonState]
    <2>1. Flat \in Position
      BY DEF Flat, Position
    <2>2. [d EXCEPT !.pc = "loop", !.pos = Flat, !.cur = 0, !.todo = @ \ {id}] \in DaemonState
      BY <1>1, <2>1 DEF DaemonState, PC, ReconcilePC
    <2> QED
      BY <1>1, <1>4, <2>2, BecomeType DEF LoopOn
  <1>5. ASSUME UNCHANGED storeVars PROVE StoreTypeOK'
    BY <1>5 DEF TypeOK, StoreTypeOK, storeVars, RiskState, OrderIds, Days, Row, Rows
  <1>6. CASE ListPending(t)
    <2>1. [d EXCEPT !.pc = "history", !.todo = PendingLive] \in DaemonState
      BY <1>1 DEF DaemonState, PC, ReconcilePC, PendingLive
    <2> QED
      BY <1>1, <1>3, <1>5, <1>6, <2>1, BecomeType DEF ListPending
  <1>7. CASE ReadHistory(t)
    <2>1. [d EXCEPT !.pc = "loop", !.day = today, !.todo = FinalInHistory(t)] \in DaemonState
      BY <1>1, <1>2, TodayType DEF DaemonState, PC, ReconcilePC, FinalInHistory
    <2> QED
      BY <1>1, <1>5, <1>7, <2>1, BecomeType DEF ReadHistory
  <1>8. CASE ReconcileReadPosition(t)
    <2>1. PICK id \in d.todo :
            Become(t, [d EXCEPT !.pc = "apply", !.pos = positions[orders[id].symbol], !.cur = id])
      BY <1>8 DEF ReconcileReadPosition
    <2>2. id \in OrderIds /\ positions[orders[id].symbol] \in Position
      BY <1>8, TodoRow, RowOfId, PositionType DEF ReconcileReadPosition, At
    <2>3. [d EXCEPT !.pc = "apply", !.pos = positions[orders[id].symbol], !.cur = id]
            \in DaemonState
      BY <1>1, <2>2 DEF DaemonState, PC, ReconcilePC
    <2> QED
      BY <1>1, <1>5, <1>8, <2>1, <2>3, BecomeType DEF ReconcileReadPosition
  <1>9. CASE ReconcileApply(t)
    <2> DEFINE id   == d.cur
               fill == computeFill(d.pos, orders[id].side, book[id].executed, book[id].avg)
    <2>1. id \in d.todo
      BY <1>9 DEF ReconcileApply, At, StateInv, ReconcilingInv
    <2>2. id \in OrderIds /\ id <= lastId /\ book[id] \in Taken
      BY <1>9, <2>1, TodoRow DEF ReconcileApply, At
    <2>3. book[id].executed \in Int /\ book[id].avg \in Int
      BY <2>2 DEF Taken
    <2>4. fill.pos \in Position /\ fill.loss \in Int
      BY <1>2, <2>3, FillType
    <2> HIDE DEF fill
    <2>5. /\ ApplyFill(id, d.day, fill.pos, 0, fill.loss) \/ UNCHANGED storeVars
          /\ LoopOn(t, id)
      BY <1>9 DEF ReconcileApply, fill
    <2>6. CASE ApplyFill(id, d.day, fill.pos, 0, fill.loss)
      <3>1. StoreTypeOK /\ orders[id].status # "none"
        BY <2>2, RowOfId DEF TypeOK
      <3> QED
        BY <1>2, <1>4, <2>2, <2>4, <2>5, <2>6, <3>1, ApplyFillType
    <2>7. CASE UNCHANGED storeVars
      BY <1>4, <1>5, <2>2, <2>5, <2>7
    <2> QED
      BY <2>5, <2>6, <2>7
  <1>10. CASE ReconcileSettle(t)
    <2>1. PICK id \in d.todo : Settle(id, "rejected") /\ LoopOn(t, id)
      BY <1>10 DEF ReconcileSettle
    <2>2. id \in OrderIds /\ orders[id].status # "none"
      BY <1>10, TodoRow, RowOfId DEF ReconcileSettle, At
    <2> QED
      BY <1>4, <2>1, <2>2, SettleType DEF TypeOK, SettledStatus
  <1>11. CASE ReconcileEnd(t)
    BY <1>1, <1>3, <1>5, <1>11, BecomeType DEF ReconcileEnd
  <1>12. CASE ReconcileError(t)
    BY <1>1, <1>2, <1>5, <1>12, BecomeType, DownType, IdleType DEF ReconcileError
  <1> QED
    BY <1>6, <1>7, <1>8, <1>9, <1>10, <1>11, <1>12 DEF ReconcileStep

LEMMA TickStepType ==
  ASSUME TypeOK, NEW t \in Traders, Start(t) \/ Crash(t) \/ TickStep(t)
  PROVE  daemon' \in [Traders -> DaemonState]
  <1> DEFINE d == daemon[t]
  <1>1. daemon \in [Traders -> DaemonState] /\ d \in DaemonState
    BY DEF TypeOK
  <1>2. d.mode \in {"paper", "live"}
    BY <1>1 DEF DaemonState
  <1>3. CASE Start(t)
    <2>1. PICK m \in Modes :
            Become(t, IF m = "live" THEN [Down EXCEPT !.pc = "list", !.mode = m, !.boot = TRUE]
                      ELSE Idle(m))
      BY <1>3 DEF Start
    <2>2. m \in {"paper", "live"}
      BY TraderAssumption
    <2>3. [Down EXCEPT !.pc = "list", !.mode = m, !.boot = TRUE] \in DaemonState
      BY <2>2, DownType DEF DaemonState, PC, ReconcilePC
    <2> QED
      BY <1>1, <2>1, <2>2, <2>3, IdleType, BecomeType
  <1>4. CASE Crash(t)
    BY <1>1, <1>4, DownType, BecomeType DEF Crash
  <1>5. CASE Tick(t)
    <2>1. /\ [d EXCEPT !.pc = "list"] \in DaemonState
          /\ [d EXCEPT !.pc = "eval"] \in DaemonState
      BY <1>1 DEF DaemonState, PC, ReconcilePC
    <2> QED
      BY <1>1, <1>5, <2>1, BecomeType DEF Tick
  <1>6. CASE EvaluateNothing(t)
    BY <1>1, <1>2, <1>6, IdleType, BecomeType DEF EvaluateNothing
  <1>7. ASSUME NEW in \in Intent, Become(t, [d EXCEPT !.pc = "place", !.intent = in])
        PROVE  daemon' \in [Traders -> DaemonState]
    <2>1. [d EXCEPT !.pc = "place", !.intent = in] \in DaemonState
      BY <1>1, <1>7 DEF DaemonState, PC, PlacePC
    <2> QED
      BY <1>1, <1>7, <2>1, BecomeType
  <1>8. CASE EvaluateBuy(t)
    <2>1. PICK p \in Prices :
            Become(t, [d EXCEPT !.pc = "place",
                         !.intent = [side |-> "BUY", price |-> p, value |-> BuyValue, qty |-> 0]])
      BY <1>8 DEF EvaluateBuy
    <2>2. [side |-> "BUY", price |-> p, value |-> BuyValue, qty |-> 0] \in Intent
      BY TraderAssumption DEF Intent, Sides
    <2> QED
      BY <1>7, <2>1, <2>2
  <1>9. CASE EvaluateSell(t)
    <2> DEFINE held == positions[SymbolOf[t]].qty
    <2>1. PICK p \in Prices :
            Become(t, [d EXCEPT !.pc = "place",
                         !.intent = [side |-> "SELL", price |-> p, value |-> 0, qty |-> held]])
      BY <1>9 DEF EvaluateSell
    <2>2. held \in Int
      BY TraderAssumption, PositionType DEF Position
    <2> HIDE DEF held
    <2>3. [side |-> "SELL", price |-> p, value |-> 0, qty |-> held] \in Intent
      BY <2>2 DEF Intent, Sides
    <2> QED
      BY <1>7, <2>1, <2>3
  <1> QED
    BY <1>3, <1>4, <1>5, <1>6, <1>8, <1>9 DEF TickStep

LEMMA StoreUnchanged ==
  ASSUME StoreTypeOK, UNCHANGED storeVars PROVE StoreTypeOK'
  BY DEF StoreTypeOK, storeVars, RiskState, OrderIds, Days, Row, Rows

(* The first two steps of Place: the order goes on, or Place ends.           *)
EarlyStep(t) == PlaceKillFile(t) \/ PlaceCheck(t)

LEMMA EarlyStates ==
  ASSUME TypeOK, NEW t \in Traders, EarlyStep(t)
  PROVE  \E s \in DaemonState :
           /\ Become(t, s)
           /\ \/ s.pc \in {"idle", "trip"}
              \/ /\ \/ s.pc = "risk" /\ PlaceKillFile(t) /\ s.day = today
                    \/ s.pc = "insert" /\ PlaceCheck(t) /\ s.day = daemon[t].day
                 /\ s.intent = daemon[t].intent
           /\ s.mode = daemon[t].mode
  <1> DEFINE d == daemon[t]
  <1>1. d \in DaemonState /\ today \in Days
    BY TodayType DEF TypeOK
  <1>2. d.day \in Days /\ d.mode \in {"paper", "live"}
    BY <1>1 DEF DaemonState
  <1>3. Idle(d.mode) \in DaemonState /\ Idle(d.mode).pc = "idle" /\ Idle(d.mode).mode = d.mode
    BY <1>2, IdleType DEF Idle, Down
  <1>4. ASSUME NEW day \in Days
        PROVE  /\ Tripping(t, day) \in DaemonState /\ Tripping(t, day).pc = "trip"
               /\ Tripping(t, day).mode = d.mode
    <2> DEFINE i == Idle(d.mode)
    <2>1. i \in DaemonState /\ i.mode = d.mode
      BY <1>3
    <2> HIDE DEF i
    <2>2. /\ [i EXCEPT !.pc = "trip", !.day = day] \in DaemonState
          /\ [i EXCEPT !.pc = "trip", !.day = day].pc = "trip"
          /\ [i EXCEPT !.pc = "trip", !.day = day].mode = d.mode
      BY <2>1 DEF DaemonState, PC, PlacePC
    <2> QED
      BY <2>2 DEF Tripping, i
  <1> DEFINE risky == [d EXCEPT !.pc = "risk", !.day = today]
             inserting == [d EXCEPT !.pc = "insert"]
  <1>5. /\ risky \in DaemonState /\ risky.pc = "risk" /\ risky.day = today
        /\ risky.intent = d.intent /\ risky.mode = d.mode
    BY <1>1 DEF DaemonState, PC, PlacePC
  <1>6. /\ inserting \in DaemonState /\ inserting.pc = "insert" /\ inserting.day = d.day
        /\ inserting.intent = d.intent /\ inserting.mode = d.mode
    BY <1>1 DEF DaemonState, PC, PlacePC
  <1>7. CASE PlaceKillFile(t)
    <2>1. Become(t, Tripping(t, today)) \/ Become(t, risky)
      BY <1>7 DEF PlaceKillFile
    <2> HIDE DEF risky
    <2> QED
      BY <1>1, <1>4, <1>5, <1>7, <2>1
  <1>8. CASE PlaceCheck(t)
    <2>1. Become(t, Tripping(t, d.day)) \/ Become(t, inserting) \/ Become(t, Idle(d.mode))
      BY <1>8 DEF PlaceCheck
    <2> HIDE DEF inserting
    <2> QED
      BY <1>2, <1>3, <1>4, <1>6, <1>8, <2>1
  <1> QED
    BY <1>7, <1>8 DEF EarlyStep

LEMMA PlaceStepType ==
  ASSUME TypeOK, StateInv, NEW t \in Traders, PlaceStep(t)
  PROVE  /\ StoreTypeOK'
         /\ daemon' \in [Traders -> DaemonState]
         /\ wire' \subseteq Request
         /\ UNCHANGED <<book, today, killFile>>
         /\ sinceKill' \in [standing : BOOLEAN, orders : Nat]
  <1> DEFINE d  == daemon[t]
             id == d.cur
  <1>1. daemon \in [Traders -> DaemonState] /\ d \in DaemonState /\ StoreTypeOK
    BY DEF TypeOK
  <1>2. d.mode \in {"paper", "live"} /\ d.day \in Days /\ d.pos \in Position
    BY <1>1 DEF DaemonState
  <1>3. Idle(d.mode) \in DaemonState
    BY <1>2, IdleType
  <1>4. ASSUME d.pc \in PaperPC \cup LivePC
        PROVE  id \in OrderIds /\ orders[id] \in Row /\ orders[id].status # "none"
               /\ orders[id].day \in Days /\ orders[id].value \in Int
               /\ orders[id].qty \in Int /\ orders[id].price \in Int /\ orders[id].price > 0
               /\ orders[id].symbol \in Symbols
    BY <1>4, CurRow, RowOfId
  <1>5. ASSUME UNCHANGED <<exchangeVars, localVars>>
        PROVE  wire' \subseteq Request /\ UNCHANGED <<book, today, killFile>>
               /\ sinceKill' \in [standing : BOOLEAN, orders : Nat]
    BY <1>5 DEF TypeOK, exchangeVars, localVars
  <1>6. ASSUME EarlyStep(t) PROVE daemon' \in [Traders -> DaemonState]
    BY <1>1, <1>6, EarlyStates, BecomeType
  <1>7. CASE PlaceKillFile(t)
    BY <1>1, <1>5, <1>6, <1>7, StoreUnchanged DEF PlaceKillFile, EarlyStep
  <1>17. CASE PlaceCheck(t)
    <2>1. RiskToday(d.day) /\ UNCHANGED <<exchangeVars, localVars>>
      BY <1>17 DEF PlaceCheck
    <2> QED
      BY <1>1, <1>2, <1>5, <1>6, <1>17, <2>1, RiskTodayType DEF EarlyStep
  <1>8. CASE PlaceTripHalt(t)
    BY <1>1, <1>2, <1>3, <1>5, <1>8, SetHaltedType, BecomeType DEF PlaceTripHalt
  <1>9. CASE PlaceInsert(t)
    <2> DEFINE next == [Down EXCEPT !.pc = IF d.mode = "live" THEN "send" ELSE "paper",
                                    !.mode = d.mode, !.cur = lastId + 1]
    <2>1. d.intent \in Intent
      BY <1>1, <1>9 DEF PlaceInsert, At, DaemonState, StateInv, PlacingInv
    <2>2. orderValue(d.intent) \in Int /\ SymbolOf[t] \in Symbols
      BY <2>1, OrderValueType, TraderAssumption
    <2>3. /\ InsertPending(SymbolOf[t], d.intent, d.mode, d.day, orderValue(d.intent))
          /\ Become(t, next)
          /\ UNCHANGED <<exchangeVars, today, killFile>>
          /\ sinceKill' = IF sinceKill.standing
                          THEN [sinceKill EXCEPT !.orders = @ + 1] ELSE sinceKill
      BY <1>9 DEF PlaceInsert
    <2>4. StoreTypeOK' /\ lastId + 1 \in OrderIds
      BY <1>1, <1>2, <2>1, <2>2, <2>3, InsertPendingType
    <2>5. next \in DaemonState
      BY <1>2, <2>4, DownType DEF DaemonState, PC, PlacePC
    <2>6. sinceKill' \in [standing : BOOLEAN, orders : Nat]
      BY <2>3 DEF TypeOK
    <2> HIDE DEF next
    <2>7. wire' \subseteq Request /\ book' = book
      BY <2>3 DEF TypeOK, exchangeVars
    <2> QED
      BY <1>1, <2>3, <2>4, <2>5, <2>6, <2>7, BecomeType
  <1>10. CASE PaperReadPosition(t)
    <2>1. positions[SymbolOf[t]] \in Position
      BY TraderAssumption, PositionType
    <2>2. [d EXCEPT !.pc = "paperApply", !.pos = positions[SymbolOf[t]]] \in DaemonState
      BY <1>1, <2>1 DEF DaemonState, PC, PlacePC
    <2> QED
      BY <1>1, <1>5, <1>10, <2>2, StoreUnchanged, BecomeType DEF PaperReadPosition
  <1>11. CASE PaperApply(t)
    <2> DEFINE row == orders[id]
               sim == simulatePaperFill(d.pos, row)
    <2>1. d.pc \in PaperPC \cup LivePC
      BY <1>11 DEF PaperApply, At, PaperPC
    <2>2. sim.pos \in Position /\ sim.spent \in Int
      BY <1>2, <1>4, <2>1, PaperFillType
    <2>3. LossOf(d.pos, sim.pos) \in Int
      BY <1>2, <2>2, LossOfInt
    <2> HIDE DEF sim
    <2>4. /\ ApplyFill(id, row.day, sim.pos, sim.spent, LossOf(d.pos, sim.pos))
          /\ Become(t, Idle(d.mode))
          /\ UNCHANGED <<exchangeVars, localVars>>
      BY <1>11 DEF PaperApply, sim
    <2>5. StoreTypeOK'
      BY <1>1, <1>4, <2>1, <2>2, <2>3, <2>4, ApplyFillType
    <2> QED
      BY <1>1, <1>3, <1>5, <2>4, <2>5, BecomeType
  <1>12. CASE Send(t)
    <2>1. d.pc \in PaperPC \cup LivePC
      BY <1>12 DEF Send, At, LivePC
    <2>2. orders[id].side \in {"BUY", "SELL"}
      BY <1>4, <2>1 DEF Row, Rows
    <2>3. UnitsFor(orders[id].value, orders[id].price) \in Int
      BY <1>4, <2>1, UnitsForInt
    <2>4. RequestOf(id) \in Request
      BY <1>4, <2>1, <2>2, <2>3, TraderAssumption DEF Request, RequestOf
    <2>5. [d EXCEPT !.pc = "await"] \in DaemonState
      BY <1>1 DEF DaemonState, PC, PlacePC
    <2>6. wire' \subseteq Request /\ book' = book
      BY <1>12, <2>4 DEF Send, Submit, TypeOK
    <2> QED
      BY <1>1, <1>12, <2>5, <2>6, StoreUnchanged, BecomeType DEF Send, TypeOK, localVars
  <1>13. CASE SendAnswered(t) \/ SendFails(t)
    <2>1. [d EXCEPT !.pc = "record"] \in DaemonState /\ [d EXCEPT !.pc = "reject"] \in DaemonState
      BY <1>1 DEF DaemonState, PC, PlacePC
    <2> QED
      BY <1>1, <1>5, <1>13, <2>1, StoreUnchanged, BecomeType DEF SendAnswered, SendFails
  <1>14. CASE SettleRejected(t)
    BY <1>1, <1>3, <1>4, <1>5, <1>14, SettleType, BecomeType
    DEF SettleRejected, At, LivePC, SettledStatus
  <1>15. CASE RecordAccepted(t)
    BY <1>1, <1>3, <1>4, <1>5, <1>15, ApplyFillSkipPositionType, BecomeType
    DEF RecordAccepted, At, LivePC
  <1>16. CASE PlaceError(t)
    BY <1>1, <1>3, <1>5, <1>16, StoreUnchanged, BecomeType DEF PlaceError
  <1> QED
    BY <1>7, <1>8, <1>9, <1>10, <1>11, <1>12, <1>13, <1>14, <1>15, <1>16, <1>17 DEF PlaceStep

-----------------------------------------------------------------------------
(* Typing of every step.                                                     *)

LEMMA OperatorStepType ==
  ASSUME TypeOK, OperatorStep
  PROVE  /\ StoreTypeOK' /\ killFile' \in BOOLEAN
         /\ sinceKill' \in [standing : BOOLEAN, orders : Nat]
         /\ UNCHANGED <<exchangeVars, daemon, today>>
  <1>1. StoreTypeOK /\ killFile \in BOOLEAN /\ sinceKill \in [standing : BOOLEAN, orders : Nat]
    BY DEF TypeOK
  <1>2. CASE Kill
    <2>1. PICK day \in LocalDays : SetHalted(day, TRUE)
      BY <1>2 DEF Kill
    <2>2. StoreTypeOK'
      BY <1>1, <2>1, LocalDaysType, SetHaltedType
    <2> QED
      BY <1>1, <1>2, <2>2 DEF Kill
  <1>3. CASE Resume
    <2>1. PICK day \in LocalDays : SetHalted(day, FALSE)
      BY <1>3 DEF Resume
    <2>2. StoreTypeOK'
      BY <1>1, <2>1, LocalDaysType, SetHaltedType
    <2> QED
      BY <1>1, <1>3, <2>2 DEF Resume
  <1>4. CASE ToggleKillFile
    BY <1>1, <1>4, StoreUnchanged DEF ToggleKillFile
  <1>5. CASE ReadRisk
    <2>1. PICK day \in LocalDays : RiskToday(day)
      BY <1>5 DEF ReadRisk
    <2>2. StoreTypeOK'
      BY <1>1, <2>1, LocalDaysType, RiskTodayType
    <2> QED
      BY <1>1, <1>5, <2>2 DEF ReadRisk, localVars
  <1> QED
    BY <1>2, <1>3, <1>4, <1>5 DEF OperatorStep

LEMMA InitType == Init => TypeOK
  <1> SUFFICES ASSUME Init PROVE TypeOK
    OBVIOUS
  <1>1. StoreTypeOK
    BY StoreAssumption DEF Init, StoreInit, StoreTypeOK, NewRisk, RiskState
  <1>2. wire \subseteq Request /\ book \in [ClientIds -> Taken \cup {Unknown, Refused}]
    BY DEF Init, ExchangeInit
  <1>3. daemon \in [Traders -> DaemonState]
    BY DownType DEF Init
  <1>4. today \in 1 .. MaxDay
    BY StoreAssumption DEF Init
  <1> QED
    BY <1>1, <1>2, <1>3, <1>4 DEF Init, TypeOK

LEMMA NextType == TypeOK /\ StateInv /\ [Next]_vars => TypeOK'
  <1> SUFFICES ASSUME TypeOK, StateInv, [Next]_vars PROVE TypeOK'
    OBVIOUS
  <1>1. CASE UNCHANGED vars
    <2>1. StoreTypeOK'
      BY <1>1, StoreUnchanged DEF vars, TypeOK
    <2> QED
      BY <1>1, <2>1 DEF vars, exchangeVars, localVars, TypeOK
  <1>2. ASSUME NEW t \in Traders, Start(t) \/ Crash(t) \/ TickStep(t)
        PROVE  TypeOK'
    <2>1. UNCHANGED <<storeVars, exchangeVars, localVars>>
      BY <1>2 DEF Start, Crash, TickStep, Tick, EvaluateNothing, EvaluateBuy, EvaluateSell
    <2>2. StoreTypeOK'
      BY <2>1, StoreUnchanged DEF TypeOK
    <2> QED
      BY <1>2, <2>1, <2>2, TickStepType DEF exchangeVars, localVars, TypeOK
  <1>3. ASSUME NEW t \in Traders, ReconcileStep(t) PROVE TypeOK'
    <2>1. UNCHANGED <<exchangeVars, localVars>>
      BY <1>3 DEF ReconcileStep, ListPending, ReadHistory, ReconcileReadPosition,
                  ReconcileApply, ReconcileSettle, ReconcileEnd, ReconcileError
    <2> QED
      BY <1>3, <2>1, ReconcileStepType DEF exchangeVars, localVars, TypeOK
  <1>4. ASSUME NEW t \in Traders, PlaceStep(t) PROVE TypeOK'
    BY <1>4, PlaceStepType DEF TypeOK
  <1>5. CASE ExchangeStep
    <2>1. StoreTypeOK'
      BY <1>5, StoreUnchanged DEF ExchangeStep, TypeOK
    <2> QED
      BY <1>5, <2>1, ExchangeStepType DEF ExchangeStep, localVars, TypeOK
  <1>6. CASE OperatorStep
    BY <1>6, OperatorStepType DEF TypeOK, exchangeVars
  <1>7. CASE NextDay
    <2>1. StoreTypeOK'
      BY <1>7, StoreUnchanged DEF NextDay, TypeOK
    <2>2. today' \in 1 .. MaxDay
      BY <1>7, StoreAssumption DEF NextDay, TypeOK
    <2> QED
      BY <1>7, <2>1, <2>2 DEF NextDay, exchangeVars, TypeOK
  <1> QED
    BY <1>1, <1>2, <1>3, <1>4, <1>5, <1>6, <1>7 DEF Next, DaemonStep

-----------------------------------------------------------------------------
(* StateInv.  A step of a daemon that inserts nothing and sends nothing      *)
(* keeps every row but for its status.                                       *)

KeepsRows ==
  /\ lastId' = lastId
  /\ \A id \in OrderIds : orders'[id].status = "none" <=> orders[id].status = "none"
  /\ \A id \in OrderIds : id <= lastId =>
       orders'[id].symbol = orders[id].symbol /\ orders'[id].mode = orders[id].mode

LEMMA UnchangedKeepsRows == ASSUME UNCHANGED <<orders, lastId>> PROVE KeepsRows
  BY DEF KeepsRows

LEMMA StatusKeepsRows ==
  ASSUME TypeOK, StateInv, NEW id \in OrderIds, id <= lastId, NEW st \in SettledStatus,
         lastId' = lastId, orders' = [orders EXCEPT ![id] = [@ EXCEPT !.status = st]]
  PROVE  KeepsRows
  <1>1. orders[id] \in Row /\ orders[id].status # "none"
    BY RowOfId
  <1>2. /\ orders'[id] = [orders[id] EXCEPT !.status = st]
        /\ \A other \in OrderIds : other # id => orders'[other] = orders[other]
    BY DEF TypeOK, StoreTypeOK
  <1>3. /\ orders'[id].status # "none"
        /\ orders'[id].symbol = orders[id].symbol /\ orders'[id].mode = orders[id].mode
    BY <1>1, <1>2 DEF Row, Rows, SettledStatus
  <1> QED
    BY <1>1, <1>2, <1>3 DEF KeepsRows

LEMMA IdsAreInts == ASSUME TypeOK PROVE lastId \in Int /\ OrderIds \subseteq Int
  BY StoreAssumption DEF TypeOK, StoreTypeOK, OrderIds

LEMMA RowsFrame ==
  ASSUME TypeOK, StateInv, KeepsRows, UNCHANGED exchangeVars
  PROVE  RowInv' /\ TrafficInv'
  <1>1. RowInv /\ TrafficInv /\ wire' = wire /\ book' = book /\ lastId' = lastId
    BY DEF StateInv, exchangeVars, KeepsRows
  <1>2. RowInv'
    BY <1>1 DEF RowInv, KeepsRows
  <1>3. ASSUME NEW id \in OrderIds, NEW s, LiveRow(id, s) PROVE LiveRow(id, s)'
    BY <1>1, <1>3 DEF LiveRow, KeepsRows
  <1>4. ASSUME NEW r \in wire, r.id \in OrderIds PROVE LiveRow(r.id, r.symbol)'
    BY <1>1, <1>3, <1>4 DEF TrafficInv
  <1>5. ASSUME NEW id \in OrderIds, book[id] # Unknown
        PROVE  id <= lastId' /\ orders'[id].mode = "live" /\ orders'[id].symbol = orders[id].symbol
    BY <1>1, <1>5 DEF TrafficInv, KeepsRows
  <1>6. ASSUME NEW id \in OrderIds, IsTaken(id)
        PROVE  book[id] # Unknown /\ book[id].req.id = id /\ book[id].req.symbol = orders[id].symbol
    BY <1>1, <1>6 DEF TrafficInv, IsTaken, Unknown
  <1>7. TrafficInv'
    BY <1>1, <1>4, <1>5, <1>6 DEF TrafficInv, IsTaken
  <1> QED
    BY <1>2, <1>7

LEMMA DaemonFrame ==
  ASSUME TypeOK, StateInv, KeepsRows, UNCHANGED exchangeVars,
         NEW u \in Traders, daemon'[u] = daemon[u]
  PROVE  PlacingInv(u)' /\ ReconcilingInv(u)'
  <1>1. PlacingInv(u) /\ ReconcilingInv(u)
    BY DEF StateInv
  <1>2. PlacingInv(u)'
    BY <1>1 DEF PlacingInv, LiveRow, KeepsRows, exchangeVars, IsTaken
  <1>3. daemon[u].todo \subseteq OrderIds
    BY DEF TypeOK, DaemonState
  <1>4. ReconcilingInv(u)'
    BY <1>1, <1>3 DEF ReconcilingInv, Reconcilable, LiveRow, KeepsRows, exchangeVars, IsTaken
  <1> QED
    BY <1>2, <1>4

(* A step of daemon t that leaves its row alone or drops it.                 *)
LEMMA OneDaemonStep ==
  ASSUME TypeOK, StateInv, KeepsRows, UNCHANGED exchangeVars,
         NEW t \in Traders, NEW s, Become(t, s),
         s.pc \in PaperPC \cup LivePC =>
           daemon[t].pc \in PaperPC \cup LivePC /\ s.cur = daemon[t].cur,
         PlacingInv(t)', ReconcilingInv(t)'
  PROVE  StateInv'
  <1>1. /\ daemon'[t] = s
        /\ \A u \in Traders : u # t => daemon'[u] = daemon[u]
    BY DEF Become, TypeOK
  <1>2. \A u \in Traders : PlacingInv(u)' /\ ReconcilingInv(u)'
    BY <1>1, DaemonFrame
  <1>3. DistinctRows'
    BY <1>1 DEF StateInv, DistinctRows
  <1> QED
    BY <1>2, <1>3, RowsFrame DEF StateInv

QuietPC == {"down", "idle", "eval", "list", "trip"}

LEMMA QuietStep ==
  ASSUME TypeOK, StateInv, KeepsRows, UNCHANGED exchangeVars,
         NEW t \in Traders, NEW s, Become(t, s), s.pc \in QuietPC
  PROVE  StateInv'
  <1>1. daemon'[t] = s
    BY DEF Become, TypeOK
  <1>2. PlacingInv(t)' /\ ReconcilingInv(t)'
    BY <1>1 DEF PlacingInv, ReconcilingInv, QuietPC, PaperPC, LivePC
  <1>3. ~(s.pc \in PaperPC \cup LivePC)
    BY DEF QuietPC, PaperPC, LivePC
  <1> QED
    BY <1>2, <1>3, OneDaemonStep

LEMMA QuietStates ==
  ASSUME NEW m
  PROVE  Idle(m).pc \in QuietPC /\ Eval(m).pc \in QuietPC /\ Down.pc \in QuietPC
  BY DEF Idle, Eval, Down, QuietPC

LEMMA TickStepInv ==
  ASSUME TypeOK, StateInv, NEW t \in Traders, Start(t) \/ Crash(t) \/ TickStep(t)
  PROVE  StateInv'
  <1> DEFINE d == daemon[t]
  <1>1. KeepsRows /\ UNCHANGED exchangeVars
    BY UnchangedKeepsRows
    DEF Start, Crash, TickStep, Tick, EvaluateNothing, EvaluateBuy, EvaluateSell, storeVars
  <1>2. d \in DaemonState
    BY DEF TypeOK
  <1>3. CASE Start(t)
    <2>1. PICK m \in Modes :
            Become(t, IF m = "live" THEN [Down EXCEPT !.pc = "list", !.mode = m, !.boot = TRUE]
                      ELSE Idle(m))
      BY <1>3 DEF Start
    <2>2. [Down EXCEPT !.pc = "list", !.mode = m, !.boot = TRUE].pc \in QuietPC
      BY DEF Down, QuietPC
    <2> QED
      BY <1>1, <2>1, <2>2, QuietStates, QuietStep
  <1>4. CASE Crash(t) \/ EvaluateNothing(t)
    BY <1>1, <1>4, QuietStates, QuietStep DEF Crash, EvaluateNothing
  <1>5. CASE Tick(t)
    <2>1. [d EXCEPT !.pc = "list"].pc \in QuietPC /\ [d EXCEPT !.pc = "eval"].pc \in QuietPC
      BY <1>2 DEF DaemonState, QuietPC
    <2> QED
      BY <1>1, <1>5, <2>1, QuietStep DEF Tick
  <1>6. ASSUME NEW in, in # NoIntent, Become(t, [d EXCEPT !.pc = "place", !.intent = in])
        PROVE  StateInv'
    <2> DEFINE s == [d EXCEPT !.pc = "place", !.intent = in]
    <2>1. s.pc = "place" /\ s.intent = in
      BY <1>2 DEF DaemonState
    <2>2. daemon'[t] = s
      BY <1>6 DEF Become, TypeOK
    <2> HIDE DEF s
    <2>3. PlacingInv(t)' /\ ReconcilingInv(t)'
      BY <1>6, <2>1, <2>2 DEF PlacingInv, ReconcilingInv, PaperPC, LivePC
    <2>4. ~(s.pc \in PaperPC \cup LivePC)
      BY <2>1 DEF PaperPC, LivePC
    <2>5. Become(t, s)
      BY <1>6 DEF s
    <2> QED
      BY <1>1, <2>3, <2>4, <2>5, OneDaemonStep
  <1>7. CASE EvaluateBuy(t)
    <2>1. PICK p \in Prices :
            Become(t, [d EXCEPT !.pc = "place",
                         !.intent = [side |-> "BUY", price |-> p, value |-> BuyValue, qty |-> 0]])
      BY <1>7 DEF EvaluateBuy
    <2>2. [side |-> "BUY", price |-> p, value |-> BuyValue, qty |-> 0] # NoIntent
      BY DEF NoIntent
    <2> QED
      BY <1>6, <2>1, <2>2
  <1>8. CASE EvaluateSell(t)
    <2> DEFINE held == positions[SymbolOf[t]].qty
    <2>1. PICK p \in Prices :
            Become(t, [d EXCEPT !.pc = "place",
                         !.intent = [side |-> "SELL", price |-> p, value |-> 0, qty |-> held]])
      BY <1>8 DEF EvaluateSell
    <2>2. [side |-> "SELL", price |-> p, value |-> 0, qty |-> held] # NoIntent
      BY DEF NoIntent
    <2> QED
      BY <1>6, <2>1, <2>2
  <1> QED
    BY <1>3, <1>4, <1>5, <1>7, <1>8 DEF TickStep

(* The steps of Reconcile.                                                   *)
LEMMA ReconcileStepInv ==
  ASSUME TypeOK, StateInv, NEW t \in Traders, ReconcileStep(t)
  PROVE  StateInv'
  <1> DEFINE d == daemon[t]
  <1>1. d \in DaemonState /\ d.todo \subseteq OrderIds
    BY DEF TypeOK, DaemonState
  <1>2. UNCHANGED exchangeVars
    BY DEF ReconcileStep, ListPending, ReadHistory, ReconcileReadPosition, ReconcileApply,
           ReconcileSettle, ReconcileEnd, ReconcileError
  <1>3. Reconciled(t).pc \in QuietPC
    BY QuietStates DEF Reconciled
  <1>4. RowInv /\ TrafficInv /\ PlacingInv(t) /\ ReconcilingInv(t)
    BY DEF StateInv
  <1>5. ASSUME KeepsRows, NEW s, Become(t, s), s.pc \in {"history", "loop", "apply"},
               s.todo \subseteq OrderIds,
               s.pc = "history" =>
                 \A id \in s.todo : id <= lastId /\ orders[id].mode = "live",
               s.pc \in {"loop", "apply"} => \A id \in s.todo : Reconcilable(id, t),
               s.pc = "apply" => s.cur \in s.todo /\ book[s.cur].state = "FullyExecuted"
        PROVE  StateInv'
    <2>1. daemon'[t] = s
      BY <1>5 DEF Become, TypeOK
    <2>2. ~(s.pc \in PaperPC \cup LivePC)
      BY <1>5 DEF PaperPC, LivePC
    <2>3. PlacingInv(t)'
      BY <1>5, <2>1 DEF PlacingInv, PaperPC, LivePC
    <2>4. ReconcilingInv(t)'
      BY <1>2, <1>5, <2>1
      DEF ReconcilingInv, Reconcilable, LiveRow, KeepsRows, exchangeVars, IsTaken
    <2> QED
      BY <1>2, <1>5, <2>2, <2>3, <2>4, OneDaemonStep
  <1>6. ASSUME KeepsRows, d.pc \in {"loop", "apply"}, NEW id, LoopOn(t, id) PROVE StateInv'
    <2> DEFINE s == [d EXCEPT !.pc = "loop", !.pos = Flat, !.cur = 0, !.todo = @ \ {id}]
    <2>1. s.pc = "loop" /\ s.todo = d.todo \ {id}
      BY <1>1 DEF DaemonState
    <2>2. Become(t, s)
      BY <1>6 DEF LoopOn
    <2> HIDE DEF s
    <2>3. \A other \in s.todo : Reconcilable(other, t)
      BY <1>4, <1>6, <2>1 DEF ReconcilingInv
    <2> QED
      BY <1>1, <1>5, <1>6, <2>1, <2>2, <2>3
  <1>7. CASE ListPending(t)
    <2> DEFINE s == [d EXCEPT !.pc = "history", !.todo = PendingLive]
    <2>1. KeepsRows
      BY <1>7, UnchangedKeepsRows DEF ListPending, storeVars
    <2>2. s.pc = "history" /\ s.todo = PendingLive
      BY <1>1 DEF DaemonState
    <2> HIDE DEF s
    <2>3. \A id \in PendingLive : id \in OrderIds /\ id <= lastId /\ orders[id].mode = "live"
      BY <1>4, IdsAreInts DEF PendingLive, RowInv
    <2>4. CASE Become(t, Reconciled(t))
      BY <1>2, <1>3, <2>1, <2>4, QuietStep
    <2>5. CASE Become(t, s)
      BY <1>5, <2>1, <2>2, <2>3, <2>5
    <2> QED
      BY <1>7, <2>4, <2>5 DEF ListPending, s
  <1>8. CASE ReadHistory(t)
    <2> DEFINE s == [d EXCEPT !.pc = "loop", !.day = today, !.todo = FinalInHistory(t)]
    <2>1. KeepsRows
      BY <1>8, UnchangedKeepsRows DEF ReadHistory, storeVars
    <2>2. s.pc = "loop" /\ s.todo = FinalInHistory(t)
      BY <1>1 DEF DaemonState
    <2>3. Become(t, s)
      BY <1>8 DEF ReadHistory
    <2> HIDE DEF s
    <2>4. ASSUME NEW id \in FinalInHistory(t) PROVE id \in OrderIds /\ Reconcilable(id, t)
      <3>1. id \in d.todo /\ id \in History(SymbolOf[t]) /\ book[id].state \in FinalStates
        BY <2>4 DEF FinalInHistory
      <3>2. id \in OrderIds /\ id <= lastId /\ orders[id].mode = "live"
        BY <1>1, <1>4, <1>8, <3>1 DEF ReadHistory, At, ReconcilingInv
      <3>3. IsTaken(id) /\ book[id].req.symbol = SymbolOf[t]
        BY <3>1 DEF History
      <3>4. book[id].req.symbol = orders[id].symbol
        BY <1>4, <3>2, <3>3 DEF TrafficInv
      <3> QED
        BY <3>1, <3>2, <3>3, <3>4 DEF Reconcilable, LiveRow
    <2> QED
      BY <1>5, <2>1, <2>2, <2>3, <2>4
  <1>9. CASE ReconcileReadPosition(t)
    <2>1. PICK id \in d.todo :
            /\ book[id].state = "FullyExecuted"
            /\ Become(t, [d EXCEPT !.pc = "apply", !.pos = positions[orders[id].symbol],
                                   !.cur = id])
      BY <1>9 DEF ReconcileReadPosition
    <2> DEFINE s == [d EXCEPT !.pc = "apply", !.pos = positions[orders[id].symbol], !.cur = id]
    <2>2. KeepsRows
      BY <1>9, UnchangedKeepsRows DEF ReconcileReadPosition, storeVars
    <2>3. s.pc = "apply" /\ s.todo = d.todo /\ s.cur = id
      BY <1>1 DEF DaemonState
    <2>4. Become(t, s)
      BY <2>1
    <2> HIDE DEF s
    <2>5. \A other \in d.todo : Reconcilable(other, t)
      BY <1>4, <1>9 DEF ReconcileReadPosition, At, ReconcilingInv
    <2> QED
      BY <1>1, <1>5, <2>1, <2>2, <2>3, <2>4, <2>5
  <1>10. CASE ReconcileApply(t)
    <2>1. d.pc = "apply" /\ LoopOn(t, d.cur)
      BY <1>10 DEF ReconcileApply, At
    <2>2. d.cur \in d.todo
      BY <1>4, <2>1 DEF ReconcilingInv
    <2>3. d.cur \in OrderIds /\ d.cur <= lastId
      BY <2>1, <2>2, TodoRow
    <2>4. \/ UNCHANGED <<orders, lastId>>
          \/ /\ lastId' = lastId
             /\ orders' = [orders EXCEPT ![d.cur] = [@ EXCEPT !.status = "accepted"]]
      BY <1>10 DEF ReconcileApply, ApplyFill, storeVars
    <2>5. KeepsRows
      BY <2>3, <2>4, UnchangedKeepsRows, StatusKeepsRows DEF SettledStatus
    <2> QED
      BY <1>6, <2>1, <2>5
  <1>11. CASE ReconcileSettle(t)
    <2>1. PICK id \in d.todo : Settle(id, "rejected") /\ LoopOn(t, id)
      BY <1>11 DEF ReconcileSettle
    <2>2. d.pc = "loop"
      BY <1>11 DEF ReconcileSettle, At
    <2>3. id \in OrderIds /\ id <= lastId
      BY <2>2, TodoRow
    <2>4. KeepsRows
      BY <2>1, <2>3, StatusKeepsRows DEF Settle, SettledStatus
    <2> QED
      BY <1>6, <2>1, <2>2, <2>4
  <1>12. CASE ReconcileEnd(t)
    <2>1. KeepsRows
      BY <1>12, UnchangedKeepsRows DEF ReconcileEnd, storeVars
    <2> QED
      BY <1>2, <1>3, <1>12, <2>1, QuietStep DEF ReconcileEnd
  <1>13. CASE ReconcileError(t)
    <2>1. KeepsRows
      BY <1>13, UnchangedKeepsRows DEF ReconcileError, storeVars
    <2> QED
      BY <1>2, <1>13, <2>1, QuietStates, QuietStep DEF ReconcileError
  <1> QED
    BY <1>7, <1>8, <1>9, <1>10, <1>11, <1>12, <1>13 DEF ReconcileStep

(* The steps of Place: the insert gives the daemon a row of its own.         *)
LEMMA PlaceInsertInv ==
  ASSUME TypeOK, StateInv, NEW t \in Traders, PlaceInsert(t)
  PROVE  StateInv'
  <1> DEFINE d  == daemon[t]
             id == lastId + 1
             s  == [Down EXCEPT !.pc = IF d.mode = "live" THEN "send" ELSE "paper",
                                !.mode = d.mode, !.cur = id]
             row == [symbol |-> SymbolOf[t], side |-> d.intent.side, price |-> d.intent.price,
                     qty |-> d.intent.qty, mode |-> d.mode, status |-> "pending",
                     day |-> d.day, value |-> orderValue(d.intent)]
  <1>1. /\ lastId < MaxOrders /\ lastId' = id
        /\ orders' = [orders EXCEPT ![id] = row]
        /\ wire' = wire /\ book' = book
        /\ daemon' = [daemon EXCEPT ![t] = s]
    BY DEF PlaceInsert, InsertPending, Become, exchangeVars
  <1>2. id \in OrderIds /\ lastId \in Int /\ OrderIds \subseteq Int
    BY <1>1, IdsAreInts, StoreAssumption DEF TypeOK, StoreTypeOK, OrderIds
  <1>3. /\ orders'[id] = row
        /\ \A other \in OrderIds : other # id => orders'[other] = orders[other]
    BY <1>1, <1>2 DEF TypeOK, StoreTypeOK
  <1>4. row.status = "pending" /\ row.mode = d.mode /\ row.symbol = SymbolOf[t]
    OBVIOUS
  <1>5. /\ s.pc = IF d.mode = "live" THEN "send" ELSE "paper"
        /\ s.cur = id
    BY DEF Down
  <1>6. d.mode \in {"paper", "live"}
    BY DEF TypeOK, DaemonState
  <1> HIDE DEF row, s
  <1>7. daemon'[t] = s /\ \A u \in Traders : u # t => daemon'[u] = daemon[u]
    BY <1>1 DEF TypeOK
  <1>8. RowInv /\ TrafficInv /\ DistinctRows /\ \A u \in Traders : PlacingInv(u) /\ ReconcilingInv(u)
    BY DEF StateInv
  <1>9. RowInv'
    BY <1>1, <1>2, <1>3, <1>4, <1>8 DEF RowInv
  <1>10. book[id] = Unknown /\ \A r \in wire : r.id # id
    BY <1>2, <1>8 DEF TrafficInv, LiveRow
  <1>11. ASSUME NEW other \in OrderIds, other <= lastId
         PROVE  other # id /\ other <= lastId' /\ orders'[other] = orders[other]
    BY <1>1, <1>2, <1>3, <1>11
  <1>12. ASSUME NEW r \in wire, r.id \in OrderIds PROVE LiveRow(r.id, r.symbol)'
    BY <1>8, <1>11, <1>12 DEF TrafficInv, LiveRow
  <1>13. ASSUME NEW other \in OrderIds, book[other] # Unknown
         PROVE  other <= lastId' /\ orders'[other].mode = "live" /\ orders'[other] = orders[other]
    BY <1>8, <1>11, <1>13 DEF TrafficInv
  <1>14. ASSUME NEW other \in OrderIds, IsTaken(other) PROVE book[other] # Unknown
    BY <1>14 DEF IsTaken, Unknown
  <1>15. TrafficInv'
    BY <1>1, <1>8, <1>12, <1>13, <1>14 DEF TrafficInv, IsTaken
  <1>16. ASSUME NEW u \in Traders, u # t PROVE PlacingInv(u)' /\ ReconcilingInv(u)'
    <2>1. daemon'[u] = daemon[u] /\ PlacingInv(u) /\ ReconcilingInv(u)
      BY <1>7, <1>8, <1>16
    <2>2. daemon[u].todo \subseteq OrderIds
      BY DEF TypeOK, DaemonState
    <2>3. PlacingInv(u)'
      BY <1>1, <1>11, <2>1 DEF PlacingInv, LiveRow, IsTaken
    <2>4. ReconcilingInv(u)'
      BY <1>1, <1>11, <2>1, <2>2 DEF ReconcilingInv, Reconcilable, LiveRow, IsTaken
    <2> QED
      BY <2>3, <2>4
  <1>17. PlacingInv(t)'
    BY <1>1, <1>2, <1>3, <1>4, <1>5, <1>6, <1>7, <1>10 DEF PlacingInv, LiveRow, PaperPC, LivePC
  <1>18. ReconcilingInv(t)'
    BY <1>5, <1>7 DEF ReconcilingInv
  <1>19. \A u \in Traders : daemon[u].pc \in PaperPC \cup LivePC => daemon[u].cur # id
    BY <1>2, CurRow
  <1>20. DistinctRows'
    BY <1>5, <1>7, <1>8, <1>19 DEF DistinctRows
  <1> QED
    BY <1>9, <1>15, <1>16, <1>17, <1>18, <1>20 DEF StateInv

(* The one request of a row leaves while nobody has seen it.                 *)
LEMMA SendInv ==
  ASSUME TypeOK, StateInv, NEW t \in Traders, Send(t)
  PROVE  StateInv'
  <1> DEFINE d == daemon[t]
             r == RequestOf(d.cur)
             s == [d EXCEPT !.pc = "await"]
  <1>1. /\ d.pc = "send" /\ wire' = wire \cup {r} /\ book' = book
        /\ orders' = orders /\ lastId' = lastId
        /\ daemon' = [daemon EXCEPT ![t] = s]
    BY DEF Send, At, Submit, Become, storeVars
  <1>2. RowInv /\ TrafficInv /\ DistinctRows /\ \A u \in Traders : PlacingInv(u) /\ ReconcilingInv(u)
    BY DEF StateInv
  <1>3. /\ LiveRow(d.cur, SymbolOf[t]) /\ book[d.cur] = Unknown
        /\ \A q \in wire : q.id # d.cur
    BY <1>1, <1>2 DEF PlacingInv, LivePC
  <1>4. r.id = d.cur /\ r.symbol = orders[d.cur].symbol
    BY DEF RequestOf
  <1>5. s.pc = "await" /\ s.cur = d.cur
    BY DEF TypeOK, DaemonState
  <1> HIDE DEF r, s
  <1>6. daemon'[t] = s /\ \A u \in Traders : u # t => daemon'[u] = daemon[u]
    BY <1>1 DEF TypeOK
  <1>7. RowInv'
    BY <1>1, <1>2 DEF RowInv
  <1>8. TrafficInv'
    BY <1>1, <1>2, <1>3, <1>4 DEF TrafficInv, LiveRow, IsTaken
  <1>9. \A u \in Traders : u # t /\ daemon[u].pc = "send" => daemon[u].cur # d.cur
    BY <1>1, <1>2 DEF DistinctRows, LivePC
  <1>10. ASSUME NEW u \in Traders, u # t PROVE PlacingInv(u)' /\ ReconcilingInv(u)'
    <2>1. daemon'[u] = daemon[u] /\ PlacingInv(u) /\ ReconcilingInv(u)
      BY <1>2, <1>6, <1>10
    <2>2. PlacingInv(u)'
      BY <1>1, <1>4, <1>9, <1>10, <2>1 DEF PlacingInv, LiveRow, IsTaken
    <2>3. ReconcilingInv(u)'
      BY <1>1, <2>1 DEF ReconcilingInv, Reconcilable, LiveRow, IsTaken
    <2> QED
      BY <2>2, <2>3
  <1>11. PlacingInv(t)' /\ ReconcilingInv(t)'
    BY <1>1, <1>3, <1>5, <1>6 DEF PlacingInv, ReconcilingInv, LiveRow, PaperPC, LivePC
  <1>12. DistinctRows'
    BY <1>1, <1>2, <1>5, <1>6 DEF DistinctRows, LivePC
  <1> QED
    BY <1>7, <1>8, <1>10, <1>11, <1>12 DEF StateInv

LEMMA PlaceStepInv ==
  ASSUME TypeOK, StateInv, NEW t \in Traders, PlaceStep(t)
  PROVE  StateInv'
  <1> DEFINE d == daemon[t]
  <1>1. d \in DaemonState
    BY DEF TypeOK
  <1>2. PlacingInv(t)
    BY DEF StateInv
  <1>3. CASE PlaceTripHalt(t)
    <2>1. KeepsRows /\ UNCHANGED exchangeVars
      BY <1>3, UnchangedKeepsRows DEF PlaceTripHalt, SetHalted
    <2> QED
      BY <1>3, <2>1, QuietStates, QuietStep DEF PlaceTripHalt
  <1>4. CASE EarlyStep(t)
    <2>1. KeepsRows /\ UNCHANGED exchangeVars
      BY <1>4, UnchangedKeepsRows DEF EarlyStep, PlaceKillFile, PlaceCheck, RiskToday, storeVars
    <2>2. PICK s : /\ Become(t, s)
                   /\ \/ s.pc \in {"idle", "trip"}
                      \/ s.pc \in {"risk", "insert"} /\ s.intent = d.intent
      BY <1>4, EarlyStates
    <2>3. CASE s.pc \in {"risk", "insert"} /\ s.intent = d.intent
      <3>1. daemon'[t] = s
        BY <2>2 DEF Become, TypeOK
      <3>2. ~(s.pc \in PaperPC \cup LivePC)
        BY <2>3 DEF PaperPC, LivePC
      <3>3. d.pc \in {"place", "risk"}
        BY <1>4 DEF EarlyStep, PlaceKillFile, PlaceCheck, At
      <3>4. PlacingInv(t)' /\ ReconcilingInv(t)'
        BY <1>2, <2>3, <3>1, <3>3 DEF PlacingInv, ReconcilingInv, PaperPC, LivePC
      <3> QED
        BY <2>1, <2>2, <3>2, <3>4, OneDaemonStep
    <2>4. CASE s.pc \in {"idle", "trip"}
      BY <2>1, <2>2, <2>4, QuietStep DEF QuietPC
    <2> QED
      BY <2>2, <2>3, <2>4
  <1>5. CASE PaperReadPosition(t)
    <2> DEFINE s == [d EXCEPT !.pc = "paperApply", !.pos = positions[SymbolOf[t]]]
    <2>1. KeepsRows /\ UNCHANGED exchangeVars
      BY <1>5, UnchangedKeepsRows DEF PaperReadPosition, storeVars
    <2>2. s.pc = "paperApply" /\ s.cur = d.cur
      BY <1>1 DEF DaemonState
    <2>3. Become(t, s) /\ d.pc = "paper"
      BY <1>5 DEF PaperReadPosition, At
    <2> HIDE DEF s
    <2>4. daemon'[t] = s
      BY <2>3 DEF Become, TypeOK
    <2>5. PlacingInv(t)' /\ ReconcilingInv(t)'
      BY <1>2, <2>1, <2>2, <2>3, <2>4
      DEF PlacingInv, ReconcilingInv, PaperPC, LivePC, KeepsRows
    <2> QED
      BY <2>1, <2>2, <2>3, <2>5, OneDaemonStep DEF PaperPC, LivePC
  <1>6. CASE PaperApply(t) \/ SettleRejected(t) \/ RecordAccepted(t)
    <2>1. d.pc \in PaperPC \cup LivePC
      BY <1>6 DEF PaperApply, SettleRejected, RecordAccepted, At, PaperPC, LivePC
    <2>2. PICK st \in SettledStatus :
            lastId' = lastId /\ orders' = [orders EXCEPT ![d.cur] = [@ EXCEPT !.status = st]]
      BY <1>6 DEF PaperApply, SettleRejected, RecordAccepted, ApplyFill, Settle,
                  ApplyFillSkipPosition, SettledStatus
    <2>3. KeepsRows
      BY <2>1, <2>2, CurRow, StatusKeepsRows
    <2>4. Become(t, Idle(d.mode)) /\ UNCHANGED exchangeVars
      BY <1>6 DEF PaperApply, SettleRejected, RecordAccepted
    <2> QED
      BY <2>3, <2>4, QuietStates, QuietStep
  <1>7. CASE SendAnswered(t) \/ SendFails(t)
    <2>1. KeepsRows /\ UNCHANGED exchangeVars
      BY <1>7, UnchangedKeepsRows DEF SendAnswered, SendFails, storeVars
    <2>2. PICK pc \in {"record", "reject"} :
            /\ Become(t, [d EXCEPT !.pc = pc])
            /\ pc = "record" => IsTaken(d.cur)
      BY <1>7 DEF SendAnswered, SendFails
    <2> DEFINE s == [d EXCEPT !.pc = pc]
    <2>3. s.pc = pc /\ s.cur = d.cur
      BY <1>1 DEF DaemonState
    <2>4. Become(t, s) /\ d.pc = "await"
      BY <1>7, <2>2 DEF SendAnswered, SendFails, At
    <2> HIDE DEF s
    <2>5. daemon'[t] = s
      BY <2>4 DEF Become, TypeOK
    <2>6. PlacingInv(t)' /\ ReconcilingInv(t)'
      BY <1>2, <2>1, <2>2, <2>3, <2>4, <2>5
      DEF PlacingInv, ReconcilingInv, LiveRow, PaperPC, LivePC, KeepsRows, exchangeVars, IsTaken
    <2> QED
      BY <2>1, <2>3, <2>4, <2>6, OneDaemonStep DEF LivePC
  <1>8. CASE PlaceError(t)
    <2>1. KeepsRows /\ UNCHANGED exchangeVars
      BY <1>8, UnchangedKeepsRows DEF PlaceError, storeVars
    <2> QED
      BY <1>8, <2>1, QuietStates, QuietStep DEF PlaceError
  <1> QED
    BY <1>3, <1>4, <1>5, <1>6, <1>7, <1>8, PlaceInsertInv, SendInv DEF PlaceStep, EarlyStep

(* The exchange: a request under way is answered once, and an order it took  *)
(* keeps its request and, once final, its state.                             *)
Answered(id) ==
  /\ \E r \in wire : r.id = id /\ r \notin wire'
                     /\ book'[id] # Unknown /\ (book'[id].state = "Working" => book'[id].req = r)
                     /\ book'[id].state \in {"Working", "refused"}

Progressed(id) ==
  /\ book[id].state = "Working"
  /\ book'[id].req = book[id].req
  /\ book'[id].state \in {"Working"} \cup FinalStates

ExchangeMoves ==
  /\ wire' \subseteq wire
  /\ \A id \in OrderIds : book'[id] = book[id] \/ Answered(id) \/ Progressed(id)

LEMMA ExchangeStepMoves ==
  ASSUME TypeOK, StateInv, ExchangeStep PROVE ExchangeMoves
  <1>1. /\ book \in [ClientIds -> Taken \cup {Unknown, Refused}] /\ OrderIds \subseteq ClientIds
        /\ wire \subseteq Request
    BY TraderAssumption DEF TypeOK
  <1>2. CASE \E r \in wire : r.qty > 0 /\ Receive(r)
    <2>1. PICK r \in wire : Receive(r)
      BY <1>2
    <2> DEFINE o == [state |-> "Working", req |-> r, executed |-> 0, avg |-> 0]
    <2>2. o # Unknown /\ o.state = "Working" /\ o.req = r
      BY DEF Unknown
    <2> HIDE DEF o
    <2>3. wire' = wire \ {r} /\ book' = [book EXCEPT ![r.id] = o]
      BY <2>1 DEF Receive, o
    <2>4. ASSUME NEW id \in OrderIds PROVE book'[id] = book[id] \/ Answered(id)
      BY <1>1, <2>2, <2>3 DEF Answered
    <2> QED
      BY <2>3, <2>4 DEF ExchangeMoves
  <1>3. CASE \E r \in wire : Refuse(r)
    <2>1. PICK r \in wire : Refuse(r)
      BY <1>3
    <2>2. Refused # Unknown /\ Refused.state = "refused"
      BY DEF Unknown, Refused
    <2>3. wire' = wire \ {r} /\ book' = [book EXCEPT ![r.id] = Refused]
      BY <2>1 DEF Refuse
    <2>4. ASSUME NEW id \in OrderIds PROVE book'[id] = book[id] \/ Answered(id)
      BY <1>1, <2>2, <2>3 DEF Answered
    <2> QED
      BY <2>3, <2>4 DEF ExchangeMoves
  <1>4. CASE \E r \in wire : Lose(r)
    BY <1>4 DEF Lose, ExchangeMoves
  <1>5. ASSUME NEW id \in OrderIds, NEW o, book[id].state = "Working", wire' = wire,
               book' = [book EXCEPT ![id] = o], o.req = book[id].req,
               o.state \in {"Working"} \cup FinalStates
        PROVE  ExchangeMoves
    BY <1>1, <1>5 DEF ExchangeMoves, Progressed
  <1>6. CASE \E id \in OrderIds, p \in Prices : Execute(id, p)
    <2>1. PICK id \in OrderIds, p \in Prices : Execute(id, p)
      BY <1>6
    <2> DEFINE o == [book[id] EXCEPT !.state = "FullyExecuted",
                                     !.executed = book[id].req.qty, !.avg = p]
    <2>2. book[id] \in Taken /\ book[id].state = "Working"
      BY <2>1, WorkingType, TraderAssumption DEF Execute
    <2>3. o.req = book[id].req /\ o.state \in FinalStates
      BY <2>2 DEF Taken, FinalStates
    <2>4. wire' = wire /\ book' = [book EXCEPT ![id] = o]
      BY <2>1 DEF Execute
    <2> HIDE DEF o
    <2> QED
      BY <1>5, <2>2, <2>3, <2>4
  <1>7. CASE \E id \in OrderIds, p \in Prices : PartlyExecute(id, p)
    <2>1. PICK id \in OrderIds, p \in Prices : PartlyExecute(id, p)
      BY <1>7
    <2>2. book[id] \in Taken /\ book[id].state = "Working" /\ wire' = wire
      BY <2>1, WorkingType, TraderAssumption DEF PartlyExecute
    <2>3. PICK units \in book[id].executed + 1 .. book[id].req.qty - 1 :
            book' = [book EXCEPT ![id] = [@ EXCEPT !.executed = units, !.avg = p]]
      BY <2>1 DEF PartlyExecute
    <2> DEFINE o == [book[id] EXCEPT !.executed = units, !.avg = p]
    <2>4. o.req = book[id].req /\ o.state = "Working"
      BY <2>2 DEF Taken
    <2>5. book' = [book EXCEPT ![id] = o]
      BY <2>3
    <2> HIDE DEF o
    <2> QED
      BY <1>5, <2>2, <2>4, <2>5
  <1>8. CASE \E id \in OrderIds, state \in Closings : Close(id, state)
    <2>1. PICK id \in OrderIds, state \in Closings : Close(id, state)
      BY <1>8
    <2> DEFINE o == [book[id] EXCEPT !.state = state]
    <2>2. book[id] \in Taken /\ book[id].state = "Working"
      BY <2>1, WorkingType, TraderAssumption DEF Close
    <2>3. o.req = book[id].req /\ o.state \in FinalStates
      BY <2>2 DEF Taken, FinalStates
    <2>4. wire' = wire /\ book' = [book EXCEPT ![id] = o]
      BY <2>1 DEF Close
    <2> HIDE DEF o
    <2> QED
      BY <1>5, <2>2, <2>3, <2>4
  <1> QED
    BY <1>2, <1>3, <1>4, <1>6, <1>7, <1>8 DEF ExchangeStep

LEMMA MovesOfOrder ==
  ASSUME TypeOK, StateInv, ExchangeMoves, NEW id \in OrderIds
  PROVE  /\ IsTaken(id) => /\ IsTaken(id)' /\ book'[id].req = book[id].req
                           /\ book[id].state \in FinalStates => book'[id] = book[id]
         /\ book'[id] # Unknown /\ book[id] = Unknown => \E r \in wire : r.id = id
         /\ IsTaken(id)' /\ ~IsTaken(id) =>
              \E r \in wire : r.id = id /\ book'[id].req = r
  <1>1. TrafficInv
    BY DEF StateInv
  <1>2. ~("Working" \in FinalStates) /\ ~("refused" \in FinalStates) /\ ~("unknown" \in FinalStates)
    BY ExchangeAssumption DEF FinalStates
  <1>3. CASE book'[id] = book[id]
    BY <1>3 DEF IsTaken
  <1>4. CASE Answered(id)
    <2>1. PICK r \in wire : r.id = id /\ (book'[id].state = "Working" => book'[id].req = r)
                            /\ book'[id].state \in {"Working", "refused"}
      BY <1>4 DEF Answered
    <2>2. book[id] = Unknown
      BY <1>1, <2>1 DEF TrafficInv
    <2>3. ~IsTaken(id)
      BY <2>2 DEF IsTaken, Unknown
    <2>4. IsTaken(id)' => book'[id].state = "Working"
      BY <2>1 DEF IsTaken
    <2> QED
      BY <2>1, <2>3, <2>4
  <1>5. CASE Progressed(id)
    <2>1. book[id].state = "Working" /\ book'[id].req = book[id].req
          /\ book'[id].state \in {"Working"} \cup FinalStates
      BY <1>5 DEF Progressed
    <2>2. IsTaken(id) /\ IsTaken(id)' /\ book[id] # Unknown /\ book[id].state \notin FinalStates
      BY <1>2, <2>1 DEF IsTaken, Unknown
    <2> QED
      BY <2>1, <2>2
  <1> QED
    BY <1>3, <1>4, <1>5 DEF ExchangeMoves

LEMMA ExchangeStepInv ==
  ASSUME TypeOK, StateInv, ExchangeStep
  PROVE  StateInv'
  <1>1. RowInv /\ TrafficInv /\ DistinctRows /\ \A t \in Traders : PlacingInv(t) /\ ReconcilingInv(t)
    BY DEF StateInv
  <1>2. orders' = orders /\ lastId' = lastId /\ daemon' = daemon
    BY DEF ExchangeStep, storeVars
  <1>3. ExchangeMoves /\ wire' \subseteq wire
    BY ExchangeStepMoves DEF ExchangeMoves
  <1>4. RowInv' /\ DistinctRows'
    BY <1>1, <1>2 DEF RowInv, DistinctRows
  <1>5. ASSUME NEW r \in wire', r.id \in OrderIds PROVE r \in wire /\ book'[r.id] = Unknown
    <2>1. r \in wire /\ book[r.id] = Unknown
      BY <1>1, <1>3, <1>5 DEF TrafficInv
    <2>2. ~Progressed(r.id)
      BY <2>1 DEF Progressed, Unknown
    <2>3. ~Answered(r.id)
      BY <1>1, <1>5, <2>1 DEF Answered, TrafficInv
    <2> QED
      BY <1>3, <1>5, <2>1, <2>2, <2>3 DEF ExchangeMoves
  <1>6. ASSUME NEW id \in OrderIds, book'[id] # Unknown
        PROVE  id <= lastId /\ orders[id].mode = "live"
    BY <1>1, <1>3, <1>6, MovesOfOrder DEF TrafficInv, LiveRow
  <1>7. ASSUME NEW id \in OrderIds, IsTaken(id)'
        PROVE  book'[id].req.id = id /\ book'[id].req.symbol = orders[id].symbol
    <2>1. CASE IsTaken(id)
      BY <1>1, <1>3, <2>1, MovesOfOrder DEF TrafficInv
    <2>2. CASE ~IsTaken(id)
      BY <1>1, <1>3, <1>7, <2>2, MovesOfOrder DEF TrafficInv, LiveRow
    <2> QED
      BY <2>1, <2>2
  <1>8. TrafficInv'
    <2>1. \A r \in wire' : r.id \in OrderIds => LiveRow(r.id, r.symbol)'
      BY <1>1, <1>2, <1>3 DEF TrafficInv, LiveRow
    <2>2. \A r, q \in wire' : r.id \in OrderIds /\ q.id = r.id => q = r
      BY <1>1, <1>3 DEF TrafficInv
    <2> QED
      BY <1>2, <1>5, <1>6, <1>7, <2>1, <2>2 DEF TrafficInv
  <1>9. ASSUME NEW t \in Traders PROVE PlacingInv(t)'
    <2>1. PlacingInv(t)
      BY <1>1
    <2>2. ASSUME daemon[t].pc = "send"
          PROVE  book'[daemon[t].cur] = Unknown /\ \A r \in wire' : r.id # daemon[t].cur
      <3>1. /\ daemon[t].cur \in OrderIds /\ book[daemon[t].cur] = Unknown
            /\ \A r \in wire : r.id # daemon[t].cur
        BY <2>1, <2>2 DEF PlacingInv, LivePC, LiveRow
      <3> QED
        BY <1>3, <3>1, MovesOfOrder
    <2>3. ASSUME daemon[t].pc = "record" PROVE IsTaken(daemon[t].cur)'
      <3>1. daemon[t].cur \in OrderIds /\ IsTaken(daemon[t].cur)
        BY <2>1, <2>3 DEF PlacingInv, LivePC, LiveRow
      <3>2. IsTaken(daemon[t].cur) => book'[daemon[t].cur].state \notin {"unknown", "refused"}
        BY <1>3, <3>1, MovesOfOrder DEF IsTaken
      <3> QED
        BY <1>2, <3>1, <3>2 DEF IsTaken
    <2> QED
      BY <1>2, <2>1, <2>2, <2>3 DEF PlacingInv, LiveRow
  <1>10. ASSUME NEW t \in Traders PROVE ReconcilingInv(t)'
    <2>1. ReconcilingInv(t) /\ daemon[t].todo \subseteq OrderIds
      BY <1>1 DEF TypeOK, DaemonState
    <2>2. ASSUME NEW id \in OrderIds, Reconcilable(id, t)
          PROVE  Reconcilable(id, t)' /\ book'[id] = book[id]
      BY <1>2, <1>3, <2>2, MovesOfOrder DEF Reconcilable, LiveRow
    <2> QED
      BY <1>2, <2>1, <2>2 DEF ReconcilingInv
  <1> QED
    BY <1>4, <1>8, <1>9, <1>10 DEF StateInv

LEMMA InitInv == Init => StateInv
  <1> SUFFICES ASSUME Init PROVE StateInv
    OBVIOUS
  <1>1. /\ \A id \in OrderIds : orders[id].status = "none" /\ id > lastId
        /\ wire = {} /\ \A id \in ClientIds : book[id] = Unknown
        /\ \A t \in Traders : daemon[t].pc = "down"
    BY StoreAssumption DEF Init, StoreInit, ExchangeInit, NoRow, Down, OrderIds
  <1>2. RowInv
    BY <1>1 DEF RowInv
  <1>3. TrafficInv
    BY <1>1, TraderAssumption DEF TrafficInv, IsTaken, Unknown
  <1>4. \A t \in Traders : PlacingInv(t) /\ ReconcilingInv(t)
    BY <1>1 DEF PlacingInv, ReconcilingInv, PaperPC, LivePC
  <1>5. DistinctRows
    BY <1>1 DEF DistinctRows, PaperPC, LivePC
  <1> QED
    BY <1>2, <1>3, <1>4, <1>5 DEF StateInv

LEMMA QuietInv ==
  ASSUME TypeOK, StateInv, UNCHANGED <<orders, lastId, exchangeVars, daemon>> PROVE StateInv'
  <1>1. KeepsRows
    BY UnchangedKeepsRows
  <1>2. \A t \in Traders : PlacingInv(t)' /\ ReconcilingInv(t)'
    BY <1>1, DaemonFrame
  <1>3. DistinctRows'
    BY DEF StateInv, DistinctRows
  <1> QED
    BY <1>1, <1>2, <1>3, RowsFrame DEF StateInv

LEMMA NextInv == TypeOK /\ StateInv /\ [Next]_vars => StateInv'
  <1> SUFFICES ASSUME TypeOK, StateInv, [Next]_vars PROVE StateInv'
    OBVIOUS
  <1>1. ASSUME UNCHANGED <<orders, lastId, exchangeVars, daemon>> PROVE StateInv'
    BY <1>1, QuietInv
  <1>2. CASE UNCHANGED vars
    BY <1>1, <1>2 DEF vars, storeVars
  <1>3. CASE OperatorStep
    <2>1. UNCHANGED <<orders, lastId, exchangeVars, daemon>>
      BY <1>3 DEF OperatorStep, Kill, Resume, ToggleKillFile, ReadRisk, SetHalted, RiskToday,
                  storeVars
    <2> QED
      BY <1>1, <2>1
  <1>4. CASE NextDay
    BY <1>1, <1>4 DEF NextDay, storeVars
  <1> QED
    BY <1>2, <1>3, <1>4, TickStepInv, ReconcileStepInv, PlaceStepInv, ExchangeStepInv
    DEF Next, DaemonStep

-----------------------------------------------------------------------------
(* Every behaviour of the trader is well typed, and StateInv holds: rows are *)
(* exactly those handed out, every request and exchange order stems from a   *)
(* live row of the same pair that was inserted before (pipeline.go: the      *)
(* insert precedes SendOrder), no two daemons place the same row, and        *)
(* Reconcile only has orders at hand that are final at the exchange.         *)
THEOREM TypeCorrect == Spec => [](TypeOK /\ StateInv)
  <1>1. Init => TypeOK /\ StateInv
    BY InitType, InitInv
  <1>2. TypeOK /\ StateInv /\ [Next]_vars => (TypeOK /\ StateInv)'
    BY NextType, NextInv
  <1> QED
    BY <1>1, <1>2, PTL DEF Spec

-----------------------------------------------------------------------------
(* Where a step of a daemon leaves it, and what it leaves of the rows.       *)

AtEasePC == {"down", "idle", "eval", "list", "history", "loop", "place", "trip"}

LEMMA BecomeIs ==
  ASSUME TypeOK, NEW t \in Traders, NEW s, Become(t, s) PROVE daemon'[t] = s
  BY DEF Become, TypeOK

LEMMA EaseStates ==
  ASSUME NEW m
  PROVE  /\ Idle(m).pc \in AtEasePC /\ Eval(m).pc \in AtEasePC /\ Down.pc \in AtEasePC
         /\ "list" \in AtEasePC /\ "history" \in AtEasePC /\ "loop" \in AtEasePC
         /\ "eval" \in AtEasePC /\ "place" \in AtEasePC
  BY DEF Idle, Eval, Down, AtEasePC

LEMMA StepPC ==
  ASSUME TypeOK, NEW t \in Traders, DaemonStep(t)
  PROVE  \/ daemon'[t].pc \in AtEasePC
         \/ PlaceKillFile(t) /\ daemon'[t].pc = "risk"
         \/ PlaceCheck(t) /\ daemon'[t].pc = "insert"
         \/ PlaceInsert(t) /\ daemon'[t].pc \in {"send", "paper"}
         \/ PaperReadPosition(t) /\ daemon'[t].pc = "paperApply"
         \/ (Send(t) \/ SendAnswered(t) \/ SendFails(t))
              /\ daemon'[t].pc \in {"await", "record", "reject"}
         \/ ReconcileReadPosition(t) /\ daemon'[t].pc = "apply"
  <1> DEFINE d == daemon[t]
  <1>1. d \in DaemonState
    BY DEF TypeOK
  <1>2. ASSUME NEW s, Become(t, s), s.pc \in AtEasePC PROVE daemon'[t].pc \in AtEasePC
    BY <1>2, BecomeIs
  <1>3. CASE \/ Crash(t) \/ ReconcileEnd(t) \/ ReconcileError(t) \/ EvaluateNothing(t)
             \/ PlaceTripHalt(t) \/ PaperApply(t) \/ SettleRejected(t)
             \/ RecordAccepted(t) \/ PlaceError(t)
    BY <1>2, <1>3, EaseStates
    DEF Crash, ReconcileEnd, ReconcileError, EvaluateNothing, PlaceTripHalt,
        PaperApply, SettleRejected, RecordAccepted, PlaceError, Reconciled
  <1>4. CASE Start(t)
    <2>1. PICK m \in Modes :
            Become(t, IF m = "live" THEN [Down EXCEPT !.pc = "list", !.mode = m, !.boot = TRUE]
                      ELSE Idle(m))
      BY <1>4 DEF Start
    <2>2. [Down EXCEPT !.pc = "list", !.mode = m, !.boot = TRUE].pc = "list"
      BY DEF Down
    <2> QED
      BY <1>2, <2>1, <2>2, EaseStates
  <1>5. CASE Tick(t)
    <2>1. [d EXCEPT !.pc = "list"].pc = "list" /\ [d EXCEPT !.pc = "eval"].pc = "eval"
      BY <1>1 DEF DaemonState
    <2> QED
      BY <1>2, <1>5, <2>1, EaseStates DEF Tick
  <1>6. CASE EvaluateBuy(t) \/ EvaluateSell(t)
    <2>1. PICK in : Become(t, [d EXCEPT !.pc = "place", !.intent = in])
      BY <1>6 DEF EvaluateBuy, EvaluateSell
    <2>2. [d EXCEPT !.pc = "place", !.intent = in].pc = "place"
      BY <1>1 DEF DaemonState
    <2> QED
      BY <1>2, <2>1, <2>2, EaseStates
  <1>7. CASE ListPending(t)
    <2>1. [d EXCEPT !.pc = "history", !.todo = PendingLive].pc = "history"
      BY <1>1 DEF DaemonState
    <2> QED
      BY <1>2, <1>7, <2>1, EaseStates DEF ListPending, Reconciled
  <1>8. CASE ReadHistory(t)
    <2>1. [d EXCEPT !.pc = "loop", !.day = today, !.todo = FinalInHistory(t)].pc = "loop"
      BY <1>1 DEF DaemonState
    <2> QED
      BY <1>2, <1>8, <2>1, EaseStates DEF ReadHistory
  <1>9. CASE ReconcileReadPosition(t)
    <2>1. PICK id : Become(t, [d EXCEPT !.pc = "apply", !.pos = positions[orders[id].symbol],
                                        !.cur = id])
      BY <1>9 DEF ReconcileReadPosition
    <2>2. [d EXCEPT !.pc = "apply", !.pos = positions[orders[id].symbol], !.cur = id].pc = "apply"
      BY <1>1 DEF DaemonState
    <2> QED
      BY <1>9, <2>1, <2>2, BecomeIs
  <1>10. CASE ReconcileApply(t) \/ ReconcileSettle(t)
    <2>1. PICK id : LoopOn(t, id)
      BY <1>10 DEF ReconcileApply, ReconcileSettle
    <2>2. [d EXCEPT !.pc = "loop", !.pos = Flat, !.cur = 0, !.todo = @ \ {id}].pc = "loop"
      BY <1>1 DEF DaemonState
    <2> QED
      BY <1>2, <2>1, <2>2, EaseStates DEF LoopOn
  <1>11. CASE PaperReadPosition(t)
    <2>1. daemon'[t] = [d EXCEPT !.pc = "paperApply", !.pos = positions[SymbolOf[t]]]
      BY <1>11, BecomeIs DEF PaperReadPosition
    <2> QED
      BY <1>1, <1>11, <2>1 DEF DaemonState
  <1>12. CASE Send(t) \/ SendAnswered(t) \/ SendFails(t)
    <2>1. PICK pc \in {"await", "record", "reject"} : daemon'[t] = [d EXCEPT !.pc = pc]
      BY <1>12, BecomeIs DEF Send, SendAnswered, SendFails
    <2> QED
      BY <1>1, <1>12, <2>1 DEF DaemonState
  <1>13. CASE EarlyStep(t)
    <2>1. PICK s : /\ Become(t, s)
                   /\ \/ s.pc \in {"idle", "trip"}
                      \/ s.pc = "risk" /\ PlaceKillFile(t)
                      \/ s.pc = "insert" /\ PlaceCheck(t)
      BY <1>13, EarlyStates
    <2>2. daemon'[t] = s
      BY <2>1, BecomeIs
    <2> QED
      BY <2>1, <2>2 DEF AtEasePC
  <1>14. CASE PlaceInsert(t)
    <2>1. daemon'[t].pc = IF d.mode = "live" THEN "send" ELSE "paper"
      BY <1>14, BecomeIs DEF PlaceInsert, Down
    <2> QED
      BY <1>14, <2>1
  <1> QED
    BY <1>3, <1>4, <1>5, <1>6, <1>7, <1>8, <1>9, <1>10, <1>11, <1>12, <1>13, <1>14
    DEF DaemonStep, ReconcileStep, TickStep, PlaceStep, EarlyStep

LEMMA OthersStay ==
  ASSUME TypeOK, NEW t \in Traders, DaemonStep(t), NEW u \in Traders, u # t
  PROVE  daemon'[u] = daemon[u]
  <1>1. \E s : Become(t, s)
    BY DEF DaemonStep, Start, Crash, ReconcileStep, ListPending, ReadHistory,
           ReconcileReadPosition, ReconcileApply, LoopOn, ReconcileSettle, ReconcileEnd,
           ReconcileError, TickStep, Tick, EvaluateNothing, EvaluateBuy, EvaluateSell, PlaceStep,
           PlaceKillFile, PlaceCheck, PlaceTripHalt, PlaceInsert, PaperReadPosition, PaperApply,
           Send, SendAnswered, SendFails, SettleRejected, RecordAccepted, PlaceError
  <1> QED
    BY <1>1 DEF Become, TypeOK

(* The terms of a row: everything but its status.                            *)
SameTerms(id) ==
  /\ orders'[id].symbol = orders[id].symbol /\ orders'[id].side = orders[id].side
  /\ orders'[id].price = orders[id].price /\ orders'[id].qty = orders[id].qty
  /\ orders'[id].mode = orders[id].mode /\ orders'[id].day = orders[id].day
  /\ orders'[id].value = orders[id].value

LEMMA StatusKeepsTerms ==
  ASSUME TypeOK, StateInv, NEW id \in OrderIds, id <= lastId, NEW st,
         orders' = [orders EXCEPT ![id] = [@ EXCEPT !.status = st]]
  PROVE  /\ \A other \in OrderIds : SameTerms(other)
         /\ orders'[id].status = st
         /\ \A other \in OrderIds : other # id => orders'[other] = orders[other]
  <1>1. orders[id] \in Row
    BY RowOfId
  <1>2. /\ orders'[id] = [orders[id] EXCEPT !.status = st]
        /\ \A other \in OrderIds : other # id => orders'[other] = orders[other]
    BY DEF TypeOK, StoreTypeOK
  <1>3. SameTerms(id) /\ orders'[id].status = st
    BY <1>1, <1>2 DEF Row, Rows, SameTerms
  <1> QED
    BY <1>2, <1>3 DEF SameTerms

(* A row that a step settles: the one the daemon works on.                   *)
LEMMA SettledBy ==
  ASSUME TypeOK, StateInv, NEW t \in Traders, DaemonStep(t)
  PROVE  \/ orders' = orders
         \/ PlaceInsert(t)
         \/ \E id \in OrderIds, st \in SettledStatus :
              /\ id <= lastId /\ orders' = [orders EXCEPT ![id] = [@ EXCEPT !.status = st]]
  <1> DEFINE d == daemon[t]
  <1>1. CASE ReconcileApply(t)
    <2>1. d.cur \in d.todo /\ d.pc = "apply"
      BY <1>1 DEF ReconcileApply, At, StateInv, ReconcilingInv
    <2>2. d.cur \in OrderIds /\ d.cur <= lastId
      BY <2>1, TodoRow
    <2> QED
      BY <1>1, <2>2 DEF ReconcileApply, ApplyFill, storeVars, SettledStatus
  <1>2. CASE ReconcileSettle(t)
    <2>1. PICK id \in d.todo : Settle(id, "rejected")
      BY <1>2 DEF ReconcileSettle
    <2>2. id \in OrderIds /\ id <= lastId
      BY <1>2, TodoRow DEF ReconcileSettle, At
    <2> QED
      BY <2>1, <2>2 DEF Settle, SettledStatus
  <1>3. CASE PaperApply(t) \/ SettleRejected(t) \/ RecordAccepted(t)
    <2>1. d.cur \in OrderIds /\ d.cur <= lastId
      BY <1>3, CurRow DEF PaperApply, SettleRejected, RecordAccepted, At, PaperPC, LivePC
    <2> QED
      BY <1>3, <2>1 DEF PaperApply, SettleRejected, RecordAccepted, ApplyFill, Settle,
                        ApplyFillSkipPosition, SettledStatus
  <1>4. \/ ReconcileApply(t) \/ ReconcileSettle(t) \/ PaperApply(t) \/ SettleRejected(t)
        \/ RecordAccepted(t) \/ PlaceInsert(t) \/ orders' = orders
    BY DEF DaemonStep, Start, Crash, ReconcileStep, ListPending, ReadHistory,
           ReconcileReadPosition, ReconcileEnd, ReconcileError, TickStep, Tick,
           EvaluateNothing, EvaluateBuy, EvaluateSell, PlaceStep, PlaceKillFile, PlaceCheck,
           PlaceTripHalt, PaperReadPosition, Send, SendAnswered, SendFails, PlaceError,
           SetHalted, RiskToday, storeVars
  <1> QED
    BY <1>1, <1>2, <1>3, <1>4

(* The row PlaceInsert adds has the next id; the others stay as they are.    *)
LEMMA InsertedRowIs ==
  ASSUME TypeOK, StateInv, NEW t \in Traders, PlaceInsert(t)
  PROVE  /\ lastId + 1 \in OrderIds /\ lastId' = lastId + 1
         /\ orders[lastId + 1].status = "none" /\ orders'[lastId + 1].status = "pending"
         /\ \A id \in OrderIds : id # lastId + 1 => orders'[id] = orders[id]
         /\ \A id \in OrderIds : id <= lastId => id # lastId + 1
  <1>1. lastId + 1 \in OrderIds /\ lastId' = lastId + 1 /\ lastId \in Int /\ OrderIds \subseteq Int
    BY IdsAreInts, StoreAssumption
    DEF PlaceInsert, InsertPending, TypeOK, StoreTypeOK, OrderIds
  <1>2. orders[lastId + 1].status = "none"
    BY <1>1 DEF StateInv, RowInv
  <1>3. /\ orders'[lastId + 1].status = "pending"
        /\ \A id \in OrderIds : id # lastId + 1 => orders'[id] = orders[id]
    BY <1>1 DEF PlaceInsert, InsertPending, TypeOK, StoreTypeOK
  <1> QED
    BY <1>1, <1>2, <1>3

(* No step changes the terms of a row.                                       *)
LEMMA StepKeepsTerms ==
  ASSUME TypeOK, StateInv, [Next]_vars
  PROVE  \A id \in OrderIds : id <= lastId => SameTerms(id)
  <1>1. CASE orders' = orders
    BY <1>1 DEF SameTerms
  <1>2. ASSUME NEW t \in Traders, DaemonStep(t)
        PROVE  \A id \in OrderIds : id <= lastId => SameTerms(id)
    <2>1. CASE PlaceInsert(t)
      BY <2>1, InsertedRowIs DEF SameTerms
    <2>2. ASSUME NEW id \in OrderIds, NEW st \in SettledStatus, id <= lastId,
                 orders' = [orders EXCEPT ![id] = [@ EXCEPT !.status = st]]
          PROVE  \A other \in OrderIds : SameTerms(other)
      BY <2>2, StatusKeepsTerms
    <2> QED
      BY <1>1, <1>2, <2>1, <2>2, SettledBy
  <1>3. CASE ExchangeStep \/ OperatorStep \/ NextDay \/ UNCHANGED vars
    BY <1>1, <1>3
    DEF ExchangeStep, OperatorStep, Kill, Resume, ToggleKillFile, ReadRisk, SetHalted,
        RiskToday, NextDay, vars, storeVars
  <1> QED
    BY <1>2, <1>3 DEF Next

(* Only PlaceInsert hands out an id.                                         *)
LEMMA IdOfInsert ==
  ASSUME NEW t \in Traders, DaemonStep(t) PROVE lastId' = lastId \/ PlaceInsert(t)
  BY DEF DaemonStep, Start, Crash, ReconcileStep, ListPending, ReadHistory,
         ReconcileReadPosition, ReconcileApply, ReconcileSettle, ReconcileEnd, ReconcileError,
         TickStep, Tick, EvaluateNothing, EvaluateBuy, EvaluateSell, PlaceStep, PlaceKillFile,
         PlaceCheck, PlaceTripHalt, PaperReadPosition, PaperApply, Send, SendAnswered,
         SendFails, SettleRejected, RecordAccepted, PlaceError, ApplyFill, ApplyFillSkipPosition,
         Settle, SetHalted, RiskToday, storeVars

-----------------------------------------------------------------------------
(* Trader alone sends nothing but its rows.                                  *)

RequestsHaveRows == \A r \in wire : LiveRow(r.id, r.symbol)

LEMMA RowStaysLive ==
  ASSUME TypeOK, StateInv, [Next]_vars, NEW id, NEW s, LiveRow(id, s) PROVE LiveRow(id, s)'
  <1>1. id \in OrderIds /\ id <= lastId /\ lastId \in Int /\ id \in Int
    BY IdsAreInts DEF LiveRow
  <1>2. lastId' = lastId \/ lastId' = lastId + 1
    <2>1. CASE ExchangeStep \/ OperatorStep \/ NextDay \/ UNCHANGED vars
      BY <2>1 DEF ExchangeStep, OperatorStep, Kill, Resume, ToggleKillFile, ReadRisk, SetHalted,
                  RiskToday, NextDay, vars, storeVars
    <2> QED
      BY <2>1, IdOfInsert, InsertedRowIs DEF Next
  <1> QED
    BY <1>1, <1>2, StepKeepsTerms DEF LiveRow, SameTerms

LEMMA SentByDaemon ==
  ASSUME NEW t \in Traders, DaemonStep(t)
  PROVE  wire' = wire \/ Send(t)
  BY DEF DaemonStep, Start, Crash, ReconcileStep, ListPending, ReadHistory,
         ReconcileReadPosition, ReconcileApply, ReconcileSettle, ReconcileEnd, ReconcileError,
         TickStep, Tick, EvaluateNothing, EvaluateBuy, EvaluateSell, PlaceStep, PlaceKillFile,
         PlaceCheck, PlaceTripHalt, PlaceInsert, PaperReadPosition, PaperApply, SendAnswered,
         SendFails, SettleRejected, RecordAccepted, PlaceError, exchangeVars

(* Every request stems from a live row of its pair that was inserted before: *)
(* in Place the insert precedes SendOrder (pipeline.go:100, 150).            *)
THEOREM RequestsStemFromRows == Spec => []RequestsHaveRows
  <1>1. Init => RequestsHaveRows
    BY DEF Init, ExchangeInit, RequestsHaveRows
  <1>2. (TypeOK /\ StateInv) /\ RequestsHaveRows /\ [Next]_vars => RequestsHaveRows'
    <2> SUFFICES ASSUME TypeOK, StateInv, RequestsHaveRows, [Next]_vars PROVE RequestsHaveRows'
      OBVIOUS
    <2>1. ASSUME wire' \subseteq wire PROVE RequestsHaveRows'
      BY <2>1, RowStaysLive DEF RequestsHaveRows
    <2>2. ASSUME NEW t \in Traders, Send(t) PROVE RequestsHaveRows'
      <3>1. PICK id, r : /\ id = daemon[t].cur /\ r = RequestOf(id) /\ wire' = wire \cup {r}
                         /\ LiveRow(id, SymbolOf[t])
        BY <2>2 DEF Send, Submit, At, StateInv, PlacingInv, LivePC
      <3>2. LiveRow(r.id, r.symbol)
        BY <3>1 DEF RequestOf, LiveRow
      <3> QED
        BY <3>1, <3>2, RowStaysLive DEF RequestsHaveRows
    <2>3. CASE ExchangeStep
      BY <2>1, <2>3 DEF ExchangeStep, Receive, Refuse, Lose, Execute, PartlyExecute, Close
    <2>4. CASE OperatorStep \/ NextDay \/ UNCHANGED vars
      BY <2>1, <2>4 DEF OperatorStep, Kill, Resume, ToggleKillFile, ReadRisk, NextDay, vars,
                        exchangeVars
    <2> QED
      BY <2>1, <2>2, <2>3, <2>4, SentByDaemon DEF Next
  <1> QED
    BY <1>1, <1>2, TypeCorrect, PTL DEF Spec

-----------------------------------------------------------------------------
(* Safety of the ledger when every pair has one daemon, the set-up the code  *)
(* asks for (reconcile.go:39): nobody else settles the rows a daemon works   *)
(* on, so an order is applied only when it filled.                           *)

ReconcilingPC == {"history", "loop", "apply"}

Owners == AppliedWasFilled /\ \A t \in Traders : OwnsRows(t)

(* A step of daemon t only touches the statuses of its own pair.             *)
OwnPairOnly(t) ==
  \A id \in OrderIds : id <= lastId =>
    /\ orders'[id].symbol = orders[id].symbol
    /\ orders[id].symbol # SymbolOf[t] => orders'[id].status = orders[id].status

LEMMA OthersOwn ==
  ASSUME OneTraderPerPair, TypeOK, StateInv, Owners, NEW t \in Traders, OwnPairOnly(t),
         NEW u \in Traders, u # t, daemon'[u] = daemon[u]
  PROVE  OwnsRows(u)'
  <1>1. SymbolOf[u] # SymbolOf[t]
    BY DEF OneTraderPerPair
  <1>2. OwnsRows(u) /\ ReconcilingInv(u)
    BY DEF Owners, StateInv
  <1>3. ASSUME daemon[u].pc \in PaperPC \cup LivePC
        PROVE  orders'[daemon[u].cur].status = "pending"
    BY <1>1, <1>2, <1>3, CurRow DEF OwnsRows, OwnPairOnly
  <1>4. ASSUME daemon[u].pc \in ReconcilingPC, NEW id \in daemon[u].todo,
               orders'[id].symbol = SymbolOf[u]
        PROVE  orders'[id].status = "pending"
    <2>1. id \in OrderIds
      BY DEF TypeOK, DaemonState
    <2>2. id <= lastId
      BY <1>2, <1>4 DEF ReconcilingInv, Reconcilable, LiveRow, ReconcilingPC
    <2> QED
      BY <1>1, <1>2, <1>4, <2>1, <2>2 DEF OwnsRows, OwnPairOnly, ReconcilingPC
  <1> QED
    BY <1>3, <1>4 DEF OwnsRows, ReconcilingPC

-----------------------------------------------------------------------------
(* A step of a daemon that leaves the ledger alone.                          *)
LEMMA LocalStep ==
  ASSUME OneTraderPerPair, TypeOK, StateInv, Owners,
         UNCHANGED <<orders, lastId, applied, book>>,
         NEW t \in Traders, NEW s, Become(t, s),
         s.pc \in PaperPC \cup LivePC => orders[s.cur].status = "pending",
         s.pc \in ReconcilingPC =>
           \A id \in s.todo : orders[id].symbol = SymbolOf[t] => orders[id].status = "pending"
  PROVE  Owners'
  <1>1. daemon'[t] = s /\ \A u \in Traders : u # t => daemon'[u] = daemon[u]
    BY DEF Become, TypeOK
  <1>2. OwnPairOnly(t)
    BY DEF OwnPairOnly
  <1>3. OwnsRows(t)'
    BY <1>1 DEF OwnsRows, ReconcilingPC
  <1>4. \A u \in Traders : OwnsRows(u)'
    BY <1>1, <1>2, <1>3, OthersOwn
  <1>5. AppliedWasFilled'
    BY DEF Owners, AppliedWasFilled
  <1> QED
    BY <1>4, <1>5 DEF Owners

LEMMA RestingStep ==
  ASSUME OneTraderPerPair, TypeOK, StateInv, Owners,
         UNCHANGED <<orders, lastId, applied, book>>,
         NEW t \in Traders, NEW s, Become(t, s), s.pc \in QuietPC \cup {"place", "risk", "insert"}
  PROVE  Owners'
  <1>1. ~(s.pc \in PaperPC \cup LivePC) /\ ~(s.pc \in ReconcilingPC)
    BY DEF QuietPC, PaperPC, LivePC, ReconcilingPC
  <1> QED
    BY <1>1, LocalStep

(* A daemon settles a pending row of its own pair and is done with it.       *)
LEMMA SettlingStep ==
  ASSUME OneTraderPerPair, TypeOK, StateInv, Owners,
         NEW id \in OrderIds, id <= lastId, orders[id].status = "pending",
         NEW st \in SettledStatus,
         lastId' = lastId, orders' = [orders EXCEPT ![id] = [@ EXCEPT !.status = st]],
         book' = book,
         \/ applied' = applied
         \/ /\ applied' = [applied EXCEPT ![id] = @ + 1] /\ st = "accepted"
            /\ orders[id].mode = "live" => book[id].state = "FullyExecuted",
         NEW t \in Traders, orders[id].symbol = SymbolOf[t], NEW s, Become(t, s),
         s.pc \notin PaperPC \cup LivePC,
         s.pc \in ReconcilingPC =>
           daemon[t].pc \in ReconcilingPC /\ s.todo \subseteq daemon[t].todo \ {id}
  PROVE  Owners'
  <1>1. daemon'[t] = s /\ \A u \in Traders : u # t => daemon'[u] = daemon[u]
    BY DEF Become, TypeOK
  <1>2. orders[id] \in Row
    BY RowOfId
  <1>3. /\ orders'[id] = [orders[id] EXCEPT !.status = st]
        /\ \A other \in OrderIds : other # id => orders'[other] = orders[other]
    BY DEF TypeOK, StoreTypeOK
  <1>4. orders'[id].status = st /\ orders'[id].symbol = orders[id].symbol
        /\ orders'[id].mode = orders[id].mode
    BY <1>2, <1>3 DEF Row, Rows
  <1>5. OwnPairOnly(t)
    BY <1>3, <1>4 DEF OwnPairOnly
  <1>6. OwnsRows(t)'
    <2>1. ASSUME s.pc \in ReconcilingPC, NEW other \in s.todo, orders'[other].symbol = SymbolOf[t]
          PROVE  orders'[other].status = "pending"
      <3>1. other \in daemon[t].todo /\ other # id /\ other \in OrderIds
        BY <2>1 DEF TypeOK, DaemonState
      <3>2. OwnsRows(t) /\ daemon[t].pc \in ReconcilingPC /\ orders'[other] = orders[other]
        BY <1>3, <2>1, <3>1 DEF Owners
      <3> QED
        BY <2>1, <3>1, <3>2 DEF OwnsRows, ReconcilingPC
    <2> QED
      BY <1>1, <2>1 DEF OwnsRows, ReconcilingPC
  <1>7. \A u \in Traders : OwnsRows(u)'
    BY <1>1, <1>5, <1>6, OthersOwn
  <1>8. ~(applied[id] > 0) /\ applied \in [OrderIds -> Nat]
    BY DEF Owners, AppliedWasFilled, TypeOK, StoreTypeOK
  <1>9. ASSUME NEW other \in OrderIds, applied'[other] > 0
        PROVE  /\ orders'[other].status = "accepted"
               /\ orders'[other].mode = "live" => book'[other].state = "FullyExecuted"
    <2>1. CASE other = id
      BY <1>4, <1>8, <1>9, <2>1
    <2>2. CASE other # id
      BY <1>3, <1>8, <1>9, <2>2 DEF Owners, AppliedWasFilled
    <2> QED
      BY <2>1, <2>2
  <1>10. AppliedWasFilled'
    BY <1>9 DEF AppliedWasFilled
  <1> QED
    BY <1>7, <1>10 DEF Owners

-----------------------------------------------------------------------------
LEMMA TickStepOwner ==
  ASSUME OneTraderPerPair, TypeOK, StateInv, Owners,
         NEW t \in Traders, Start(t) \/ Crash(t) \/ TickStep(t)
  PROVE  Owners'
  <1> DEFINE d == daemon[t]
  <1>1. UNCHANGED <<orders, lastId, applied, book>>
    BY DEF Start, Crash, TickStep, Tick, EvaluateNothing, EvaluateBuy, EvaluateSell,
           storeVars, exchangeVars
  <1>2. d \in DaemonState
    BY DEF TypeOK
  <1>3. CASE Start(t)
    <2>1. PICK m \in Modes :
            Become(t, IF m = "live" THEN [Down EXCEPT !.pc = "list", !.mode = m, !.boot = TRUE]
                      ELSE Idle(m))
      BY <1>3 DEF Start
    <2>2. [Down EXCEPT !.pc = "list", !.mode = m, !.boot = TRUE].pc \in QuietPC
      BY DEF Down, QuietPC
    <2> QED
      BY <1>1, <2>1, <2>2, QuietStates, RestingStep
  <1>4. CASE Crash(t) \/ EvaluateNothing(t)
    BY <1>1, <1>4, QuietStates, RestingStep DEF Crash, EvaluateNothing
  <1>5. CASE Tick(t)
    <2>1. [d EXCEPT !.pc = "list"].pc \in QuietPC /\ [d EXCEPT !.pc = "eval"].pc \in QuietPC
      BY <1>2 DEF DaemonState, QuietPC
    <2> QED
      BY <1>1, <1>5, <2>1, RestingStep DEF Tick
  <1>6. CASE EvaluateBuy(t) \/ EvaluateSell(t)
    <2>1. PICK in : Become(t, [d EXCEPT !.pc = "place", !.intent = in])
      BY <1>6 DEF EvaluateBuy, EvaluateSell
    <2>2. [d EXCEPT !.pc = "place", !.intent = in].pc = "place"
      BY <1>2 DEF DaemonState
    <2> QED
      BY <1>1, <2>1, <2>2, RestingStep
  <1> QED
    BY <1>3, <1>4, <1>5, <1>6 DEF TickStep

LEMMA ReconcileStepOwner ==
  ASSUME OneTraderPerPair, TypeOK, StateInv, Owners, NEW t \in Traders, ReconcileStep(t)
  PROVE  Owners'
  <1> DEFINE d == daemon[t]
             loop(id) == [d EXCEPT !.pc = "loop", !.pos = Flat, !.cur = 0, !.todo = @ \ {id}]
  <1>1. d \in DaemonState /\ d.todo \subseteq OrderIds /\ OwnsRows(t) /\ ReconcilingInv(t)
    BY DEF TypeOK, DaemonState, Owners, StateInv
  <1>2. book' = book
    BY DEF ReconcileStep, ListPending, ReadHistory, ReconcileReadPosition, ReconcileApply,
           ReconcileSettle, ReconcileEnd, ReconcileError, exchangeVars
  <1>3. Reconciled(t).pc \in QuietPC
    BY QuietStates DEF Reconciled
  <1>4. ASSUME UNCHANGED storeVars, NEW s, Become(t, s), s.pc \in ReconcilingPC,
               \A id \in s.todo : orders[id].symbol = SymbolOf[t] => orders[id].status = "pending"
        PROVE  Owners'
    BY <1>2, <1>4, LocalStep DEF storeVars, PaperPC, LivePC, ReconcilingPC
  <1>5. ASSUME NEW id PROVE loop(id).pc = "loop" /\ loop(id).todo = d.todo \ {id}
    BY <1>1 DEF DaemonState
  <1> HIDE DEF loop
  <1>6. ASSUME d.pc \in {"loop", "apply"}, NEW id \in d.todo
        PROVE  /\ id \in OrderIds /\ id <= lastId
               /\ orders[id].status = "pending" /\ orders[id].symbol = SymbolOf[t]
    BY <1>1, <1>6 DEF OwnsRows, ReconcilingInv, Reconcilable, LiveRow
  <1>7. ASSUME d.pc \in {"loop", "apply"}, NEW id \in d.todo, LoopOn(t, id),
               NEW st \in SettledStatus, lastId' = lastId,
               orders' = [orders EXCEPT ![id] = [@ EXCEPT !.status = st]],
               \/ applied' = applied
               \/ /\ applied' = [applied EXCEPT ![id] = @ + 1] /\ st = "accepted"
                  /\ orders[id].mode = "live" => book[id].state = "FullyExecuted"
        PROVE  Owners'
    <2>1. loop(id).pc \notin PaperPC \cup LivePC /\ d.pc \in ReconcilingPC
      BY <1>5, <1>7 DEF PaperPC, LivePC, ReconcilingPC
    <2>2. Become(t, loop(id))
      BY <1>7 DEF LoopOn, loop
    <2> QED
      BY <1>2, <1>5, <1>6, <1>7, <2>1, <2>2, SettlingStep
  <1>8. CASE ListPending(t)
    <2> DEFINE s == [d EXCEPT !.pc = "history", !.todo = PendingLive]
    <2>1. s.pc = "history" /\ s.todo = PendingLive
      BY <1>1 DEF DaemonState
    <2> HIDE DEF s
    <2>2. \A id \in PendingLive : orders[id].status = "pending"
      BY DEF PendingLive
    <2>3. UNCHANGED storeVars /\ (Become(t, Reconciled(t)) \/ Become(t, s))
      BY <1>8 DEF ListPending, s
    <2>4. CASE Become(t, Reconciled(t))
      BY <1>2, <1>3, <2>3, <2>4, RestingStep DEF storeVars
    <2>5. CASE Become(t, s)
      BY <1>4, <2>1, <2>2, <2>3, <2>5 DEF ReconcilingPC
    <2> QED
      BY <2>3, <2>4, <2>5
  <1>9. CASE ReadHistory(t)
    <2> DEFINE s == [d EXCEPT !.pc = "loop", !.day = today, !.todo = FinalInHistory(t)]
    <2>1. s.pc = "loop" /\ s.todo = FinalInHistory(t)
      BY <1>1 DEF DaemonState
    <2>2. Become(t, s) /\ UNCHANGED storeVars /\ d.pc = "history"
      BY <1>9 DEF ReadHistory, At
    <2> HIDE DEF s
    <2>3. FinalInHistory(t) \subseteq d.todo
      BY DEF FinalInHistory
    <2> QED
      BY <1>1, <1>4, <2>1, <2>2, <2>3 DEF OwnsRows, ReconcilingPC
  <1>10. CASE ReconcileReadPosition(t)
    <2>1. PICK id \in d.todo :
            Become(t, [d EXCEPT !.pc = "apply", !.pos = positions[orders[id].symbol], !.cur = id])
      BY <1>10 DEF ReconcileReadPosition
    <2> DEFINE s == [d EXCEPT !.pc = "apply", !.pos = positions[orders[id].symbol], !.cur = id]
    <2>2. s.pc = "apply" /\ s.todo = d.todo
      BY <1>1 DEF DaemonState
    <2>3. Become(t, s) /\ UNCHANGED storeVars /\ d.pc = "loop"
      BY <1>10, <2>1 DEF ReconcileReadPosition, At
    <2> HIDE DEF s
    <2> QED
      BY <1>1, <1>4, <2>2, <2>3 DEF OwnsRows, ReconcilingPC
  <1>11. CASE ReconcileApply(t)
    <2>1. d.pc = "apply" /\ LoopOn(t, d.cur)
      BY <1>11 DEF ReconcileApply, At
    <2>2. d.cur \in d.todo /\ book[d.cur].state = "FullyExecuted"
      BY <1>1, <2>1 DEF ReconcilingInv
    <2>3. CASE UNCHANGED storeVars
      <3>1. Become(t, loop(d.cur))
        BY <2>1 DEF LoopOn, loop
      <3>2. loop(d.cur).pc \in ReconcilingPC /\ loop(d.cur).todo \subseteq d.todo
        BY <1>5 DEF ReconcilingPC
      <3> QED
        BY <1>4, <1>6, <2>1, <2>3, <3>1, <3>2
    <2>4. CASE /\ lastId' = lastId
               /\ orders' = [orders EXCEPT ![d.cur] = [@ EXCEPT !.status = "accepted"]]
               /\ applied' = [applied EXCEPT ![d.cur] = @ + 1]
      BY <1>7, <2>1, <2>2, <2>4 DEF SettledStatus
    <2> QED
      BY <1>11, <2>3, <2>4 DEF ReconcileApply, ApplyFill
  <1>12. CASE ReconcileSettle(t)
    <2>1. PICK id \in d.todo : Settle(id, "rejected") /\ LoopOn(t, id)
      BY <1>12 DEF ReconcileSettle
    <2>2. d.pc = "loop"
      BY <1>12 DEF ReconcileSettle, At
    <2> QED
      BY <1>7, <2>1, <2>2 DEF Settle, SettledStatus
  <1>13. CASE ReconcileEnd(t) \/ ReconcileError(t)
    <2>1. UNCHANGED <<orders, lastId, applied, book>>
      BY <1>2, <1>13 DEF ReconcileEnd, ReconcileError, storeVars
    <2> QED
      BY <1>3, <1>13, <2>1, QuietStates, RestingStep DEF ReconcileEnd, ReconcileError
  <1> QED
    BY <1>8, <1>9, <1>10, <1>11, <1>12, <1>13 DEF ReconcileStep

-----------------------------------------------------------------------------
LEMMA PlaceInsertOwner ==
  ASSUME OneTraderPerPair, TypeOK, StateInv, Owners, NEW t \in Traders, PlaceInsert(t)
  PROVE  Owners'
  <1> DEFINE d  == daemon[t]
             id == lastId + 1
  <1>1. /\ lastId < MaxOrders /\ applied' = applied /\ book' = book
        /\ orders'[id].status = "pending"
        /\ \A other \in OrderIds : other # id => orders'[other] = orders[other]
        /\ daemon'[t].cur = id /\ daemon'[t].pc \in {"send", "paper"}
        /\ \A u \in Traders : u # t => daemon'[u] = daemon[u]
    <2>1. id \in OrderIds
      BY StoreAssumption DEF PlaceInsert, InsertPending, TypeOK, StoreTypeOK, OrderIds
    <2> QED
      BY <2>1 DEF PlaceInsert, InsertPending, Become, exchangeVars, TypeOK, StoreTypeOK, Down
  <1>2. id \in OrderIds /\ lastId \in Int /\ OrderIds \subseteq Int
    BY <1>1, IdsAreInts, StoreAssumption DEF TypeOK, StoreTypeOK, OrderIds
  <1>3. OwnPairOnly(t)
    <2>1. ASSUME NEW other \in OrderIds, other <= lastId PROVE other # id
      BY <1>2, <2>1
    <2>2. \A other \in OrderIds : other # id => orders'[other] = orders[other]
      BY <1>1
    <2> HIDE DEF id
    <2>3. \A other \in OrderIds : other <= lastId => orders'[other] = orders[other]
      BY <2>1, <2>2
    <2> QED
      BY <2>3 DEF OwnPairOnly
  <1>4. OwnsRows(t)'
    BY <1>1 DEF OwnsRows, ReconcilingPC
  <1>5. \A u \in Traders : OwnsRows(u)'
    BY <1>1, <1>3, <1>4, OthersOwn
  <1>6. orders[id].status = "none"
    BY <1>2 DEF StateInv, RowInv
  <1>7. AppliedWasFilled'
    BY <1>1, <1>2, <1>6 DEF Owners, AppliedWasFilled
  <1> QED
    BY <1>5, <1>7 DEF Owners

LEMMA PlaceStepOwner ==
  ASSUME OneTraderPerPair, TypeOK, StateInv, Owners, NEW t \in Traders, PlaceStep(t)
  PROVE  Owners'
  <1> DEFINE d == daemon[t]
  <1>1. d \in DaemonState /\ OwnsRows(t)
    BY DEF TypeOK, Owners
  <1>2. CASE PlaceTripHalt(t) \/ PlaceError(t)
    <2>1. UNCHANGED <<orders, lastId, applied, book>>
      BY <1>2 DEF PlaceTripHalt, PlaceError, SetHalted, storeVars, exchangeVars
    <2> QED
      BY <1>2, <2>1, QuietStates, RestingStep DEF PlaceTripHalt, PlaceError
  <1>3. CASE EarlyStep(t)
    <2>1. UNCHANGED <<orders, lastId, applied, book>>
      BY <1>3 DEF EarlyStep, PlaceKillFile, PlaceCheck, RiskToday, storeVars, exchangeVars
    <2>2. PICK s : Become(t, s) /\ s.pc \in {"idle", "trip", "risk", "insert"}
      BY <1>3, EarlyStates
    <2> QED
      BY <2>1, <2>2, RestingStep DEF QuietPC
  <1>4. ASSUME UNCHANGED <<orders, lastId, applied, book>>, d.pc \in PaperPC \cup LivePC,
               NEW s, Become(t, s), s.pc \in PaperPC \cup LivePC, s.cur = d.cur
        PROVE  Owners'
    BY <1>1, <1>4, LocalStep DEF OwnsRows, PaperPC, LivePC, ReconcilingPC
  <1>5. CASE PaperReadPosition(t)
    <2> DEFINE s == [d EXCEPT !.pc = "paperApply", !.pos = positions[SymbolOf[t]]]
    <2>1. s.pc = "paperApply" /\ s.cur = d.cur
      BY <1>1 DEF DaemonState
    <2>2. Become(t, s) /\ d.pc = "paper" /\ UNCHANGED <<orders, lastId, applied, book>>
      BY <1>5 DEF PaperReadPosition, At, storeVars, exchangeVars
    <2> HIDE DEF s
    <2> QED
      BY <1>4, <2>1, <2>2 DEF PaperPC
  <1>6. CASE Send(t) \/ SendAnswered(t) \/ SendFails(t)
    <2>1. PICK pc \in {"await", "record", "reject"} : Become(t, [d EXCEPT !.pc = pc])
      BY <1>6 DEF Send, SendAnswered, SendFails
    <2> DEFINE s == [d EXCEPT !.pc = pc]
    <2>2. s.pc = pc /\ s.cur = d.cur
      BY <1>1 DEF DaemonState
    <2>3. Become(t, s) /\ d.pc \in LivePC /\ UNCHANGED <<orders, lastId, applied, book>>
      BY <1>6, <2>1
      DEF Send, SendAnswered, SendFails, Submit, At, storeVars, exchangeVars, LivePC
    <2> HIDE DEF s
    <2> QED
      BY <1>4, <2>2, <2>3 DEF LivePC
  <1>7. CASE PaperApply(t) \/ SettleRejected(t) \/ RecordAccepted(t)
    <2>1. d.pc \in PaperPC \cup LivePC /\ (PaperApply(t) => d.pc \in PaperPC)
      BY <1>7 DEF PaperApply, SettleRejected, RecordAccepted, At, PaperPC, LivePC
    <2>2. /\ d.cur \in OrderIds /\ d.cur <= lastId /\ orders[d.cur].symbol = SymbolOf[t]
          /\ orders[d.cur].status = "pending"
          /\ d.pc \in PaperPC => orders[d.cur].mode # "live"
      BY <1>1, <2>1, CurRow DEF OwnsRows, StateInv, PlacingInv
    <2>3. PICK st \in SettledStatus :
            /\ lastId' = lastId /\ book' = book
            /\ orders' = [orders EXCEPT ![d.cur] = [@ EXCEPT !.status = st]]
            /\ \/ applied' = applied
               \/ applied' = [applied EXCEPT ![d.cur] = @ + 1] /\ st = "accepted" /\ PaperApply(t)
      BY <1>7 DEF PaperApply, SettleRejected, RecordAccepted, ApplyFill, Settle,
                  ApplyFillSkipPosition, SettledStatus, exchangeVars
    <2>4. Become(t, Idle(d.mode)) /\ Idle(d.mode).pc = "idle"
      BY <1>7 DEF PaperApply, SettleRejected, RecordAccepted, Idle, Down
    <2> QED
      BY <2>1, <2>2, <2>3, <2>4, SettlingStep DEF PaperPC, LivePC, ReconcilingPC
  <1> QED
    BY <1>2, <1>3, <1>5, <1>6, <1>7, PlaceInsertOwner DEF PlaceStep, EarlyStep

-----------------------------------------------------------------------------
(* An order that filled stays as it is.                                      *)
LEMMA ExecutedStays ==
  ASSUME TypeOK, StateInv, ExchangeStep, NEW id \in OrderIds, book[id].state = "FullyExecuted"
  PROVE  book'[id] = book[id]
  <1>1. IsTaken(id) /\ book[id].state \in FinalStates
    BY DEF IsTaken, FinalStates
  <1> QED
    BY <1>1, ExchangeStepMoves, MovesOfOrder

LEMMA ExchangeStepOwner ==
  ASSUME TypeOK, StateInv, Owners, ExchangeStep
  PROVE  Owners'
  <1>1. UNCHANGED <<orders, applied, daemon>>
    BY DEF ExchangeStep, storeVars
  <1>2. \A t \in Traders : OwnsRows(t)'
    BY <1>1 DEF Owners, OwnsRows
  <1>4. AppliedWasFilled'
    BY <1>1, ExecutedStays DEF Owners, AppliedWasFilled
  <1> QED
    BY <1>2, <1>4 DEF Owners

LEMMA NextOwner ==
  OneTraderPerPair /\ TypeOK /\ StateInv /\ Owners /\ [Next]_vars => Owners'
  <1> SUFFICES ASSUME OneTraderPerPair, TypeOK, StateInv, Owners, [Next]_vars PROVE Owners'
    OBVIOUS
  <1>1. ASSUME UNCHANGED <<orders, applied, book, daemon>> PROVE Owners'
    BY <1>1 DEF Owners, AppliedWasFilled, OwnsRows
  <1>2. CASE OperatorStep \/ NextDay \/ UNCHANGED vars
    <2>1. UNCHANGED <<orders, applied, book, daemon>>
      BY <1>2 DEF OperatorStep, Kill, Resume, ToggleKillFile, ReadRisk, SetHalted, RiskToday,
                  NextDay, vars, storeVars, exchangeVars
    <2> QED
      BY <1>1, <2>1
  <1> QED
    BY <1>2, TickStepOwner, ReconcileStepOwner, PlaceStepOwner, ExchangeStepOwner
    DEF Next, DaemonStep

LEMMA InitOwner == Init => Owners
  BY DEF Init, StoreInit, Owners, AppliedWasFilled, OwnsRows, Down, PaperPC, LivePC

-----------------------------------------------------------------------------
(* With one daemon per pair, a position moves only by orders that filled:    *)
(* whatever crashes, fails or arrives late, a row whose fill was applied is  *)
(* accepted, and a live one was fully executed at the exchange (Reconcile's  *)
(* status switch, reconcile.go:74-105).                                      *)
THEOREM AppliedOnlyWhenFilled ==
  ASSUME OneTraderPerPair
  PROVE  Spec => []AppliedWasFilled
  <1>1. Init => Owners
    BY InitOwner
  <1>2. (TypeOK /\ StateInv) /\ Owners /\ [Next]_vars => Owners'
    BY NextOwner
  <1>3. Owners => AppliedWasFilled
    BY DEF Owners
  <1> QED
    BY <1>1, <1>2, <1>3, TypeCorrect, PTL DEF Spec

-----------------------------------------------------------------------------
(* Trader implements OrderOutbox.                                            *)

(* The mapped variables of OrderOutbox.                                      *)
RowView == [id \in OrderIds |-> orders[id].status]
LiveView == {id \in OrderIds : orders[id].status # "none" /\ orders[id].mode = "live"}
KnownView == {id \in OrderIds : IsTaken(id)}

LEMMA StutterView ==
  ASSUME UNCHANGED <<orders, book>> PROVE UNCHANGED Outbox!outboxVars
  <1>1. RowView' = RowView
    BY DEF RowView
  <1>2. LiveView' = LiveView
    BY DEF LiveView
  <1>3. KnownView' = KnownView
    BY DEF KnownView, IsTaken
  <1> QED
    BY <1>1, <1>2, <1>3 DEF Outbox!outboxVars, RowView, LiveView, KnownView

(* A pending row settled: accepted when the exchange has it or it is a paper *)
(* order, rejected when it was meant for the exchange.                       *)
LEMMA SettleView ==
  ASSUME TypeOK, StateInv, NEW id \in OrderIds, id <= lastId, orders[id].status = "pending",
         NEW st \in SettledStatus, orders' = [orders EXCEPT ![id] = [@ EXCEPT !.status = st]],
         book' = book,
         st = "accepted" => (orders[id].mode = "live" => IsTaken(id)),
         st = "rejected" => orders[id].mode = "live"
  PROVE  Outbox!Next
  <1>1. orders[id] \in Row
    BY RowOfId
  <1>2. /\ orders'[id] = [orders[id] EXCEPT !.status = st]
        /\ \A other \in OrderIds : other # id => orders'[other] = orders[other]
    BY DEF TypeOK, StoreTypeOK
  <1>3. orders'[id].status = st /\ orders'[id].mode = orders[id].mode
    BY <1>1, <1>2 DEF Row, Rows
  <1>4. RowView' = [RowView EXCEPT ![id] = st] /\ RowView[id] = "pending"
    <2>1. \A other \in OrderIds :
            orders'[other].status = IF other = id THEN st ELSE orders[other].status
      BY <1>2, <1>3
    <2> QED
      BY <2>1 DEF RowView
  <1>5. LiveView' = LiveView
    BY <1>2, <1>3 DEF LiveView, SettledStatus
  <1>6. KnownView' = KnownView
    BY DEF KnownView, IsTaken
  <1>7. CASE st = "accepted"
    <2>1. id \in LiveView => id \in KnownView
      BY <1>7 DEF LiveView, KnownView
    <2>2. Outbox!Accept(id)
      BY <1>4, <1>5, <1>6, <1>7, <2>1 DEF Outbox!Accept, RowView, LiveView, KnownView
    <2> QED
      BY <2>2 DEF Outbox!Next
  <1>8. CASE st = "rejected"
    <2>1. id \in LiveView
      BY <1>8 DEF LiveView
    <2>2. Outbox!Reject(id)
      BY <1>4, <1>5, <1>6, <1>8, <2>1 DEF Outbox!Reject, RowView, LiveView, KnownView
    <2> QED
      BY <2>2 DEF Outbox!Next
  <1> QED
    BY <1>7, <1>8 DEF SettledStatus

LEMMA InsertView ==
  ASSUME TypeOK, StateInv, NEW t \in Traders, PlaceInsert(t) PROVE Outbox!Next
  <1>0. lastId + 1 \in OrderIds /\ book' = book
    BY StoreAssumption
    DEF PlaceInsert, InsertPending, TypeOK, StoreTypeOK, OrderIds, exchangeVars
  <1>1. PICK new \in OrderIds : new = lastId + 1
    BY <1>0
  <1>2. /\ orders'[new].status = "pending"
        /\ \A other \in OrderIds : other # new => orders'[other] = orders[other]
    BY <1>1 DEF PlaceInsert, InsertPending, TypeOK, StoreTypeOK
  <1>3. orders[new].status = "none"
    BY <1>1, IdsAreInts DEF StateInv, RowInv
  <1>4. RowView' = [RowView EXCEPT ![new] = "pending"] /\ RowView[new] = "none"
    BY <1>1, <1>2, <1>3 DEF RowView
  <1>5. LiveView' \in {LiveView, LiveView \cup {new}}
    <2>1. \A other \in OrderIds : other # new => (other \in LiveView' <=> other \in LiveView)
      BY <1>2 DEF LiveView
    <2>2. LiveView \subseteq OrderIds /\ LiveView' \subseteq OrderIds /\ new \notin LiveView
      BY <1>3 DEF LiveView
    <2>3. CASE new \in LiveView'
      <3>1. LiveView' = LiveView \cup {new}
        BY <2>1, <2>2, <2>3
      <3> QED
        BY <3>1
    <2>4. CASE new \notin LiveView'
      <3>1. LiveView' = LiveView
        BY <2>1, <2>2, <2>4
      <3> QED
        BY <3>1
    <2> QED
      BY <2>3, <2>4
  <1>6. KnownView' = KnownView
    BY <1>0 DEF KnownView, IsTaken
  <1>7. Outbox!Record(new)
    BY <1>4, <1>5, <1>6 DEF Outbox!Record, RowView, LiveView, KnownView
  <1> QED
    BY <1>7 DEF Outbox!Next

-----------------------------------------------------------------------------
(* A step of the exchange concerns one order.                                *)
LEMMA OneOrderMoves ==
  ASSUME TypeOK, ExchangeStep
  PROVE  \E id : \A other \in OrderIds : other # id => book'[other] = book[other]
  <1>1. book \in [ClientIds -> Taken \cup {Unknown, Refused}] /\ OrderIds \subseteq ClientIds
    BY TraderAssumption DEF TypeOK
  <1>2. \/ book' = book
        \/ \E id, o : book' = [book EXCEPT ![id] = o]
    BY DEF ExchangeStep, Receive, Refuse, Lose, Execute, PartlyExecute, Close
  <1> QED
    BY <1>1, <1>2

LEMMA ExchangeView ==
  ASSUME TypeOK, StateInv, ExchangeStep PROVE [Outbox!Next]_Outbox!outboxVars
  <1>1. orders' = orders
    BY DEF ExchangeStep, storeVars
  <1>2. RowView' = RowView /\ LiveView' = LiveView
    BY <1>1 DEF RowView, LiveView
  <1>3. PICK id : \A other \in OrderIds : other # id => book'[other] = book[other]
    BY OneOrderMoves
  <1>4. \A other \in OrderIds : other # id => (other \in KnownView' <=> other \in KnownView)
    BY <1>3 DEF KnownView, IsTaken
  <1>5. KnownView \subseteq OrderIds /\ KnownView' \subseteq OrderIds
    BY DEF KnownView
  <1>6. CASE KnownView' = KnownView
    BY <1>2, <1>6 DEF Outbox!outboxVars, RowView, LiveView, KnownView
  <1>7. CASE KnownView' # KnownView
    <2>1. id \in OrderIds /\ ~(id \in KnownView' <=> id \in KnownView)
      BY <1>4, <1>5, <1>7
    <2>2. id \in KnownView => id \in KnownView'
      BY <2>1, ExchangeStepMoves, MovesOfOrder DEF KnownView
    <2>3. id \notin KnownView /\ KnownView' = KnownView \cup {id}
      BY <1>4, <1>5, <2>1, <2>2
    <2>4. \E r \in wire : r.id = id
      BY <2>1, <2>2, ExchangeStepMoves, MovesOfOrder DEF KnownView
    <2>5. id \in LiveView /\ RowView[id] # "none"
      BY <2>1, <2>4, RowOfId DEF StateInv, TrafficInv, LiveRow, LiveView, RowView
    <2>6. Outbox!Deliver(id)
      BY <1>2, <2>3, <2>5 DEF Outbox!Deliver, RowView, LiveView, KnownView
    <2> QED
      BY <2>1, <2>6 DEF Outbox!Next
  <1> QED
    BY <1>6, <1>7

-----------------------------------------------------------------------------
LEMMA TickStepView ==
  ASSUME NEW t \in Traders, Start(t) \/ Crash(t) \/ TickStep(t)
  PROVE  UNCHANGED Outbox!outboxVars
  <1>1. UNCHANGED <<orders, book>>
    BY DEF Start, Crash, TickStep, Tick, EvaluateNothing, EvaluateBuy, EvaluateSell,
           storeVars, exchangeVars
  <1> QED
    BY <1>1, StutterView

LEMMA ReconcileStepView ==
  ASSUME TypeOK, StateInv, Owners, NEW t \in Traders, ReconcileStep(t)
  PROVE  [Outbox!Next]_Outbox!outboxVars
  <1> DEFINE d == daemon[t]
  <1>1. book' = book
    BY DEF ReconcileStep, ListPending, ReadHistory, ReconcileReadPosition, ReconcileApply,
           ReconcileSettle, ReconcileEnd, ReconcileError, exchangeVars
  <1>2. ASSUME orders' = orders PROVE UNCHANGED Outbox!outboxVars
    BY <1>1, <1>2, StutterView
  <1>3. ASSUME d.pc \in {"loop", "apply"}, NEW id \in d.todo
        PROVE  /\ id \in OrderIds /\ id <= lastId /\ orders[id].status = "pending"
               /\ orders[id].mode = "live" /\ IsTaken(id)
    <2>1. Reconcilable(id, t) /\ OwnsRows(t)
      BY <1>3 DEF StateInv, ReconcilingInv, Owners
    <2> QED
      BY <1>3, <2>1 DEF Reconcilable, LiveRow, OwnsRows
  <1>4. CASE ReconcileApply(t)
    <2>1. d.pc = "apply" /\ d.cur \in d.todo
      BY <1>4 DEF ReconcileApply, At, StateInv, ReconcilingInv
    <2>2. \/ orders' = orders
          \/ orders' = [orders EXCEPT ![d.cur] = [@ EXCEPT !.status = "accepted"]]
      BY <1>4 DEF ReconcileApply, ApplyFill, storeVars
    <2>3. PICK id \in OrderIds : id = d.cur
      BY <1>3, <2>1
    <2> QED
      BY <1>1, <1>2, <1>3, <2>1, <2>2, <2>3, SettleView DEF SettledStatus
  <1>5. CASE ReconcileSettle(t)
    <2>1. d.pc = "loop"
      BY <1>5 DEF ReconcileSettle, At
    <2>2. PICK id \in d.todo : Settle(id, "rejected")
      BY <1>5 DEF ReconcileSettle
    <2> QED
      BY <1>1, <1>3, <2>1, <2>2, SettleView DEF Settle, SettledStatus
  <1>6. CASE ListPending(t) \/ ReadHistory(t) \/ ReconcileReadPosition(t) \/ ReconcileEnd(t)
             \/ ReconcileError(t)
    <2>1. orders' = orders
      BY <1>6 DEF ListPending, ReadHistory, ReconcileReadPosition, ReconcileEnd,
                  ReconcileError, storeVars
    <2> QED
      BY <1>2, <2>1
  <1> QED
    BY <1>4, <1>5, <1>6 DEF ReconcileStep

LEMMA PlaceStepView ==
  ASSUME TypeOK, StateInv, Owners, NEW t \in Traders, PlaceStep(t)
  PROVE  [Outbox!Next]_Outbox!outboxVars
  <1> DEFINE d == daemon[t]
  <1>1. CASE PlaceKillFile(t) \/ PlaceCheck(t) \/ PlaceTripHalt(t) \/ PaperReadPosition(t)
             \/ Send(t) \/ SendAnswered(t) \/ SendFails(t) \/ PlaceError(t)
    <2>1. UNCHANGED <<orders, book>>
      BY <1>1 DEF PlaceKillFile, PlaceCheck, PlaceTripHalt, PaperReadPosition, Send, Submit,
                  SendAnswered, SendFails, PlaceError, SetHalted, RiskToday, storeVars, exchangeVars
    <2> QED
      BY <2>1, StutterView
  <1>2. CASE PlaceInsert(t)
    BY <1>2, InsertView
  <1>3. CASE PaperApply(t) \/ SettleRejected(t) \/ RecordAccepted(t)
    <2>1. d.pc \in PaperPC \cup LivePC
      BY <1>3 DEF PaperApply, SettleRejected, RecordAccepted, At, PaperPC, LivePC
    <2>2. PICK id \in OrderIds : id = d.cur
      BY <2>1, CurRow
    <2>3. id <= lastId /\ orders[id].status = "pending" /\ PlacingInv(t)
      BY <2>1, <2>2, CurRow DEF Owners, OwnsRows, StateInv
    <2>4. book' = book
      BY <1>3 DEF PaperApply, SettleRejected, RecordAccepted, exchangeVars
    <2>5. CASE PaperApply(t)
      <3>1. /\ orders' = [orders EXCEPT ![id] = [@ EXCEPT !.status = "accepted"]]
            /\ orders[id].mode = "paper"
        BY <2>2, <2>3, <2>5 DEF PaperApply, ApplyFill, At, PlacingInv, PaperPC
      <3> QED
        BY <2>3, <2>4, <3>1, SettleView DEF SettledStatus
    <2>6. CASE SettleRejected(t)
      <3>1. /\ orders' = [orders EXCEPT ![id] = [@ EXCEPT !.status = "rejected"]]
            /\ orders[id].mode = "live"
        BY <2>2, <2>3, <2>6 DEF SettleRejected, Settle, At, PlacingInv, LivePC, LiveRow
      <3> QED
        BY <2>3, <2>4, <3>1, SettleView DEF SettledStatus
    <2>7. CASE RecordAccepted(t)
      <3>1. /\ orders' = [orders EXCEPT ![id] = [@ EXCEPT !.status = "accepted"]]
            /\ IsTaken(id)
        BY <2>2, <2>3, <2>7 DEF RecordAccepted, ApplyFillSkipPosition, At, PlacingInv
      <3> QED
        BY <2>3, <2>4, <3>1, SettleView DEF SettledStatus
    <2> QED
      BY <1>3, <2>5, <2>6, <2>7
  <1> QED
    BY <1>1, <1>2, <1>3 DEF PlaceStep

LEMMA InitView == Init => Outbox!Init
  <1> SUFFICES ASSUME Init PROVE Outbox!Init
    OBVIOUS
  <1>1. \A id \in OrderIds : orders[id].status = "none" /\ ~IsTaken(id)
    BY TraderAssumption DEF Init, StoreInit, ExchangeInit, NoRow, IsTaken, Unknown
  <1> QED
    BY <1>1 DEF Outbox!Init

LEMMA NextView ==
  TypeOK /\ StateInv /\ Owners /\ [Next]_vars => [Outbox!Next]_Outbox!outboxVars
  <1> SUFFICES ASSUME TypeOK, StateInv, Owners, [Next]_vars
               PROVE  [Outbox!Next]_Outbox!outboxVars
    OBVIOUS
  <1>1. CASE OperatorStep \/ NextDay \/ UNCHANGED vars
    <2>1. UNCHANGED <<orders, book>>
      BY <1>1 DEF OperatorStep, Kill, Resume, ToggleKillFile, ReadRisk, SetHalted, RiskToday,
                  NextDay, vars, storeVars, exchangeVars
    <2> QED
      BY <2>1, StutterView
  <1> QED
    BY <1>1, TickStepView, ReconcileStepView, PlaceStepView, ExchangeView DEF Next, DaemonStep

-----------------------------------------------------------------------------
(* With one daemon per pair the ledger keeps the promise of OrderOutbox: the *)
(* row is written before the exchange can have the order (pipeline.go:100),  *)
(* every row is settled at most once, for good, although SettleOrder updates *)
(* unconditionally, and a live row is accepted only when the exchange has    *)
(* the order.                                                                *)
THEOREM LedgerIsOutbox ==
  ASSUME OneTraderPerPair
  PROVE  Spec => OutboxSpec
  <1>1. Init => Outbox!Init
    BY InitView
  <1>2. Init => Owners
    BY InitOwner
  <1>3. (TypeOK /\ StateInv) /\ Owners /\ [Next]_vars => Owners'
    BY NextOwner
  <1>4. (TypeOK /\ StateInv) /\ Owners /\ [Next]_vars => [Outbox!Next]_Outbox!outboxVars
    BY NextView
  <1> QED
    BY <1>1, <1>2, <1>3, <1>4, TypeCorrect, PTL DEF Spec, OutboxSpec, Outbox!Spec

-----------------------------------------------------------------------------
(* Positions are sums of fills.                                              *)

(* An applied row was inserted, and the units it moved are an integer.       *)
LEMMA AppliedRow ==
  ASSUME TypeOK, StateInv, Owners, NEW id \in OrderIds, applied[id] > 0
  PROVE  id <= lastId /\ orders[id] \in Row /\ UnitsMoved(id) \in Int
  <1>1. orders[id].status = "accepted" /\ (orders[id].mode = "live" => IsTaken(id))
    BY DEF Owners, AppliedWasFilled, IsTaken
  <1>2. id <= lastId
    BY <1>1, IdsAreInts DEF StateInv, RowInv
  <1>3. orders[id] \in Row /\ orders[id].price \in Int /\ orders[id].price > 0
        /\ orders[id].value \in Int /\ orders[id].qty \in Int
    BY <1>2, RowOfId
  <1>4. orders[id].mode = "live" => book[id].executed \in Int
    BY <1>1, TakenType, TraderAssumption DEF Taken
  <1>5. UnitsFor(orders[id].value, orders[id].price) \in Int
    BY <1>3, UnitsForInt
  <1> QED
    BY <1>2, <1>3, <1>4, <1>5 DEF UnitsMoved

LEMMA AppliedSet ==
  ASSUME TypeOK, StateInv, Owners, NEW s
  PROVE  IsFiniteSet(AppliedTo(s)) /\ \A id \in AppliedTo(s) : id \in OrderIds /\ Moved[id] \in Int
  <1>1. IsFiniteSet(OrderIds)
    BY StoreAssumption, FS_Interval DEF OrderIds
  <1>2. AppliedTo(s) \subseteq OrderIds
    BY DEF AppliedTo
  <1>3. IsFiniteSet(AppliedTo(s))
    BY <1>1, <1>2, FS_Subset
  <1>4. ASSUME NEW id \in AppliedTo(s) PROVE id \in OrderIds /\ Moved[id] \in Int
    BY AppliedRow DEF AppliedTo, Moved
  <1> QED
    BY <1>3, <1>4

(* What an applied order moved does not change any more.                     *)
MovedStays ==
  \A id \in OrderIds : applied[id] > 0 =>
    SameTerms(id) /\ (orders[id].mode = "live" => book'[id] = book[id])

LEMMA MovedStaysSame ==
  ASSUME MovedStays, NEW id \in OrderIds, applied[id] > 0
  PROVE  Moved'[id] = Moved[id] /\ orders'[id].symbol = orders[id].symbol
  <1>1. SameTerms(id) /\ (orders[id].mode = "live" => book'[id] = book[id])
    BY DEF MovedStays
  <1>2. UnitsMoved(id)' = UnitsMoved(id)
    BY <1>1 DEF UnitsMoved, SameTerms
  <1>3. Moved'[id] = UnitsMoved(id)' /\ Moved[id] = UnitsMoved(id)
    BY DEF Moved
  <1> QED
    BY <1>1, <1>2, <1>3 DEF SameTerms

LEMMA SumsStay ==
  ASSUME TypeOK, StateInv, Owners, PositionIsSumOfFills, MovedStays,
         UNCHANGED <<applied, positions>>
  PROVE  PositionIsSumOfFills'
  <1>1. ASSUME NEW s \in Symbols
        PROVE  SumFunctionOnSet(Moved', AppliedTo(s)') = SumFunctionOnSet(Moved, AppliedTo(s))
    <2>1. AppliedTo(s)' = AppliedTo(s)
      BY MovedStaysSame DEF AppliedTo
    <2>2. \A id \in AppliedTo(s) : Moved'[id] = Moved[id]
      BY MovedStaysSame DEF AppliedTo
    <2>3. IsFiniteSet(AppliedTo(s))
      BY AppliedSet
    <2>4. SumFunctionOnSet(Moved', AppliedTo(s)) = SumFunctionOnSet(Moved, AppliedTo(s))
      BY <2>2, <2>3, SumSame
    <2> QED
      BY <2>1, <2>4
  <1> QED
    BY <1>1 DEF PositionIsSumOfFills

(* The fill of a pending order joins the sum of its pair, once.              *)
LEMMA FillJoins ==
  ASSUME TypeOK, StateInv, Owners, PositionIsSumOfFills,
         NEW id \in OrderIds, id <= lastId, orders[id].status = "pending",
         orders[id].mode = "live" => book[id].state = "FullyExecuted",
         NEW pos \in Position,
         pos.qty = Wrap(positions[orders[id].symbol].qty + UnitsMoved(id)),
         orders' = [orders EXCEPT ![id] = [@ EXCEPT !.status = "accepted"]],
         positions' = [positions EXCEPT ![orders[id].symbol] = pos],
         applied' = [applied EXCEPT ![id] = @ + 1], book' = book
  PROVE  PositionIsSumOfFills'
  <1> DEFINE sym == orders[id].symbol
  <1>1. applied \in [OrderIds -> Nat] /\ ~(applied[id] > 0)
    BY DEF TypeOK, StoreTypeOK, Owners, AppliedWasFilled
  <1>2. applied[id] = 0 /\ applied'[id] = 1
        /\ \A other \in OrderIds : other # id => applied'[other] = applied[other]
    BY <1>1
  <1>3. \A other \in OrderIds : SameTerms(other)
    BY StatusKeepsTerms
  <1>4. MovedStays
    BY <1>3 DEF MovedStays
  <1>5. /\ sym \in Symbols /\ orders[id] \in Row
        /\ orders[id].value \in Int /\ orders[id].qty \in Int
        /\ orders[id].price \in Int /\ orders[id].price > 0
    BY RowOfId
  <1>6. UnitsMoved(id) \in Int
    <2>1. orders[id].mode = "live" => book[id].executed \in Int
      BY TakenType, TraderAssumption DEF IsTaken, Taken
    <2>2. UnitsFor(orders[id].value, orders[id].price) \in Int
      BY <1>5, UnitsForInt
    <2> QED
      BY <1>5, <2>1, <2>2 DEF UnitsMoved
  <1>7. UnitsMoved(id)' = UnitsMoved(id)
    BY <1>3 DEF UnitsMoved, SameTerms
  <1>8. Moved'[id] = UnitsMoved(id)
    BY <1>7 DEF Moved
  <1>9. ASSUME NEW s \in Symbols
        PROVE  positions'[s].qty = Wrap(SumFunctionOnSet(Moved', AppliedTo(s)'))
    <2> DEFINE A == AppliedTo(s)
               total == SumFunctionOnSet(Moved, A)
    <2>1. IsFiniteSet(A) /\ \A other \in A : other \in OrderIds /\ Moved[other] \in Int
      BY AppliedSet
    <2>2. \A other \in A : Moved'[other] = Moved[other]
      BY <1>4, MovedStaysSame DEF AppliedTo
    <2>3. id \notin A
      BY <1>2 DEF AppliedTo
    <2>4. SumFunctionOnSet(Moved', A) = total
      BY <2>1, <2>2, SumSame
    <2>5. total \in Int
      BY <2>1, SumInt
    <2>6. positions[s].qty = Wrap(total)
      BY DEF PositionIsSumOfFills
    <2>7. CASE s # sym
      <3>1. AppliedTo(s)' = A
        BY <1>2, <1>3, <2>7 DEF AppliedTo, SameTerms
      <3>2. positions'[s] = positions[s]
        BY <2>7 DEF TypeOK, StoreTypeOK
      <3> QED
        BY <2>4, <2>6, <3>1, <3>2
    <2>8. CASE s = sym
      <3>1. AppliedTo(s)' = A \cup {id}
        BY <1>2, <1>3, <2>8 DEF AppliedTo, SameTerms
      <3>2. \A other \in A \cup {id} : Moved'[other] \in Int
        BY <1>6, <1>8, <2>1, <2>2
      <3> HIDE DEF A
      <3>3. SumFunctionOnSet(Moved', A \cup {id}) = SumFunctionOnSet(Moved', A) + Moved'[id]
        BY <2>1, <2>3, <3>2, SumAdd
      <3>4. SumFunctionOnSet(Moved', A \cup {id}) = total + UnitsMoved(id)
        BY <1>8, <2>4, <3>3
      <3>5. positions'[s] = pos
        BY <1>5, <2>8 DEF TypeOK, StoreTypeOK
      <3>6. positions'[s].qty = Wrap(Wrap(total) + UnitsMoved(id))
        BY <2>6, <2>8, <3>5
      <3>7. Wrap(Wrap(total) + UnitsMoved(id)) = Wrap(total + UnitsMoved(id))
        BY <1>6, <2>5, WrapAdd
      <3> QED
        BY <3>1, <3>4, <3>6, <3>7
    <2> QED
      BY <2>7, <2>8
  <1>10. \A other \in OrderIds : applied'[other] <= 1
    BY <1>2 DEF PositionIsSumOfFills
  <1> QED
    BY <1>9, <1>10 DEF PositionIsSumOfFills

LEMMA PaperQty ==
  ASSUME NEW pos \in Position, NEW row \in Row,
         UnitsFor(row.value, row.price) \in Int
  PROVE  simulatePaperFill(pos, row).pos.qty =
           Wrap(pos.qty + (IF row.side = "BUY" THEN UnitsFor(row.value, row.price) ELSE -row.qty))
  <1>1. pos.qty \in Int /\ row.qty \in Int
    BY DEF Position, Row, Rows
  <1>2. pos.qty - row.qty = pos.qty + (-row.qty)
    BY <1>1
  <1> QED
    BY <1>2 DEF simulatePaperFill

LEMMA LiveQty ==
  ASSUME NEW pos \in Position, NEW side, NEW e \in Int, NEW p, NEW fill,
         fill = computeFill(pos, side, e, p), fill.ok
  PROVE  fill.pos.qty = Wrap(pos.qty + (IF side = "BUY" THEN e ELSE -e))
  <1>1. pos.qty \in Int
    BY DEF Position
  <1>2. pos.qty - e = pos.qty + (-e)
    BY <1>1
  <1>3. fill.pos.qty = IF side = "BUY" THEN Wrap(pos.qty + e) ELSE Wrap(pos.qty - e)
    BY DEF computeFill
  <1> QED
    BY <1>2, <1>3

-----------------------------------------------------------------------------
LEMMA ReconcileApplyPosition ==
  ASSUME TypeOK, StateInv, Owners, PositionInv, NEW t \in Traders, ReconcileApply(t)
  PROVE  PositionIsSumOfFills'
  <1> DEFINE d  == daemon[t]
             id == d.cur
             fill == computeFill(d.pos, orders[id].side, book[id].executed, book[id].avg)
  <1>1. d.pc = "apply" /\ id \in d.todo /\ book[id].state = "FullyExecuted" /\ book' = book
    BY DEF ReconcileApply, At, StateInv, ReconcilingInv, exchangeVars
  <1>2. /\ id \in OrderIds /\ id <= lastId /\ book[id] \in Taken
        /\ orders[id].mode = "live" /\ orders[id].symbol = SymbolOf[t]
    BY <1>1, TodoRow DEF StateInv, ReconcilingInv, Reconcilable, LiveRow
  <1>3. orders[id].status = "pending"
    BY <1>1, <1>2 DEF Owners, OwnsRows
  <1>4. d.pos \in Position /\ d.pos = positions[SymbolOf[t]]
    BY <1>1 DEF TypeOK, DaemonState, PositionInv, ReadsCurrent
  <1>5. book[id].executed \in Int /\ book[id].avg \in Int
    BY <1>2 DEF Taken
  <1>6. CASE UNCHANGED storeVars
    <2>1. MovedStays
      BY <1>1, <1>6 DEF MovedStays, SameTerms, storeVars
    <2> QED
      BY <1>6, <2>1, SumsStay DEF PositionInv, storeVars
  <1>7. CASE fill.ok /\ ApplyFill(id, d.day, fill.pos, 0, fill.loss)
    <2>1. fill = computeFill(d.pos, orders[id].side, book[id].executed, book[id].avg)
      OBVIOUS
    <2>2. fill.pos \in Position
      BY <1>4, <1>5, FillType
    <2> HIDE DEF fill
    <2>3. fill.ok
      BY <1>7
    <2> DEFINE side == orders[id].side
               units == book[id].executed
               price == book[id].avg
               pos == d.pos
    <2>4. pos \in Position /\ units \in Int /\ fill = computeFill(pos, side, units, price)
      BY <1>4, <1>5, <2>1
    <2> HIDE DEF side, units, price, pos
    <2>5. fill.pos.qty = Wrap(pos.qty + (IF side = "BUY" THEN units ELSE -units))
      BY <2>3, <2>4, LiveQty
    <2>6. fill.pos.qty = Wrap(d.pos.qty + (IF orders[id].side = "BUY" THEN book[id].executed
                                           ELSE -book[id].executed))
      BY <2>5 DEF side, units, pos
    <2>7. fill.pos.qty = Wrap(positions[orders[id].symbol].qty + UnitsMoved(id))
      BY <1>2, <1>4, <2>6 DEF UnitsMoved
    <2>8. /\ orders' = [orders EXCEPT ![id] = [@ EXCEPT !.status = "accepted"]]
          /\ positions' = [positions EXCEPT ![orders[id].symbol] = fill.pos]
          /\ applied' = [applied EXCEPT ![id] = @ + 1]
      BY <1>7 DEF ApplyFill
    <2> QED
      BY <1>1, <1>2, <1>3, <2>2, <2>7, <2>8, FillJoins DEF PositionInv
  <1> QED
    BY <1>6, <1>7 DEF ReconcileApply

LEMMA PaperApplyPosition ==
  ASSUME TypeOK, StateInv, Owners, PositionInv, NEW t \in Traders, PaperApply(t)
  PROVE  PositionIsSumOfFills'
  <1> DEFINE d   == daemon[t]
             id  == d.cur
             sim == simulatePaperFill(d.pos, orders[id])
  <1>1. d.pc = "paperApply" /\ book' = book
    BY DEF PaperApply, At, exchangeVars
  <1>2. /\ id \in OrderIds /\ id <= lastId /\ orders[id].mode = "paper"
        /\ orders[id].symbol = SymbolOf[t] /\ orders[id].status = "pending"
    BY <1>1 DEF StateInv, PlacingInv, PaperPC, Owners, OwnsRows
  <1>3. /\ orders[id] \in Row /\ orders[id].value \in Int /\ orders[id].qty \in Int
        /\ orders[id].price \in Int /\ orders[id].price > 0
    BY <1>2, RowOfId
  <1>4. d.pos \in Position /\ d.pos = positions[SymbolOf[t]]
    BY <1>1 DEF TypeOK, DaemonState, PositionInv, ReadsCurrent
  <1>5. UnitsFor(orders[id].value, orders[id].price) \in Int
    BY <1>3, UnitsForInt
  <1>6. sim.pos.qty = Wrap(d.pos.qty + (IF orders[id].side = "BUY"
                                        THEN UnitsFor(orders[id].value, orders[id].price)
                                        ELSE -orders[id].qty))
    BY <1>3, <1>4, <1>5, PaperQty
  <1>7. sim.pos \in Position
    BY <1>3, <1>4, PaperFillType
  <1> HIDE DEF sim
  <1>8. sim.pos.qty = Wrap(positions[orders[id].symbol].qty + UnitsMoved(id))
    BY <1>2, <1>4, <1>6 DEF UnitsMoved
  <1>9. /\ orders' = [orders EXCEPT ![id] = [@ EXCEPT !.status = "accepted"]]
        /\ positions' = [positions EXCEPT ![orders[id].symbol] = sim.pos]
        /\ applied' = [applied EXCEPT ![id] = @ + 1]
    BY DEF PaperApply, ApplyFill, sim
  <1> QED
    BY <1>1, <1>2, <1>7, <1>8, <1>9, FillJoins DEF PositionInv

(* Only the two fills write a position, and only that of the daemon's pair.  *)
LEMMA OtherStepsPosition ==
  ASSUME TypeOK, StateInv, NEW t \in Traders, DaemonStep(t)
  PROVE  /\ book' = book
         /\ ~ReconcileApply(t) /\ ~PaperApply(t) => UNCHANGED <<positions, applied>>
         /\ \A s \in Symbols : s # SymbolOf[t] => positions'[s] = positions[s]
  <1>1. book' = book
    BY DEF DaemonStep, Start, Crash, ReconcileStep, ListPending, ReadHistory,
           ReconcileReadPosition, ReconcileApply, ReconcileSettle, ReconcileEnd,
           ReconcileError, TickStep, Tick, EvaluateNothing, EvaluateBuy, EvaluateSell, PlaceStep,
           PlaceKillFile, PlaceCheck, PlaceTripHalt, PlaceInsert, PaperReadPosition, PaperApply,
           Send, Submit, SendAnswered, SendFails, SettleRejected, RecordAccepted, PlaceError,
           exchangeVars
  <1>2. ~ReconcileApply(t) /\ ~PaperApply(t) => UNCHANGED <<positions, applied>>
    BY DEF DaemonStep, Start, Crash, ReconcileStep, ListPending, ReadHistory,
           ReconcileReadPosition, ReconcileSettle, Settle, ReconcileEnd,
           ReconcileError, TickStep, Tick, EvaluateNothing, EvaluateBuy, EvaluateSell, PlaceStep,
           PlaceKillFile, SetHalted, PlaceCheck, RiskToday, PlaceTripHalt, PlaceInsert,
           InsertPending, PaperReadPosition, Send, SendAnswered, SendFails, SettleRejected,
           RecordAccepted, ApplyFillSkipPosition, PlaceError, storeVars
  <1>3. CASE ReconcileApply(t)
    <2>1. daemon[t].pc = "apply" /\ daemon[t].cur \in daemon[t].todo
      BY <1>3 DEF ReconcileApply, At, StateInv, ReconcilingInv
    <2>2. orders[daemon[t].cur].symbol = SymbolOf[t]
      BY <2>1 DEF StateInv, ReconcilingInv, Reconcilable, LiveRow
    <2>3. \/ positions' = positions
          \/ \E pos : positions' = [positions EXCEPT ![SymbolOf[t]] = pos]
      BY <1>3, <2>2 DEF ReconcileApply, ApplyFill, storeVars
    <2> QED
      BY <1>1, <1>2, <2>3 DEF TypeOK, StoreTypeOK
  <1>4. CASE PaperApply(t)
    <2>1. orders[daemon[t].cur].symbol = SymbolOf[t]
      BY <1>4, CurRow DEF PaperApply, At, PaperPC
    <2>2. \E pos : positions' = [positions EXCEPT ![SymbolOf[t]] = pos]
      BY <1>4, <2>1 DEF PaperApply, ApplyFill
    <2> QED
      BY <1>1, <1>2, <2>2 DEF TypeOK, StoreTypeOK
  <1> QED
    BY <1>1, <1>2, <1>3, <1>4

(* A daemon that has just read the position read its own pair's.             *)
LEMMA ReadIsCurrent ==
  ASSUME TypeOK, StateInv, NEW t \in Traders, DaemonStep(t) PROVE ReadsCurrent(t)'
  <1> DEFINE d == daemon[t]
  <1> SUFFICES ASSUME daemon'[t].pc \in {"apply", "paperApply"}
               PROVE  daemon'[t].pos = positions'[SymbolOf[t]]
    BY DEF ReadsCurrent
  <1>1. ReconcileReadPosition(t) \/ PaperReadPosition(t)
    BY StepPC DEF AtEasePC
  <1>2. d \in DaemonState /\ positions' = positions
    BY <1>1 DEF TypeOK, ReconcileReadPosition, PaperReadPosition, storeVars
  <1>3. CASE ReconcileReadPosition(t)
    <2>1. PICK id \in d.todo :
            daemon'[t] = [d EXCEPT !.pc = "apply", !.pos = positions[orders[id].symbol], !.cur = id]
      BY <1>3, BecomeIs DEF ReconcileReadPosition
    <2>2. orders[id].symbol = SymbolOf[t]
      BY <1>3 DEF ReconcileReadPosition, At, StateInv, ReconcilingInv, Reconcilable, LiveRow
    <2>3. daemon'[t].pos = positions[orders[id].symbol]
      BY <1>2, <2>1 DEF DaemonState
    <2> QED
      BY <1>2, <2>2, <2>3
  <1>4. CASE PaperReadPosition(t)
    <2>1. daemon'[t] = [d EXCEPT !.pc = "paperApply", !.pos = positions[SymbolOf[t]]]
      BY <1>4, BecomeIs DEF PaperReadPosition
    <2>2. daemon'[t].pos = positions[SymbolOf[t]]
      BY <1>2, <2>1 DEF DaemonState
    <2> QED
      BY <1>2, <2>2
  <1> QED
    BY <1>1, <1>3, <1>4

LEMMA DaemonPosition ==
  ASSUME OneTraderPerPair, TypeOK, StateInv, Owners, PositionInv, NEW t \in Traders, DaemonStep(t)
  PROVE  PositionInv'
  <1>1. PositionIsSumOfFills'
    <2>1. CASE ReconcileApply(t) \/ PaperApply(t)
      BY <2>1, ReconcileApplyPosition, PaperApplyPosition
    <2>2. CASE ~ReconcileApply(t) /\ ~PaperApply(t)
      <3>1. UNCHANGED <<positions, applied>> /\ book' = book
        BY <2>2, OtherStepsPosition
      <3>2. \A id \in OrderIds : id <= lastId => SameTerms(id)
        BY StepKeepsTerms DEF Next
      <3>3. MovedStays
        BY <3>1, <3>2, AppliedRow DEF MovedStays
      <3> QED
        BY <3>1, <3>3, SumsStay DEF PositionInv
    <2> QED
      BY <2>1, <2>2
  <1>2. ASSUME NEW u \in Traders, u # t PROVE ReadsCurrent(u)'
    <2>1. daemon'[u] = daemon[u]
      BY <1>2, OthersStay
    <2>2. SymbolOf[u] # SymbolOf[t] /\ SymbolOf[u] \in Symbols
      BY <1>2, TraderAssumption DEF OneTraderPerPair
    <2>3. positions'[SymbolOf[u]] = positions[SymbolOf[u]]
      BY <2>2, OtherStepsPosition
    <2> QED
      BY <2>1, <2>3 DEF PositionInv, ReadsCurrent
  <1> QED
    BY <1>1, <1>2, ReadIsCurrent DEF PositionInv

LEMMA NextPosition ==
  ASSUME OneTraderPerPair, TypeOK, StateInv, Owners, PositionInv, [Next]_vars
  PROVE  PositionInv'
  <1>1. CASE ExchangeStep \/ OperatorStep \/ NextDay \/ UNCHANGED vars
    <2>1. UNCHANGED <<orders, applied, positions, daemon>>
      BY <1>1 DEF ExchangeStep, OperatorStep, Kill, Resume, ToggleKillFile, ReadRisk, SetHalted,
                  RiskToday, NextDay, vars, storeVars
    <2>2. ASSUME NEW id \in OrderIds, applied[id] > 0, orders[id].mode = "live"
          PROVE  book'[id] = book[id]
      <3>1. CASE ExchangeStep
        BY <2>2, <3>1, ExecutedStays DEF Owners, AppliedWasFilled
      <3>2. CASE ~ExchangeStep
        BY <1>1, <3>2 DEF OperatorStep, Kill, Resume, ToggleKillFile, ReadRisk, NextDay, vars,
                          exchangeVars
      <3> QED
        BY <3>1, <3>2
    <2>3. MovedStays
      BY <2>1, <2>2 DEF MovedStays, SameTerms
    <2>4. PositionIsSumOfFills'
      BY <2>1, <2>3, SumsStay DEF PositionInv
    <2>5. \A t \in Traders : ReadsCurrent(t)'
      BY <2>1 DEF PositionInv, ReadsCurrent
    <2> QED
      BY <2>4, <2>5 DEF PositionInv
  <1> QED
    BY <1>1, DaemonPosition DEF Next

LEMMA InitPosition == Init => PositionInv
  <1> SUFFICES ASSUME Init PROVE PositionInv
    OBVIOUS
  <1>1. \A id \in OrderIds : applied[id] = 0
    BY DEF Init, StoreInit
  <1>2. \A s \in Symbols : AppliedTo(s) = {}
    BY <1>1 DEF AppliedTo
  <1>3. \A s \in Symbols : positions[s].qty = 0
    BY DEF Init, StoreInit
  <1>4. Wrap(SumFunctionOnSet(Moved, {})) = 0
    BY SumEmpty, WrapSmall, FillAssumption
  <1>5. \A t \in Traders : ReadsCurrent(t)
    BY DEF Init, Down, ReadsCurrent
  <1> QED
    BY <1>1, <1>2, <1>3, <1>4, <1>5 DEF PositionInv, PositionIsSumOfFills

(* With one daemon per pair a position is the sum, in int64 arithmetic, of   *)
(* the fills applied to it, each once: the position that Reconcile and the   *)
(* paper path read in one call is still the table's when they overwrite it   *)
(* in another, and no crash or failed write in between counts a fill twice   *)
(* or drops one (reconcile.go:77, pipeline.go:117).                          *)
THEOREM PositionsAddUp ==
  ASSUME OneTraderPerPair
  PROVE  Spec => []PositionIsSumOfFills
  <1>1. Init => Owners /\ PositionInv
    BY InitOwner, InitPosition
  <1>2. (TypeOK /\ StateInv) /\ (Owners /\ PositionInv) /\ [Next]_vars => (Owners /\ PositionInv)'
    BY NextOwner, NextPosition
  <1>3. Owners /\ PositionInv => PositionIsSumOfFills
    BY DEF PositionInv
  <1> QED
    BY <1>1, <1>2, <1>3, TypeCorrect, PTL DEF Spec
=============================================================================
