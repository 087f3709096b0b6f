------------------------------ MODULE PaperProofs ------------------------------
(* Paper trading sells no more than it holds, when every pair has one daemon *)
(* and the buy value does not wrap: what a daemon read of its position is    *)
(* still so when the fill it simulates overwrites it.  And every loss that   *)
(* is realized is counted, on paper always, live when the day it is booked   *)
(* on has its risk row.                                                      *)
EXTENDS CapProofs, Signals, SequenceTheorems

-----------------------------------------------------------------------------
(* The arithmetic of a simulated fill.                                       *)

LEMMA QuotientSmall ==
  ASSUME NEW a \in Nat, NEW p \in Nat \ {0} PROVE a \div p \in 0 .. a
  BY Z3

(* A Buy of the buy value asks for a number of units that does not wrap.     *)
LEMMA UnitsBoughtSmall ==
  ASSUME BuyValue * Scale <= MaxInt, NEW p \in Prices
  PROVE  UnitsFor(BuyValue, p) \in 0 .. MaxInt
  <1>1. BuyValue \in Nat /\ Scale \in Nat /\ MaxInt \in Nat /\ p \in Nat \ {0}
    BY TraderAssumption, FillAssumption, PriceType
  <1>2. BuyValue * Scale \in Nat
    BY <1>1
  <1> DEFINE v == BuyValue * Scale
  <1>3. v \in Nat /\ v \in 0 .. MaxInt
    BY <1>1, <1>2
  <1> HIDE DEF v
  <1>4. Wrap(v) = v
    BY <1>3, WrapsNothing
  <1>5. v \div p \in 0 .. v
    BY <1>1, <1>3, QuotientSmall
  <1>6. TruncDiv(v, p) = v \div p
    BY <1>1, <1>3 DEF TruncDiv
  <1>7. v \div p \in 0 .. MaxInt
    BY <1>1, <1>3, <1>5
  <1> QED
    BY <1>4, <1>6, <1>7 DEF UnitsFor, v

(* The fill of an order that fits the position leaves nothing short.         *)
LEMMA FillNotShort ==
  ASSUME BuyValue * Scale <= MaxInt, NEW pos \in Position, NEW row,
         Fits(row, pos.qty), row.price \in Prices
  PROVE  simulatePaperFill(pos, row).pos.qty \in Nat
  <1>1. pos.qty \in Int /\ MaxInt \in Nat
    BY FillAssumption DEF Position
  <1>2. CASE row.side = "BUY"
    <2> DEFINE units == UnitsFor(BuyValue, row.price)
    <2>1. pos.qty = 0 /\ row.value = BuyValue
      BY <1>2 DEF Fits
    <2>2. units \in 0 .. MaxInt
      BY UnitsBoughtSmall
    <2>3. simulatePaperFill(pos, row).pos.qty = Wrap(0 + units)
      BY <1>2, <2>1 DEF simulatePaperFill
    <2> HIDE DEF units
    <2>4. 0 + units = units /\ units \in Nat
      BY <1>1, <2>2
    <2>5. Wrap(units) = units
      BY <2>2, WrapsNothing
    <2> QED
      BY <2>3, <2>4, <2>5
  <1>3. CASE row.side # "BUY"
    <2>1. row.qty = pos.qty
      BY <1>3 DEF Fits
    <2>2. simulatePaperFill(pos, row).pos.qty = Wrap(pos.qty - pos.qty)
      BY <1>3, <2>1 DEF simulatePaperFill
    <2>3. pos.qty - pos.qty = 0 /\ 0 \in 0 .. MaxInt
      BY <1>1
    <2>4. Wrap(0) = 0
      BY <2>3, WrapsNothing
    <2> QED
      BY <2>2, <2>3, <2>4
  <1> QED
    BY <1>2, <1>3

-----------------------------------------------------------------------------
(* A step of daemon t changes no row's order and no other pair's position.   *)
KeepsPairs(t) ==
  /\ \A id \in OrderIds : id <= lastId =>
       /\ orders'[id].side = orders[id].side /\ orders'[id].price = orders[id].price
       /\ orders'[id].value = orders[id].value /\ orders'[id].qty = orders[id].qty
  /\ \A s \in Symbols : s # SymbolOf[t] => positions'[s] = positions[s]

LEMMA UnchangedKeepsPairs ==
  ASSUME NEW t \in Traders, UNCHANGED <<orders, positions>> PROVE KeepsPairs(t)
  BY DEF KeepsPairs

LEMMA OthersKeep ==
  ASSUME OneTraderPerPair, TypeOK, StateInv, NEW t \in Traders, KeepsPairs(t),
         NEW u \in Traders, u # t, daemon'[u] = daemon[u], PaperDaemonInv(u)
  PROVE  PaperDaemonInv(u)'
  <1>1. SymbolOf[u] # SymbolOf[t] /\ SymbolOf[u] \in Symbols
    BY TraderAssumption DEF OneTraderPerPair
  <1>2. positions'[SymbolOf[u]] = positions[SymbolOf[u]]
    BY <1>1 DEF KeepsPairs
  <1>3. ASSUME daemon[u].pc \in PaperPC
        PROVE  LET id == daemon[u].cur
               IN /\ orders'[id].side = orders[id].side /\ orders'[id].price = orders[id].price
                  /\ orders'[id].value = orders[id].value /\ orders'[id].qty = orders[id].qty
    BY <1>3, CurRow DEF KeepsPairs
  <1> QED
    BY <1>2, <1>3 DEF PaperDaemonInv, Fits

(* A step that leaves the tables alone and puts daemon t in a state that     *)
(* keeps what it knows.                                                      *)
LEMMA LocalPaper ==
  ASSUME OneTraderPerPair, TypeOK, StateInv, PaperInv, NEW t \in Traders, NEW s, Become(t, s),
         KeepsPairs(t), UNCHANGED positions, PaperDaemonInv(t)'
  PROVE  PaperInv'
  <1>1. \A u \in Traders : u # t => daemon'[u] = daemon[u]
    BY DEF Become, TypeOK
  <1>2. \A u \in Traders : PaperDaemonInv(u)'
    BY <1>1, OthersKeep DEF PaperInv
  <1>3. NeverShort'
    BY DEF PaperInv, NeverShort
  <1> QED
    BY <1>2, <1>3 DEF PaperInv

RestPC == {"down", "idle", "eval", "trip"}

LEMMA RestingPaper ==
  ASSUME OneTraderPerPair, TypeOK, StateInv, PaperInv, NEW t \in Traders, NEW s, Become(t, s),
         s.pc \in RestPC, s.mode = "paper", KeepsPairs(t), UNCHANGED positions
  PROVE  PaperInv'
  <1>1. daemon'[t] = s
    BY DEF Become, TypeOK
  <1>2. PaperDaemonInv(t)'
    BY <1>1 DEF PaperDaemonInv, RestPC, ReconcilePC, LivePC, PaperPC
  <1> QED
    BY <1>2, LocalPaper

LEMMA RestStates ==
  /\ Idle("paper").pc = "idle" /\ Idle("paper").mode = "paper"
  /\ Eval("paper").pc = "eval" /\ Eval("paper").mode = "paper"
  /\ Down.pc = "down" /\ Down.mode = "paper"
  BY DEF Idle, Eval, Down

(* Only paper steps are left to a paper daemon.                              *)
LEMMA PaperSteps ==
  ASSUME PaperInv, NEW t \in Traders, DaemonStep(t)
  PROVE  \/ Start(t) \/ Crash(t) \/ TickStep(t)
         \/ PlaceKillFile(t) \/ PlaceCheck(t) \/ PlaceTripHalt(t) \/ PlaceInsert(t)
         \/ PaperReadPosition(t) \/ PaperApply(t) \/ PlaceError(t)
  <1>1. daemon[t].pc \notin ReconcilePC /\ daemon[t].pc \notin LivePC
    BY DEF PaperInv, PaperDaemonInv
  <1> QED
    BY <1>1
    DEF DaemonStep, ReconcileStep, ListPending, ReadHistory, ReconcileReadPosition,
        ReconcileApply, ReconcileSettle, ReconcileEnd, ReconcileError, PlaceStep, Send,
        SendAnswered, SendFails, SettleRejected, RecordAccepted, At, ReconcilePC, LivePC

-----------------------------------------------------------------------------
LEMMA TickPaper ==
  ASSUME OneTraderPerPair, Modes \subseteq {"paper"}, TypeOK, StateInv, PaperInv,
         NEW t \in Traders, Start(t) \/ Crash(t) \/ TickStep(t)
  PROVE  PaperInv'
  <1> DEFINE d == daemon[t]
             held == positions[SymbolOf[t]].qty
  <1>1. d \in DaemonState /\ d.mode = "paper"
    BY DEF TypeOK, PaperInv, PaperDaemonInv
  <1>2. KeepsPairs(t) /\ UNCHANGED positions
    BY UnchangedKeepsPairs DEF Start, Crash, TickStep, Tick, EvaluateNothing, EvaluateBuy,
                               EvaluateSell, storeVars
  <1>3. CASE Start(t)
    <2>1. PICK m \in Modes :
            Become(t, IF m = "live" THEN [Down EXCEPT !.pc = "list", !.mode = m, !.boot = TRUE]
                      ELSE Idle(m))
      BY <1>3 DEF Start
    <2>2. Become(t, Idle("paper"))
      BY <2>1
    <2> QED
      BY <1>2, <2>2, RestStates, RestingPaper DEF RestPC
  <1>4. CASE Crash(t)
    BY <1>2, <1>4, RestStates, RestingPaper DEF Crash, RestPC
  <1>5. CASE Tick(t)
    <2>1. Become(t, [d EXCEPT !.pc = "eval"])
      BY <1>1, <1>5 DEF Tick
    <2>2. [d EXCEPT !.pc = "eval"].pc = "eval" /\ [d EXCEPT !.pc = "eval"].mode = "paper"
      BY <1>1 DEF DaemonState
    <2> QED
      BY <1>2, <2>1, <2>2, RestingPaper DEF RestPC
  <1>6. CASE EvaluateNothing(t)
    BY <1>1, <1>2, <1>6, RestStates, RestingPaper DEF EvaluateNothing, RestPC
  <1>7. ASSUME NEW in, Become(t, [d EXCEPT !.pc = "place", !.intent = in]), Fits(in, held)
        PROVE  PaperInv'
    <2> DEFINE s == [d EXCEPT !.pc = "place", !.intent = in]
    <2>1. s.pc = "place" /\ s.intent = in /\ s.mode = "paper"
      BY <1>1 DEF DaemonState
    <2>2. daemon'[t] = s /\ positions' = positions
      BY <1>2, <1>7 DEF Become, TypeOK
    <2> HIDE DEF s
    <2>3. PaperDaemonInv(t)'
      BY <1>7, <2>1, <2>2 DEF PaperDaemonInv, ReconcilePC, LivePC, PaperPC
    <2> QED
      BY <1>2, <1>7, <2>3, LocalPaper
  <1>8. CASE EvaluateBuy(t)
    <2>1. PICK p \in Prices :
            Become(t, [d EXCEPT !.pc = "place",
                         !.intent = [side |-> "BUY", price |-> p, value |-> BuyValue, qty |-> 0]])
      BY <1>8 DEF EvaluateBuy
    <2>2. held \in Int /\ held >= 0 /\ held <= 0
      BY <1>8, TraderAssumption, PositionType DEF EvaluateBuy, Position, PaperInv, NeverShort
    <2>3. held = 0
      BY <2>2
    <2>4. Fits([side |-> "BUY", price |-> p, value |-> BuyValue, qty |-> 0], held)
      BY <2>3 DEF Fits
    <2> QED
      BY <1>7, <2>1, <2>4
  <1>9. CASE EvaluateSell(t)
    <2>1. PICK p \in Prices :
            Become(t, [d EXCEPT !.pc = "place",
                         !.intent = [side |-> "SELL", price |-> p, value |-> 0, qty |-> held]])
      BY <1>9 DEF EvaluateSell
    <2>2. Fits([side |-> "SELL", price |-> p, value |-> 0, qty |-> held], held)
      BY DEF Fits
    <2> QED
      BY <1>7, <2>1, <2>2
  <1> QED
    BY <1>3, <1>4, <1>5, <1>6, <1>8, <1>9 DEF TickStep

LEMMA PlaceLocalPaper ==
  ASSUME OneTraderPerPair, TypeOK, StateInv, PaperInv, NEW t \in Traders,
         \/ PlaceKillFile(t) \/ PlaceCheck(t) \/ PlaceTripHalt(t) \/ PlaceError(t)
         \/ PaperReadPosition(t)
  PROVE  PaperInv'
  <1> DEFINE d == daemon[t]
  <1>1. d \in DaemonState /\ d.mode = "paper" /\ PaperDaemonInv(t)
    BY DEF TypeOK, PaperInv, PaperDaemonInv
  <1>2. KeepsPairs(t) /\ UNCHANGED <<positions, orders>>
    BY UnchangedKeepsPairs DEF PlaceKillFile, PlaceCheck, PlaceTripHalt, PlaceError,
                               PaperReadPosition, SetHalted, RiskToday, storeVars
  <1>3. CASE PlaceTripHalt(t) \/ PlaceError(t)
    <2>1. Become(t, Idle("paper"))
      BY <1>1, <1>3 DEF PlaceTripHalt, PlaceError
    <2> QED
      BY <1>2, <2>1, RestStates, RestingPaper DEF RestPC
  <1>4. CASE EarlyStep(t)
    <2>1. PICK s : /\ Become(t, s) /\ s.mode = "paper"
                   /\ \/ s.pc \in {"idle", "trip"}
                      \/ s.pc \in {"risk", "insert"} /\ s.intent = d.intent
      BY <1>1, <1>4, EarlyStates
    <2>2. CASE s.pc \in {"risk", "insert"} /\ s.intent = d.intent
      <3>1. daemon'[t] = s /\ positions' = positions
        BY <1>2, <2>1 DEF Become, TypeOK
      <3>2. d.pc \in {"place", "risk"}
        BY <1>4 DEF EarlyStep, PlaceKillFile, PlaceCheck, At
      <3>3. Fits(d.intent, positions[SymbolOf[t]].qty)
        BY <1>1, <3>2 DEF PaperDaemonInv
      <3>4. PaperDaemonInv(t)'
        BY <2>1, <2>2, <3>1, <3>3 DEF PaperDaemonInv, ReconcilePC, LivePC, PaperPC
      <3> QED
        BY <1>2, <2>1, <3>4, LocalPaper
    <2>3. CASE s.pc \in {"idle", "trip"}
      BY <1>2, <2>1, <2>3, RestingPaper DEF RestPC
    <2> QED
      BY <2>1, <2>2, <2>3
  <1>5. CASE PaperReadPosition(t)
    <2> DEFINE s == [d EXCEPT !.pc = "paperApply", !.pos = positions[SymbolOf[t]]]
    <2>1. d.pc = "paper" /\ Become(t, s)
      BY <1>5 DEF PaperReadPosition, At
    <2>2. s.pc = "paperApply" /\ s.pos = positions[SymbolOf[t]] /\ s.cur = d.cur /\ s.mode = "paper"
      BY <1>1 DEF DaemonState
    <2>3. daemon'[t] = s /\ positions' = positions /\ orders' = orders
      BY <1>2, <2>1 DEF Become, TypeOK
    <2>4. /\ Fits(orders[d.cur], positions[SymbolOf[t]].qty)
          /\ orders[d.cur].price \in Prices
      BY <1>1, <2>1 DEF PaperDaemonInv, PaperPC
    <2> HIDE DEF s
    <2>5. PaperDaemonInv(t)'
      BY <2>2, <2>3, <2>4 DEF PaperDaemonInv, ReconcilePC, LivePC, PaperPC
    <2> QED
      BY <1>2, <2>1, <2>5, LocalPaper
  <1> QED
    BY <1>3, <1>4, <1>5 DEF EarlyStep

LEMMA InsertPaper ==
  ASSUME OneTraderPerPair, TypeOK, StateInv, PaperInv, NEW t \in Traders, PlaceInsert(t)
  PROVE  PaperInv'
  <1> DEFINE d == daemon[t]
             id == lastId + 1
             s == [Down EXCEPT !.pc = "paper", !.mode = d.mode, !.cur = id]
             row == [symbol |-> SymbolOf[t], side |-> d.intent.side, price |-> d.intent.price,
                     qty |-> d.intent.qty, mode |-> d.mode, status |-> "pending",
                     day |-> d.day, value |-> orderValue(d.intent)]
  <1>1. d \in DaemonState /\ d.mode = "paper" /\ d.pc = "insert" /\ PaperDaemonInv(t)
    BY DEF TypeOK, PaperInv, PaperDaemonInv, PlaceInsert, At
  <1>2. /\ lastId < MaxOrders /\ orders' = [orders EXCEPT ![id] = row]
        /\ UNCHANGED positions /\ Become(t, s)
    BY <1>1 DEF PlaceInsert, InsertPending
  <1>3. id \in OrderIds /\ lastId \in Int /\ OrderIds \subseteq Int
    BY <1>2, IdsAreInts, StoreAssumption DEF TypeOK, StoreTypeOK, OrderIds
  <1>4. /\ orders'[id] = row
        /\ \A other \in OrderIds : other # id => orders'[other] = orders[other]
    BY <1>2, <1>3 DEF TypeOK, StoreTypeOK
  <1>5. KeepsPairs(t)
    BY <1>2, <1>3, <1>4 DEF KeepsPairs
  <1>6. d.intent \in Intent /\ Fits(d.intent, positions[SymbolOf[t]].qty)
    BY <1>1 DEF PaperDaemonInv, StateInv, PlacingInv, DaemonState
  <1>7. d.intent.side = "BUY" => orderValue(d.intent) = d.intent.value
    BY DEF orderValue
  <1>8. /\ row.side = d.intent.side /\ row.qty = d.intent.qty /\ row.price = d.intent.price
        /\ row.value = orderValue(d.intent)
    OBVIOUS
  <1>9. s.pc = "paper" /\ s.mode = "paper" /\ s.cur = id
    BY <1>1 DEF Down
  <1> HIDE DEF row, s
  <1>10. Fits(row, positions[SymbolOf[t]].qty) /\ row.price \in Prices
    BY <1>6, <1>7, <1>8 DEF Fits, Intent
  <1>11. daemon'[t] = s
    BY <1>2 DEF Become, TypeOK
  <1>12. PaperDaemonInv(t)'
    BY <1>2, <1>4, <1>9, <1>10, <1>11 DEF PaperDaemonInv, ReconcilePC, LivePC, PaperPC
  <1> QED
    BY <1>2, <1>5, <1>12, LocalPaper

LEMMA ApplyPaper ==
  ASSUME BuyValue * Scale <= MaxInt, OneTraderPerPair, TypeOK, StateInv, PaperInv,
         NEW t \in Traders, PaperApply(t)
  PROVE  PaperInv'
  <1> DEFINE d == daemon[t]
             row == orders[d.cur]
             fill == simulatePaperFill(d.pos, row).pos
  <1>1. d \in DaemonState /\ d.mode = "paper" /\ d.pc = "paperApply" /\ PaperDaemonInv(t)
    BY DEF TypeOK, PaperInv, PaperDaemonInv, PaperApply, At
  <1>2. d.cur \in OrderIds /\ d.cur <= lastId /\ row.symbol = SymbolOf[t]
    BY <1>1, CurRow DEF PaperPC
  <1>3. /\ orders' = [orders EXCEPT ![d.cur] = [@ EXCEPT !.status = "accepted"]]
        /\ positions' = [positions EXCEPT ![SymbolOf[t]] = fill]
        /\ Become(t, Idle("paper"))
    BY <1>1, <1>2 DEF PaperApply, ApplyFill
  <1>4. /\ d.pos = positions[SymbolOf[t]] /\ d.pos \in Position
        /\ Fits(row, d.pos.qty) /\ row.price \in Prices
    BY <1>1 DEF PaperDaemonInv, PaperPC, DaemonState
  <1>5. fill.qty \in Nat
    BY <1>4, FillNotShort
  <1> HIDE DEF fill
  <1>6. SymbolOf[t] \in Symbols /\ positions \in [Symbols -> [qty : Int, avg : Int, pnl : Int]]
    BY TraderAssumption DEF TypeOK, StoreTypeOK
  <1>7. /\ positions'[SymbolOf[t]] = fill
        /\ \A s \in Symbols : s # SymbolOf[t] => positions'[s] = positions[s]
    BY <1>3, <1>6
  <1>8. NeverShort'
    BY <1>5, <1>7 DEF NeverShort, PaperInv
  <1>9. row \in Row
    BY <1>2, RowOfId
  <1>10. /\ orders'[d.cur] = [row EXCEPT !.status = "accepted"]
         /\ \A id \in OrderIds : id # d.cur => orders'[id] = orders[id]
    BY <1>2, <1>3 DEF TypeOK, StoreTypeOK
  <1>11. /\ orders'[d.cur].side = row.side /\ orders'[d.cur].price = row.price
         /\ orders'[d.cur].value = row.value /\ orders'[d.cur].qty = row.qty
    BY <1>9, <1>10 DEF Row, Rows
  <1>12. KeepsPairs(t)
    BY <1>7, <1>10, <1>11 DEF KeepsPairs
  <1>13. daemon'[t] = Idle("paper") /\ \A u \in Traders : u # t => daemon'[u] = daemon[u]
    BY <1>3 DEF Become, TypeOK
  <1>14. PaperDaemonInv(t)'
    BY <1>13, RestStates DEF PaperDaemonInv, ReconcilePC, LivePC, PaperPC
  <1>15. \A u \in Traders : PaperDaemonInv(u)'
    BY <1>12, <1>13, <1>14, OthersKeep DEF PaperInv
  <1> QED
    BY <1>8, <1>15 DEF PaperInv

LEMMA OutsidePaper ==
  ASSUME PaperInv, ExchangeStep \/ OperatorStep \/ NextDay \/ UNCHANGED vars
  PROVE  PaperInv'
  <1>1. UNCHANGED <<daemon, orders, positions>>
    BY DEF ExchangeStep, OperatorStep, Kill, Resume, ToggleKillFile, ReadRisk, NextDay,
           SetHalted, RiskToday, vars, storeVars
  <1> QED
    BY <1>1 DEF PaperInv, NeverShort, PaperDaemonInv, Fits

LEMMA InitPaper == Init => PaperInv
  <1> SUFFICES ASSUME Init PROVE PaperInv
    OBVIOUS
  <1>1. NeverShort
    <2> SUFFICES ASSUME NEW s \in Symbols PROVE positions[s].qty >= 0
      BY DEF NeverShort
    <2>1. positions[s] = [qty |-> 0, avg |-> 0, pnl |-> 0]
      BY DEF Init, StoreInit
    <2>2. positions[s].qty = 0
      BY <2>1
    <2> QED
      BY <2>2, SMT
  <1>2. \A t \in Traders : daemon[t] = Down
    BY DEF Init
  <1> QED
    BY <1>1, <1>2, RestStates DEF PaperInv, PaperDaemonInv, ReconcilePC, LivePC, PaperPC

(* Paper trading never sells more than it holds, for every number of pairs,  *)
(* orders and days, and through crashes and failed writes: the Sell is of    *)
(* the position the tick read (trader.go:158), which only the daemon's own   *)
(* fill (pipeline.go:114) overwrites.                                        *)
THEOREM PaperNeverShort ==
  ASSUME OneTraderPerPair, Modes \subseteq {"paper"}, BuyValue * Scale <= MaxInt
  PROVE  Spec => []NeverShort
  <1>1. Init => PaperInv
    BY InitPaper
  <1>2. (TypeOK /\ StateInv) /\ PaperInv /\ [Next]_vars => PaperInv'
    BY PaperSteps, TickPaper, PlaceLocalPaper, InsertPaper, ApplyPaper, OutsidePaper DEF Next
  <1>3. PaperInv => NeverShort
    BY DEF PaperInv
  <1> QED
    BY <1>1, <1>2, <1>3, TypeCorrect, PTL DEF Spec

-----------------------------------------------------------------------------
(* The loss stop is judged by loss_today: which losses it counts, and when.  *)

(* No realized profit is beyond half the int64 range: the sum of fill.go:78  *)
(* is not tested for overflow.                                               *)
PnlSmall == \A s \in Symbols : Half(positions[s].pnl)

DayLoss == [d \in Days |-> risk[d].loss]

SameLosses == \A d \in Days : risk'[d].loss = risk[d].loss

(* A step books `loss` on `day`, and takes it off a profit as `id` fills.    *)
Books(id, day, loss) ==
  /\ lost' = [lost EXCEPT ![id] = @ + loss]
  /\ \A d \in Days : risk'[d].loss = risk[d].loss + (IF d = day THEN loss ELSE 0)

LEMMA SetsFinite == IsFiniteSet(Days) /\ IsFiniteSet(OrderIds)
  BY StoreAssumption, FS_Interval DEF Days, OrderIds

LEMMA LostNat == ASSUME TypeOK PROVE lost \in [OrderIds -> Nat]
  BY DEF TypeOK, StoreTypeOK

LEMMA UncountedIs ==
  ASSUME TypeOK
  PROVE  Uncounted = SumFunctionOnSet(lost, OrderIds) - SumFunctionOnSet(DayLoss, Days)
  BY LostNat DEF Uncounted, SumFunction, DayLoss

LEMMA UncountedStays ==
  ASSUME lost' = lost, SameLosses PROVE Uncounted' = Uncounted
  <1>1. [d \in Days |-> risk'[d].loss] = [d \in Days |-> risk[d].loss]
    BY DEF SameLosses
  <1> QED
    BY <1>1 DEF Uncounted

(* The steps that take no profit leave the counters of loss as they are.     *)
LEMMA BooksNothing ==
  ASSUME TypeOK, StateInv, DayRows, [Next]_vars,
         \A t \in Traders : ~ReconcileApply(t) /\ ~PaperApply(t)
  PROVE  lost' = lost /\ SameLosses
  <1>1. lost' = lost
    BY DEF Next, DaemonStep, Start, Crash, ReconcileStep, ListPending, ReadHistory,
           ReconcileReadPosition, ReconcileSettle, Settle, ReconcileEnd, ReconcileError,
           TickStep, Tick, EvaluateNothing, EvaluateBuy, EvaluateSell, PlaceStep, PlaceKillFile,
           PlaceCheck, RiskToday, PlaceTripHalt, SetHalted, PlaceInsert, InsertPending,
           PaperReadPosition, Send, SendAnswered, SendFails, SettleRejected, RecordAccepted,
           ApplyFillSkipPosition, PlaceError, ExchangeStep, OperatorStep, Kill, Resume,
           ToggleKillFile, ReadRisk, NextDay, storeVars, vars
  <1>2. ASSUME NEW t \in Traders, RecordAccepted(t) PROVE SameLosses
    <2>1. PICK id \in OrderIds : id = daemon[t].cur /\ id <= lastId
      BY <1>2, CurRow DEF RecordAccepted, At, LivePC
    <2>2. /\ orders[id].day \in Days /\ orders[id].value \in Int /\ 0 \in Int
          /\ risk[orders[id].day].exists
      BY <2>1, RowOfId DEF DayRows
    <2>3. risk' = AddSpentLoss(orders[id].day, orders[id].value, 0)
      BY <1>2, <2>1 DEF RecordAccepted, ApplyFillSkipPosition
    <2>4. \A e \in Days : risk'[e].loss = risk[e].loss + (IF e = orders[id].day THEN 0 ELSE 0)
      BY <2>2, <2>3, AddExact
    <2> QED
      BY <2>4, RiskRows DEF SameLosses
  <1>3. ASSUME NEW t \in Traders, DaemonStep(t), ~RecordAccepted(t) PROVE SameLosses
    <2>1. ~ReconcileApply(t) /\ ~PaperApply(t)
      OBVIOUS
    <2> QED
      BY <1>3, <2>1, DaemonCounters DEF SameCounters, SameLosses
  <1>4. CASE ExchangeStep \/ OperatorStep \/ NextDay \/ UNCHANGED vars
    BY <1>1, <1>4, OutsideCounters DEF SameCounters, SameLosses
  <1>5. ASSUME NEW t \in Traders, DaemonStep(t) PROVE SameLosses
    BY <1>2, <1>3, <1>5
  <1> QED
    <2>1. CASE \E t \in Traders : DaemonStep(t)
      BY <1>1, <1>5, <2>1
    <2> QED
      BY <1>1, <1>4, <2>1 DEF Next

(* A paper fill books what it takes, on the day that admitted its order.     *)
LEMMA PaperBooks ==
  ASSUME TypeOK, StateInv, DayRows, PnlSmall, PnlSmall', NEW t \in Traders, PaperApply(t),
         daemon[t].pos = positions[SymbolOf[t]]
  PROVE  \E id \in OrderIds, loss \in Nat : id <= lastId /\ Books(id, orders[id].day, loss)
  <1> DEFINE d == daemon[t]
             s == SymbolOf[t]
  <1>1. d.pc \in PaperPC
    BY DEF PaperApply, At, PaperPC
  <1>2. PICK id \in OrderIds : id = d.cur /\ id <= lastId /\ orders[id].symbol = s
    BY <1>1, CurRow
  <1>3. d.pos \in Position /\ s \in Symbols
    BY TraderAssumption DEF TypeOK, DaemonState
  <1>4. /\ orders[id].value \in Int /\ orders[id].qty \in Int
        /\ orders[id].price \in Int /\ orders[id].price > 0 /\ orders[id].day \in Days
    BY <1>2, RowOfId
  <1>5. risk[orders[id].day].exists
    BY <1>2 DEF DayRows
  <1> DEFINE sim == simulatePaperFill(d.pos, orders[id])
             loss == LossOf(d.pos, sim.pos)
  <1>6. sim.pos \in Position /\ sim.spent \in Int
    BY <1>3, <1>4, PaperFillType
  <1>7. /\ positions' = [positions EXCEPT ![s] = sim.pos]
        /\ risk' = AddSpentLoss(orders[id].day, sim.spent, loss)
        /\ lost' = [lost EXCEPT ![id] = @ + Drop(positions[s], sim.pos)]
    BY <1>2 DEF PaperApply, ApplyFill
  <1>8. positions'[s] = sim.pos
    BY <1>3, <1>7 DEF TypeOK, StoreTypeOK
  <1>9. Half(d.pos.pnl) /\ Half(sim.pos.pnl)
    BY <1>3, <1>8 DEF PnlSmall
  <1> HIDE DEF sim
  <1>10. loss = Drop(positions[s], sim.pos)
    BY <1>3, <1>6, <1>9, PaperLossIs DEF Drop
  <1>11. loss \in Nat
    <2>1. d.pos.pnl \in Int /\ sim.pos.pnl \in Int
      BY <1>3, <1>6 DEF Position
    <2> QED
      BY <1>3, <1>10, <2>1 DEF Drop
  <1> HIDE DEF loss
  <1>12. \A e \in Days : risk'[e].loss = risk[e].loss + (IF e = orders[id].day THEN loss ELSE 0)
    BY <1>4, <1>5, <1>6, <1>7, <1>11, AddExact
  <1> QED
    BY <1>2, <1>7, <1>10, <1>11, <1>12 DEF Books

(* So does a reconciled fill, on the day Reconcile captured, if it has a row.*)
LEMMA ReconcileBooks ==
  ASSUME TypeOK, StateInv, PositionInv, PnlSmall, PnlSmall', NEW t \in Traders,
         ReconcileApply(t), risk[daemon[t].day].exists
  PROVE  \/ lost' = lost /\ SameLosses
         \/ \E id \in OrderIds, day \in Days, loss \in Nat : Books(id, day, loss)
  <1> DEFINE d == daemon[t]
             s == SymbolOf[t]
  <1>1. d.pc = "apply" /\ d.cur \in d.todo
    BY DEF ReconcileApply, At, StateInv, ReconcilingInv
  <1>2. PICK id \in OrderIds :
          id = d.cur /\ orders[id].symbol = s /\ book[id] \in Taken
    BY <1>1, TodoRow DEF StateInv, ReconcilingInv, Reconcilable, LiveRow
  <1>3. d.pos \in Position /\ d.pos = positions[s] /\ s \in Symbols /\ d.day \in Days
    BY <1>1, TraderAssumption DEF TypeOK, DaemonState, PositionInv, ReadsCurrent
  <1>4. book[id].executed \in Int /\ book[id].avg \in Int
    BY <1>2 DEF Taken
  <1> DEFINE fill == computeFill(d.pos, orders[id].side, book[id].executed, book[id].avg)
  <1>5. CASE UNCHANGED storeVars
    BY <1>5 DEF storeVars, SameLosses
  <1>6. CASE fill.ok /\ ApplyFill(id, d.day, fill.pos, 0, fill.loss)
    <2>1. fill.pos \in Position /\ fill.loss \in Int
      BY <1>3, <1>4, FillType
    <2>2. /\ positions' = [positions EXCEPT ![s] = fill.pos]
          /\ risk' = AddSpentLoss(d.day, 0, fill.loss)
          /\ lost' = [lost EXCEPT ![id] = @ + Drop(positions[s], fill.pos)]
      BY <1>2, <1>6 DEF ApplyFill
    <2>3. positions'[s] = fill.pos
      BY <1>3, <2>2 DEF TypeOK, StoreTypeOK
    <2>4. Half(d.pos.pnl) /\ Half(fill.pos.pnl)
      BY <1>3, <2>3 DEF PnlSmall
    <2> DEFINE pos == d.pos
               side == orders[id].side
               units == book[id].executed
               price == book[id].avg
    <2>5. /\ pos \in Position /\ units \in Int /\ price \in Int
          /\ fill = computeFill(pos, side, units, price) /\ Half(pos.pnl)
      BY <1>3, <1>4, <2>4
    <2> HIDE DEF fill, pos, side, units, price
    <2>6. fill.loss = IF fill.pos.pnl < pos.pnl THEN pos.pnl - fill.pos.pnl ELSE 0
      BY <2>4, <2>5, LiveLossIs
    <2>7. fill.loss = Drop(positions[s], fill.pos)
      BY <1>3, <2>6 DEF pos, Drop
    <2>8. fill.loss \in Nat
      <3>1. pos.pnl \in Int /\ fill.pos.pnl \in Int
        BY <2>1, <2>5 DEF Position
      <3> QED
        BY <2>6, <3>1
    <2>9. \A e \in Days : risk'[e].loss = risk[e].loss + (IF e = d.day THEN fill.loss ELSE 0)
      <3>1. 0 \in Int
        OBVIOUS
      <3> QED
        BY <1>3, <2>1, <2>2, <3>1, AddExact
    <2>10. Books(id, d.day, fill.loss)
      BY <2>2, <2>7, <2>9 DEF Books
    <2> QED
      BY <1>3, <2>8, <2>10
  <1> QED
    BY <1>2, <1>5, <1>6 DEF ReconcileApply

(* A loss that is booked is not uncounted.                                   *)
LEMMA BookedIsCounted ==
  ASSUME TypeOK, TypeOK', NEW id \in OrderIds, NEW day \in Days, NEW loss \in Nat,
         Books(id, day, loss)
  PROVE  Uncounted' = Uncounted
  <1> DEFINE p == lost
             q == lost'
             k == DayLoss
             l == DayLoss'
  <1>1. p \in [OrderIds -> Nat] /\ q \in [OrderIds -> Nat]
    BY DEF TypeOK, StoreTypeOK
  <1>2. /\ q[id] - p[id] = loss /\ \A x \in OrderIds : x # id => q[x] = p[x]
        /\ \A x \in OrderIds : p[x] \in Int /\ q[x] \in Int
    BY <1>1 DEF Books
  <1>3. \A d \in Days : k[d] \in Int /\ l[d] = k[d] + (IF d = day THEN loss ELSE 0)
    BY RiskRows DEF DayLoss, Books
  <1>4. \A d \in Days : l[d] \in Int
    BY <1>3
  <1>5. l[day] - k[day] = loss /\ \A d \in Days : d # day => l[d] = k[d]
    BY <1>3
  <1>6. /\ Uncounted = SumFunctionOnSet(p, OrderIds) - SumFunctionOnSet(k, Days)
        /\ Uncounted' = SumFunctionOnSet(q, OrderIds) - SumFunctionOnSet(l, Days)
    BY <1>1, UncountedIs DEF Uncounted, SumFunction, DayLoss
  <1> HIDE DEF p, q, k, l
  <1>7. SumFunctionOnSet(q, OrderIds) = SumFunctionOnSet(p, OrderIds) + (q[id] - p[id])
    BY <1>2, SetsFinite, SumChange
  <1>8. SumFunctionOnSet(l, Days) = SumFunctionOnSet(k, Days) + (l[day] - k[day])
    BY <1>3, <1>4, <1>5, SetsFinite, SumChange
  <1>9. SumFunctionOnSet(p, OrderIds) \in Int /\ SumFunctionOnSet(k, Days) \in Int
    BY <1>2, <1>3, SetsFinite, SumInt
  <1> QED
    BY <1>2, <1>5, <1>6, <1>7, <1>8, <1>9

LEMMA LosesOnRowlessDay ==
  ASSUME TypeOK, StateInv, PositionInv, DayRows, PnlSmall, PnlSmall', [Next]_vars,
         Uncounted' # Uncounted
  PROVE  \E t \in Traders : ReconcileApply(t) /\ ~risk[daemon[t].day].exists
  <1>1. TypeOK'
    BY NextType
  <1>2. PICK t \in Traders : ReconcileApply(t) \/ PaperApply(t)
    BY BooksNothing, UncountedStays
  <1>3. CASE PaperApply(t)
    <2>1. daemon[t].pos = positions[SymbolOf[t]]
      BY <1>3 DEF PaperApply, At, PositionInv, ReadsCurrent
    <2>2. PICK id \in OrderIds, loss \in Nat : id <= lastId /\ Books(id, orders[id].day, loss)
      BY <1>3, <2>1, PaperBooks
    <2>3. orders[id].day \in Days
      BY <2>2, RowOfId
    <2> QED
      BY <1>1, <2>2, <2>3, BookedIsCounted
  <1>4. CASE ReconcileApply(t)
    BY <1>1, <1>4, ReconcileBooks, UncountedStays, BookedIsCounted
  <1> QED
    BY <1>2, <1>3, <1>4

(* With one daemon per pair, while the realized profits stay within half the *)
(* int64 range: whatever crashes, fails or is stale, paper and live, the one *)
(* step that takes a profit without counting the loss is a Reconcile that    *)
(* books on a day without a risk row (reconcile.go:54, store.go:136).  Run   *)
(* FindLoss shows that this step is taken.                                   *)
THEOREM OnlyRowlessLossesEscape ==
  ASSUME OneTraderPerPair
  PROVE  Spec /\ []PnlSmall => OnlyRowlessDaysLose
  <1> DEFINE Inv == Owners /\ PositionInv /\ DayRows
             Escapes == Uncounted' # Uncounted =>
               \E t \in Traders : ReconcileApply(t) /\ ~risk[daemon[t].day].exists
  <1>1. Init => Inv
    BY InitOwner, InitPosition, InitSpend
  <1>2. (TypeOK /\ StateInv) /\ Inv /\ [Next]_vars => Inv'
    BY NextOwner, NextPosition, NextDayRows
  <1>3. (TypeOK /\ StateInv) /\ Inv /\ PnlSmall /\ PnlSmall' /\ [Next]_vars => Escapes
    BY LosesOnRowlessDay
  <1>4. OnlyRowlessDaysLose <=> [][Escapes]_vars
    BY DEF OnlyRowlessDaysLose
  <1> HIDE DEF Inv, Escapes
  <1> QED
    BY <1>1, <1>2, <1>3, <1>4, TypeCorrect, PTL DEF Spec

-----------------------------------------------------------------------------
(* In paper trading every day counts the losses of its own orders.           *)

(* Only rows that were handed out lost anything.                             *)
LostInv ==
  /\ \A id \in OrderIds : id > lastId => lost[id] = 0
  /\ LossesOnTheirDay

LEMMA LedgerIs ==
  ASSUME StateInv, NEW d
  PROVE  Ledger(d) = {id \in OrderIds : ~(id > lastId) /\ orders[id].day = d}
  BY DEF StateInv, RowInv, Ledger

LEMMA LedgerFinite == ASSUME NEW d PROVE IsFiniteSet(Ledger(d)) /\ Ledger(d) \subseteq OrderIds
  <1>1. Ledger(d) \subseteq OrderIds
    BY DEF Ledger
  <1> QED
    BY <1>1, SetsFinite, FS_Subset

(* A step that inserts nothing leaves the ledger of each day.                *)
LEMMA LedgerStays ==
  ASSUME TypeOK, StateInv, [Next]_vars, lastId' = lastId, NEW d \in Days
  PROVE  Ledger(d)' = Ledger(d)
  <1>1. StateInv'
    BY NextInv
  <1>2. \A id \in OrderIds : ~(id > lastId) => orders'[id].day = orders[id].day
    <2>1. \A id \in OrderIds : ~(id > lastId) => id <= lastId
      BY IdsAreInts
    <2> QED
      BY <2>1, StepKeepsTerms DEF SameTerms
  <1>3. Ledger(d)' = {id \in OrderIds : ~(id > lastId) /\ orders'[id].day = d}
    BY <1>1 DEF StateInv, RowInv, Ledger
  <1> QED
    BY <1>2, <1>3, LedgerIs

LEMMA PaperBooksAll ==
  ASSUME TypeOK, StateInv, DayRows, PaperInv, PnlSmall, PnlSmall', LostInv,
         NEW t \in Traders, PaperApply(t)
  PROVE  LostInv'
  <1>1. /\ [Next]_vars /\ lastId' = lastId
        /\ daemon[t].pos = positions[SymbolOf[t]]
    BY DEF Next, DaemonStep, PlaceStep, PaperApply, ApplyFill, At, PaperInv, PaperDaemonInv
  <1>2. PICK id \in OrderIds, loss \in Nat : id <= lastId /\ Books(id, orders[id].day, loss)
    BY <1>1, PaperBooks
  <1>3. ~(id > lastId)
    BY <1>2, IdsAreInts
  <1>4. lost \in [OrderIds -> Nat]
    BY LostNat
  <1>5. /\ \A x \in OrderIds : x # id => lost'[x] = lost[x]
        /\ \A x \in OrderIds : lost[x] \in Int /\ lost'[x] \in Int
        /\ lost'[id] - lost[id] = loss
    BY <1>2, <1>4 DEF Books
  <1>6. ASSUME NEW d \in Days PROVE risk'[d].loss = SumFunctionOnSet(lost', Ledger(d)')
    <2> DEFINE L == Ledger(d)
    <2>1. /\ Ledger(d)' = L /\ IsFiniteSet(L) /\ L \subseteq OrderIds
          /\ risk[d].loss = SumFunctionOnSet(lost, L) /\ (id \in L <=> orders[id].day = d)
      BY <1>1, <1>3, LedgerStays, LedgerFinite, LedgerIs DEF LostInv, LossesOnTheirDay
    <2>2. risk'[d].loss = risk[d].loss + (IF d = orders[id].day THEN loss ELSE 0)
      BY <1>2 DEF Books
    <2> HIDE DEF L
    <2>3. CASE id \in L
      <3>1. SumFunctionOnSet(lost', L) = SumFunctionOnSet(lost, L) + (lost'[id] - lost[id])
        BY <1>5, <2>1, <2>3, SumChange
      <3> QED
        BY <1>5, <2>1, <2>2, <2>3, <3>1
    <2>4. CASE id \notin L
      <3>1. \A x \in L : lost'[x] = lost[x]
        BY <1>5, <2>1, <2>4
      <3>2. SumFunctionOnSet(lost', L) = SumFunctionOnSet(lost, L)
        BY <2>1, <3>1, SumSame
      <3>3. risk[d].loss \in Int
        BY RiskRows
      <3> QED
        BY <2>1, <2>2, <2>4, <3>2, <3>3
    <2> QED
      BY <2>3, <2>4
  <1>7. \A x \in OrderIds : x > lastId' => lost'[x] = 0
    BY <1>1, <1>3, <1>5 DEF LostInv
  <1> QED
    BY <1>6, <1>7 DEF LostInv, LossesOnTheirDay

LEMMA InsertLosesNothing ==
  ASSUME TypeOK, StateInv, LostInv, NEW t \in Traders, PlaceInsert(t) PROVE LostInv'
  <1>1. PICK n \in OrderIds :
          /\ n = lastId + 1 /\ lastId' = n
          /\ \A id \in OrderIds : id # n => orders'[id] = orders[id]
    BY InsertedRowIs
  <1>2. lost' = lost /\ risk' = risk /\ [Next]_vars
    BY DEF PlaceInsert, InsertPending, Next, DaemonStep, PlaceStep
  <1>3. StateInv'
    BY <1>2, NextInv
  <1>4. /\ lastId \in Int /\ n > lastId
        /\ \A id \in OrderIds : ~(id > lastId') <=> (~(id > lastId) \/ id = n)
    BY <1>1, IdsAreInts
  <1>5. lost[n] = 0 /\ \A id \in OrderIds : lost[id] \in Int
    BY <1>4, LostNat DEF LostInv
  <1>6. ASSUME NEW d \in Days PROVE risk'[d].loss = SumFunctionOnSet(lost', Ledger(d)')
    <2> DEFINE L == Ledger(d)
    <2>1. IsFiniteSet(L) /\ L \subseteq OrderIds /\ n \notin L
      BY <1>4, LedgerFinite, LedgerIs
    <2>2. Ledger(d)' = {id \in OrderIds : ~(id > lastId') /\ orders'[id].day = d}
      BY <1>3 DEF StateInv, RowInv, Ledger
    <2>3. L = {id \in OrderIds : ~(id > lastId) /\ orders[id].day = d}
      BY LedgerIs
    <2>4. \A id \in OrderIds : id # n => (id \in Ledger(d)' <=> id \in L)
      BY <1>1, <1>4, <2>2, <2>3
    <2>5. Ledger(d)' = L \/ Ledger(d)' = L \cup {n}
      BY <2>1, <2>2, <2>4
    <2>6. risk[d].loss = SumFunctionOnSet(lost, L)
      BY DEF LostInv, LossesOnTheirDay
    <2> HIDE DEF L
    <2>7. SumFunctionOnSet(lost, L \cup {n}) = SumFunctionOnSet(lost, L) + lost[n]
      BY <1>5, <2>1, SumAdd
    <2>8. SumFunctionOnSet(lost, L) \in Int
      BY <1>5, <2>1, SumInt
    <2>9. SumFunctionOnSet(lost, Ledger(d)') = risk[d].loss
      <3>1. CASE Ledger(d)' = L
        BY <2>6, <3>1
      <3>2. CASE Ledger(d)' = L \cup {n}
        BY <1>5, <2>6, <2>7, <2>8, <3>2
      <3> QED
        BY <2>5, <3>1, <3>2
    <2> QED
      BY <1>2, <2>9
  <1>7. \A id \in OrderIds : id > lastId' => lost'[id] = 0
    BY <1>2, <1>4 DEF LostInv
  <1> QED
    BY <1>6, <1>7 DEF LostInv, LossesOnTheirDay

LEMMA NextLost ==
  ASSUME TypeOK, StateInv, DayRows, PaperInv, PnlSmall, PnlSmall', LostInv, [Next]_vars
  PROVE  LostInv'
  <1>1. \A t \in Traders : ~ReconcileApply(t)
    BY DEF PaperInv, PaperDaemonInv, ReconcilePC, ReconcileApply, At
  <1>2. CASE \E t \in Traders : PaperApply(t) \/ PlaceInsert(t)
    BY <1>2, PaperBooksAll, InsertLosesNothing
  <1>3. CASE ~\E t \in Traders : PaperApply(t) \/ PlaceInsert(t)
    <2>1. lost' = lost /\ SameLosses
      BY <1>1, <1>3, BooksNothing
    <2>2. lastId' = lastId
      <3>1. CASE \E t \in Traders : DaemonStep(t)
        BY <1>3, <3>1, IdOfInsert
      <3>2. CASE ExchangeStep \/ OperatorStep \/ NextDay \/ UNCHANGED vars
        BY <3>2 DEF ExchangeStep, OperatorStep, Kill, Resume, ToggleKillFile, ReadRisk, SetHalted,
                    RiskToday, NextDay, vars, storeVars
      <3> QED
        BY <3>1, <3>2 DEF Next
    <2>3. \A d \in Days : Ledger(d)' = Ledger(d)
      BY <2>2, LedgerStays
    <2> QED
      BY <2>1, <2>2, <2>3 DEF LostInv, LossesOnTheirDay, SameLosses
  <1> QED
    BY <1>2, <1>3

LEMMA InitLost == Init => LostInv
  <1> SUFFICES ASSUME Init PROVE LostInv
    OBVIOUS
  <1>1. \A id \in OrderIds : lost[id] = 0 /\ orders[id].status = "none"
    BY DEF Init, StoreInit, NoRow
  <1>2. \A d \in Days : risk[d].loss = 0 /\ Ledger(d) = {}
    BY <1>1 DEF Ledger, Init, StoreInit, NewRisk
  <1> QED
    BY <1>1, <1>2, SumEmpty DEF LostInv, LossesOnTheirDay

(* In paper trading with one daemon per pair, while the realized profits     *)
(* stay within half the int64 range: loss_today is, on every day, exactly    *)
(* what the orders admitted that day lost (pipeline.go:121), also when the   *)
(* fill is written after midnight and whatever fails.  Place reads the day's *)
(* risk row before it inserts, so the row is there when the loss is added.   *)
THEOREM PaperLossesOnTheirDay ==
  ASSUME OneTraderPerPair, Modes \subseteq {"paper"}, BuyValue * Scale <= MaxInt
  PROVE  Spec /\ []PnlSmall => []LossesOnTheirDay
  <1> DEFINE Inv == PaperInv /\ DayRows /\ LostInv
  <1>1. Init => Inv
    BY InitPaper, InitSpend, InitLost
  <1>2. (TypeOK /\ StateInv) /\ PnlSmall /\ PnlSmall' /\ Inv /\ [Next]_vars => Inv'
    <2>1. (TypeOK /\ StateInv) /\ PaperInv /\ [Next]_vars => PaperInv'
      BY PaperSteps, TickPaper, PlaceLocalPaper, InsertPaper, ApplyPaper, OutsidePaper DEF Next
    <2> QED
      BY <2>1, NextDayRows, NextLost
  <1>3. Inv => LossesOnTheirDay
    BY DEF LostInv
  <1> HIDE DEF Inv
  <1> QED
    BY <1>1, <1>2, <1>3, TypeCorrect, PTL DEF Spec

-----------------------------------------------------------------------------
(* One state of the table of candles moves a position at most once.          *)

SignalTypeOK ==
  /\ closes \in Seq(Prices) /\ version \in Nat
  /\ view \in [Traders -> [version : Nat, closes : Seq(Prices)]]
  /\ actedOn \in [OrderIds -> Nat]

LEMMA UnreadType == Unread \in [version : Nat, closes : Seq(Prices)]
  BY DEF Unread

LEMMA SignalSteps == SignalNext => [Next]_vars
  BY DEF SignalNext, TableChanges, SignalStep, ListCandles, Decide, SignalBuy, SignalSell,
         SignalNothing, OtherStep, Next, DaemonStep, TickStep

LEMMA SignalTypes ==
  ASSUME TypeOK, SignalTypeOK, [SignalNext]_allVars PROVE SignalTypeOK'
  <1>1. CASE UNCHANGED signalVars
    BY <1>1 DEF signalVars, SignalTypeOK
  <1>2. CASE TableChanges
    <2>1. PICK p \in Prices :
            \/ closes # << >> /\ closes' = [closes EXCEPT ![Len(closes)] = p]
            \/ closes' = Append(closes, p)
            \/ closes # << >> /\ closes' = Tail(closes)
      BY <1>2 DEF TableChanges
    <2>2. closes \in Seq(Prices) /\ (closes # << >> => Len(closes) \in 1 .. Len(closes))
      BY LenProperties, EmptySeq DEF SignalTypeOK
    <2>3. closes # << >> => Tail(closes) \in Seq(Prices)
      BY <2>2, HeadTailProperties
    <2>4. closes' \in Seq(Prices)
      BY <2>1, <2>2, <2>3, ExceptSeq, AppendProperties
    <2> QED
      BY <1>2, <2>4 DEF TableChanges, SignalTypeOK
  <1>3. ASSUME NEW t \in Traders, ListCandles(t) PROVE SignalTypeOK'
    BY <1>3 DEF ListCandles, SignalTypeOK
  <1>4. ASSUME NEW t \in Traders, KeepView(t) PROVE SignalTypeOK'
    <2>1. view'[t] \in [version : Nat, closes : Seq(Prices)] /\ view[t].version \in Nat
      BY <1>4, UnreadType DEF KeepView, SignalTypeOK
    <2>2. view' \in [Traders -> [version : Nat, closes : Seq(Prices)]]
      BY <1>4, <2>1 DEF KeepView, SignalTypeOK
    <2>3. actedOn' \in [OrderIds -> Nat]
      BY <1>4, <2>1 DEF KeepView, SignalTypeOK
    <2> QED
      BY <1>4, <2>2, <2>3 DEF KeepView, SignalTypeOK
  <1> QED
    BY <1>1, <1>2, <1>3, <1>4 DEF SignalNext, SignalStep, allVars

(* What a step of daemon t leaves of the views and of the rows' memory.      *)
LEMMA KeptViews ==
  ASSUME TypeOK, StateInv, Owners, SignalTypeOK, NEW t \in Traders, DaemonStep(t), KeepView(t)
  PROVE  /\ closes' = closes /\ version' = version
         /\ \A u \in Traders : u # t => view'[u] = view[u]
         /\ view'[t] = IF daemon'[t].pc \in {"idle", "down"} THEN Unread ELSE view[t]
         /\ \A id \in OrderIds : id <= lastId => actedOn'[id] = actedOn[id]
         /\ PlaceInsert(t) => actedOn'[lastId + 1] = view[t].version
  <1>1. CASE PlaceInsert(t)
    <2>1. PICK n \in OrderIds : n = lastId + 1 /\ n = lastId' /\ lastId' # lastId
            /\ \A id \in OrderIds : id <= lastId => id # n
      BY <1>1, InsertedRowIs, IdsAreInts
    <2>2. actedOn' = [actedOn EXCEPT ![n] = view[t].version]
      BY <2>1 DEF KeepView
    <2> QED
      BY <2>1, <2>2 DEF KeepView, SignalTypeOK
  <1>2. CASE ~PlaceInsert(t)
    BY <1>2, IdOfInsert DEF KeepView, SignalTypeOK
  <1> QED
    BY <1>1, <1>2

(* A step that fills nothing leaves the applied orders what they were.       *)
LEMMA AppliedStays ==
  ASSUME TypeOK, StateInv, Owners, [Next]_vars, applied' = applied, NEW s
  PROVE  AppliedTo(s)' = AppliedTo(s)
  <1>1. \A id \in OrderIds : applied[id] > 0 => orders'[id].symbol = orders[id].symbol
    BY AppliedRow, StepKeepsTerms DEF SameTerms
  <1> QED
    BY <1>1 DEF AppliedTo

(* What the strategy said of the candles a daemon has listed.                *)
LEMMA SignalIs == ASSUME NEW t \in Traders PROVE Signal(t) = Says(view[t].closes)
  BY DEF Signal, Says

LEMMA TableStepKeeps ==
  ASSUME SignalTypeOK, FillInv, TableChanges PROVE FillInv'
  <1>1. /\ UNCHANGED <<orders, positions, applied, daemon, view, actedOn>>
        /\ version' = version + 1 /\ version \in Nat
    BY DEF TableChanges, vars, storeVars, SignalTypeOK
  <1>2. \A s : AppliedTo(s)' = AppliedTo(s)
    BY <1>1 DEF AppliedTo
  <1>3. \A t \in Traders : view[t].version \in Nat
    BY DEF SignalTypeOK
  <1>4. \A s, id : id \in AppliedTo(s) => actedOn[id] \in Nat
    BY DEF AppliedTo, SignalTypeOK
  <1>5. ViewInv'
    BY <1>1, <1>3 DEF FillInv, ViewInv
  <1>6. TableInv'
    BY <1>1, <1>2, <1>4 DEF FillInv, TableInv
  <1>7. ListedInv'
    BY <1>1, <1>2 DEF FillInv, ListedInv, Heeded
  <1>8. ActingInv'
    BY <1>1, <1>2 DEF FillInv, ActingInv, ActsOn, Signal
  <1>9. OneFillPerTable'
    BY <1>1 DEF FillInv, OneFillPerTable
  <1> QED
    BY <1>5, <1>6, <1>7, <1>8, <1>9 DEF FillInv

LEMMA ListStepKeeps ==
  ASSUME TypeOK, SignalTypeOK, FillInv, NEW t \in Traders, ListCandles(t) PROVE FillInv'
  <1>1. /\ UNCHANGED <<orders, positions, applied, daemon, closes, version, actedOn>>
        /\ daemon[t].pc = "eval"
    BY DEF ListCandles, At, vars, storeVars
  <1>2. /\ view'[t].version = version /\ view'[t].closes = closes
        /\ \A u \in Traders : u # t => view'[u] = view[u]
    BY DEF ListCandles, SignalTypeOK
  <1>3. \A s : AppliedTo(s)' = AppliedTo(s)
    BY <1>1 DEF AppliedTo
  <1>4. version \in Nat /\ \A u \in Traders : SymbolOf[u] \in Symbols
    BY TraderAssumption DEF SignalTypeOK
  <1>5. ViewInv'
    BY <1>1, <1>2, <1>4 DEF FillInv, ViewInv
  <1>6. TableInv'
    BY <1>1, <1>3 DEF FillInv, TableInv, Heeded
  <1>7. \A id \in AppliedTo(SymbolOf[t]) :
          actedOn[id] <= version /\ (actedOn[id] = version => Heeded(SymbolOf[t], closes))
    BY <1>4 DEF FillInv, TableInv
  <1>8. \A cs : Heeded(SymbolOf[t], cs)' = Heeded(SymbolOf[t], cs)
    BY <1>1 DEF Heeded
  <1>9. ListedInv'
    BY <1>1, <1>2, <1>3, <1>7 DEF FillInv, ListedInv, Heeded
  <1>10. ActingInv'
    BY <1>1, <1>2, <1>3 DEF FillInv, ActingInv, ActsOn, Signal, PaperPC
  <1>11. OneFillPerTable'
    BY <1>1 DEF FillInv, OneFillPerTable
  <1> QED
    BY <1>5, <1>6, <1>9, <1>10, <1>11 DEF FillInv

LEMMA OutsideKeepsFills ==
  ASSUME FillInv, UNCHANGED signalVars,
         ExchangeStep \/ OperatorStep \/ NextDay \/ UNCHANGED vars
  PROVE  FillInv'
  <1>1. UNCHANGED <<orders, positions, applied, daemon, closes, version, view, actedOn>>
    BY DEF ExchangeStep, OperatorStep, Kill, Resume, ToggleKillFile, ReadRisk, NextDay,
           SetHalted, RiskToday, vars, storeVars, signalVars
  <1> QED
    BY <1>1 DEF FillInv, ViewInv, TableInv, ListedInv, ActingInv, ActsOn, Signal, Heeded,
                AppliedTo, OneFillPerTable

(* A step of daemon t that fills nothing keeps all but, perhaps, what t      *)
(* itself acts on.                                                           *)
ActingOn(t) ==
  /\ daemon[t].pc \in {"place", "risk", "insert"} => ActsOn(t, daemon[t].intent.side)
  /\ daemon[t].pc \in PaperPC =>
       ActsOn(t, orders[daemon[t].cur].side) /\ actedOn[daemon[t].cur] = view[t].version

LEMMA UnfilledStep ==
  ASSUME TypeOK, StateInv, Owners, SignalTypeOK, FillInv, NEW t \in Traders, DaemonStep(t),
         KeepView(t), ~ReconcileApply(t), ~PaperApply(t), ActingOn(t)'
  PROVE  FillInv'
  <1>1. UNCHANGED <<positions, applied, closes, version>>
    BY OtherStepsPosition, KeptViews
  <1>2. [Next]_vars
    BY DEF Next
  <1>3. \A s : AppliedTo(s)' = AppliedTo(s)
    BY <1>1, <1>2, AppliedStays
  <1>4. \A s, id : id \in AppliedTo(s) => id \in OrderIds /\ id <= lastId
    BY AppliedRow DEF AppliedTo
  <1>5. \A s, id : id \in AppliedTo(s) => actedOn'[id] = actedOn[id]
    BY <1>4, KeptViews
  <1>6. \A u \in Traders : view'[u] = view[u] \/ view'[u] = Unread
    BY KeptViews
  <1>7. \A s, cs : Heeded(s, cs)' = Heeded(s, cs)
    BY <1>1 DEF Heeded
  <1>8. ViewInv'
    BY <1>1, <1>6 DEF FillInv, ViewInv
  <1>9. TableInv'
    BY <1>1, <1>3, <1>5 DEF FillInv, TableInv, Heeded
  <1>10. ListedInv'
    BY <1>1, <1>3, <1>5, <1>6 DEF FillInv, ListedInv, Heeded
  <1>11. ASSUME NEW u \in Traders, u # t PROVE ActingOn(u)'
    <2>1. daemon'[u] = daemon[u] /\ view'[u] = view[u] /\ ActingOn(u)
      BY <1>11, OthersStay, KeptViews DEF FillInv, ActingInv, ActingOn
    <2>2. \A side : ActsOn(u, side) => ActsOn(u, side)'
      BY <1>3, <1>5, <2>1 DEF ActsOn, Signal
    <2>3. ASSUME daemon[u].pc \in PaperPC
          PROVE  /\ orders'[daemon[u].cur].side = orders[daemon[u].cur].side
                 /\ actedOn'[daemon[u].cur] = actedOn[daemon[u].cur]
      BY <1>2, <2>3, CurRow, StepKeepsTerms, KeptViews DEF SameTerms
    <2> QED
      BY <2>1, <2>2, <2>3 DEF ActingOn
  <1>12. ActingInv'
    BY <1>11 DEF ActingInv, ActingOn
  <1>13. OneFillPerTable'
    <2> SUFFICES ASSUME NEW i \in OrderIds, NEW j \in OrderIds, applied[i] > 0, applied[j] > 0,
                        orders'[i].symbol = orders'[j].symbol, actedOn'[i] = actedOn'[j]
                 PROVE  i = j
      BY <1>1 DEF OneFillPerTable
    <2>1. SameTerms(i) /\ SameTerms(j)
      BY <1>2, AppliedRow, StepKeepsTerms
    <2>2. actedOn'[i] = actedOn[i] /\ actedOn'[j] = actedOn[j]
      BY AppliedRow, KeptViews
    <2> QED
      BY <2>1, <2>2 DEF SameTerms, FillInv, OneFillPerTable
  <1> QED
    BY <1>8, <1>9, <1>10, <1>12, <1>13 DEF FillInv

LEMMA RestActs ==
  ASSUME TypeOK, NEW t \in Traders, NEW s, Become(t, s), s.pc \in RestPC PROVE ActingOn(t)'
  <1>1. daemon'[t].pc \in RestPC
    BY BecomeIs
  <1> QED
    BY <1>1 DEF ActingOn, RestPC, PaperPC

(* A side the strategy asks for and the position has not seen is a side the  *)
(* candles listed have not moved the position to yet.                        *)
LEMMA FreshSignal ==
  ASSUME SignalTypeOK, FillInv, NEW t \in Traders, view[t] # Unread, NEW side,
         Signal(t) = IF side = "BUY" THEN "Buy" ELSE "Sell",
         ~Heeded(SymbolOf[t], view[t].closes)
  PROVE  ActsOn(t, side)
  <1>1. ASSUME NEW id \in AppliedTo(SymbolOf[t]) PROVE actedOn[id] < view[t].version
    <2>1. actedOn[id] <= view[t].version /\ actedOn[id] # view[t].version
      BY <1>1 DEF FillInv, ListedInv
    <2>2. actedOn[id] \in Nat /\ view[t].version \in Nat
      BY <1>1 DEF AppliedTo, SignalTypeOK
    <2> QED
      BY <2>1, <2>2
  <1> QED
    BY <1>1 DEF ActsOn

(* Where no fill is applied the acts of a daemon carry over.                 *)
LEMMA ActsStay ==
  ASSUME TypeOK, StateInv, Owners, SignalTypeOK, NEW t \in Traders, DaemonStep(t), KeepView(t),
         ~ReconcileApply(t), ~PaperApply(t), daemon'[t].pc \notin {"idle", "down"},
         NEW side, ActsOn(t, side)
  PROVE  ActsOn(t, side)' /\ view'[t] = view[t]
  <1>1. applied' = applied /\ [Next]_vars /\ view'[t] = view[t]
    BY OtherStepsPosition, KeptViews DEF Next
  <1>2. AppliedTo(SymbolOf[t])' = AppliedTo(SymbolOf[t])
    BY <1>1, AppliedStays
  <1>3. \A id \in AppliedTo(SymbolOf[t]) : actedOn'[id] = actedOn[id]
    BY AppliedRow, KeptViews DEF AppliedTo
  <1> QED
    BY <1>1, <1>2, <1>3 DEF ActsOn, Signal

LEMMA DecideActs ==
  ASSUME OneTraderPerPair, TypeOK, StateInv, Owners, PaperInv, SignalTypeOK, FillInv,
         NEW t \in Traders, Decide(t), KeepView(t)
  PROVE  ActingOn(t)'
  <1> DEFINE d == daemon[t]
  <1>1. /\ DaemonStep(t) /\ ~ReconcileApply(t) /\ ~PaperApply(t) /\ d \in DaemonState
        /\ view[t] # Unread /\ d.mode = "paper"
    BY DEF Decide, SignalBuy, SignalSell, SignalNothing, EvaluateBuy, EvaluateSell,
           EvaluateNothing, DaemonStep, TickStep, Listed, At, ReconcileApply, PaperApply, TypeOK,
           PaperInv, PaperDaemonInv
  <1>2. ASSUME NEW in, Become(t, [d EXCEPT !.pc = "place", !.intent = in]),
               Signal(t) = (IF in.side = "BUY" THEN "Buy" ELSE "Sell"),
               ~Heeded(SymbolOf[t], view[t].closes)
        PROVE  ActingOn(t)'
    <2> DEFINE s == [d EXCEPT !.pc = "place", !.intent = in]
    <2>1. s.pc = "place" /\ s.intent = in
      BY <1>1 DEF DaemonState
    <2> HIDE DEF s
    <2>2. daemon'[t] = s
      BY <1>2, BecomeIs DEF s
    <2>3. ActsOn(t, in.side)
      BY <1>1, <1>2, FreshSignal
    <2>4. ActsOn(t, in.side)'
      BY <1>1, <2>1, <2>2, <2>3, ActsStay
    <2> QED
      BY <2>1, <2>2, <2>4 DEF ActingOn, PaperPC
  <1>3. positions[SymbolOf[t]].qty \in Int
    BY TraderAssumption, PositionType DEF Position
  <1>4. CASE SignalBuy(t)
    <2>1. PICK p \in Prices :
            Become(t, [d EXCEPT !.pc = "place",
                         !.intent = [side |-> "BUY", price |-> p, value |-> BuyValue, qty |-> 0]])
      BY <1>4 DEF SignalBuy, EvaluateBuy
    <2>2. Says(view[t].closes) = "Buy" /\ positions[SymbolOf[t]].qty <= 0
      BY <1>4, SignalIs DEF SignalBuy, EvaluateBuy
    <2>3. ~Heeded(SymbolOf[t], view[t].closes)
      BY <1>3, <2>2 DEF Heeded
    <2>4. Signal(t) = IF [side |-> "BUY", price |-> p, value |-> BuyValue, qty |-> 0].side = "BUY"
                      THEN "Buy" ELSE "Sell"
      BY <2>2, SignalIs
    <2> QED
      BY <1>2, <2>1, <2>3, <2>4
  <1>5. CASE SignalSell(t)
    <2> DEFINE held == positions[SymbolOf[t]].qty
    <2>1. PICK p \in Prices :
            Become(t, [d EXCEPT !.pc = "place",
                         !.intent = [side |-> "SELL", price |-> p, value |-> 0, qty |-> held]])
      BY <1>5 DEF SignalSell, EvaluateSell
    <2>2. Says(view[t].closes) = "Sell" /\ held > 0
      BY <1>5, SignalIs DEF SignalSell, EvaluateSell
    <2>3. ~Heeded(SymbolOf[t], view[t].closes)
      BY <1>3, <2>2 DEF Heeded
    <2>4. Signal(t) = IF [side |-> "SELL", price |-> p, value |-> 0, qty |-> held].side = "BUY"
                      THEN "Buy" ELSE "Sell"
      BY <2>2, SignalIs
    <2> QED
      BY <1>2, <2>1, <2>3, <2>4
  <1>6. CASE SignalNothing(t)
    BY <1>1, <1>6, RestStates, RestActs DEF SignalNothing, EvaluateNothing, RestPC
  <1> QED
    BY <1>4, <1>5, <1>6 DEF Decide

LEMMA EarlyActs ==
  ASSUME TypeOK, StateInv, Owners, PaperInv, SignalTypeOK, FillInv, NEW t \in Traders,
         EarlyStep(t), KeepView(t)
  PROVE  ActingOn(t)'
  <1> DEFINE d == daemon[t]
  <1>1. /\ DaemonStep(t) /\ ~ReconcileApply(t) /\ ~PaperApply(t) /\ d \in DaemonState
        /\ d.mode = "paper" /\ d.pc \in {"place", "risk"}
    BY DEF EarlyStep, PlaceKillFile, PlaceCheck, At, DaemonStep, PlaceStep, ReconcileApply,
           PaperApply, TypeOK, PaperInv, PaperDaemonInv
  <1>2. PICK s : /\ Become(t, s)
                 /\ \/ s.pc \in {"idle", "trip"}
                    \/ s.pc \in {"risk", "insert"} /\ s.intent = d.intent
    BY EarlyStates
  <1>3. CASE s.pc \in {"risk", "insert"} /\ s.intent = d.intent
    <2>1. daemon'[t] = s
      BY <1>2, BecomeIs
    <2>2. PICK side : side = d.intent.side
      OBVIOUS
    <2>3. ActsOn(t, side)
      BY <1>1, <2>2 DEF FillInv, ActingInv
    <2>4. ActsOn(t, side)'
      BY <1>1, <1>3, <2>1, <2>3, ActsStay
    <2> QED
      BY <1>3, <2>1, <2>2, <2>4 DEF ActingOn, PaperPC
  <1>4. CASE s.pc \in {"idle", "trip"}
    BY <1>2, <1>4, RestActs DEF RestPC
  <1> QED
    BY <1>2, <1>3, <1>4

LEMMA InsertActs ==
  ASSUME TypeOK, StateInv, Owners, PaperInv, SignalTypeOK, FillInv, NEW t \in Traders,
         PlaceInsert(t), KeepView(t)
  PROVE  ActingOn(t)'
  <1> DEFINE d == daemon[t]
             s == [Down EXCEPT !.pc = "paper", !.mode = d.mode, !.cur = lastId + 1]
  <1>1. /\ DaemonStep(t) /\ ~ReconcileApply(t) /\ ~PaperApply(t)
        /\ d.mode = "paper" /\ d.pc = "insert"
    BY DEF PlaceInsert, At, DaemonStep, PlaceStep, ReconcileApply, PaperApply, PaperInv,
           PaperDaemonInv
  <1>2. Become(t, s)
    BY <1>1 DEF PlaceInsert
  <1>3. PICK n \in OrderIds : n = lastId + 1
    BY InsertedRowIs
  <1>4. s.pc = "paper" /\ s.cur = n
    BY <1>3 DEF Down
  <1> HIDE DEF s
  <1>5. daemon'[t] = s
    BY <1>2, BecomeIs
  <1>6. PICK side : side = d.intent.side /\ orders'[n].side = side
    BY <1>3 DEF PlaceInsert, InsertPending, TypeOK, StoreTypeOK
  <1>7. ActsOn(t, side)
    BY <1>1, <1>6 DEF FillInv, ActingInv
  <1>8. ActsOn(t, side)' /\ view'[t] = view[t]
    BY <1>1, <1>4, <1>5, <1>7, ActsStay
  <1>9. actedOn'[n] = view[t].version
    BY <1>1, <1>3, KeptViews
  <1> QED
    BY <1>4, <1>5, <1>6, <1>8, <1>9 DEF ActingOn, PaperPC

LEMMA ReadActs ==
  ASSUME TypeOK, StateInv, Owners, SignalTypeOK, FillInv, NEW t \in Traders,
         PaperReadPosition(t), KeepView(t)
  PROVE  ActingOn(t)'
  <1> DEFINE d == daemon[t]
             s == [d EXCEPT !.pc = "paperApply", !.pos = positions[SymbolOf[t]]]
  <1>1. /\ DaemonStep(t) /\ ~ReconcileApply(t) /\ ~PaperApply(t) /\ d \in DaemonState
        /\ d.pc = "paper" /\ orders' = orders /\ lastId' = lastId
    BY DEF PaperReadPosition, At, DaemonStep, PlaceStep, ReconcileApply, PaperApply, TypeOK,
           storeVars
  <1>2. Become(t, s)
    BY DEF PaperReadPosition
  <1>3. s.pc = "paperApply" /\ s.cur = d.cur
    BY <1>1 DEF DaemonState
  <1> HIDE DEF s
  <1>4. daemon'[t] = s
    BY <1>2, BecomeIs
  <1>5. PICK id, side : id = d.cur /\ side = orders[id].side
    OBVIOUS
  <1>6. ActsOn(t, side) /\ actedOn[id] = view[t].version
    BY <1>1, <1>5 DEF FillInv, ActingInv, PaperPC
  <1>7. ActsOn(t, side)' /\ view'[t] = view[t]
    BY <1>1, <1>3, <1>4, <1>6, ActsStay
  <1>8. orders'[id].side = side /\ actedOn'[id] = actedOn[id]
    BY <1>1, <1>5 DEF KeepView
  <1> QED
    BY <1>3, <1>4, <1>5, <1>6, <1>7, <1>8 DEF ActingOn, PaperPC

(* Every step of a daemon but the fill itself.                               *)
LEMMA OtherActs ==
  ASSUME OneTraderPerPair, TypeOK, StateInv, Owners, PaperInv, SignalTypeOK, FillInv,
         NEW t \in Traders, Decide(t) \/ OtherStep(t), KeepView(t), ~PaperApply(t)
  PROVE  FillInv'
  <1> DEFINE d == daemon[t]
  <1>1. DaemonStep(t) /\ d \in DaemonState /\ d.mode = "paper"
    BY DEF Decide, SignalBuy, SignalSell, SignalNothing, OtherStep, DaemonStep, TickStep, TypeOK,
           PaperInv, PaperDaemonInv
  <1>2. ~ReconcileApply(t)
    BY DEF PaperInv, PaperDaemonInv, ReconcilePC, ReconcileApply, At
  <1>3. CASE Decide(t)
    BY <1>1, <1>2, <1>3, DecideActs, UnfilledStep
  <1>4. CASE OtherStep(t)
    <2>1. \/ Start(t) \/ Crash(t) \/ Tick(t)
          \/ PlaceKillFile(t) \/ PlaceCheck(t) \/ PlaceTripHalt(t) \/ PlaceInsert(t)
          \/ PaperReadPosition(t) \/ PlaceError(t)
      <3>1. d.pc \notin ReconcilePC /\ d.pc \notin LivePC
        BY DEF PaperInv, PaperDaemonInv
      <3> QED
        BY <1>4, <3>1
        DEF OtherStep, ReconcileStep, ListPending, ReadHistory, ReconcileReadPosition,
            ReconcileApply, ReconcileSettle, ReconcileEnd, ReconcileError, PlaceStep, Send,
            SendAnswered, SendFails, SettleRejected, RecordAccepted, At, ReconcilePC, LivePC
    <2>2. CASE Start(t)
      <3>1. PICK m \in Modes :
              Become(t, IF m = "live" THEN [Down EXCEPT !.pc = "list", !.mode = m, !.boot = TRUE]
                        ELSE Idle(m))
        BY <2>2 DEF Start
      <3>2. daemon'[t].pc = "list" \/ daemon'[t].pc = "idle"
        BY <3>1, BecomeIs DEF Idle, Down
      <3>3. ActingOn(t)'
        BY <3>2 DEF ActingOn, PaperPC
      <3> QED
        BY <1>1, <1>2, <3>3, UnfilledStep
    <2>3. CASE Tick(t)
      <3>1. Become(t, [d EXCEPT !.pc = "eval"])
        BY <1>1, <2>3 DEF Tick
      <3>2. [d EXCEPT !.pc = "eval"].pc \in RestPC
        BY <1>1 DEF DaemonState, RestPC
      <3>3. ActingOn(t)'
        BY <3>1, <3>2, RestActs
      <3> QED
        BY <1>1, <1>2, <3>3, UnfilledStep
    <2>4. CASE Crash(t) \/ PlaceTripHalt(t) \/ PlaceError(t)
      <3>1. Become(t, Down) \/ Become(t, Idle("paper"))
        BY <1>1, <2>4 DEF Crash, PlaceTripHalt, PlaceError
      <3>2. Down.pc \in RestPC /\ Idle("paper").pc \in RestPC
        BY RestStates DEF RestPC
      <3>3. ActingOn(t)'
        BY <3>1, <3>2, RestActs
      <3> QED
        BY <1>1, <1>2, <3>3, UnfilledStep
    <2>5. CASE EarlyStep(t)
      BY <1>1, <1>2, <2>5, EarlyActs, UnfilledStep
    <2>6. CASE PlaceInsert(t)
      BY <1>1, <1>2, <2>6, InsertActs, UnfilledStep
    <2>7. CASE PaperReadPosition(t)
      BY <1>1, <1>2, <2>7, ReadActs, UnfilledStep
    <2> QED
      BY <2>1, <2>2, <2>3, <2>4, <2>5, <2>6, <2>7 DEF EarlyStep
  <1> QED
    BY <1>3, <1>4

(* A Buy buys at least one unit, a Sell sells all there is.                  *)
BuysSome == BuyValue * Scale <= MaxInt /\ \A p \in Prices : p <= BuyValue * Scale

LEMMA QuotientPositive ==
  ASSUME NEW a \in Nat, NEW p \in Nat \ {0}, p <= a PROVE a \div p > 0
  BY Z3

LEMMA FillHeeds ==
  ASSUME BuysSome, NEW pos \in Position, NEW row, Fits(row, pos.qty), row.price \in Prices
  PROVE  IF row.side = "BUY" THEN simulatePaperFill(pos, row).pos.qty > 0
         ELSE simulatePaperFill(pos, row).pos.qty = 0
  <1>1. pos.qty \in Int /\ MaxInt \in Nat
    BY FillAssumption DEF Position
  <1>2. CASE row.side = "BUY"
    <2> DEFINE units == UnitsFor(BuyValue, row.price)
               v == BuyValue * Scale
    <2>1. pos.qty = 0 /\ row.value = BuyValue
      BY <1>2 DEF Fits
    <2>2. units \in 0 .. MaxInt
      BY UnitsBoughtSmall DEF BuysSome
    <2>3. v \in Nat /\ v <= MaxInt /\ row.price <= v /\ row.price \in Nat \ {0}
      BY TraderAssumption, FillAssumption, PriceType DEF BuysSome
    <2>4. units = TruncDiv(Wrap(v), row.price)
      BY DEF UnitsFor
    <2>5. simulatePaperFill(pos, row).pos.qty = Wrap(0 + units)
      BY <1>2, <2>1 DEF simulatePaperFill
    <2> HIDE DEF units, v
    <2>6. v \in 0 .. MaxInt
      BY <1>1, <2>3
    <2>7. units = v \div row.price
      BY <2>3, <2>4, <2>6, WrapsNothing DEF TruncDiv
    <2>8. units > 0
      BY <2>3, <2>7, QuotientPositive
    <2>9. 0 + units = units
      BY <1>1, <2>2
    <2>10. Wrap(units) = units
      BY <2>2, WrapsNothing
    <2> QED
      BY <1>2, <2>5, <2>8, <2>9, <2>10
  <1>3. CASE row.side # "BUY"
    <2>1. row.qty = pos.qty
      BY <1>3 DEF Fits
    <2>2. simulatePaperFill(pos, row).pos.qty = Wrap(pos.qty - pos.qty)
      BY <1>3, <2>1 DEF simulatePaperFill
    <2>3. pos.qty - pos.qty = 0 /\ 0 \in 0 .. MaxInt
      BY <1>1
    <2>4. Wrap(0) = 0
      BY <2>3, WrapsNothing
    <2> QED
      BY <1>3, <2>2, <2>3, <2>4
  <1> QED
    BY <1>2, <1>3

(* The fill itself: the table it came from is heeded now, and no fill that   *)
(* is already there came from this state of the table.                       *)
LEMMA ApplyActs ==
  ASSUME BuysSome, OneTraderPerPair, TypeOK, StateInv, Owners, PaperInv, SignalTypeOK, FillInv,
         NEW t \in Traders, PaperApply(t), KeepView(t)
  PROVE  FillInv'
  <1> DEFINE s == SymbolOf[t]
  <1>1. /\ daemon[t].pc = "paperApply" /\ daemon[t].mode = "paper" /\ PaperDaemonInv(t)
        /\ DaemonStep(t) /\ [Next]_vars
    BY DEF PaperInv, PaperDaemonInv, PaperApply, At, DaemonStep, PlaceStep, Next
  <1>2. PICK id \in OrderIds :
          /\ id = daemon[t].cur /\ id <= lastId /\ orders[id].symbol = s
          /\ ActsOn(t, orders[id].side) /\ actedOn[id] = view[t].version
    BY <1>1, CurRow DEF PaperPC, FillInv, ActingInv
  <1>3. PICK pos, row, fill : /\ pos = daemon[t].pos /\ row = orders[id]
                              /\ fill = simulatePaperFill(pos, row).pos
    OBVIOUS
  <1>4. /\ positions' = [positions EXCEPT ![s] = fill]
        /\ applied' = [applied EXCEPT ![id] = @ + 1]
        /\ lastId' = lastId /\ Become(t, Idle("paper"))
    BY <1>1, <1>2, <1>3 DEF PaperApply, ApplyFill
  <1>5. /\ view' = [view EXCEPT ![t] = Unread]
        /\ actedOn' = actedOn /\ closes' = closes /\ version' = version
    <2>1. daemon'[t].pc = "idle"
      BY <1>4, BecomeIs, RestStates
    <2> QED
      BY <1>4, <2>1 DEF KeepView, SignalTypeOK
  <1>6. pos \in Position /\ Fits(row, pos.qty) /\ row.price \in Prices
    BY <1>1, <1>2, <1>3 DEF PaperDaemonInv, PaperPC, TypeOK, DaemonState
  <1>7. IF row.side = "BUY" THEN fill.qty > 0 ELSE fill.qty = 0
    BY <1>3, <1>6, FillHeeds
  <1>8. s \in Symbols /\ positions'[s] = fill
        /\ \A x \in Symbols : x # s => positions'[x] = positions[x]
    BY <1>4, TraderAssumption DEF TypeOK, StoreTypeOK
  <1>9. PICK cs : cs = view[t].closes
    OBVIOUS
  <1>10. /\ Says(cs) = (IF row.side = "BUY" THEN "Buy" ELSE "Sell")
         /\ view[t] # Unread
         /\ \A other \in AppliedTo(s) : actedOn[other] < view[t].version
    BY <1>2, <1>3, <1>9, SignalIs DEF ActsOn
  <1>11. Heeded(s, cs)'
    BY <1>7, <1>8, <1>10, SMT DEF Heeded
  <1>12. \A other \in OrderIds : applied[other] > 0 => orders'[other].symbol = orders[other].symbol
    BY <1>1, AppliedRow, StepKeepsTerms DEF SameTerms
  <1>13. orders'[id].symbol = s
    BY <1>1, <1>2, StepKeepsTerms DEF SameTerms
  <1>14. applied[id] \in Nat /\ \A other \in OrderIds : other # id => applied'[other] = applied[other]
    BY <1>4 DEF TypeOK, StoreTypeOK
  <1>15. /\ AppliedTo(s)' \subseteq AppliedTo(s) \cup {id}
         /\ \A x : x # s => AppliedTo(x)' = AppliedTo(x)
    <2>1. ASSUME NEW x, NEW i, x # s \/ i # id PROVE i \in AppliedTo(x)' <=> i \in AppliedTo(x)
      BY <1>2, <1>12, <1>13, <1>14, <2>1 DEF AppliedTo
    <2>2. \A i \in AppliedTo(s)' : i = id \/ i \in AppliedTo(s)
      BY <2>1
    <2>3. ASSUME NEW x, x # s PROVE AppliedTo(x)' = AppliedTo(x)
      BY <2>1, <2>3
    <2> QED
      BY <2>2, <2>3
  <1>16. /\ \A other \in AppliedTo(s) : actedOn[other] \in Nat
         /\ view[t].version \in Nat /\ version \in Nat
    BY DEF AppliedTo, SignalTypeOK
  <1>17. view[t].version <= version /\ (view[t].version = version => cs = closes)
    BY <1>9, <1>10 DEF FillInv, ViewInv
  <1>18. /\ \A u \in Traders : u # t => /\ view'[u] = view[u] /\ SymbolOf[u] # s
                                        /\ daemon'[u] = daemon[u] /\ SymbolOf[u] \in Symbols
         /\ view'[t] = Unread /\ daemon'[t].pc = "idle"
    BY <1>1, <1>4, <1>5, OthersStay, BecomeIs, RestStates, TraderAssumption
    DEF SignalTypeOK, OneTraderPerPair
  <1>19. ViewInv'
    BY <1>5, <1>18 DEF FillInv, ViewInv
  <1>20. ASSUME NEW x \in Symbols, x # s, NEW c PROVE Heeded(x, c)' <=> Heeded(x, c)
    BY <1>8, <1>20 DEF Heeded
  <1>21. TableInv'
    <2> PICK c : c = closes
      OBVIOUS
    <2> SUFFICES ASSUME NEW x \in Symbols, NEW i \in AppliedTo(x)'
                 PROVE  actedOn[i] <= version /\ (actedOn[i] = version => Heeded(x, c)')
      BY <1>5 DEF TableInv, Heeded
    <2>1. CASE x # s
      BY <1>15, <1>20, <2>1 DEF FillInv, TableInv
    <2>2. CASE x = s /\ i = id
      BY <1>2, <1>11, <1>17, <2>2
    <2>3. CASE x = s /\ i # id
      <3>1. i \in AppliedTo(s)
        BY <1>15, <2>3
      <3>2. actedOn[i] < version
        BY <1>10, <1>16, <1>17, <3>1
      <3> QED
        BY <1>16, <3>1, <3>2
    <2> QED
      BY <2>1, <2>2, <2>3
  <1>22. ListedInv'
    BY <1>5, <1>15, <1>18, <1>20 DEF FillInv, ListedInv
  <1>23. ASSUME NEW u \in Traders, u # t PROVE ActingOn(u)'
    <2>1. ActingOn(u) /\ AppliedTo(SymbolOf[u])' = AppliedTo(SymbolOf[u])
      BY <1>15, <1>18, <1>23 DEF FillInv, ActingInv, ActingOn
    <2>2. \A side : ActsOn(u, side) => ActsOn(u, side)'
      BY <1>5, <1>18, <1>23, <2>1 DEF ActsOn, Signal
    <2>3. ASSUME daemon[u].pc \in PaperPC
          PROVE  orders'[daemon[u].cur].side = orders[daemon[u].cur].side
      BY <1>1, <2>3, CurRow, StepKeepsTerms DEF SameTerms
    <2> QED
      BY <1>5, <1>18, <1>23, <2>1, <2>2, <2>3 DEF ActingOn
  <1>24. ActingInv'
    BY <1>18, <1>23 DEF ActingInv, ActingOn, PaperPC
  <1>25. OneFillPerTable'
    <2>1. ASSUME NEW j \in OrderIds, j # id, applied'[j] > 0, orders'[j].symbol = orders'[id].symbol
          PROVE  actedOn[j] # actedOn[id]
      <3>1. applied[j] > 0 /\ orders[j].symbol = s
        BY <1>12, <1>13, <1>14, <2>1
      <3>2. j \in AppliedTo(s)
        BY <3>1 DEF AppliedTo
      <3> QED
        BY <1>2, <1>10, <1>16, <3>2
    <2>2. ASSUME NEW i \in OrderIds, NEW j \in OrderIds, i # id, j # id,
                 applied'[i] > 0, applied'[j] > 0, orders'[i].symbol = orders'[j].symbol,
                 actedOn[i] = actedOn[j]
          PROVE  i = j
      BY <1>12, <1>14, <2>2 DEF FillInv, OneFillPerTable
    <2> QED
      BY <1>5, <2>1, <2>2 DEF OneFillPerTable
  <1> QED
    BY <1>19, <1>21, <1>22, <1>24, <1>25 DEF FillInv

LEMMA NextFills ==
  ASSUME BuysSome, OneTraderPerPair, TypeOK, StateInv, Owners, PaperInv, SignalTypeOK, FillInv,
         [SignalNext]_allVars
  PROVE  FillInv'
  <1>1. CASE UNCHANGED allVars
    BY <1>1, OutsideKeepsFills DEF allVars
  <1>2. CASE TableChanges
    BY <1>2, TableStepKeeps
  <1>3. ASSUME NEW t \in Traders, SignalStep(t) PROVE FillInv'
    BY <1>3, ListStepKeeps, OtherActs, ApplyActs DEF SignalStep
  <1>4. CASE (ExchangeStep \/ OperatorStep \/ NextDay) /\ UNCHANGED signalVars
    BY <1>4, OutsideKeepsFills
  <1> QED
    BY <1>1, <1>2, <1>3, <1>4 DEF SignalNext

LEMMA InitFills == SignalInit => SignalTypeOK /\ FillInv
  <1> SUFFICES ASSUME SignalInit PROVE SignalTypeOK /\ FillInv
    OBVIOUS
  <1>1. /\ closes = << >> /\ version = 0 /\ view = [t \in Traders |-> Unread]
        /\ actedOn = [id \in OrderIds |-> 0]
    BY DEF SignalInit
  <1>2. SignalTypeOK
    BY <1>1, UnreadType DEF SignalTypeOK
  <1>3. \A id \in OrderIds : ~(applied[id] > 0)
    BY DEF SignalInit, Init, StoreInit
  <1>4. \A t \in Traders : daemon[t].pc = "down"
    BY RestStates DEF SignalInit, Init
  <1> QED
    BY <1>1, <1>2, <1>3, <1>4
    DEF FillInv, ViewInv, TableInv, ListedInv, ActingInv, AppliedTo, OneFillPerTable, PaperPC

(* In paper trading, with one daemon per pair and a buy value that buys at   *)
(* least one unit at every price, one state of the table of candles moves a  *)
(* position at most once: however the collector rewrites the forming bar,    *)
(* whatever fails between the signal and the fill (trader.go:118-178,        *)
(* pipeline.go:114).                                                         *)
THEOREM CandlesMoveOnce ==
  ASSUME OneTraderPerPair, Modes \subseteq {"paper"}, BuysSome
  PROVE  SignalSpec => []OneFillPerTable
  <1> DEFINE Inv == Owners /\ PaperInv /\ SignalTypeOK /\ FillInv
  <1>1. SignalInit => Init /\ Inv
    BY InitOwner, InitPaper, InitFills DEF SignalInit
  <1>2. [SignalNext]_allVars => [Next]_vars
    BY SignalSteps DEF allVars
  <1>3. (TypeOK /\ StateInv) /\ Inv /\ [SignalNext]_allVars => Inv'
    <2>1. BuyValue * Scale <= MaxInt
      BY DEF BuysSome
    <2>2. (TypeOK /\ StateInv) /\ PaperInv /\ [Next]_vars => PaperInv'
      BY <2>1, PaperSteps, TickPaper, PlaceLocalPaper, InsertPaper, ApplyPaper, OutsidePaper
      DEF Next
    <2> QED
      BY <1>2, <2>2, NextOwner, SignalTypes, NextFills
  <1>4. Inv => OneFillPerTable
    BY DEF FillInv
  <1> HIDE DEF Inv
  <1> QED
    BY <1>1, <1>2, <1>3, <1>4, TypeCorrect, PTL DEF Spec, SignalSpec
=============================================================================
