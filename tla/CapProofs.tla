------------------------------- MODULE CapProofs -------------------------------
(* The caps of the risk guard hold for a daemon that is alone on the risk    *)
(* table: what Check saw is still true when the order is inserted and when   *)
(* its spend is recorded.  And a kill on a host in UTC stops any number of   *)
(* daemons, and the orders sent by hand beside them, but for one order each. *)
EXTENDS TraderProofs, Manual

(* The effect of a step on a day's counters.                                 *)
SameCounters == \A d \in Days : risk'[d].spent = risk[d].spent /\ risk'[d].loss = risk[d].loss

Adds(day, spent) ==
  \A d \in Days : \/ risk'[d].spent = risk[d].spent
                  \/ d = day /\ risk'[d].spent = risk[d].spent + spent

LEMMA RiskRows ==
  ASSUME TypeOK, NEW d \in Days PROVE risk[d].spent \in Int /\ risk[d].loss \in Int
  BY DEF TypeOK, StoreTypeOK, RiskState

LEMMA UnchangedCounters == ASSUME risk' = risk PROVE SameCounters
  BY DEF SameCounters

LEMMA RiskTodayCounters == ASSUME TypeOK, NEW d \in Days, RiskToday(d) PROVE SameCounters
  <1>1. risk' = [risk EXCEPT ![d] = [@ EXCEPT !.exists = TRUE]] /\ risk \in [Days -> RiskState]
    BY DEF RiskToday, TypeOK, StoreTypeOK
  <1> QED
    BY <1>1 DEF SameCounters, RiskState

LEMMA SetHaltedCounters ==
  ASSUME TypeOK, NEW d \in Days, NEW h, SetHalted(d, h) PROVE SameCounters
  <1>1. /\ risk' = [risk EXCEPT ![d] = [@ EXCEPT !.exists = TRUE, !.halted = h]]
        /\ risk \in [Days -> RiskState]
    BY DEF SetHalted, TypeOK, StoreTypeOK
  <1> QED
    BY <1>1 DEF SameCounters, RiskState

LEMMA AddCounters ==
  ASSUME TypeOK, NEW day \in Days, NEW spent \in Int, NEW loss \in Int,
         risk' = AddSpentLoss(day, spent, loss)
  PROVE  Adds(day, spent)
  <1>1. risk \in [Days -> RiskState]
    BY DEF TypeOK, StoreTypeOK
  <1>2. \A d \in Days : d # day => risk'[d] = risk[d]
    BY <1>1 DEF AddSpentLoss
  <1>3. \/ risk'[day] = risk[day]
        \/ risk'[day] = [risk[day] EXCEPT !.spent = risk[day].spent + spent,
                                          !.loss = risk[day].loss + loss]
    BY <1>1 DEF AddSpentLoss
  <1>4. risk'[day].spent = risk[day].spent \/ risk'[day].spent = risk[day].spent + spent
    BY <1>1, <1>3 DEF RiskState
  <1> QED
    BY <1>2, <1>4 DEF Adds

-----------------------------------------------------------------------------
(* The counters of each step.                                                *)

LEMMA DaemonCounters ==
  ASSUME TypeOK, StateInv, NEW t \in Traders, DaemonStep(t),
         ~ReconcileApply(t), ~PaperApply(t), ~RecordAccepted(t)
  PROVE  SameCounters
  <1>1. CASE risk' = risk
    BY <1>1, UnchangedCounters
  <1>2. daemon[t].day \in Days
    BY DEF TypeOK, DaemonState
  <1>3. CASE PlaceCheck(t)
    BY <1>2, <1>3, RiskTodayCounters DEF PlaceCheck
  <1>4. CASE PlaceTripHalt(t)
    BY <1>2, <1>4, SetHaltedCounters DEF PlaceTripHalt
  <1>5. PlaceCheck(t) \/ PlaceTripHalt(t) \/ risk' = risk
    BY DEF DaemonStep, Start, Crash, ReconcileStep, ListPending, ReadHistory,
           ReconcileReadPosition, ReconcileSettle, ReconcileEnd, ReconcileError, Settle,
           TickStep, Tick, EvaluateNothing, EvaluateBuy, EvaluateSell,
           PlaceStep, PlaceKillFile, PlaceInsert, InsertPending, PaperReadPosition, Send,
           SendAnswered, SendFails, SettleRejected, PlaceError, storeVars
  <1> QED
    BY <1>1, <1>3, <1>4, <1>5

LEMMA OperatorCounters == ASSUME TypeOK, OperatorStep PROVE SameCounters
  <1>1. CASE Kill
    BY <1>1, LocalDaysType, SetHaltedCounters DEF Kill
  <1>2. CASE Resume
    BY <1>2, LocalDaysType, SetHaltedCounters DEF Resume
  <1>3. CASE ToggleKillFile
    BY <1>3, UnchangedCounters DEF ToggleKillFile, storeVars
  <1>4. CASE ReadRisk
    BY <1>4, LocalDaysType, RiskTodayCounters DEF ReadRisk
  <1> QED
    BY <1>1, <1>2, <1>3, <1>4 DEF OperatorStep

LEMMA OutsideCounters ==
  ASSUME TypeOK, ExchangeStep \/ OperatorStep \/ NextDay \/ UNCHANGED vars
  PROVE  SameCounters /\ UNCHANGED daemon /\ UNCHANGED orders
  <1>1. CASE ExchangeStep \/ NextDay \/ UNCHANGED vars
    BY <1>1, UnchangedCounters DEF ExchangeStep, NextDay, vars, storeVars
  <1>2. CASE OperatorStep
    BY <1>2, OperatorCounters
    DEF OperatorStep, Kill, Resume, ToggleKillFile, ReadRisk, SetHalted, RiskToday, storeVars
  <1> QED
    BY <1>1, <1>2

-----------------------------------------------------------------------------
(* Where a daemon's step leaves it: only PlaceCheck leads to the insert, and *)
(* only PlaceInsert to a row in hand.                                        *)
HoldsPC == {"insert"} \cup PaperPC \cup LivePC

KeepsRow(t) == PaperReadPosition(t) \/ Send(t) \/ SendAnswered(t) \/ SendFails(t)

LEMMA FreeStates ==
  ASSUME NEW m
  PROVE  /\ Idle(m).pc \notin HoldsPC /\ Eval(m).pc \notin HoldsPC /\ Down.pc \notin HoldsPC
         /\ "list" \notin HoldsPC /\ "history" \notin HoldsPC /\ "loop" \notin HoldsPC
         /\ "apply" \notin HoldsPC /\ "eval" \notin HoldsPC /\ "place" \notin HoldsPC
  BY DEF Idle, Eval, Down, HoldsPC, PaperPC, LivePC

LEMMA WhereDaemonGoes ==
  ASSUME TypeOK, NEW t \in Traders, DaemonStep(t)
  PROVE  \/ daemon'[t].pc \notin HoldsPC
         \/ PlaceCheck(t) \/ PlaceInsert(t) \/ KeepsRow(t)
  BY StepPC DEF AtEasePC, HoldsPC, KeepsRow, PaperPC, LivePC

(* PlaceCheck lets an order pass only below the loss stop and under the cap. *)
LEMMA CheckedStep ==
  ASSUME TypeOK, StateInv, NEW t \in Traders, PlaceCheck(t), daemon'[t].pc \in HoldsPC
  PROVE  /\ daemon'[t].pc = "insert"
         /\ ~LossStop(risk'[daemon'[t].day])
         /\ MaxDaily > 0 =>
              risk'[daemon'[t].day].spent + orderValue(daemon'[t].intent) <= MaxDaily
         /\ MaxOrder > 0 => orderValue(daemon'[t].intent) <= MaxOrder
  <1> DEFINE d == daemon[t]
             v == orderValue(d.intent)
             s == [d EXCEPT !.pc = "insert"]
             trip == Tripping(t, d.day)
  <1>1. s.pc = "insert" /\ s.day = d.day /\ s.intent = d.intent
    BY DEF TypeOK, DaemonState
  <1>2. trip.pc \notin HoldsPC
    BY DEF Tripping, Idle, Down, HoldsPC, PaperPC, LivePC
  <1>3. \/ Become(t, s) /\ Check(risk[d.day], v).allowed
        \/ Become(t, trip) \/ Become(t, Idle(d.mode))
    BY DEF PlaceCheck
  <1>4. daemon'[t] = s /\ Check(risk[d.day], v).allowed
    BY <1>2, <1>3, BecomeIs, FreeStates
  <1>5. ~LossStop(risk[d.day]) /\ ~ExceedsDailyCap(risk[d.day], v)
    BY <1>4 DEF Check
  <1>6. d.day \in Days /\ SameCounters
    <2>1. d.day \in Days
      BY DEF TypeOK, DaemonState
    <2> QED
      BY <2>1, RiskTodayCounters DEF PlaceCheck
  <1>7. risk'[d.day].loss = risk[d.day].loss /\ risk'[d.day].spent = risk[d.day].spent
    BY <1>6 DEF SameCounters
  <1>8. risk[d.day].spent \in Int
    BY <1>6, RiskRows
  <1>9. ~LossStop(risk'[d.day])
    BY <1>5, <1>7 DEF LossStop
  <1>10. v \in Int
    <2>1. d.pc = "risk" /\ d \in DaemonState
      BY DEF PlaceCheck, At, TypeOK
    <2>2. d.intent \in Intent
      BY <2>1 DEF DaemonState, StateInv, PlacingInv
    <2> QED
      BY <2>2, OrderValueType
  <1> HIDE DEF v
  <1>11. MaxDaily > 0 => risk'[d.day].spent + v <= MaxDaily
    BY <1>5, <1>7, <1>8, <1>10, CapsAssumption DEF ExceedsDailyCap
  <1>12. MaxOrder > 0 => v <= MaxOrder
    <2>1. ~ExceedsOrderCap(v)
      BY <1>4 DEF Check
    <2> QED
      BY <1>10, <2>1, CapsAssumption DEF ExceedsOrderCap
  <1> QED
    BY <1>1, <1>4, <1>9, <1>11, <1>12 DEF v

(* The row PlaceInsert writes is admitted by the day the Check saw.          *)
LEMMA InsertedStep ==
  ASSUME TypeOK, NEW t \in Traders, PlaceInsert(t)
  PROVE  /\ daemon[t].pc = "insert" /\ daemon'[t].pc \in {"send", "paper"}
         /\ daemon'[t].cur = lastId' /\ risk' = risk
         /\ orders'[lastId'].day = daemon[t].day
         /\ orders'[lastId'].value = orderValue(daemon[t].intent)
  <1>1. lastId + 1 \in OrderIds
    BY StoreAssumption DEF PlaceInsert, InsertPending, TypeOK, StoreTypeOK, OrderIds
  <1>2. /\ orders'[lastId'].day = daemon[t].day
        /\ orders'[lastId'].value = orderValue(daemon[t].intent)
    BY <1>1 DEF PlaceInsert, InsertPending, TypeOK, StoreTypeOK
  <1>3. daemon'[t].pc \in {"send", "paper"} /\ daemon'[t].cur = lastId'
    BY DEF PlaceInsert, InsertPending, Become, Down, TypeOK
  <1> QED
    BY <1>2, <1>3 DEF PlaceInsert, InsertPending, At

LEMMA KeptStep ==
  ASSUME TypeOK, NEW t \in Traders, KeepsRow(t)
  PROVE  /\ daemon[t].pc \in PaperPC \cup LivePC /\ daemon'[t].pc \in PaperPC \cup LivePC
         /\ daemon'[t].cur = daemon[t].cur /\ UNCHANGED <<orders, risk>>
  <1>1. UNCHANGED <<orders, risk>>
    BY DEF KeepsRow, PaperReadPosition, Send, SendAnswered, SendFails, storeVars
  <1>2. PICK pc \in {"paperApply", "await", "record", "reject"} :
          \/ \E pos : daemon'[t] = [daemon[t] EXCEPT !.pc = pc, !.pos = pos]
          \/ daemon'[t] = [daemon[t] EXCEPT !.pc = pc]
    BY DEF KeepsRow, PaperReadPosition, Send, SendAnswered, SendFails, Become, TypeOK
  <1>3. daemon[t].pc \in {"paper", "send", "await"}
    BY DEF KeepsRow, PaperReadPosition, Send, SendAnswered, SendFails, At
  <1>4. daemon'[t].pc = pc /\ daemon'[t].cur = daemon[t].cur
    BY <1>2 DEF TypeOK, DaemonState
  <1> QED
    BY <1>1, <1>3, <1>4 DEF PaperPC, LivePC

-----------------------------------------------------------------------------
LEMMA NextLoss ==
  ASSUME LoneDaemon, TypeOK, StateInv, LossInv, [Next]_vars
  PROVE  LossInv'
  <1>1. ASSUME NEW t \in Traders, DaemonStep(t) PROVE LossInv'
    <2>1. daemon'[t].pc = "insert" => ~LossStop(risk'[daemon'[t].day])
      <3>1. "insert" \in HoldsPC
        BY DEF HoldsPC
      <3>2. CASE PlaceCheck(t)
        BY <3>1, <3>2, CheckedStep
      <3>3. CASE PlaceInsert(t) \/ KeepsRow(t)
        BY <3>3, InsertedStep, KeptStep DEF PaperPC, LivePC
      <3> QED
        BY <1>1, <3>1, <3>2, <3>3, WhereDaemonGoes
    <2> QED
      BY <2>1 DEF LoneDaemon, LossInv
  <1>2. CASE ExchangeStep \/ OperatorStep \/ NextDay \/ UNCHANGED vars
    <2>1. SameCounters /\ daemon' = daemon
      BY <1>2, OutsideCounters
    <2>2. \A t \in Traders : daemon[t].day \in Days
      BY DEF TypeOK, DaemonState
    <2> QED
      BY <2>1, <2>2 DEF LossInv, LossStop, SameCounters
  <1> QED
    BY <1>1, <1>2 DEF Next

LEMMA InsertBelowLossStop ==
  ASSUME TypeOK, StateInv, LossInv, [Next]_vars
  PROVE  lastId' # lastId => ~LossStop(risk[orders'[lastId'].day])
  <1>1. \/ lastId' = lastId
        \/ \E t \in Traders : PlaceInsert(t)
    BY DEF Next, DaemonStep, Start, Crash, ReconcileStep, ListPending, ReadHistory,
           ReconcileReadPosition, ReconcileApply, ReconcileSettle, ReconcileEnd, ReconcileError,
           Settle, TickStep, Tick, EvaluateNothing, EvaluateBuy, EvaluateSell, PlaceStep,
           PlaceKillFile, PlaceCheck, PlaceTripHalt, PaperReadPosition, PaperApply, Send,
           SendAnswered, SendFails, SettleRejected, RecordAccepted, PlaceError, SetHalted,
           RiskToday, ApplyFill, ApplyFillSkipPosition, ExchangeStep, OperatorStep, Kill,
           Resume, ToggleKillFile, ReadRisk, NextDay, storeVars, vars
  <1> QED
    BY <1>1, InsertedStep DEF LossInv

LEMMA InitLoss == Init => LossInv
  BY DEF Init, Down, LossInv

(* A lone daemon inserts no order on a day whose realized loss has reached   *)
(* INVX_MAX_LOSS (guard.go:27): not between the trip and the halt it         *)
(* persists, and not after a resume, which clears the flag and not the loss. *)
THEOREM LossStopHolds ==
  ASSUME LoneDaemon
  PROVE  Spec => NoOrderPastLossStop
  <1>1. Init => LossInv
    BY InitLoss
  <1>2. (TypeOK /\ StateInv) /\ LossInv /\ [Next]_vars => LossInv'
    BY NextLoss
  <1>3. (TypeOK /\ StateInv) /\ LossInv /\ [Next]_vars =>
          [lastId' # lastId => ~LossStop(risk[orders'[lastId'].day])]_vars
    BY InsertBelowLossStop
  <1> QED
    BY <1>1, <1>2, <1>3, TypeCorrect, PTL DEF Spec, NoOrderPastLossStop

-----------------------------------------------------------------------------
(* What a step adds to a day's spend.                                        *)
LEMMA RecordingStep ==
  ASSUME TypeOK, StateInv, NEW t \in Traders, PaperApply(t) \/ RecordAccepted(t)
  PROVE  /\ daemon[t].pc \in PaperPC \cup LivePC
         /\ orders[daemon[t].cur].day \in Days /\ orders[daemon[t].cur].value \in Int
         /\ \/ Adds(orders[daemon[t].cur].day, orders[daemon[t].cur].value)
            \/ Adds(orders[daemon[t].cur].day, 0)
  <1> DEFINE d   == daemon[t]
             row == orders[d.cur]
             sim == simulatePaperFill(d.pos, row)
             loss == LossOf(d.pos, sim.pos)
  <1>1. d.pc \in PaperPC \cup LivePC
    BY DEF PaperApply, RecordAccepted, At, PaperPC, LivePC
  <1>2. /\ row.day \in Days /\ row.value \in Int /\ row.qty \in Int
        /\ row.price \in Int /\ row.price > 0
    BY <1>1, CurRow, RowOfId
  <1>3. CASE RecordAccepted(t)
    BY <1>1, <1>2, <1>3, AddCounters DEF RecordAccepted, ApplyFillSkipPosition
  <1>4. CASE PaperApply(t)
    <2>1. d.pos \in Position
      BY DEF TypeOK, DaemonState
    <2>2. sim.pos \in Position /\ sim.spent \in {row.value, 0}
      BY <1>2, <2>1, PaperFillType DEF simulatePaperFill
    <2>3. loss \in Int /\ sim.spent \in Int
      BY <1>2, <2>1, <2>2, LossOfInt
    <2>4. risk' = AddSpentLoss(row.day, sim.spent, loss)
      BY <1>4 DEF PaperApply, ApplyFill
    <2> HIDE DEF sim, loss
    <2>5. Adds(row.day, sim.spent)
      BY <1>2, <2>3, <2>4, AddCounters
    <2> QED
      BY <1>1, <1>2, <2>2, <2>5
  <1> QED
    BY <1>3, <1>4

LEMMA ReconcilingStep ==
  ASSUME TypeOK, StateInv, NEW t \in Traders, ReconcileApply(t)
  PROVE  \A d \in Days : risk'[d].spent = risk[d].spent
  <1> DEFINE d == daemon[t]
             id == d.cur
             fill == computeFill(d.pos, orders[id].side, book[id].executed, book[id].avg)
  <1>1. d.day \in Days /\ d.pos \in Position
    BY DEF TypeOK, DaemonState
  <1>2. id \in d.todo /\ d.pc = "apply"
    BY DEF ReconcileApply, At, StateInv, ReconcilingInv
  <1>3. book[id].executed \in Int /\ book[id].avg \in Int
    BY <1>2, TodoRow DEF Taken
  <1>4. fill.loss \in Int
    BY <1>1, <1>3, FillType
  <1> HIDE DEF fill
  <1>5. risk' = risk \/ risk' = AddSpentLoss(d.day, 0, fill.loss)
    BY DEF ReconcileApply, ApplyFill, storeVars, fill
  <1>6. CASE risk' = AddSpentLoss(d.day, 0, fill.loss)
    <2>1. Adds(d.day, 0)
      BY <1>1, <1>4, <1>6, AddCounters
    <2> QED
      BY <2>1, RiskRows DEF Adds
  <1> QED
    BY <1>5, <1>6

LEMMA DaemonSpent ==
  ASSUME LoneDaemon, MaxDaily > 0, TypeOK, StateInv, SpentInv,
         NEW t \in Traders, DaemonStep(t)
  PROVE  SpentInv'
  <1> DEFINE d == daemon[t]
  <1>1. \A day \in Days : risk[day].spent <= MaxDaily
    BY DEF SpentInv
  <1>2. ASSUME NEW day \in Days PROVE risk'[day].spent <= MaxDaily
    <2>1. CASE ReconcileApply(t)
      BY <1>1, <2>1, ReconcilingStep
    <2>2. CASE PaperApply(t) \/ RecordAccepted(t)
      <3> DEFINE row == orders[d.cur]
      <3>1. /\ d.pc \in PaperPC \cup LivePC /\ row.day \in Days /\ row.value \in Int
            /\ Adds(row.day, row.value) \/ Adds(row.day, 0)
        BY <2>2, RecordingStep
      <3>2. risk[row.day].spent + row.value <= MaxDaily
        BY <3>1 DEF SpentInv
      <3>3. risk[row.day].spent \in Int
        BY <3>1, RiskRows
      <3>4. \/ risk'[day].spent = risk[day].spent
            \/ day = row.day /\ risk'[day].spent = risk[day].spent + row.value
            \/ day = row.day /\ risk'[day].spent = risk[day].spent + 0
        BY <3>1 DEF Adds
      <3> HIDE DEF row
      <3> QED
        BY <1>1, <3>2, <3>3, <3>4
    <2>3. CASE ~ReconcileApply(t) /\ ~PaperApply(t) /\ ~RecordAccepted(t)
      BY <1>1, <2>3, DaemonCounters DEF SameCounters
    <2> QED
      BY <2>1, <2>2, <2>3
  <1> DEFINE Admitted ==
        /\ daemon'[t].pc = "insert" =>
             risk'[daemon'[t].day].spent + orderValue(daemon'[t].intent) <= MaxDaily
        /\ daemon'[t].pc \in PaperPC \cup LivePC =>
             risk'[orders'[daemon'[t].cur].day].spent + orders'[daemon'[t].cur].value <= MaxDaily
  <1>3. Admitted
    <2>1. CASE daemon'[t].pc \notin HoldsPC
      BY <2>1 DEF HoldsPC
    <2>2. CASE PlaceCheck(t) /\ daemon'[t].pc \in HoldsPC
      BY <2>2, CheckedStep DEF PaperPC, LivePC
    <2>3. CASE PlaceInsert(t)
      <3>1. risk[d.day].spent + orderValue(d.intent) <= MaxDaily
        BY <2>3, InsertedStep DEF SpentInv
      <3>2. daemon'[t].pc # "insert"
        BY <2>3, InsertedStep
      <3> QED
        BY <2>3, <3>1, <3>2, InsertedStep
    <2>4. CASE KeepsRow(t)
      <3>1. daemon'[t].pc # "insert"
        BY <2>4, KeptStep DEF PaperPC, LivePC
      <3> QED
        BY <2>4, <3>1, KeptStep DEF SpentInv
    <2> QED
      BY <2>1, <2>2, <2>3, <2>4, WhereDaemonGoes
  <1>4. \A u \in Traders : u = t
    BY DEF LoneDaemon
  <1> QED
    BY <1>2, <1>3, <1>4 DEF SpentInv

LEMMA NextSpent ==
  ASSUME LoneDaemon, MaxDaily > 0, TypeOK, StateInv, SpentInv, [Next]_vars
  PROVE  SpentInv'
  <1>1. CASE ExchangeStep \/ OperatorStep \/ NextDay \/ UNCHANGED vars
    <2>1. SameCounters /\ daemon' = daemon /\ orders' = orders
      BY <1>1, OutsideCounters
    <2>2. \A t \in Traders : daemon[t].day \in Days
      BY DEF TypeOK, DaemonState
    <2>3. \A t \in Traders : daemon[t].pc \in PaperPC \cup LivePC => orders[daemon[t].cur].day \in Days
      BY CurRow, RowOfId
    <2> QED
      BY <2>1, <2>2, <2>3 DEF SpentInv, SameCounters
  <1> QED
    BY <1>1, DaemonSpent DEF Next

LEMMA InitSpent == Init => SpentInv
  <1> SUFFICES ASSUME Init PROVE SpentInv
    OBVIOUS
  <1>1. \A d \in Days : risk[d].spent = 0
    BY DEF Init, StoreInit, NewRisk
  <1>2. \A t \in Traders : daemon[t].pc = "down"
    BY DEF Init, Down
  <1> QED
    BY <1>1, <1>2, CapsAssumption DEF SpentInv, PaperPC, LivePC

-----------------------------------------------------------------------------
(* The day stays halted through every step but a resume.                     *)
HaltStays == \A d \in Days : risk[d].halted => risk'[d].halted

LEMMA UnchangedHalt == ASSUME risk' = risk PROVE HaltStays
  BY DEF HaltStays

LEMMA RiskTodayHalt == ASSUME TypeOK, NEW d \in Days, RiskToday(d) PROVE HaltStays
  <1>1. risk' = [risk EXCEPT ![d] = [@ EXCEPT !.exists = TRUE]] /\ risk \in [Days -> RiskState]
    BY DEF RiskToday, TypeOK, StoreTypeOK
  <1> QED
    BY <1>1 DEF HaltStays, RiskState

LEMMA SetHaltedHalt ==
  ASSUME TypeOK, NEW d \in Days, SetHalted(d, TRUE) PROVE HaltStays /\ risk'[d].halted
  <1>1. /\ risk' = [risk EXCEPT ![d] = [@ EXCEPT !.exists = TRUE, !.halted = TRUE]]
        /\ risk \in [Days -> RiskState]
    BY DEF SetHalted, TypeOK, StoreTypeOK
  <1> QED
    BY <1>1 DEF HaltStays, RiskState

LEMMA AddHalt ==
  ASSUME TypeOK, NEW day, NEW spent, NEW loss, risk' = AddSpentLoss(day, spent, loss)
  PROVE  HaltStays
  <1>1. risk \in [Days -> RiskState]
    BY DEF TypeOK, StoreTypeOK
  <1>2. CASE risk' = risk
    BY <1>2, UnchangedHalt
  <1>3. CASE risk' = [risk EXCEPT ![day] = [@ EXCEPT !.spent = risk[day].spent + spent,
                                                     !.loss = risk[day].loss + loss]]
    BY <1>1, <1>3 DEF HaltStays, RiskState
  <1> QED
    BY <1>2, <1>3 DEF AddSpentLoss

LEMMA DaemonHalt ==
  ASSUME TypeOK, StateInv, NEW t \in Traders, DaemonStep(t) PROVE HaltStays
  <1>1. CASE risk' = risk
    BY <1>1, UnchangedHalt
  <1>2. daemon[t].day \in Days
    BY DEF TypeOK, DaemonState
  <1>3. CASE PlaceCheck(t)
    BY <1>2, <1>3, RiskTodayHalt DEF PlaceCheck
  <1>4. CASE PlaceTripHalt(t)
    BY <1>2, <1>4, SetHaltedHalt DEF PlaceTripHalt
  <1>5. CASE ReconcileApply(t) \/ PaperApply(t) \/ RecordAccepted(t)
    <2>1. risk' = risk \/ \E day, spent, loss : risk' = AddSpentLoss(day, spent, loss)
      BY <1>5 DEF ReconcileApply, PaperApply, RecordAccepted, ApplyFill, ApplyFillSkipPosition,
                  storeVars
    <2> QED
      BY <2>1, UnchangedHalt, AddHalt
  <1>6. \/ PlaceCheck(t) \/ PlaceTripHalt(t)
        \/ ReconcileApply(t) \/ PaperApply(t) \/ RecordAccepted(t)
        \/ risk' = risk
    BY DEF DaemonStep, Start, Crash, ReconcileStep, ListPending, ReadHistory,
           ReconcileReadPosition, ReconcileSettle, ReconcileEnd, ReconcileError, Settle,
           TickStep, Tick, EvaluateNothing, EvaluateBuy, EvaluateSell,
           PlaceStep, PlaceKillFile, PlaceInsert, InsertPending, PaperReadPosition, Send,
           SendAnswered, SendFails, SettleRejected, PlaceError, storeVars
  <1> QED
    BY <1>1, <1>3, <1>4, <1>5, <1>6

-----------------------------------------------------------------------------
(* Daemons about to insert.                                                  *)

LEMMA InsertingFinite ==
  ASSUME IsFiniteSet(Traders)
  PROVE  /\ IsFiniteSet(Inserting) /\ Cardinality(Inserting) \in Nat
         /\ Cardinality(Traders) \in Nat /\ Cardinality(Inserting) <= Cardinality(Traders)
  <1>1. Inserting \subseteq Traders
    BY DEF Inserting
  <1> QED
    BY <1>1, FS_Subset, FS_CardinalityType

(* On a halted day no daemon gets through its Check.                         *)
LEMMA HaltedCheck ==
  ASSUME TypeOK, NEW t \in Traders, PlaceCheck(t), risk[daemon[t].day].halted
  PROVE  daemon'[t].pc \notin HoldsPC
  <1> DEFINE trip == Tripping(t, daemon[t].day)
  <1>1. ~Check(risk[daemon[t].day], orderValue(daemon[t].intent)).allowed
    BY DEF Check
  <1>2. Become(t, trip) \/ Become(t, Idle(daemon[t].mode))
    BY <1>1 DEF PlaceCheck
  <1>3. trip.pc \notin HoldsPC
    BY DEF Tripping, Idle, Down, HoldsPC, PaperPC, LivePC
  <1> QED
    BY <1>2, <1>3, BecomeIs, FreeStates

LEMMA InsertingShrinks ==
  ASSUME TypeOK, NEW t \in Traders, DaemonStep(t), today' = today, risk[today].halted
  PROVE  /\ Inserting' \subseteq Inserting
         /\ PlaceInsert(t) => t \in Inserting /\ t \notin Inserting'
  <1>1. \A u \in Traders : u # t => daemon'[u] = daemon[u]
    BY OthersStay
  <1>2. "insert" \in HoldsPC /\ \A pc \in PaperPC \cup LivePC : pc # "insert"
    BY DEF HoldsPC, PaperPC, LivePC
  <1>3. ASSUME daemon'[t].pc = "insert" PROVE t \in Inserting
    <2>1. PlaceCheck(t)
      BY <1>3, StepPC DEF AtEasePC
    <2>2. daemon[t].day # today
      BY <1>2, <1>3, <2>1, HaltedCheck
    <2> QED
      BY <2>1, <2>2 DEF PlaceCheck, At, Inserting
  <1>4. ASSUME daemon'[t].pc = "risk" PROVE daemon'[t].day = today'
    <2>1. PlaceKillFile(t)
      BY <1>4, StepPC DEF AtEasePC
    <2>2. PICK s : Become(t, s) /\ (s.pc = "risk" => s.day = today)
      BY <2>1, EarlyStates DEF EarlyStep
    <2> QED
      BY <1>4, <2>2, BecomeIs
  <1>5. PlaceInsert(t) => daemon[t].pc = "insert" /\ daemon'[t].pc \in {"send", "paper"}
    BY InsertedStep
  <1>6. t \in Inserting' => t \in Inserting
    BY <1>3, <1>4 DEF Inserting
  <1> QED
    BY <1>1, <1>5, <1>6 DEF Inserting

-----------------------------------------------------------------------------
LEMMA DaemonKill ==
  ASSUME IsFiniteSet(Traders), TypeOK, StateInv, KillInv, NEW t \in Traders, DaemonStep(t)
  PROVE  KillInv'
  <1> SUFFICES ASSUME sinceKill'.standing
      PROVE /\ risk'[today'].halted
            /\ sinceKill'.orders + Cardinality(Inserting') <= Cardinality(Traders)
    BY DEF KillInv
  <1>1. /\ today' = today
        /\ sinceKill' = sinceKill \/ (PlaceInsert(t) /\ sinceKill' = [sinceKill EXCEPT !.orders = @ + 1])
    BY DEF DaemonStep, Start, Crash, ReconcileStep, ListPending, ReadHistory,
           ReconcileReadPosition, ReconcileApply, ReconcileSettle, ReconcileEnd,
           ReconcileError, TickStep, Tick, EvaluateNothing, EvaluateBuy, EvaluateSell, PlaceStep,
           PlaceKillFile, PlaceCheck, PlaceTripHalt, PlaceInsert, PaperReadPosition, PaperApply,
           Send, SendAnswered, SendFails, SettleRejected, RecordAccepted, PlaceError, localVars
  <1>2. sinceKill.standing /\ sinceKill.orders \in Nat
    BY <1>1 DEF TypeOK
  <1>3. /\ risk[today].halted
        /\ sinceKill.orders + Cardinality(Inserting) <= Cardinality(Traders)
    BY <1>2 DEF KillInv
  <1>4. risk'[today'].halted
    BY <1>1, <1>3, DaemonHalt, TodayType DEF HaltStays
  <1>5. /\ Inserting' \subseteq Inserting
        /\ PlaceInsert(t) => t \in Inserting /\ t \notin Inserting'
    BY <1>1, <1>3, InsertingShrinks
  <1>6. /\ IsFiniteSet(Inserting) /\ Cardinality(Inserting) \in Nat
        /\ Cardinality(Traders) \in Nat
    BY InsertingFinite
  <1>7. Cardinality(Inserting') \in Nat /\ Cardinality(Inserting') <= Cardinality(Inserting)
    BY <1>5, <1>6, FS_Subset, FS_CardinalityType
  <1>8. CASE sinceKill' = sinceKill
    BY <1>2, <1>3, <1>4, <1>6, <1>7, <1>8
  <1>9. CASE PlaceInsert(t) /\ sinceKill' = [sinceKill EXCEPT !.orders = @ + 1]
    <2>1. Inserting' # Inserting
      BY <1>5, <1>9
    <2>2. Cardinality(Inserting') # Cardinality(Inserting)
      BY <1>5, <1>6, <2>1, FS_Subset
    <2>3. sinceKill'.orders = sinceKill.orders + 1
      BY <1>9 DEF TypeOK
    <2> QED
      BY <1>2, <1>3, <1>4, <1>6, <1>7, <2>2, <2>3
  <1> QED
    BY <1>1, <1>8, <1>9

LEMMA OutsideKill ==
  ASSUME IsFiniteSet(Traders), DayOffsets \subseteq {0}, TypeOK, KillInv,
         ExchangeStep \/ OperatorStep \/ NextDay \/ UNCHANGED vars
  PROVE  KillInv'
  <1>1. daemon' = daemon /\ (today' = today => Inserting' = Inserting)
    BY OutsideCounters, Zenon
    DEF ExchangeStep, OperatorStep, Kill, Resume, ToggleKillFile, ReadRisk, NextDay, vars, Inserting
  <1>2. CASE Kill
    <2>1. LocalDays \subseteq {today}
      BY TodayType DEF LocalDays, Days
    <2>2. SetHalted(today, TRUE) /\ today' = today /\ sinceKill' = [standing |-> TRUE, orders |-> 0]
      BY <1>2, <2>1 DEF Kill
    <2>3. risk'[today'].halted
      BY <2>2, TodayType, SetHaltedHalt
    <2>4. sinceKill'.orders = 0
      BY <2>2
    <2>5. 0 + Cardinality(Inserting) <= Cardinality(Traders)
      BY InsertingFinite
    <2>6. sinceKill'.orders + Cardinality(Inserting') <= Cardinality(Traders)
      BY <1>1, <2>2, <2>4, <2>5, Zenon
    <2>7. risk'[today'].halted
      BY <2>2, <2>3, Zenon
    <2> QED
      BY <2>6, <2>7 DEF KillInv
  <1>3. CASE Resume \/ NextDay
    <2>1. sinceKill' = [standing |-> FALSE, orders |-> 0]
      BY <1>3 DEF Resume, NextDay
    <2>2. ~sinceKill'.standing
      BY <2>1
    <2> QED
      BY <2>2, Zenon DEF KillInv
  <1>4. CASE ExchangeStep \/ ToggleKillFile \/ UNCHANGED vars
    BY <1>1, <1>4 DEF ExchangeStep, ToggleKillFile, vars, storeVars, localVars, KillInv
  <1>5. CASE ReadRisk
    <2>1. HaltStays
      BY <1>5, LocalDaysType, RiskTodayHalt DEF ReadRisk
    <2> QED
      BY <1>1, <1>5, <2>1, TodayType DEF ReadRisk, localVars, HaltStays, KillInv
  <1> QED
    BY <1>2, <1>3, <1>4, <1>5 DEF OperatorStep

(* On a host in UTC a standing kill lets through no more orders than there   *)
(* are daemons, however many rows, days and daemons: the day it halts is the *)
(* day every later Check reads (risk.go:36, pipeline.go:70), and only an     *)
(* order past its Check can still be inserted.                               *)
THEOREM KillStops ==
  ASSUME IsFiniteSet(Traders), DayOffsets \subseteq {0}
  PROVE  Spec => []KillOvershootBounded
  <1>1. Init => KillInv
    BY DEF Init, KillInv
  <1>2. (TypeOK /\ StateInv) /\ KillInv /\ [Next]_vars => KillInv'
    BY DaemonKill, OutsideKill DEF Next
  <1>3. (TypeOK /\ StateInv) /\ KillInv => KillOvershootBounded
    <2>1. ASSUME TypeOK, KillInv, sinceKill.standing
          PROVE  sinceKill.orders <= Cardinality(Traders)
      <3>1. sinceKill.orders \in Nat
        BY <2>1 DEF TypeOK
      <3> QED
        BY <2>1, <3>1, InsertingFinite DEF KillInv
    <2> QED
      BY <2>1 DEF KillOvershootBounded
  <1> QED
    BY <1>1, <1>2, <1>3, TypeCorrect, PTL DEF Spec

-----------------------------------------------------------------------------
(* The day's counters add up.                                                *)

(* What a step may do to the risk table, each on a day of the table.         *)
RiskOp ==
  \/ risk' = risk
  \/ \E d \in Days : risk' = [risk EXCEPT ![d] = [@ EXCEPT !.exists = TRUE]]
  \/ \E d \in Days, h \in BOOLEAN :
       risk' = [risk EXCEPT ![d] = [@ EXCEPT !.exists = TRUE, !.halted = h]]
  \/ \E d \in Days, spent, loss \in Int : risk' = AddSpentLoss(d, spent, loss)

(* What the fill of a daemon's step adds to the counters, and where.         *)
ReconcileCounters(t) ==
  \E loss \in Int : risk' \in {risk, AddSpentLoss(daemon[t].day, 0, loss)}

PaperCounters(t) ==
  \E loss \in Int :
    risk' = AddSpentLoss(orders[daemon[t].cur].day,
                         IF orders[daemon[t].cur].side = "BUY"
                         THEN orders[daemon[t].cur].value ELSE 0, loss)

LEMMA FillStepCounters ==
  ASSUME TypeOK, StateInv, NEW t \in Traders
  PROVE  /\ ReconcileApply(t) => ReconcileCounters(t)
         /\ PaperApply(t) => PaperCounters(t)
  <1> DEFINE d   == daemon[t]
             id  == d.cur
             row == orders[id]
  <1>1. d \in DaemonState /\ d.day \in Days /\ d.pos \in Position
    BY DEF TypeOK, DaemonState
  <1>2. ASSUME ReconcileApply(t) PROVE ReconcileCounters(t)
    <2> DEFINE fill == computeFill(d.pos, row.side, book[id].executed, book[id].avg)
    <2>1. id \in d.todo /\ d.pc = "apply"
      BY <1>2 DEF ReconcileApply, At, StateInv, ReconcilingInv
    <2>2. book[id].executed \in Int /\ book[id].avg \in Int
      BY <2>1, TodoRow DEF Taken
    <2>3. fill.loss \in Int
      BY <1>1, <2>2, FillType
    <2>4. risk' = risk \/ risk' = AddSpentLoss(d.day, 0, fill.loss)
      BY <1>2 DEF ReconcileApply, ApplyFill, storeVars
    <2> HIDE DEF fill
    <2> QED
      BY <2>3, <2>4 DEF ReconcileCounters
  <1>3. ASSUME PaperApply(t) PROVE PaperCounters(t)
    <2> DEFINE sim == simulatePaperFill(d.pos, row)
               loss == LossOf(d.pos, sim.pos)
    <2>1. /\ row \in Row /\ row.value \in Int /\ row.qty \in Int
          /\ row.price \in Int /\ row.price > 0
      BY <1>3, CurRow, RowOfId DEF PaperApply, At, PaperPC
    <2>2. sim.pos \in Position
      BY <1>1, <2>1, PaperFillType
    <2>3. loss \in Int
      BY <1>1, <2>2, LossOfInt
    <2>4. sim.spent = IF row.side = "BUY" THEN row.value ELSE 0
      BY DEF simulatePaperFill
    <2>5. risk' = AddSpentLoss(row.day, sim.spent, loss)
      BY <1>3 DEF PaperApply, ApplyFill
    <2> HIDE DEF loss, sim
    <2> QED
      BY <2>3, <2>4, <2>5 DEF PaperCounters
  <1> QED
    BY <1>2, <1>3

LEMMA StepRiskOp == ASSUME TypeOK, StateInv, [Next]_vars PROVE RiskOp
  <1>1. CASE risk' = risk
    BY <1>1 DEF RiskOp
  <1>2. ASSUME NEW t \in Traders, DaemonStep(t) PROVE RiskOp
    <2>1. daemon[t].day \in Days
      BY DEF TypeOK, DaemonState
    <2>2. CASE PlaceCheck(t)
      BY <2>1, <2>2 DEF PlaceCheck, RiskToday, RiskOp
    <2>3. CASE PlaceTripHalt(t)
      BY <2>1, <2>3 DEF PlaceTripHalt, SetHalted, RiskOp
    <2>4. CASE ReconcileApply(t) \/ PaperApply(t) \/ RecordAccepted(t)
      <3>1. daemon[t].day \in Days
        BY DEF TypeOK, DaemonState
      <3>2. CASE ReconcileApply(t)
        <4>1. \E loss \in Int : risk' \in {risk, AddSpentLoss(daemon[t].day, 0, loss)}
          BY <3>2, FillStepCounters DEF ReconcileCounters
        <4>2. PICK loss \in Int : risk' \in {risk, AddSpentLoss(daemon[t].day, 0, loss)}
          BY <4>1
        <4>3. 0 \in Int
          OBVIOUS
        <4> QED
          BY <3>1, <4>2, <4>3 DEF RiskOp
      <3>3. ASSUME PaperApply(t) \/ RecordAccepted(t)
            PROVE  orders[daemon[t].cur].day \in Days /\ orders[daemon[t].cur].value \in Int
        BY <3>3, CurRow, RowOfId DEF PaperApply, RecordAccepted, At, PaperPC, LivePC
      <3>4. CASE PaperApply(t)
        <4>1. \E spent, loss \in Int : risk' = AddSpentLoss(orders[daemon[t].cur].day, spent, loss)
          BY <3>3, <3>4, FillStepCounters DEF PaperCounters
        <4> QED
          BY <3>3, <3>4, <4>1 DEF RiskOp
      <3>5. CASE RecordAccepted(t)
        <4>1. risk' = AddSpentLoss(orders[daemon[t].cur].day, orders[daemon[t].cur].value, 0)
          BY <3>5 DEF RecordAccepted, ApplyFillSkipPosition
        <4>2. 0 \in Int
          OBVIOUS
        <4> QED
          BY <3>3, <3>5, <4>1, <4>2 DEF RiskOp
      <3> QED
        BY <2>4, <3>2, <3>4, <3>5
    <2>5. \/ PlaceCheck(t) \/ PlaceTripHalt(t)
          \/ ReconcileApply(t) \/ PaperApply(t) \/ RecordAccepted(t)
          \/ risk' = risk
      BY <1>2 DEF DaemonStep, Start, Crash, ReconcileStep, ListPending, ReadHistory,
             ReconcileReadPosition, ReconcileSettle, ReconcileEnd, ReconcileError, Settle,
             TickStep, Tick, EvaluateNothing, EvaluateBuy, EvaluateSell,
             PlaceStep, PlaceKillFile, PlaceInsert, InsertPending, PaperReadPosition, Send,
             SendAnswered, SendFails, SettleRejected, PlaceError, storeVars
    <2> QED
      BY <1>1, <2>2, <2>3, <2>4, <2>5
  <1>3. CASE OperatorStep
    <2>1. LocalDays \subseteq Days
      BY LocalDaysType
    <2> QED
      BY <1>1, <1>3, <2>1
      DEF OperatorStep, Kill, Resume, ToggleKillFile, ReadRisk, SetHalted, RiskToday,
          storeVars, RiskOp
  <1>4. CASE ExchangeStep \/ NextDay \/ UNCHANGED vars
    BY <1>1, <1>4 DEF ExchangeStep, NextDay, vars, storeVars
  <1> QED
    BY <1>2, <1>3, <1>4 DEF Next

(* A risk row is never deleted.                                              *)
LEMMA RiskRowsStay ==
  ASSUME TypeOK, RiskOp PROVE \A d \in Days : risk[d].exists => risk'[d].exists
  <1>1. risk \in [Days -> RiskState]
    BY DEF TypeOK, StoreTypeOK
  <1>2. ASSUME NEW d \in Days, risk' = [risk EXCEPT ![d] = [@ EXCEPT !.exists = TRUE]]
        PROVE  \A e \in Days : risk[e].exists => risk'[e].exists
    BY <1>1, <1>2 DEF RiskState
  <1>3. ASSUME NEW d \in Days, NEW h \in BOOLEAN,
               risk' = [risk EXCEPT ![d] = [@ EXCEPT !.exists = TRUE, !.halted = h]]
        PROVE  \A e \in Days : risk[e].exists => risk'[e].exists
    BY <1>1, <1>3 DEF RiskState
  <1>4. ASSUME NEW d \in Days, NEW spent \in Int, NEW loss \in Int,
               risk' = AddSpentLoss(d, spent, loss)
        PROVE  \A e \in Days : risk[e].exists => risk'[e].exists
    <2>1. CASE risk' = [risk EXCEPT ![d] = [@ EXCEPT !.spent = risk[d].spent + spent,
                                                     !.loss = risk[d].loss + loss]]
      BY <1>1, <2>1 DEF RiskState
    <2> QED
      BY <1>4, <2>1 DEF AddSpentLoss
  <1> QED
    BY <1>2, <1>3, <1>4 DEF RiskOp

(* On a day that has its row, the counters are incremented.                  *)
LEMMA AddExact ==
  ASSUME TypeOK, NEW day \in Days, NEW spent \in Int, NEW loss \in Int,
         risk' = AddSpentLoss(day, spent, loss), risk[day].exists
  PROVE  \A d \in Days :
           /\ risk'[d].spent = risk[d].spent + (IF d = day THEN spent ELSE 0)
           /\ risk'[d].loss = risk[d].loss + (IF d = day THEN loss ELSE 0)
  <1>1. risk \in [Days -> RiskState]
    BY DEF TypeOK, StoreTypeOK
  <1>2. risk' = [risk EXCEPT ![day] = [@ EXCEPT !.spent = risk[day].spent + spent,
                                                !.loss = risk[day].loss + loss]]
    BY DEF AddSpentLoss
  <1>3. /\ risk'[day].spent = risk[day].spent + spent
        /\ risk'[day].loss = risk[day].loss + loss
    BY <1>1, <1>2 DEF RiskState
  <1>4. ASSUME NEW d \in Days, d # day PROVE risk'[d] = risk[d]
    BY <1>1, <1>2, <1>4
  <1>5. ASSUME NEW d \in Days
        PROVE  /\ risk'[d].spent = risk[d].spent + (IF d = day THEN spent ELSE 0)
               /\ risk'[d].loss = risk[d].loss + (IF d = day THEN loss ELSE 0)
    BY <1>3, <1>4, RiskRows
  <1> QED
    BY <1>5

LEMMA CheckedDay ==
  ASSUME TypeOK, NEW t \in Traders, PlaceCheck(t), daemon'[t].pc = "insert"
  PROVE  daemon'[t].day = daemon[t].day /\ daemon'[t].intent = daemon[t].intent
  <1> DEFINE s == [daemon[t] EXCEPT !.pc = "insert"]
             trip == Tripping(t, daemon[t].day)
  <1>1. \/ daemon'[t] = s \/ daemon'[t] = trip \/ daemon'[t] = Idle(daemon[t].mode)
    BY BecomeIs DEF PlaceCheck
  <1>2. s.day = daemon[t].day /\ s.intent = daemon[t].intent
    BY DEF TypeOK, DaemonState
  <1>3. trip.pc = "trip" /\ Idle(daemon[t].mode).pc = "idle"
    BY DEF Tripping, Idle, Down
  <1> HIDE DEF s, trip
  <1> QED
    BY <1>1, <1>2, <1>3

LEMMA NextDayRows ==
  ASSUME TypeOK, StateInv, DayRows, [Next]_vars PROVE DayRows'
  <1>1. \A d \in Days : risk[d].exists => risk'[d].exists
    BY StepRiskOp, RiskRowsStay
  <1>2. \A id \in OrderIds : id <= lastId => orders'[id].day = orders[id].day
    BY StepKeepsTerms DEF SameTerms
  <1>3. \A id \in OrderIds : id <= lastId => risk'[orders'[id].day].exists
    BY <1>1, <1>2, RowOfId DEF DayRows
  <1>4. ASSUME NEW t \in Traders, DaemonStep(t) PROVE DayRows'
    <2>1. ASSUME NEW u \in Traders, daemon'[u].pc = "insert"
          PROVE  risk'[daemon'[u].day].exists
      <3>1. CASE u # t
        <4>1. daemon'[u] = daemon[u] /\ daemon[u].day \in Days
          BY <1>4, <3>1, OthersStay DEF TypeOK, DaemonState
        <4> QED
          BY <1>1, <2>1, <4>1 DEF DayRows
      <3>2. CASE u = t
        <4>1. PlaceCheck(t)
          BY <1>4, <2>1, <3>2, StepPC DEF AtEasePC
        <4>2. daemon'[t].day = daemon[t].day /\ daemon[t].day \in Days
          BY <2>1, <3>2, <4>1, CheckedDay DEF TypeOK, DaemonState
        <4>3. risk' = [risk EXCEPT ![daemon[t].day] = [@ EXCEPT !.exists = TRUE]]
          BY <4>1 DEF PlaceCheck, RiskToday
        <4> QED
          BY <3>2, <4>2, <4>3 DEF TypeOK, StoreTypeOK, RiskState
      <3> QED
        BY <3>1, <3>2
    <2>2. CASE PlaceInsert(t)
      <3>1. \A id \in OrderIds : id <= lastId' => id <= lastId \/ id = lastId'
        BY <2>2, InsertedRowIs, IdsAreInts
      <3>2. orders'[lastId'].day = daemon[t].day /\ daemon[t].pc = "insert" /\ risk' = risk
        BY <2>2, InsertedStep
      <3>3. risk'[orders'[lastId'].day].exists
        BY <3>2 DEF DayRows
      <3> QED
        BY <1>3, <2>1, <3>1, <3>3 DEF DayRows
    <2>3. CASE lastId' = lastId
      BY <1>3, <2>1, <2>3 DEF DayRows
    <2>4. PlaceInsert(t) \/ lastId' = lastId
      BY <1>4 DEF DaemonStep, Start, Crash, ReconcileStep, ListPending, ReadHistory,
           ReconcileReadPosition, ReconcileApply, ReconcileSettle, ReconcileEnd, ReconcileError,
           Settle, TickStep, Tick, EvaluateNothing, EvaluateBuy, EvaluateSell, PlaceStep,
           PlaceKillFile, PlaceCheck, PlaceTripHalt, PaperReadPosition, PaperApply, Send,
           SendAnswered, SendFails, SettleRejected, RecordAccepted, PlaceError, SetHalted,
           RiskToday, ApplyFill, ApplyFillSkipPosition, storeVars
    <2> QED
      BY <2>2, <2>3, <2>4
  <1>5. CASE ExchangeStep \/ OperatorStep \/ NextDay \/ UNCHANGED vars
    <2>1. UNCHANGED <<lastId, daemon>>
      BY <1>5 DEF ExchangeStep, OperatorStep, Kill, Resume, ToggleKillFile, ReadRisk, SetHalted,
                  RiskToday, NextDay, vars, storeVars
    <2>2. \A t \in Traders : daemon[t].day \in Days
      BY DEF TypeOK, DaemonState
    <2> QED
      BY <1>1, <1>3, <2>1, <2>2 DEF DayRows
  <1> QED
    BY <1>4, <1>5 DEF Next

-----------------------------------------------------------------------------
(* spent_today is the sum of the recorded exposures.                         *)
Counted(id) ==
  /\ orders[id].status = "accepted"
  /\ IF orders[id].mode = "paper" THEN orders[id].side = "BUY" ELSE applied[id] = 0

LEMMA RecordedIs == ASSUME NEW d PROVE Recorded(d) = {id \in OrderIds : Counted(id) /\ orders[id].day = d}
  BY DEF Recorded, Ledger, Counted

LEMMA CountedRow ==
  ASSUME TypeOK, StateInv, NEW id \in OrderIds, Counted(id)
  PROVE  id <= lastId /\ Value[id] \in Int
  <1>1. id <= lastId
    BY IdsAreInts DEF Counted, StateInv, RowInv
  <1> QED
    BY <1>1, RowOfId DEF Value

LEMMA RecordedSet ==
  ASSUME TypeOK, StateInv, NEW d
  PROVE  IsFiniteSet(Recorded(d)) /\ \A id \in Recorded(d) : Value[id] \in Int
  <1>1. IsFiniteSet(OrderIds)
    BY StoreAssumption, FS_Interval DEF OrderIds
  <1>2. Recorded(d) \subseteq OrderIds
    BY RecordedIs
  <1>3. IsFiniteSet(Recorded(d))
    BY <1>1, <1>2, FS_Subset
  <1> QED
    BY <1>3, CountedRow, RecordedIs

LEMMA ValueStays ==
  ASSUME TypeOK, StateInv, \A id \in OrderIds : id <= lastId => SameTerms(id),
         NEW id \in OrderIds, Counted(id)
  PROVE  Value'[id] = Value[id] /\ orders'[id].day = orders[id].day
  BY CountedRow DEF Value, SameTerms

LEMMA SpentStays ==
  ASSUME TypeOK, StateInv, SpentIsExact,
         \A d \in Days : risk'[d].spent = risk[d].spent,
         \A id \in OrderIds : id <= lastId => SameTerms(id),
         \A id \in OrderIds : Counted(id)' <=> Counted(id)
  PROVE  SpentIsExact'
  <1>1. ASSUME NEW d \in Days
        PROVE  risk'[d].spent = SumFunctionOnSet(Value', Recorded(d)')
    <2>1. Recorded(d)' = {id \in OrderIds : Counted(id)' /\ orders'[id].day = d}
      BY DEF Recorded, Ledger, Counted
    <2>2. Recorded(d)' = Recorded(d)
      BY <2>1, RecordedIs, ValueStays
    <2>3. \A id \in Recorded(d) : Value'[id] = Value[id]
      BY RecordedIs, ValueStays
    <2>4. SumFunctionOnSet(Value', Recorded(d)) = SumFunctionOnSet(Value, Recorded(d))
      BY <2>3, RecordedSet, SumSame
    <2> QED
      BY <2>2, <2>4 DEF SpentIsExact
  <1> QED
    BY <1>1 DEF SpentIsExact

(* An order that is recorded joins the sum of its day.                       *)
LEMMA SpendJoins ==
  ASSUME TypeOK, StateInv, SpentIsExact,
         NEW id \in OrderIds, id <= lastId, ~Counted(id), Counted(id)',
         \A d \in Days :
           risk'[d].spent = risk[d].spent + (IF d = orders[id].day THEN orders[id].value ELSE 0),
         \A other \in OrderIds : other <= lastId => SameTerms(other),
         \A other \in OrderIds : other # id => (Counted(other)' <=> Counted(other))
  PROVE  SpentIsExact'
  <1>1. /\ orders'[id].day = orders[id].day /\ Value'[id] = orders[id].value
        /\ orders[id].value \in Int
    BY RowOfId DEF SameTerms, Value
  <1>2. ASSUME NEW d \in Days
        PROVE  risk'[d].spent = SumFunctionOnSet(Value', Recorded(d)')
    <2> DEFINE R == Recorded(d)
    <2>1. Recorded(d)' = {other \in OrderIds : Counted(other)' /\ orders'[other].day = d}
      BY DEF Recorded, Ledger, Counted
    <2>2. /\ IsFiniteSet(R) /\ id \notin R
          /\ \A other \in R : Value[other] \in Int /\ Value'[other] = Value[other]
      BY RecordedSet, RecordedIs, ValueStays
    <2>3. SumFunctionOnSet(Value', R) = risk[d].spent
      BY <2>2, SumSame DEF SpentIsExact
    <2>4. CASE d # orders[id].day
      <3>1. Recorded(d)' = R
        BY <1>1, <2>1, <2>4, RecordedIs, ValueStays
      <3> QED
        BY <2>3, <2>4, <3>1, RiskRows
    <2>5. CASE d = orders[id].day
      <3>1. Recorded(d)' = R \cup {id}
        BY <1>1, <2>1, <2>5, RecordedIs, ValueStays
      <3>2. \A other \in R \cup {id} : Value'[other] \in Int
        BY <1>1, <2>2
      <3> HIDE DEF R
      <3>3. SumFunctionOnSet(Value', R \cup {id}) = SumFunctionOnSet(Value', R) + Value'[id]
        BY <2>2, <3>2, SumAdd
      <3> QED
        BY <1>1, <2>3, <2>5, <3>1, <3>3
    <2> QED
      BY <2>4, <2>5
  <1> QED
    BY <1>2 DEF SpentIsExact

(* A step that writes to the counters settles the pending row it works on.   *)
LEMMA RecordingSpend ==
  ASSUME TypeOK, StateInv, Owners, DayRows, SpentIsExact, NEW t \in Traders,
         PaperApply(t) \/ RecordAccepted(t)
  PROVE  SpentIsExact'
  <1>1. daemon[t].pc \in PaperPC \cup LivePC
    BY DEF PaperApply, RecordAccepted, At, PaperPC, LivePC
  <1>2. PICK id \in OrderIds :
          id = daemon[t].cur /\ id <= lastId /\ orders[id].status = "pending"
    BY <1>1, CurRow DEF Owners, OwnsRows
  <1>3. /\ orders[id].day \in Days /\ orders[id].value \in Int /\ risk[orders[id].day].exists
    BY <1>2, RowOfId DEF DayRows
  <1>4. ~Counted(id)
    BY <1>2 DEF Counted
  <1>5. orders' = [orders EXCEPT ![id] = [@ EXCEPT !.status = "accepted"]]
    BY <1>2 DEF PaperApply, RecordAccepted, ApplyFill, ApplyFillSkipPosition
  <1>6. /\ \A other \in OrderIds : SameTerms(other)
        /\ orders'[id].status = "accepted"
        /\ \A other \in OrderIds : other # id => orders'[other] = orders[other]
    BY <1>2, <1>5, StatusKeepsTerms
  <1>7. applied \in [OrderIds -> Nat] /\ applied[id] = 0
    BY <1>2 DEF TypeOK, StoreTypeOK, Owners, AppliedWasFilled
  <1>8. \A other \in OrderIds : other # id => applied'[other] = applied[other]
    BY <1>2, <1>7 DEF PaperApply, RecordAccepted, ApplyFill, ApplyFillSkipPosition
  <1>9. \A other \in OrderIds : other # id => (Counted(other)' <=> Counted(other))
    BY <1>6, <1>8 DEF Counted
  <1>10. CASE PaperApply(t)
    <2>1. orders[id].mode = "paper"
      BY <1>2, <1>10 DEF PaperApply, At, StateInv, PlacingInv, PaperPC
    <2>2. PICK loss \in Int :
            risk' = AddSpentLoss(orders[id].day,
                                 IF orders[id].side = "BUY" THEN orders[id].value ELSE 0, loss)
      BY <1>2, <1>10, FillStepCounters DEF PaperCounters
    <2>3. CASE orders[id].side = "BUY"
      <3>1. risk' = AddSpentLoss(orders[id].day, orders[id].value, loss)
        BY <2>2, <2>3
      <3>2. Counted(id)'
        BY <1>6, <2>1, <2>3 DEF Counted, SameTerms
      <3>3. \A e \in Days :
              risk'[e].spent = risk[e].spent + (IF e = orders[id].day THEN orders[id].value ELSE 0)
        BY <1>3, <3>1, AddExact
      <3> QED
        BY <1>2, <1>4, <1>6, <1>9, <3>2, <3>3, SpendJoins
    <2>4. CASE orders[id].side # "BUY"
      <3>1. risk' = AddSpentLoss(orders[id].day, 0, loss) /\ 0 \in Int
        BY <2>2, <2>4
      <3>2. ~Counted(id)'
        BY <1>6, <2>1, <2>4 DEF Counted, SameTerms
      <3>3. \A e \in Days : risk'[e].spent = risk[e].spent + (IF e = orders[id].day THEN 0 ELSE 0)
        BY <1>3, <3>1, AddExact
      <3>4. \A e \in Days : risk'[e].spent = risk[e].spent
        BY <3>3, RiskRows
      <3> QED
        BY <1>4, <1>6, <1>9, <3>2, <3>4, SpentStays
    <2> QED
      BY <2>3, <2>4
  <1>11. CASE RecordAccepted(t)
    <2>1. orders[id].mode = "live"
      BY <1>2, <1>11 DEF RecordAccepted, At, StateInv, PlacingInv, LivePC, LiveRow
    <2>2. /\ risk' = AddSpentLoss(orders[id].day, orders[id].value, 0) /\ 0 \in Int
          /\ applied' = applied
      BY <1>2, <1>11 DEF RecordAccepted, ApplyFillSkipPosition
    <2>3. Counted(id)'
      BY <1>6, <1>7, <2>1, <2>2 DEF Counted, SameTerms
    <2>4. \A e \in Days :
            risk'[e].spent = risk[e].spent + (IF e = orders[id].day THEN orders[id].value ELSE 0)
      BY <1>3, <2>2, AddExact
    <2> QED
      BY <1>2, <1>4, <1>6, <1>9, <2>3, <2>4, SpendJoins
  <1> QED
    BY <1>10, <1>11

LEMMA DaemonSpend ==
  ASSUME TypeOK, StateInv, Owners, DayRows, SpentIsExact, NEW t \in Traders, DaemonStep(t)
  PROVE  SpentIsExact'
  <1>1. \A id \in OrderIds : id <= lastId => SameTerms(id)
    BY StepKeepsTerms DEF Next
  <1>2. CASE PaperApply(t) \/ RecordAccepted(t)
    BY <1>2, RecordingSpend
  <1>3. CASE ~PaperApply(t) /\ ~RecordAccepted(t)
    <2>1. \A d \in Days : risk'[d].spent = risk[d].spent
      BY <1>3, ReconcilingStep, DaemonCounters DEF SameCounters
    <2>2. \A id \in OrderIds : Counted(id)' <=> Counted(id)
      <3>1. CASE PlaceInsert(t)
        <4>1. applied' = applied
          BY <3>1 DEF PlaceInsert, InsertPending
        <4> QED
          BY <3>1, <4>1, InsertedRowIs DEF Counted
      <3>2. CASE UNCHANGED <<orders, applied>>
        BY <3>2 DEF Counted
      <3>3. CASE ReconcileApply(t) /\ ~UNCHANGED <<orders, applied>>
        <4>1. daemon[t].pc = "apply" /\ daemon[t].cur \in daemon[t].todo
          BY <3>3 DEF ReconcileApply, At, StateInv, ReconcilingInv
        <4>2. PICK id \in OrderIds :
                /\ id = daemon[t].cur /\ id <= lastId /\ orders[id].mode = "live"
                /\ orders[id].symbol = SymbolOf[t]
          BY <4>1 DEF StateInv, ReconcilingInv, Reconcilable, LiveRow
        <4>3. orders[id].status = "pending"
          BY <4>1, <4>2 DEF Owners, OwnsRows
        <4>4. /\ orders' = [orders EXCEPT ![id] = [@ EXCEPT !.status = "accepted"]]
              /\ applied' = [applied EXCEPT ![id] = @ + 1]
          BY <3>3, <4>2 DEF ReconcileApply, ApplyFill, storeVars
        <4>5. /\ SameTerms(id)
              /\ \A other \in OrderIds : other # id => orders'[other] = orders[other]
          BY <4>2, <4>4, StatusKeepsTerms
        <4>6. /\ applied'[id] # 0
              /\ \A other \in OrderIds : other # id => applied'[other] = applied[other]
          BY <4>2, <4>4 DEF TypeOK, StoreTypeOK
        <4>7. ~Counted(id) /\ ~Counted(id)'
          BY <4>2, <4>3, <4>5, <4>6 DEF Counted, SameTerms
        <4> QED
          BY <4>5, <4>6, <4>7 DEF Counted
      <3>4. ASSUME NEW id \in OrderIds, id <= lastId, orders[id].status = "pending",
                   Settle(id, "rejected")
            PROVE  \A other \in OrderIds : Counted(other)' <=> Counted(other)
        <4>1. /\ orders'[id].status = "rejected" /\ applied' = applied
              /\ \A other \in OrderIds : other # id => orders'[other] = orders[other]
          BY <3>4, StatusKeepsTerms DEF Settle
        <4> QED
          BY <3>4, <4>1 DEF Counted
      <3>5. CASE ReconcileSettle(t)
        <4>1. PICK id \in daemon[t].todo : Settle(id, "rejected")
          BY <3>5 DEF ReconcileSettle
        <4>2. daemon[t].pc = "loop"
          BY <3>5 DEF ReconcileSettle, At
        <4>3. id \in OrderIds /\ id <= lastId /\ orders[id].symbol = SymbolOf[t]
          BY <4>1, <4>2 DEF StateInv, ReconcilingInv, Reconcilable, LiveRow
        <4>4. orders[id].status = "pending"
          BY <4>1, <4>2, <4>3 DEF Owners, OwnsRows
        <4> QED
          BY <3>4, <4>1, <4>3, <4>4
      <3>6. CASE SettleRejected(t)
        <4>1. Settle(daemon[t].cur, "rejected") /\ daemon[t].pc \in LivePC
          BY <3>6 DEF SettleRejected, At, LivePC
        <4>2. /\ daemon[t].cur \in OrderIds /\ daemon[t].cur <= lastId
              /\ orders[daemon[t].cur].status = "pending"
          BY <4>1, CurRow DEF Owners, OwnsRows
        <4> QED
          BY <3>4, <4>1, <4>2
      <3>7. \/ PlaceInsert(t) \/ ReconcileApply(t) \/ ReconcileSettle(t) \/ SettleRejected(t)
            \/ UNCHANGED <<orders, applied>>
        BY <1>3 DEF DaemonStep, Start, Crash, ReconcileStep, ListPending, ReadHistory,
             ReconcileReadPosition, ReconcileEnd, ReconcileError, TickStep, Tick,
             EvaluateNothing, EvaluateBuy, EvaluateSell, PlaceStep, PlaceKillFile, PlaceCheck,
             PlaceTripHalt, PaperReadPosition, Send, SendAnswered, SendFails, PlaceError,
             SetHalted, RiskToday, storeVars
      <3> QED
        BY <3>1, <3>2, <3>3, <3>5, <3>6, <3>7
    <2> QED
      BY <1>1, <2>1, <2>2, SpentStays
  <1> QED
    BY <1>2, <1>3

LEMMA NextSpend ==
  ASSUME TypeOK, StateInv, Owners, DayRows, SpentIsExact, [Next]_vars
  PROVE  SpentIsExact'
  <1>1. CASE ExchangeStep \/ OperatorStep \/ NextDay \/ UNCHANGED vars
    <2>1. SameCounters /\ UNCHANGED <<orders, applied>>
      BY <1>1, OutsideCounters
      DEF ExchangeStep, OperatorStep, Kill, Resume, ToggleKillFile, ReadRisk, SetHalted,
          RiskToday, NextDay, vars, storeVars
    <2> QED
      BY <2>1, SpentStays DEF SameCounters, SameTerms, Counted
  <1> QED
    BY <1>1, DaemonSpend DEF Next

LEMMA InitSpend == Init => DayRows /\ SpentIsExact
  <1> SUFFICES ASSUME Init PROVE DayRows /\ SpentIsExact
    OBVIOUS
  <1>1. \A id \in OrderIds : orders[id].status = "none" /\ ~(id <= lastId)
    BY StoreAssumption DEF Init, StoreInit, NoRow, OrderIds
  <1>2. \A d \in Days : Recorded(d) = {} /\ risk[d].spent = 0
    BY <1>1 DEF Recorded, Ledger, Init, StoreInit, NewRisk
  <1>3. DayRows
    BY <1>1 DEF DayRows, Init, Down
  <1> QED
    BY <1>2, <1>3, SumEmpty DEF SpentIsExact

(* With one daemon per pair, on any number of pairs and days: spent_today is *)
(* the exposure of the orders the day's guard admitted and Place recorded,   *)
(* each once (pipeline.go:74, store.go).  No answer after midnight, no crash *)
(* between the answer and the record, and no fill that Reconcile applies     *)
(* later moves it elsewhere or counts it twice.                              *)
THEOREM SpendAddsUp ==
  ASSUME OneTraderPerPair
  PROVE  Spec => []SpentIsExact
  <1> DEFINE Inv == Owners /\ DayRows /\ SpentIsExact
  <1>1. Init => Inv
    BY InitOwner, InitSpend
  <1>2. (TypeOK /\ StateInv) /\ Inv /\ [Next]_vars => Inv'
    BY NextOwner, NextDayRows, NextSpend
  <1>3. Inv => SpentIsExact
    OBVIOUS
  <1> HIDE DEF Inv
  <1> QED
    BY <1>1, <1>2, <1>3, TypeCorrect, PTL DEF Spec

(* The order a lone daemon has in hand is not recorded yet, and its Check    *)
(* left room for it.                                                         *)
LEMMA InHandFits ==
  ASSUME LoneDaemon, MaxDaily > 0, TypeOK, StateInv, Owners, SpentInv, SpentIsExact
  PROVE  DailyCapHolds
  <1> SUFFICES ASSUME NEW d \in Days
               PROVE  SumFunctionOnSet(Value, Recorded(d) \cup InHand(d)) <= MaxDaily
    BY DEF DailyCapHolds
  <1> DEFINE R == Recorded(d)
             H == InHand(d)
  <1>1. IsFiniteSet(R) /\ \A id \in R : Value[id] \in Int
    BY RecordedSet
  <1>2. risk[d].spent = SumFunctionOnSet(Value, R) /\ risk[d].spent <= MaxDaily
    BY DEF SpentIsExact, SpentInv
  <1>3. CASE H = {}
    <2>1. R \cup H = R
      BY <1>3
    <2> QED
      BY <1>2, <2>1
  <1>4. CASE H # {}
    <2>1. PICK id \in H : TRUE
      BY <1>4
    <2>2. id \in OrderIds /\ orders[id].day = d
      BY <2>1 DEF InHand, Ledger
    <2>3. PICK t \in Traders : daemon[t].pc \in PaperPC \cup LivePC /\ daemon[t].cur = id
      BY <2>1 DEF InHand
    <2>4. \A other \in H : other = id
      BY <2>3 DEF InHand, LoneDaemon
    <2>5. orders[id].status = "pending"
      BY <2>3 DEF Owners, OwnsRows
    <2>6. id \notin R
      BY <2>5 DEF Recorded
    <2>7. Value[id] = orders[id].value /\ orders[id].value \in Int
      BY <2>2, <2>3, CurRow, RowOfId DEF Value
    <2>8. risk[d].spent + orders[id].value <= MaxDaily
      BY <2>2, <2>3 DEF SpentInv
    <2>9. R \cup H = R \cup {id}
      BY <2>1, <2>4
    <2> HIDE DEF R, H
    <2>10. SumFunctionOnSet(Value, R \cup {id}) = SumFunctionOnSet(Value, R) + Value[id]
      BY <1>1, <2>6, <2>7, SumAdd
    <2>11. SumFunctionOnSet(Value, R \cup H) = risk[d].spent + orders[id].value
      BY <1>2, <2>7, <2>9, <2>10
    <2> QED
      BY <2>8, <2>11 DEF R, H
  <1> QED
    BY <1>3, <1>4

(* INVX_MAX_DAILY for a lone daemon (guard.go:33): the orders of a day that  *)
(* Place recorded and the one it has in hand never exceed the cap together,  *)
(* although the counter is read in one transaction and incremented in        *)
(* another, across crashes, failing writes and midnights.                    *)
THEOREM DailyCapIsKept ==
  ASSUME LoneDaemon
  PROVE  Spec => []DailyCapHolds
  <1>1. CASE MaxDaily > 0
    <2> DEFINE Inv == Owners /\ DayRows /\ SpentIsExact /\ SpentInv
    <2>1. OneTraderPerPair
      BY DEF LoneDaemon, OneTraderPerPair
    <2>2. Init => Inv
      BY InitOwner, InitSpend, InitSpent
    <2>3. (TypeOK /\ StateInv) /\ Inv /\ [Next]_vars => Inv'
      BY <1>1, <2>1, NextOwner, NextDayRows, NextSpend, NextSpent
    <2>4. (TypeOK /\ StateInv) /\ Inv => DailyCapHolds
      BY <1>1, InHandFits
    <2> HIDE DEF Inv
    <2> QED
      BY <2>2, <2>3, <2>4, TypeCorrect, PTL DEF Spec
  <1>2. CASE ~(MaxDaily > 0)
    <2>1. DailyCapHolds
      BY <1>2 DEF DailyCapHolds
    <2>2. DailyCapHolds'
      BY <1>2 DEF DailyCapHolds
    <2>3. Init => DailyCapHolds
      BY <2>1
    <2>4. DailyCapHolds /\ [Next]_vars => DailyCapHolds'
      BY <2>2
    <2> QED
      BY <2>3, <2>4, PTL DEF Spec
  <1> QED
    BY <1>1, <1>2

-----------------------------------------------------------------------------
(* The overrun of the daily cap by several daemons.                          *)
LEMMA ClaimType ==
  ASSUME TypeOK, StateInv, NEW d, NEW t \in Traders
  PROVE  ClaimOn(d)[t] \in Nat
  <1>1. daemon[t].pc = "insert" => orderValue(daemon[t].intent) \in Int
    <2>1. daemon[t].pc = "insert" => daemon[t].intent \in Intent
      BY DEF TypeOK, DaemonState, StateInv, PlacingInv
    <2> QED
      BY <2>1, OrderValueType
  <1>2. daemon[t].pc \in PaperPC \cup LivePC => orders[daemon[t].cur].value \in Int
    BY CurRow, RowOfId
  <1> QED
    BY <1>1, <1>2 DEF ClaimOn, Exposure

(* What a daemon that is not at an order claims.                             *)
LEMMA NoClaim ==
  ASSUME NEW d, NEW t \in Traders, daemon'[t].pc \notin HoldsPC PROVE ClaimOn(d)'[t] = 0
  BY DEF ClaimOn, HoldsPC

LEMMA InsertClaim ==
  ASSUME NEW d, NEW t \in Traders, daemon[t].pc = "insert"
  PROVE  ClaimOn(d)[t] = IF daemon[t].day = d THEN Exposure(orderValue(daemon[t].intent)) ELSE 0
  BY DEF ClaimOn, PaperPC, LivePC

LEMMA RowClaim ==
  ASSUME NEW d, NEW t \in Traders, daemon[t].pc \in PaperPC \cup LivePC
  PROVE  ClaimOn(d)[t] = IF orders[daemon[t].cur].day = d
                         THEN Exposure(orders[daemon[t].cur].value) ELSE 0
  <1>1. daemon[t].pc # "insert"
    BY DEF PaperPC, LivePC
  <1> QED
    BY <1>1 DEF ClaimOn

LEMMA OthersClaim ==
  ASSUME TypeOK, StateInv, NEW t \in Traders, DaemonStep(t), NEW u \in Traders, u # t, NEW d
  PROVE  ClaimOn(d)'[u] = ClaimOn(d)[u]
  <1>1. daemon'[u] = daemon[u]
    BY OthersStay
  <1>2. ASSUME daemon[u].pc \in PaperPC \cup LivePC
        PROVE  /\ orders'[daemon[u].cur].day = orders[daemon[u].cur].day
               /\ orders'[daemon[u].cur].value = orders[daemon[u].cur].value
    BY <1>2, CurRow, StepKeepsTerms DEF SameTerms, Next
  <1> QED
    BY <1>1, <1>2 DEF ClaimOn

(* A step after which the daemon claims no more than it did and the day's    *)
(* spend grew by no more than the difference.                                *)
LEMMA ClaimPaid ==
  ASSUME IsFiniteSet(Traders), TypeOK, StateInv, NEW t \in Traders, DaemonStep(t), NEW d \in Days,
         ClaimOn(d)'[t] \in Int, risk'[d].spent \in Int,
         risk'[d].spent + ClaimOn(d)'[t] <= risk[d].spent + ClaimOn(d)[t]
  PROVE  risk'[d].spent + SumFunctionOnSet(ClaimOn(d)', Traders)
           <= risk[d].spent + SumFunctionOnSet(ClaimOn(d), Traders)
  <1> DEFINE f == ClaimOn(d)
             g == ClaimOn(d)'
  <1>1. \A u \in Traders : f[u] \in Int
    BY ClaimType
  <1>2. \A u \in Traders : u # t => g[u] = f[u]
    BY OthersClaim
  <1>3. \A u \in Traders : f[u] \in Int /\ g[u] \in Int
    BY <1>1, <1>2
  <1>4. risk[d].spent \in Int
    BY RiskRows
  <1> HIDE DEF f, g
  <1>5. SumFunctionOnSet(g, Traders) = SumFunctionOnSet(f, Traders) + (g[t] - f[t])
    BY <1>2, <1>3, SumChange
  <1>6. SumFunctionOnSet(f, Traders) \in Int
    BY <1>3, SumInt
  <1>7. risk'[d].spent + g[t] <= risk[d].spent + f[t]
    BY DEF f, g
  <1>8. risk'[d].spent + SumFunctionOnSet(g, Traders) <= risk[d].spent + SumFunctionOnSet(f, Traders)
    BY <1>3, <1>4, <1>5, <1>6, <1>7
  <1> QED
    BY <1>8 DEF f, g

(* A Check that lets an order pass under both caps leaves room for its own   *)
(* claim, and every other claim is at most MaxOrder.                         *)
LEMMA ClaimMade ==
  ASSUME IsFiniteSet(Traders), TypeOK, StateInv, NEW t \in Traders, DaemonStep(t), NEW d \in Days,
         \A u \in Traders : ClaimOn(d)[u] <= MaxOrder,
         risk[d].spent \in Int, risk[d].spent + ClaimOn(d)'[t] <= MaxDaily, ClaimOn(d)'[t] \in Int
  PROVE  risk[d].spent + SumFunctionOnSet(ClaimOn(d)', Traders)
           <= MaxDaily + (Cardinality(Traders) - 1) * MaxOrder
  <1> DEFINE f == ClaimOn(d)
             g == ClaimOn(d)'
             rest == Traders \ {t}
  <1>1. \A u \in rest : g[u] \in Int /\ g[u] <= MaxOrder
    BY ClaimType, OthersClaim
  <1>2. /\ IsFiniteSet(rest) /\ Cardinality(rest) = Cardinality(Traders) - 1
        /\ Cardinality(Traders) \in Nat
    BY FS_RemoveElement, FS_CardinalityType
  <1>3. MaxOrder \in Int /\ MaxDaily \in Int
    BY CapsAssumption
  <1>4. g[t] \in Int /\ risk[d].spent + g[t] <= MaxDaily
    OBVIOUS
  <1>5. \A u \in Traders : g[u] \in Int
    BY <1>1, <1>4
  <1> HIDE DEF f, g
  <1>6. SumFunctionOnSet(g, Traders) = g[t] + SumFunctionOnSet(g, rest)
    BY <1>5, SumTake
  <1> HIDE DEF rest
  <1>7. SumFunctionOnSet(g, rest) <= Cardinality(rest) * MaxOrder
    BY <1>1, <1>2, <1>3, SumBelow
  <1>8. SumFunctionOnSet(g, rest) \in Int
    BY <1>1, <1>2, SumInt
  <1>9. Cardinality(rest) * MaxOrder \in Int
    BY <1>2, <1>3
  <1>10. risk[d].spent + SumFunctionOnSet(g, Traders) <= MaxDaily + Cardinality(rest) * MaxOrder
    BY <1>3, <1>4, <1>6, <1>7, <1>8, <1>9
  <1> QED
    BY <1>2, <1>10 DEF g

(* Every step of a daemon but a Check that lets an order pass pays with its  *)
(* claim for what it adds to the spend.                                      *)
LEMMA PaidStep ==
  ASSUME TypeOK, StateInv, NEW t \in Traders, DaemonStep(t), NEW d \in Days,
         ~(PlaceCheck(t) /\ daemon'[t].pc \in HoldsPC)
  PROVE  /\ ClaimOn(d)'[t] \in Int /\ ClaimOn(d)'[t] <= ClaimOn(d)[t]
         /\ risk'[d].spent + ClaimOn(d)'[t] <= risk[d].spent + ClaimOn(d)[t]
  <1>1. ClaimOn(d)[t] \in Nat /\ risk[d].spent \in Int
    BY ClaimType, RiskRows
  <1>2. CASE daemon'[t].pc \notin HoldsPC
    <2>1. ClaimOn(d)'[t] = 0
      BY <1>2, NoClaim
    <2>2. CASE ~PaperApply(t) /\ ~RecordAccepted(t)
      <3>1. risk'[d].spent = risk[d].spent
        BY <2>2, ReconcilingStep, DaemonCounters DEF SameCounters
      <3> QED
        BY <1>1, <2>1, <3>1
    <2>3. CASE PaperApply(t) \/ RecordAccepted(t)
      <3> DEFINE row == orders[daemon[t].cur]
      <3>1. /\ daemon[t].pc \in PaperPC \cup LivePC /\ row.value \in Int
            /\ \/ Adds(row.day, row.value) \/ Adds(row.day, 0)
        BY <2>3, RecordingStep
      <3>2. ClaimOn(d)[t] = IF row.day = d THEN Exposure(row.value) ELSE 0
        BY <3>1, RowClaim
      <3>3. /\ row.value <= Exposure(row.value) /\ 0 <= Exposure(row.value)
            /\ Exposure(row.value) \in Int
        BY <3>1 DEF Exposure
      <3>4. \/ risk'[d].spent = risk[d].spent
            \/ d = row.day /\ risk'[d].spent \in {risk[d].spent + row.value, risk[d].spent + 0}
        BY <3>1 DEF Adds
      <3> HIDE DEF row
      <3>5. risk'[d].spent <= risk[d].spent + ClaimOn(d)[t] /\ risk'[d].spent \in Int
        BY <1>1, <3>1, <3>2, <3>3, <3>4
      <3> QED
        BY <1>1, <2>1, <3>5
    <2> QED
      BY <2>2, <2>3
  <1>3. CASE PlaceInsert(t)
    <2>1. /\ daemon[t].pc = "insert" /\ daemon'[t].pc \in {"send", "paper"}
          /\ daemon'[t].cur = lastId' /\ risk' = risk
          /\ orders'[lastId'].day = daemon[t].day
          /\ orders'[lastId'].value = orderValue(daemon[t].intent)
      BY <1>3, InsertedStep
    <2>2. ClaimOn(d)'[t] = IF orders'[daemon'[t].cur].day = d
                           THEN Exposure(orders'[daemon'[t].cur].value) ELSE 0
      BY <2>1 DEF ClaimOn, Exposure, PaperPC, LivePC
    <2>3. ClaimOn(d)'[t] = ClaimOn(d)[t]
      BY <2>1, <2>2, InsertClaim
    <2> QED
      BY <1>1, <2>1, <2>3
  <1>4. CASE KeepsRow(t)
    <2>1. /\ daemon[t].pc \in PaperPC \cup LivePC /\ daemon'[t].pc \in PaperPC \cup LivePC
          /\ daemon'[t].cur = daemon[t].cur /\ UNCHANGED <<orders, risk>>
      BY <1>4, KeptStep
    <2>2. daemon'[t].pc # "insert"
      BY <2>1 DEF PaperPC, LivePC
    <2>3. ClaimOn(d)'[t] = IF orders'[daemon'[t].cur].day = d
                           THEN Exposure(orders'[daemon'[t].cur].value) ELSE 0
      BY <2>1, <2>2 DEF ClaimOn, Exposure
    <2>4. ClaimOn(d)'[t] = ClaimOn(d)[t]
      BY <2>1, <2>3, RowClaim
    <2> QED
      BY <1>1, <2>1, <2>4
  <1> QED
    BY <1>2, <1>3, <1>4, WhereDaemonGoes

LEMMA DaemonOverrun ==
  ASSUME IsFiniteSet(Traders), MaxDaily > 0, MaxOrder > 0, TypeOK, StateInv, TypeOK', OverrunInv,
         NEW t \in Traders, DaemonStep(t)
  PROVE  OverrunInv'
  <1>1. ASSUME NEW d \in Days
        PROVE  /\ \A u \in Traders : ClaimOn(d)[u] <= MaxOrder
               /\ risk[d].spent + SumFunctionOnSet(ClaimOn(d), Traders)
                    <= MaxDaily + (Cardinality(Traders) - 1) * MaxOrder
               /\ risk[d].spent \in Int /\ risk'[d].spent \in Int
    BY RiskRows DEF OverrunInv, TypeOK, StoreTypeOK, RiskState
  <1>2. MaxOrder \in Int /\ MaxDaily \in Int /\ Cardinality(Traders) \in Nat
    BY CapsAssumption, FS_CardinalityType
  <1>3. (Cardinality(Traders) - 1) * MaxOrder \in Int
    BY <1>2
  <1>4. ASSUME NEW d \in Days
        PROVE  /\ \A u \in Traders : ClaimOn(d)'[u] \in Int /\ ClaimOn(d)'[u] <= MaxOrder
               /\ risk'[d].spent + SumFunctionOnSet(ClaimOn(d)', Traders)
                    <= MaxDaily + (Cardinality(Traders) - 1) * MaxOrder
    <2> DEFINE before == SumFunctionOnSet(ClaimOn(d), Traders)
               after  == SumFunctionOnSet(ClaimOn(d)', Traders)
               bound  == MaxDaily + (Cardinality(Traders) - 1) * MaxOrder
    <2>1. ASSUME ClaimOn(d)'[t] \in Int, ClaimOn(d)'[t] <= MaxOrder
          PROVE  \A u \in Traders : ClaimOn(d)'[u] \in Int /\ ClaimOn(d)'[u] <= MaxOrder
      BY <1>1, <2>1, OthersClaim, ClaimType
    <2>2. bound \in Int /\ before \in Int
      BY <1>2, <1>3, ClaimType, SumInt
    <2>3. ASSUME ClaimOn(d)'[t] \in Int, ClaimOn(d)'[t] <= MaxOrder PROVE after \in Int
      BY <2>1, <2>3, SumInt
    <2>4. ASSUME ClaimOn(d)'[t] \in Int, ClaimOn(d)'[t] <= ClaimOn(d)[t],
                 risk'[d].spent + ClaimOn(d)'[t] <= risk[d].spent + ClaimOn(d)[t]
          PROVE  ClaimOn(d)'[t] <= MaxOrder /\ risk'[d].spent + after <= bound
      <3>1. ClaimOn(d)'[t] <= MaxOrder
        BY <1>1, <1>2, <2>4, ClaimType
      <3>2. risk'[d].spent + after <= risk[d].spent + before
        BY <1>1, <2>4, ClaimPaid
      <3>3. after \in Int /\ risk[d].spent + before <= bound
        BY <1>1, <2>3, <2>4, <3>1
      <3> HIDE DEF before, after, bound
      <3>4. risk'[d].spent + after <= bound
        BY <1>1, <2>2, <3>2, <3>3
      <3> QED
        BY <3>1, <3>4
    <2>5. CASE ~(PlaceCheck(t) /\ daemon'[t].pc \in HoldsPC)
      BY <2>1, <2>4, <2>5, PaidStep
    <2>6. CASE PlaceCheck(t) /\ daemon'[t].pc \in HoldsPC
      <3> DEFINE v == orderValue(daemon'[t].intent)
      <3>1. /\ daemon'[t].pc = "insert" /\ risk'[daemon'[t].day].spent + v <= MaxDaily
            /\ v <= MaxOrder
        BY <2>6, CheckedStep
      <3>2. /\ daemon'[t].day = daemon[t].day /\ daemon[t].day \in Days
            /\ daemon'[t].intent = daemon[t].intent
        BY <2>6, <3>1, CheckedDay DEF TypeOK, DaemonState
      <3>3. ClaimOn(d)'[t] = IF daemon'[t].day = d THEN Exposure(v) ELSE 0
        BY <3>1 DEF ClaimOn, Exposure, PaperPC, LivePC
      <3>4. v \in Int
        <4>1. daemon[t].pc = "risk" /\ daemon[t] \in DaemonState
          BY <2>6 DEF PlaceCheck, At, TypeOK
        <4>2. daemon[t].intent \in Intent
          BY <4>1 DEF DaemonState, StateInv, PlacingInv
        <4> QED
          BY <3>2, <4>2, OrderValueType
      <3>5. risk'[d].spent = risk[d].spent
        BY <2>6, <3>2, RiskTodayCounters DEF PlaceCheck, SameCounters
      <3> HIDE DEF v
      <3>6. CASE daemon'[t].day = d /\ v > 0
        <4>1. ClaimOn(d)'[t] = v
          BY <3>3, <3>6 DEF Exposure
        <4>2. risk[d].spent + ClaimOn(d)'[t] <= MaxDaily
          BY <3>1, <3>5, <3>6, <4>1
        <4>3. risk[d].spent + after <= bound
          BY <1>1, <3>4, <4>1, <4>2, ClaimMade
        <4> QED
          BY <2>1, <3>1, <3>4, <3>5, <4>1, <4>3
      <3>7. CASE ~(daemon'[t].day = d /\ v > 0)
        <4>1. ClaimOn(d)'[t] = 0
          BY <3>3, <3>4, <3>7 DEF Exposure
        <4>2. ClaimOn(d)[t] \in Nat
          BY ClaimType
        <4>3. /\ ClaimOn(d)'[t] \in Int /\ ClaimOn(d)'[t] <= ClaimOn(d)[t]
              /\ risk'[d].spent + ClaimOn(d)'[t] <= risk[d].spent + ClaimOn(d)[t]
          BY <1>1, <3>5, <4>1, <4>2
        <4> QED
          BY <2>1, <2>4, <4>3
      <3> QED
        BY <3>6, <3>7
    <2> QED
      BY <2>5, <2>6
  <1> QED
    BY <1>4 DEF OverrunInv

LEMMA NextOverrun ==
  ASSUME IsFiniteSet(Traders), TypeOK, StateInv, OverrunInv, [Next]_vars
  PROVE  OverrunInv'
  <1> SUFFICES ASSUME MaxDaily > 0, MaxOrder > 0 PROVE OverrunInv'
    BY DEF OverrunInv
  <1>1. TypeOK'
    BY NextType
  <1>2. CASE ExchangeStep \/ OperatorStep \/ NextDay \/ UNCHANGED vars
    <2>1. SameCounters /\ UNCHANGED <<orders, daemon>>
      BY <1>2, OutsideCounters
    <2>2. \A d \in Days : ClaimOn(d)' = ClaimOn(d)
      BY <2>1 DEF ClaimOn
    <2> QED
      BY <2>1, <2>2 DEF OverrunInv, SameCounters
  <1> QED
    BY <1>1, <1>2, DaemonOverrun DEF Next

LEMMA InitOverrun == ASSUME IsFiniteSet(Traders), Traders # {} PROVE Init => OverrunInv
  <1> SUFFICES ASSUME Init, MaxDaily > 0, MaxOrder > 0, NEW d \in Days
               PROVE  /\ \A t \in Traders : ClaimOn(d)[t] <= MaxOrder
                      /\ risk[d].spent + SumFunctionOnSet(ClaimOn(d), Traders)
                           <= MaxDaily + (Cardinality(Traders) - 1) * MaxOrder
    BY DEF OverrunInv
  <1>1. \A t \in Traders : ClaimOn(d)[t] = 0
    BY DEF Init, Down, ClaimOn, PaperPC, LivePC
  <1>2. SumFunctionOnSet(ClaimOn(d), Traders) = 0
    BY <1>1, SumZero
  <1>3. risk[d].spent = 0
    BY DEF Init, StoreInit, NewRisk
  <1>4. Cardinality(Traders) - 1 \in Nat /\ MaxOrder \in Nat /\ MaxDaily \in Nat
    BY CapsAssumption, FS_CardinalityType, FS_EmptySet
  <1>5. (Cardinality(Traders) - 1) * MaxOrder \in Nat
    BY <1>4
  <1> QED
    BY <1>1, <1>2, <1>3, <1>4, <1>5

(* Any number of daemons on one risk row, on the same pair or not: the spend *)
(* of a day exceeds INVX_MAX_DAILY by at most INVX_MAX_ORDER for each daemon *)
(* but one, although each reads the counter in one transaction (RiskToday,   *)
(* pipeline.go:84) and increments it in another.                             *)
THEOREM OverrunIsBounded ==
  ASSUME IsFiniteSet(Traders), Traders # {}
  PROVE  Spec => []DailyOverrunBounded
  <1>1. Init => OverrunInv
    BY InitOverrun
  <1>2. (TypeOK /\ StateInv) /\ OverrunInv /\ [Next]_vars => OverrunInv'
    BY NextOverrun
  <1>3. (TypeOK /\ StateInv) /\ OverrunInv => DailyOverrunBounded
    <2> SUFFICES ASSUME TypeOK, StateInv, OverrunInv, MaxDaily > 0, MaxOrder > 0, NEW d \in Days
                 PROVE  risk[d].spent <= MaxDaily + (Cardinality(Traders) - 1) * MaxOrder
      BY DEF DailyOverrunBounded
    <2>1. SumFunctionOnSet(ClaimOn(d), Traders) \in Nat
      BY ClaimType, SumNat
    <2>2. risk[d].spent + SumFunctionOnSet(ClaimOn(d), Traders)
            <= MaxDaily + (Cardinality(Traders) - 1) * MaxOrder
      BY DEF OverrunInv
    <2>3. risk[d].spent \in Int /\ MaxDaily \in Int /\ MaxOrder \in Int /\ Cardinality(Traders) \in Int
      BY RiskRows, CapsAssumption, FS_CardinalityType
    <2>4. (Cardinality(Traders) - 1) * MaxOrder \in Int
      BY <2>3
    <2> QED
      BY <2>1, <2>2, <2>3, <2>4
  <1> QED
    BY <1>1, <1>2, <1>3, TypeCorrect, PTL DEF Spec

-----------------------------------------------------------------------------
(* Manual orders.  A command reads the risk row, or sends a request under an *)
(* id no row has, or cancels; the exchange acts on what it sent.             *)

ReadsRiskRow ==
  (\E d \in Days : RiskToday(d)) /\ UNCHANGED <<exchangeVars, daemon, localVars>>

SendsElsewhere ==
  /\ \E r \in Request : r.id \notin OrderIds /\ wire' = wire \cup {r}
  /\ UNCHANGED <<book, storeVars, daemon, localVars>>

MovesElsewhere ==
  /\ \E id \in ClientIds \ OrderIds : BookStep(id)
  /\ UNCHANGED <<storeVars, daemon, localVars>>

ManualMoves == UNCHANGED vars \/ ReadsRiskRow \/ SendsElsewhere \/ MovesElsewhere \/ ExchangeStep

(* What a command knows: its id is no row's, and no kill stood when it read  *)
(* the risk row.                                                             *)
ManualForm ==
  /\ manual.begun \in 0 .. MaxManual
  /\ manual.pc # "none" => manual \in ManualState /\ manual.req.id \notin OrderIds

ManualCleared == manual.pc = "send" => manual.cleared

LEMMA ManualIds ==
  ASSUME NEW n \in 1 .. MaxManual PROVE ManualId(n) \in ClientIds \ OrderIds
  <1>1. MaxOrders \in Nat /\ MaxManual \in Nat /\ n \in Int /\ 1 <= n /\ n <= MaxManual
    BY ManualAssumption, StoreAssumption
  <1>2. MaxOrders + n \in (MaxOrders + 1)..(MaxOrders + MaxManual) /\ MaxOrders + n \notin 1 .. MaxOrders
    BY <1>1
  <1> QED
    BY <1>2, ManualAssumption DEF ManualId, OrderIds

LEMMA ManualStepMoves ==
  ASSUME TypeOK, ManualForm, ManualStep PROVE ManualMoves
  <1>1. CASE BeginManual \/ ManualKillFile \/ ManualFails
    BY <1>1 DEF BeginManual, ManualKillFile, ManualFails, ManualMoves
  <1>2. CASE ManualRisk
    <2>1. \E d \in Days : RiskToday(d)
      BY <1>2, LocalDaysType DEF ManualRisk
    <2> QED
      BY <1>2, <2>1 DEF ManualRisk, ManualMoves, ReadsRiskRow
  <1>3. CASE ManualSend
    <2>1. manual.req \in Request /\ manual.req.id \notin OrderIds
      BY <1>3 DEF ManualSend, ManualForm, ManualState
    <2> QED
      BY <1>3, <2>1 DEF ManualSend, Submit, ManualMoves, SendsElsewhere
  <1>4. CASE ManualAtExchange
    <2>1. PICK n \in 1 .. MaxManual : BookStep(ManualId(n))
      BY <1>4 DEF ManualAtExchange, BookStep
    <2>2. \E id \in ClientIds \ OrderIds : BookStep(id)
      BY <2>1, ManualIds
    <2> QED
      BY <1>4, <2>2 DEF ManualAtExchange, ManualMoves, MovesElsewhere
  <1>5. ASSUME NEW id \in ClientIds, Cancel(id) PROVE ManualMoves
    <2>1. CASE id \in OrderIds
      BY <1>5, <2>1 DEF Cancel, ExchangeStep, ManualMoves
    <2>2. CASE id \notin OrderIds
      BY <1>5, <2>2 DEF Cancel, BookStep, MovesElsewhere, ManualMoves
    <2> QED
      BY <2>1, <2>2
  <1> QED
    BY <1>1, <1>2, <1>3, <1>4, <1>5 DEF ManualStep

(* Seen from the rows, what happens elsewhere at the exchange is nothing.    *)
RowsUntouched ==
  /\ UNCHANGED <<storeVars, daemon, localVars>>
  /\ \A id \in OrderIds : book'[id] = book[id]
  /\ \A r \in wire' : r.id \in OrderIds => r \in wire
  /\ wire' \subseteq Request /\ book' \in [ClientIds -> Taken \cup {Unknown, Refused}]

LEMMA ElsewhereIsUntouched ==
  ASSUME TypeOK, SendsElsewhere \/ MovesElsewhere PROVE RowsUntouched
  <1>1. CASE SendsElsewhere
    BY <1>1 DEF SendsElsewhere, RowsUntouched, TypeOK
  <1>2. CASE MovesElsewhere
    <2>1. PICK id \in ClientIds \ OrderIds : BookStep(id)
      BY <1>2 DEF MovesElsewhere
    <2>2. /\ wire' = wire /\ book' \in [ClientIds -> Taken \cup {Unknown, Refused}]
          /\ \A other \in ClientIds : other # id => book'[other] = book[other]
      BY <2>1, BookStepType
    <2> QED
      BY <1>2, <2>2, TraderAssumption DEF MovesElsewhere, RowsUntouched, TypeOK
  <1> QED
    BY <1>1, <1>2

LEMMA UntouchedInv ==
  ASSUME TypeOK, StateInv, RowsUntouched PROVE TypeOK' /\ StateInv'
  <1>1. UNCHANGED <<orders, lastId, positions, risk, applied, lost, daemon, today, killFile,
                    sinceKill>>
    BY DEF RowsUntouched, storeVars, localVars
  <1>2. TypeOK'
    BY <1>1 DEF RowsUntouched, TypeOK, StoreTypeOK
  <1>3. \A id \in OrderIds : IsTaken(id)' <=> IsTaken(id)
    BY DEF RowsUntouched, IsTaken
  <1>4. TrafficInv'
    BY <1>1, <1>3 DEF RowsUntouched, StateInv, TrafficInv, LiveRow
  <1>5. ASSUME NEW t \in Traders PROVE PlacingInv(t)' /\ ReconcilingInv(t)'
    <2>1. PlacingInv(t) /\ ReconcilingInv(t) /\ daemon[t].todo \subseteq OrderIds
      BY DEF StateInv, TypeOK, DaemonState
    <2>2. PlacingInv(t)'
      BY <1>1, <1>3, <2>1 DEF RowsUntouched, PlacingInv, LiveRow, LivePC
    <2>3. ReconcilingInv(t)'
      BY <1>1, <1>3, <2>1 DEF RowsUntouched, ReconcilingInv, Reconcilable, LiveRow
    <2> QED
      BY <2>2, <2>3
  <1> QED
    BY <1>1, <1>2, <1>4, <1>5 DEF StateInv, RowInv, DistinctRows

LEMMA ManualMovesInv ==
  ASSUME TypeOK, StateInv, ManualMoves PROVE TypeOK' /\ StateInv'
  <1>1. CASE UNCHANGED vars \/ ExchangeStep
    BY <1>1, NextType, NextInv DEF Next
  <1>2. CASE ReadsRiskRow
    <2>1. PICK d \in Days : RiskToday(d)
      BY <1>2 DEF ReadsRiskRow
    <2>2. UNCHANGED <<orders, lastId, positions, applied, wire, book, daemon, today, killFile, sinceKill>>
      BY <1>2, <2>1 DEF ReadsRiskRow, RiskToday, exchangeVars, localVars
    <2>3. StateInv'
      BY <2>2, QuietInv DEF exchangeVars
    <2>4. StoreTypeOK'
      BY <2>1, RiskTodayType DEF TypeOK
    <2> QED
      BY <2>2, <2>3, <2>4 DEF TypeOK
  <1>3. CASE SendsElsewhere \/ MovesElsewhere
    BY <1>3, ElsewhereIsUntouched, UntouchedInv
  <1> QED
    BY <1>1, <1>2, <1>3 DEF ManualMoves

LEMMA ManualNextInv ==
  ASSUME TypeOK, StateInv, [ManualNext]_manualVars PROVE ManualForm => TypeOK' /\ StateInv'
  BY ManualStepMoves, ManualMovesInv, NextType, NextInv DEF ManualNext, manualVars

LEMMA EndedForm == ASSUME ManualForm, EndManual PROVE ManualForm'
  BY DEF EndManual, ManualForm

LEMMA ManualFormKept ==
  ASSUME ManualForm, [ManualNext]_manualVars PROVE ManualForm'
  <1>1. CASE UNCHANGED manual
    BY <1>1 DEF ManualForm
  <1>2. CASE BeginManual
    <2>1. PICK s \in Symbols, side \in Sides, units \in ManualUnits, p \in Prices :
            manual' = [pc |-> "killfile", begun |-> manual.begun + 1, cleared |-> FALSE,
                       req |-> [id |-> ManualId(manual.begun + 1), symbol |-> s, side |-> side,
                                qty |-> units, limit |-> p]]
      BY <1>2 DEF BeginManual
    <2>2. PICK n \in 1 .. MaxManual : n = manual.begun + 1
      BY <1>2, ManualAssumption DEF BeginManual, ManualForm
    <2>3. ManualId(n) \in ClientIds \ OrderIds
      BY ManualIds
    <2>4. [id |-> ManualId(n), symbol |-> s, side |-> side, qty |-> units, limit |-> p] \in Request
      BY <2>3, ManualAssumption, TraderAssumption, PriceType DEF Request, Sides
    <2>5. n \in Nat /\ n \in 0 .. MaxManual
      BY ManualAssumption
    <2>6. manual' \in ManualState
      BY <2>1, <2>2, <2>4, <2>5 DEF ManualState
    <2>7. manual'.req.id = ManualId(n) /\ manual'.begun = n
      BY <2>1, <2>2
    <2> QED
      BY <2>3, <2>5, <2>6, <2>7 DEF ManualForm
  <1>3. CASE ManualKillFile \/ ManualRisk
    <2>1. ASSUME NEW cleared \in BOOLEAN, NEW pc \in {"risk", "send"}, manual.pc # "none",
                 manual' = [manual EXCEPT !.pc = pc, !.cleared = cleared]
          PROVE  ManualForm'
      BY <2>1 DEF ManualForm, ManualState
    <2>2. manual' = [manual EXCEPT !.pc = "risk"] /\ manual.pc # "none" => ManualForm'
      BY DEF ManualForm, ManualState
    <2>3. ASSUME manual' = [manual EXCEPT !.pc = "send", !.cleared = ~sinceKill.standing]
          PROVE  \E cleared \in BOOLEAN : manual' = [manual EXCEPT !.pc = "send", !.cleared = cleared]
      <3>1. CASE sinceKill.standing
        <4>1. (~sinceKill.standing) = FALSE
          BY <3>1, Zenon
        <4>2. manual' = [manual EXCEPT !.pc = "send", !.cleared = FALSE]
          BY <2>3, <4>1, Zenon
        <4> QED
          BY <4>2
      <3>2. CASE ~sinceKill.standing
        <4>1. (~sinceKill.standing) = TRUE
          BY <3>2, Zenon
        <4>2. manual' = [manual EXCEPT !.pc = "send", !.cleared = TRUE]
          BY <2>3, <4>1, Zenon
        <4> QED
          BY <4>2
      <3> QED
        BY <3>1, <3>2, Zenon
    <2> QED
      BY <1>3, <2>1, <2>2, <2>3, EndedForm DEF ManualKillFile, ManualRisk
  <1>4. CASE ManualSend \/ ManualFails
    BY <1>4, EndedForm DEF ManualSend, ManualFails
  <1>5. CASE ManualAtExchange \/ \E id \in ClientIds : Cancel(id)
    BY <1>1, <1>5 DEF ManualAtExchange, Cancel
  <1> QED
    BY <1>1, <1>2, <1>3, <1>4, <1>5 DEF ManualNext, ManualStep, manualVars

(* While a kill stands the row of the day is halted, so a command that reads *)
(* it ends.                                                                  *)
LEMMA ManualClearedKept ==
  ASSUME DayOffsets \subseteq {0}, TypeOK, KillInv, ManualForm, ManualCleared,
         [ManualNext]_manualVars
  PROVE  ManualCleared'
  <1>1. CASE UNCHANGED manual
    BY <1>1 DEF ManualCleared
  <1>2. ASSUME manual'.pc # "send" PROVE ManualCleared'
    BY <1>2 DEF ManualCleared
  <1>3. CASE BeginManual \/ ManualKillFile \/ ManualSend \/ ManualFails
    <2>1. ManualKillFile => manual \in ManualState
      BY DEF ManualKillFile, ManualForm
    <2>2. manual'.pc # "send"
      BY <1>3, <2>1
      DEF BeginManual, ManualKillFile, ManualSend, ManualFails, EndManual, ManualState
    <2> QED
      BY <1>2, <2>2
  <1>4. CASE ManualRisk
    <2>1. PICK d \in LocalDays :
            IF risk[d].halted
            THEN EndManual
            ELSE manual' = [manual EXCEPT !.pc = "send", !.cleared = ~sinceKill.standing]
      BY <1>4 DEF ManualRisk
    <2>2. d = today
      BY TodayType DEF LocalDays, Days
    <2>3. CASE ~risk[d].halted
      <3>1. ~sinceKill.standing
        BY <2>2, <2>3 DEF KillInv
      <3>2. manual' = [manual EXCEPT !.pc = "send", !.cleared = TRUE]
        BY <2>1, <2>3, <3>1
      <3>3. manual \in ManualState
        BY <1>4 DEF ManualRisk, ManualForm
      <3> QED
        BY <3>2, <3>3 DEF ManualCleared, ManualState
    <2> QED
      BY <1>2, <2>1, <2>3 DEF EndManual
  <1>5. CASE ManualAtExchange \/ \E id \in ClientIds : Cancel(id)
    BY <1>1, <1>5 DEF ManualAtExchange, Cancel
  <1> QED
    BY <1>1, <1>3, <1>4, <1>5 DEF ManualNext, ManualStep, manualVars

LEMMA ManualKill ==
  ASSUME IsFiniteSet(Traders), DayOffsets \subseteq {0}, TypeOK, StateInv, KillInv, ManualMoves
  PROVE  KillInv'
  <1>1. CASE UNCHANGED vars \/ ExchangeStep
    BY <1>1, OutsideKill
  <1>2. CASE ReadsRiskRow
    <2>1. PICK d \in Days : RiskToday(d)
      BY <1>2 DEF ReadsRiskRow
    <2>2. HaltStays
      BY <2>1, RiskTodayHalt
    <2>3. UNCHANGED <<daemon, today, sinceKill>> /\ Inserting' = Inserting
      BY <1>2 DEF ReadsRiskRow, localVars, Inserting
    <2> QED
      BY <2>2, <2>3, TodayType DEF HaltStays, KillInv
  <1>3. CASE SendsElsewhere \/ MovesElsewhere
    <2>1. UNCHANGED <<risk, daemon, today, sinceKill>> /\ Inserting' = Inserting
      BY <1>3 DEF SendsElsewhere, MovesElsewhere, storeVars, localVars, Inserting
    <2> QED
      BY <2>1 DEF KillInv
  <1> QED
    BY <1>1, <1>2, <1>3 DEF ManualMoves

(* What leaves is a row of the ledger or the order of a cleared command.     *)
LEMMA ManualWire ==
  ASSUME TypeOK, StateInv, ManualCleared, [ManualNext]_manualVars
  PROVE  \A r \in wire' \ wire : r.id \in OrderIds \/ manual.cleared
  <1>1. CASE wire' \subseteq wire
    BY <1>1
  <1>2. ASSUME NEW t \in Traders, Send(t) PROVE \A r \in wire' \ wire : r.id \in OrderIds
    <2>1. daemon[t].cur \in OrderIds
      BY <1>2, CurRow DEF Send, At, LivePC
    <2>2. RequestOf(daemon[t].cur).id = daemon[t].cur
      BY DEF RequestOf
    <2> QED
      BY <1>2, <2>1, <2>2 DEF Send, Submit
  <1>3. CASE [Next]_vars
    <2>1. CASE ExchangeStep
      BY <1>1, <2>1 DEF ExchangeStep, Receive, Refuse, Lose, Execute, PartlyExecute, Close
    <2>2. CASE OperatorStep \/ NextDay \/ UNCHANGED vars
      BY <1>1, <2>2 DEF OperatorStep, Kill, Resume, ToggleKillFile, ReadRisk, NextDay, vars,
                        exchangeVars
    <2> QED
      BY <1>1, <1>2, <1>3, <2>1, <2>2, SentByDaemon DEF Next
  <1>4. CASE ManualSend
    BY <1>4 DEF ManualSend, ManualCleared
  <1>5. CASE ManualStep /\ ~ManualSend
    BY <1>1, <1>5
    DEF ManualStep, BeginManual, ManualKillFile, ManualRisk, ManualFails, ManualAtExchange,
        Cancel, Execute, PartlyExecute, Close, vars, exchangeVars
  <1> QED
    BY <1>3, <1>4, <1>5 DEF ManualNext, manualVars

LEMMA ManualInitInv == ManualInit => TypeOK /\ StateInv /\ KillInv /\ ManualForm /\ ManualCleared
  <1> SUFFICES ASSUME ManualInit
               PROVE  TypeOK /\ StateInv /\ KillInv /\ ManualForm /\ ManualCleared
    OBVIOUS
  <1>1. TypeOK /\ StateInv
    BY InitType, InitInv DEF ManualInit
  <1>2. KillInv
    BY DEF ManualInit, Init, KillInv
  <1>3. manual.pc = "none" /\ manual.begun = 0
    BY DEF ManualInit
  <1>4. ManualForm /\ ManualCleared
    BY <1>3, ManualAssumption DEF ManualForm, ManualCleared
  <1> QED
    BY <1>1, <1>2, <1>4

(* On a host in UTC the kill switch binds manual orders: whatever daemons,   *)
(* operators, exchange and network do in between, an order that leaves while *)
(* a kill stands is a daemon's or its command had read the risk row before   *)
(* the kill (cli/order.go:186, :195).                                        *)
THEOREM KillBindsManualOrders ==
  ASSUME IsFiniteSet(Traders), DayOffsets \subseteq {0}
  PROVE  ManualSpec => KillBindsManual
  <1> DEFINE Inv == TypeOK /\ StateInv /\ KillInv /\ ManualForm /\ ManualCleared
  <1>1. ManualInit => Inv
    BY ManualInitInv
  <1>2. Inv /\ [ManualNext]_manualVars => Inv'
    <2>1. ASSUME TypeOK, StateInv, KillInv, [Next]_vars PROVE KillInv'
      BY <2>1, DaemonKill, OutsideKill DEF Next
    <2> QED
      BY <2>1, ManualNextInv, ManualFormKept, ManualClearedKept, ManualKill, ManualStepMoves
      DEF ManualNext, manualVars
  <1>3. Inv /\ [ManualNext]_manualVars
        => [wire' # wire /\ sinceKill.standing =>
              \A r \in wire' \ wire : r.id \in OrderIds \/ manual.cleared]_manualVars
    BY ManualWire
  <1> HIDE DEF Inv
  <1> QED
    BY <1>1, <1>2, <1>3, PTL DEF ManualSpec, KillBindsManual

-----------------------------------------------------------------------------
LEMMA ManualOwner ==
  ASSUME TypeOK, StateInv, Owners, ManualMoves, OneTraderPerPair PROVE Owners'
  <1>1. CASE UNCHANGED vars \/ ExchangeStep
    BY <1>1, NextOwner DEF Next
  <1>2. CASE ReadsRiskRow
    BY <1>2 DEF ReadsRiskRow, RiskToday, exchangeVars, Owners, AppliedWasFilled, OwnsRows
  <1>3. CASE SendsElsewhere \/ MovesElsewhere
    BY <1>3, ElsewhereIsUntouched
    DEF RowsUntouched, storeVars, Owners, AppliedWasFilled, OwnsRows
  <1> QED
    BY <1>1, <1>2, <1>3 DEF ManualMoves

LEMMA ManualView ==
  ASSUME TypeOK, StateInv, ManualMoves PROVE [Outbox!Next]_Outbox!outboxVars
  <1>1. CASE UNCHANGED vars \/ ReadsRiskRow
    BY <1>1, StutterView DEF vars, storeVars, exchangeVars, ReadsRiskRow, RiskToday
  <1>2. CASE ExchangeStep
    BY <1>2, ExchangeView
  <1>3. CASE SendsElsewhere \/ MovesElsewhere
    <2>1. orders' = orders /\ \A id \in OrderIds : book'[id] = book[id]
      BY <1>3, ElsewhereIsUntouched DEF RowsUntouched, storeVars
    <2>2. RowView' = RowView /\ LiveView' = LiveView /\ KnownView' = KnownView
      BY <2>1 DEF RowView, LiveView, KnownView, IsTaken
    <2> QED
      BY <2>2 DEF Outbox!outboxVars, RowView, LiveView, KnownView
  <1> QED
    BY <1>1, <1>2, <1>3 DEF ManualMoves

(* The ledger keeps the promise of OrderOutbox with an operator who sends    *)
(* and cancels orders of the same account by hand: manual orders carry ids   *)
(* no row has (cli/order.go:121), and a cancelled row is settled by the      *)
(* Reconcile that finds it closed.                                           *)
THEOREM LedgerIsOutboxBesideManual ==
  ASSUME OneTraderPerPair
  PROVE  ManualSpec => OutboxSpec
  <1> DEFINE Inv == TypeOK /\ StateInv /\ ManualForm /\ Owners
  <1>1. ManualInit => Inv /\ Outbox!Init
    BY ManualInitInv, InitOwner, InitView DEF ManualInit
  <1>2. Inv /\ [ManualNext]_manualVars => Inv'
    BY ManualNextInv, ManualFormKept, NextOwner, ManualStepMoves, ManualOwner
    DEF ManualNext, manualVars
  <1>3. Inv /\ [ManualNext]_manualVars => [Outbox!Next]_Outbox!outboxVars
    BY ManualStepMoves, ManualView, NextView DEF ManualNext, manualVars
  <1> HIDE DEF Inv
  <1> QED
    BY <1>1, <1>2, <1>3, PTL DEF ManualSpec, OutboxSpec, Outbox!Spec
=============================================================================
