-------------------------------- MODULE Trader --------------------------------
(* The trading daemons (internal/trader, internal/cli/trade.go) over the     *)
(* tables of OrderStore and the Exchange: startup and per-tick Reconcile,    *)
(* the tick itself and Pipeline.Place, with the operator's kill, resume and  *)
(* kill file (internal/cli/risk.go, killswitch.go) and crashes, failing      *)
(* database and network calls.                                               *)
(*                                                                           *)
(* A daemon is one thread.  A step is one access to the database, the        *)
(* exchange or the clock with the local computation that follows it, so      *)
(* that everything between two accesses may interleave with other daemons,   *)
(* the operator and the exchange.                                            *)
EXTENDS OrderStore, Exchange, Guard, Fill

CONSTANTS
  Traders,       \* daemon processes
  SymbolOf,      \* the --symbol of each
  Modes,         \* modes a daemon may be started in
  BuyValue,      \* --buy-thb, satang
  Faults,        \* what may fail: "crash", "store", "net"
  OperatorActs,  \* what the operator does: "kill", "resume", "killfile", "status"
  DayOffsets     \* host's local date minus the UTC date

ASSUME TraderAssumption ==
  /\ SymbolOf \in [Traders -> Symbols]
  /\ Symbols \subseteq ExSymbols
  /\ OrderIds \subseteq ClientIds
  /\ Modes \subseteq {"paper", "live"}
  /\ BuyValue \in Nat \ {0}
  /\ DayOffsets \subseteq {-1, 0, 1}

VARIABLES
  daemon,     \* local state of each daemon
  today,      \* the UTC date
  killFile,   \* whether the kill file exists
  sinceKill   \* HISTORY: rows inserted since the operator's kill of this day

localVars == <<today, killFile, sinceKill>>
vars == <<storeVars, exchangeVars, daemon, localVars>>

-----------------------------------------------------------------------------
ReconcilePC == {"list", "history", "loop", "apply"}
PlacePC == {"place", "risk", "trip", "insert", "paper", "paperApply", "send", "await", "record", "reject"}
PC == {"down", "idle", "eval"} \cup ReconcilePC \cup PlacePC

NoIntent == [side |-> "none"]
Intent == [side : Sides, price : Prices, value : Nat, qty : Int]

(* mode and boot: started live or paper, and still in the startup Reconcile; *)
(* todo: pending orders left to reconcile; day: the date Reconcile or Place  *)
(* captured; pos: the positions row read; cur: the row Place inserted.       *)
DaemonState == [pc : PC, mode : {"paper", "live"}, boot : BOOLEAN, todo : SUBSET OrderIds,
                day : Days, pos : Position, intent : Intent \cup {NoIntent},
                cur : OrderIds \cup {0}]

Down == [pc |-> "down", mode |-> "paper", boot |-> FALSE, todo |-> {}, day |-> 0,
         pos |-> Flat, intent |-> NoIntent, cur |-> 0]

Idle(mode) == [Down EXCEPT !.pc = "idle", !.mode = mode]
Eval(mode) == [Down EXCEPT !.pc = "eval", !.mode = mode]

Become(t, state) == daemon' = [daemon EXCEPT ![t] = state]
At(t, pc) == daemon[t].pc = pc

Init ==
  /\ StoreInit
  /\ ExchangeInit
  /\ daemon = [t \in Traders |-> Down]
  /\ today = 1
  /\ killFile = FALSE
  /\ sinceKill = [standing |-> FALSE, orders |-> 0]

-----------------------------------------------------------------------------
(* Process start, ticker and end.                                            *)

(* `trade` is started; --live begins with a Reconcile.                       *)
Start(t) ==
  /\ At(t, "down")
  /\ \E m \in Modes :
       Become(t, IF m = "live"
                 THEN [Down EXCEPT !.pc = "list", !.mode = m, !.boot = TRUE]
                 ELSE Idle(m))
  /\ UNCHANGED <<storeVars, exchangeVars, localVars>>

(* The ticker fires: live runs the reconcile hook first.                     *)
Tick(t) ==
  /\ At(t, "idle")
  /\ Become(t, IF daemon[t].mode = "live"
               THEN [daemon[t] EXCEPT !.pc = "list"]
               ELSE [daemon[t] EXCEPT !.pc = "eval"])
  /\ UNCHANGED <<storeVars, exchangeVars, localVars>>

(* The process dies, or a signal cancels its context: every call it would    *)
(* still make fails, and a request under way may still arrive.               *)
Crash(t) ==
  /\ "crash" \in Faults
  /\ ~At(t, "down")
  /\ Become(t, Down)
  /\ UNCHANGED <<storeVars, exchangeVars, localVars>>

-----------------------------------------------------------------------------
(* Reconcile.                                                                *)

(* Where the daemon goes when Reconcile returns without an error.            *)
Reconciled(t) == IF daemon[t].boot THEN Idle(daemon[t].mode) ELSE Eval(daemon[t].mode)

ListPending(t) ==
  /\ At(t, "list")
  /\ Become(t, IF PendingLive = {}
               THEN Reconciled(t)
               ELSE [daemon[t] EXCEPT !.pc = "history", !.todo = PendingLive])
  /\ UNCHANGED <<storeVars, exchangeVars, localVars>>

\* Plausible faults: the history of every symbol; only filled orders looked at.
FinalInHistoryOfAny(t) ==
  {id \in daemon[t].todo : IsTaken(id) /\ book[id].state \in FinalStates}

FilledInHistory(t) ==
  {id \in daemon[t].todo : id \in History(SymbolOf[t]) /\ book[id].state = "FullyExecuted"}

(* The listed orders whose history entry is final; the loop skips the        *)
(* others.  Final entries do not change, so the loop reads them from book.   *)
FinalInHistory(t) ==
  {id \in daemon[t].todo : id \in History(SymbolOf[t]) /\ book[id].state \in FinalStates}

ReadHistory(t) ==
  /\ At(t, "history")
  /\ Become(t, [daemon[t] EXCEPT !.pc = "loop", !.day = today, !.todo = FinalInHistory(t)])
  /\ UNCHANGED <<storeVars, exchangeVars, localVars>>

(* ORDER BY id.                                                              *)
IsNext(t, id) == id \in daemon[t].todo /\ \A other \in daemon[t].todo : id <= other

\* A plausible fault: a closed order is taken for a filled one.
ReconcileReadPositionClosed(t) ==
  /\ At(t, "loop")
  /\ \E id \in daemon[t].todo :
       /\ IsNext(t, id)
       /\ Become(t, [daemon[t] EXCEPT !.pc = "apply", !.pos = positions[orders[id].symbol],
                                      !.cur = id])
  /\ UNCHANGED <<storeVars, exchangeVars, localVars>>

(* FullyExecuted: GetPosition of the order's symbol.                         *)
ReconcileReadPosition(t) ==
  /\ At(t, "loop")
  /\ \E id \in daemon[t].todo :
       /\ IsNext(t, id)
       /\ book[id].state = "FullyExecuted"
       /\ Become(t, [daemon[t] EXCEPT !.pc = "apply", !.pos = positions[orders[id].symbol],
                                      !.cur = id])
  /\ UNCHANGED <<storeVars, exchangeVars, localVars>>

(* The next order is done with: back to the loop.                            *)
LoopOn(t, id) == Become(t, [daemon[t] EXCEPT !.pc = "loop", !.pos = Flat, !.cur = 0,
                                             !.todo = @ \ {id}])

(* computeFill and ApplyFill with SpentDelta 0; on overflow the order stays  *)
(* pending.                                                                  *)
ReconcileApply(t) ==
  /\ At(t, "apply")
  /\ LET id   == daemon[t].cur
         fill == computeFill(daemon[t].pos, orders[id].side, book[id].executed, book[id].avg)
     IN /\ IF fill.ok
           THEN ApplyFill(id, daemon[t].day, fill.pos, 0, fill.loss)
           ELSE UNCHANGED storeVars
        /\ LoopOn(t, id)
  /\ UNCHANGED <<exchangeVars, localVars>>

\* A plausible fault: the exchange's state is written as the status.
ReconcileSettleState(t) ==
  /\ At(t, "loop")
  /\ \E id \in daemon[t].todo :
       /\ IsNext(t, id)
       /\ book[id].state \in Closings
       /\ Settle(id, book[id].state)
       /\ LoopOn(t, id)
  /\ UNCHANGED <<exchangeVars, localVars>>

(* Rejected, Canceled, Expired: status only, whatever part was executed.     *)
ReconcileSettle(t) ==
  /\ At(t, "loop")
  /\ \E id \in daemon[t].todo :
       /\ IsNext(t, id)
       /\ book[id].state \in Closings
       /\ Settle(id, "rejected")
       /\ LoopOn(t, id)
  /\ UNCHANGED <<exchangeVars, localVars>>

ReconcileEnd(t) ==
  /\ At(t, "loop")
  /\ daemon[t].todo = {}
  /\ Become(t, Reconciled(t))
  /\ UNCHANGED <<storeVars, exchangeVars, localVars>>

(* A call of Reconcile fails: it returns at once.  `trade` exits when this   *)
(* was the startup Reconcile; a tick goes on.                                *)
ReconcileError(t) ==
  /\ \/ "store" \in Faults /\ daemon[t].pc \in {"list", "apply"}
     \/ "store" \in Faults /\ At(t, "loop") /\ daemon[t].todo # {}
     \/ "net" \in Faults /\ At(t, "history")
  /\ Become(t, IF daemon[t].boot THEN Down ELSE Eval(daemon[t].mode))
  /\ UNCHANGED <<storeVars, exchangeVars, localVars>>

-----------------------------------------------------------------------------
(* The tick: signal, position, intent.                                       *)

(* The strategy (external here) holds, or its signal does not fit the        *)
(* position.                                                                 *)
EvaluateNothing(t) ==
  /\ At(t, "eval")
  /\ Become(t, Idle(daemon[t].mode))
  /\ UNCHANGED <<storeVars, exchangeVars, localVars>>

(* Buy, unless already long.                                                 *)
EvaluateBuy(t) ==
  /\ At(t, "eval")
  /\ positions[SymbolOf[t]].qty <= 0
  /\ \E p \in Prices :
       Become(t, [daemon[t] EXCEPT !.pc = "place",
                    !.intent = [side |-> "BUY", price |-> p, value |-> BuyValue, qty |-> 0]])
  /\ UNCHANGED <<storeVars, exchangeVars, localVars>>

\* A plausible fault: a Sell of the buy value instead of the position.
EvaluateSellForValue(t) ==
  /\ At(t, "eval")
  /\ positions[SymbolOf[t]].qty > 0
  /\ \E p \in Prices :
       Become(t, [daemon[t] EXCEPT !.pc = "place",
                    !.intent = [side |-> "SELL", price |-> p, value |-> 0,
                                qty |-> UnitsFor(BuyValue, p)]])
  /\ UNCHANGED <<storeVars, exchangeVars, localVars>>

(* Sell, only when holding: the whole position.                              *)
EvaluateSell(t) ==
  /\ At(t, "eval")
  /\ positions[SymbolOf[t]].qty > 0
  /\ \E p \in Prices :
       Become(t, [daemon[t] EXCEPT !.pc = "place",
                    !.intent = [side |-> "SELL", price |-> p, value |-> 0,
                                qty |-> positions[SymbolOf[t]].qty]])
  /\ UNCHANGED <<storeVars, exchangeVars, localVars>>

-----------------------------------------------------------------------------
(* Pipeline.Place.                                                           *)

(* About to persist a halt of the day Place captured.                        *)
Tripping(t, day) == [Idle(daemon[t].mode) EXCEPT !.pc = "trip", !.day = day]

(* The day is captured, the kill file looked for.                            *)
PlaceKillFile(t) ==
  /\ At(t, "place")
  /\ Become(t, IF killFile THEN Tripping(t, today)
               ELSE [daemon[t] EXCEPT !.pc = "risk", !.day = today])
  /\ UNCHANGED <<storeVars, exchangeVars, localVars>>

(* RiskToday of that day, and Check on what it returned.                     *)
PlaceCheck(t) ==
  /\ At(t, "risk")
  /\ RiskToday(daemon[t].day)
  /\ LET dec == Check(risk[daemon[t].day], orderValue(daemon[t].intent))
     IN Become(t, IF dec.allowed THEN [daemon[t] EXCEPT !.pc = "insert"]
                  ELSE IF dec.tripHalt THEN Tripping(t, daemon[t].day)
                  ELSE Idle(daemon[t].mode))
  /\ UNCHANGED <<exchangeVars, localVars>>

(* SetHalted of that day, after the kill file or the loss stop.              *)
PlaceTripHalt(t) ==
  /\ At(t, "trip")
  /\ SetHalted(daemon[t].day, TRUE)
  /\ Become(t, Idle(daemon[t].mode))
  /\ UNCHANGED <<exchangeVars, localVars>>

PlaceInsert(t) ==
  /\ At(t, "insert")
  /\ InsertPending(SymbolOf[t], daemon[t].intent, daemon[t].mode, daemon[t].day,
                   orderValue(daemon[t].intent))
  /\ Become(t, [Down EXCEPT !.pc = IF daemon[t].mode = "live" THEN "send" ELSE "paper",
                            !.mode = daemon[t].mode, !.cur = lastId + 1])
  /\ sinceKill' = IF sinceKill.standing
                  THEN [sinceKill EXCEPT !.orders = @ + 1]
                  ELSE sinceKill
  /\ UNCHANGED <<exchangeVars, today, killFile>>

(* Paper: GetPosition, then the simulated fill.                              *)
PaperReadPosition(t) ==
  /\ At(t, "paper")
  /\ Become(t, [daemon[t] EXCEPT !.pc = "paperApply", !.pos = positions[SymbolOf[t]]])
  /\ UNCHANGED <<storeVars, exchangeVars, localVars>>

\* A plausible fault: the fill is booked on the day it is simulated.
PaperApplyToday(t) ==
  /\ At(t, "paperApply")
  /\ LET row == orders[daemon[t].cur]
         sim == simulatePaperFill(daemon[t].pos, row)
     IN ApplyFill(daemon[t].cur, today, sim.pos, sim.spent, LossOf(daemon[t].pos, sim.pos))
  /\ Become(t, Idle(daemon[t].mode))
  /\ UNCHANGED <<exchangeVars, localVars>>

PaperApply(t) ==
  /\ At(t, "paperApply")
  /\ LET row == orders[daemon[t].cur]
         sim == simulatePaperFill(daemon[t].pos, row)
     IN ApplyFill(daemon[t].cur, row.day, sim.pos, sim.spent, LossOf(daemon[t].pos, sim.pos))
  /\ Become(t, Idle(daemon[t].mode))
  /\ UNCHANGED <<exchangeVars, localVars>>

(* Live: the value of a Buy becomes a quantity; clientOrderId is the row id. *)
RequestOf(id) ==
  [id |-> id, symbol |-> orders[id].symbol, side |-> orders[id].side,
   qty |-> IF orders[id].side = "BUY" THEN UnitsFor(orders[id].value, orders[id].price)
           ELSE orders[id].qty,
   limit |-> orders[id].price]

Send(t) ==
  /\ At(t, "send")
  /\ Submit(RequestOf(daemon[t].cur))
  /\ Become(t, [daemon[t] EXCEPT !.pc = "await"])
  /\ UNCHANGED <<storeVars, localVars>>

SendAnswered(t) ==
  /\ At(t, "await")
  /\ IsTaken(daemon[t].cur)
  /\ Become(t, [daemon[t] EXCEPT !.pc = "record"])
  /\ UNCHANGED <<storeVars, exchangeVars, localVars>>

\* A plausible fault: a send without an answer is taken for accepted.
SendFailsTaken(t) ==
  /\ At(t, "await")
  /\ book[daemon[t].cur] = Refused \/ "net" \in Faults
  /\ Become(t, [daemon[t] EXCEPT !.pc = "record"])
  /\ UNCHANGED <<storeVars, exchangeVars, localVars>>

(* A refusal, or a transport error or timeout that tells nothing about what  *)
(* the exchange did.                                                         *)
SendFails(t) ==
  /\ At(t, "await")
  /\ book[daemon[t].cur] = Refused \/ "net" \in Faults
  /\ Become(t, [daemon[t] EXCEPT !.pc = "reject"])
  /\ UNCHANGED <<storeVars, exchangeVars, localVars>>

(* The row of a failed send is settled rejected, the error of that ignored.  *)
SettleRejected(t) ==
  /\ At(t, "reject")
  /\ Settle(daemon[t].cur, "rejected")
  /\ Become(t, Idle(daemon[t].mode))
  /\ UNCHANGED <<exchangeVars, localVars>>

\* A plausible fault: the spend is booked on the day the answer came.
RecordAcceptedToday(t) ==
  /\ At(t, "record")
  /\ ApplyFillSkipPosition(daemon[t].cur, today, orders[daemon[t].cur].value)
  /\ Become(t, Idle(daemon[t].mode))
  /\ UNCHANGED <<exchangeVars, localVars>>

(* The exchange took the order: accepted, and its exposure spent on the day  *)
(* whose guard admitted it, a Sell's as well.                                *)
RecordAccepted(t) ==
  /\ At(t, "record")
  /\ ApplyFillSkipPosition(daemon[t].cur, orders[daemon[t].cur].day, orders[daemon[t].cur].value)
  /\ Become(t, Idle(daemon[t].mode))
  /\ UNCHANGED <<exchangeVars, localVars>>

(* A statement of Place fails: Place returns an error, the tick logs it, and *)
(* a row already inserted stays pending.  An insert past the bound fails.    *)
PlaceError(t) ==
  /\ \/ "store" \in Faults /\ daemon[t].pc \in PlacePC \ {"place", "send", "await"}
     \/ At(t, "insert") /\ lastId = MaxOrders
  /\ Become(t, Idle(daemon[t].mode))
  /\ UNCHANGED <<storeVars, exchangeVars, localVars>>

-----------------------------------------------------------------------------
(* The operator and the clock.                                               *)

LocalDays == {today + off : off \in DayOffsets}

(* `kill`: SetHalted(time.Now(), true).                                      *)
Kill ==
  /\ "kill" \in OperatorActs
  /\ \E d \in LocalDays : SetHalted(d, TRUE)
  /\ sinceKill' = [standing |-> TRUE, orders |-> 0]
  /\ UNCHANGED <<exchangeVars, daemon, today, killFile>>

(* `resume`, confirmed: SetHalted(time.Now(), false).                        *)
Resume ==
  /\ "resume" \in OperatorActs
  /\ \E d \in LocalDays : SetHalted(d, FALSE)
  /\ sinceKill' = [standing |-> FALSE, orders |-> 0]
  /\ UNCHANGED <<exchangeVars, daemon, today, killFile>>

(* The operator creates or removes the kill file.                            *)
ToggleKillFile ==
  /\ "killfile" \in OperatorActs
  /\ killFile' = ~killFile
  /\ UNCHANGED <<storeVars, exchangeVars, daemon, today, sinceKill>>

(* `invx status` and the guard of `invx order send --live` read the day's    *)
(* risk row with RiskToday, which creates it.                                *)
ReadRisk ==
  /\ "status" \in OperatorActs
  /\ \E d \in LocalDays : RiskToday(d)
  /\ UNCHANGED <<exchangeVars, daemon, localVars>>

(* A kill stands for its day: the next day has a risk row of its own.        *)
NextDay ==
  /\ today < MaxDay
  /\ today' = today + 1
  /\ sinceKill' = [standing |-> FALSE, orders |-> 0]
  /\ UNCHANGED <<storeVars, exchangeVars, daemon, killFile>>

-----------------------------------------------------------------------------
(* What the exchange and the network do.                                     *)
ExchangeStep ==
  /\ \/ \E r \in wire : r.qty > 0 /\ Receive(r)
     \/ \E r \in wire : Refuse(r)
     \/ "net" \in Faults /\ \E r \in wire : Lose(r)
     \/ \E id \in OrderIds, p \in Prices : Execute(id, p)
     \/ \E id \in OrderIds, p \in Prices : PartlyExecute(id, p)
     \/ \E id \in OrderIds, state \in Closings : Close(id, state)
  /\ UNCHANGED <<storeVars, daemon, localVars>>

ReconcileStep(t) ==
  \/ ListPending(t) \/ ReadHistory(t) \/ ReconcileReadPosition(t) \/ ReconcileApply(t)
  \/ ReconcileSettle(t) \/ ReconcileEnd(t) \/ ReconcileError(t)

TickStep(t) ==
  \/ Tick(t) \/ EvaluateNothing(t) \/ EvaluateBuy(t) \/ EvaluateSell(t)

PlaceStep(t) ==
  \/ PlaceKillFile(t) \/ PlaceCheck(t) \/ PlaceTripHalt(t) \/ PlaceInsert(t)
  \/ PaperReadPosition(t) \/ PaperApply(t)
  \/ Send(t) \/ SendAnswered(t) \/ SendFails(t) \/ SettleRejected(t) \/ RecordAccepted(t)
  \/ PlaceError(t)

DaemonStep(t) == Start(t) \/ Crash(t) \/ ReconcileStep(t) \/ TickStep(t) \/ PlaceStep(t)

OperatorStep == Kill \/ Resume \/ ToggleKillFile \/ ReadRisk

Next ==
  \/ \E t \in Traders : DaemonStep(t)
  \/ ExchangeStep
  \/ OperatorStep
  \/ NextDay

Spec == Init /\ [][Next]_vars

TypeOK ==
  /\ StoreTypeOK
  /\ wire \subseteq Request
  /\ book \in [ClientIds -> Taken \cup {Unknown, Refused}]
  /\ daemon \in [Traders -> DaemonState]
  /\ today \in 1 .. MaxDay
  /\ killFile \in BOOLEAN
  /\ sinceKill \in [standing : BOOLEAN, orders : Nat]
=============================================================================
