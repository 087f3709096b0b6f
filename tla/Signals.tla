-------------------------------- MODULE Signals --------------------------------
(* The trading daemon with its eyes open: Trader composed with the MA-cross  *)
(* strategy and the table of candles it reads (Trader.Tick).  The collector  *)
(* keeps rewriting the bar that is still forming, so one bar is evaluated    *)
(* several times, with several outcomes.                                     *)
EXTENDS TraderProps, Strategy

CONSTANTS
  MaxBars,     \* BOUND: candles in the table
  MaxVersions  \* BOUND: states of the table

ASSUME SignalsAssumption == MaxBars \in Nat /\ MaxVersions \in Nat

VARIABLES
  closes,   \* the closes of the last day in the table, the forming bar last
  version,  \* HISTORY: how often the table has changed
  view,     \* by daemon: the candles its tick has listed, with their version
  actedOn   \* HISTORY: by order, the version of the candles that asked for it

signalVars == <<closes, version, view, actedOn>>
allVars == <<vars, signalVars>>

-----------------------------------------------------------------------------
Unread == [version |-> 0, closes |-> << >>]

SignalInit ==
  /\ Init
  /\ closes = << >> /\ version = 0
  /\ view = [t \in Traders |-> Unread]
  /\ actedOn = [id \in OrderIds |-> 0]

(* The collector stores the forming bar anew, or the first candle of the     *)
(* next bar; or the first bar is no longer of the last day.                  *)
TableChanges ==
  /\ version < MaxVersions /\ version' = version + 1
  /\ \E p \in Prices :
       \/ closes # << >> /\ closes' = [closes EXCEPT ![Len(closes)] = p]
       \/ Len(closes) < MaxBars /\ closes' = Append(closes, p)
       \/ closes # << >> /\ closes' = Tail(closes)
  /\ closes' # closes
  /\ UNCHANGED <<vars, view, actedOn>>

(* List: what the table holds at this moment.                                *)
ListCandles(t) ==
  /\ At(t, "eval") /\ view[t] = Unread
  /\ view' = [view EXCEPT ![t] = [version |-> version, closes |-> closes]]
  /\ UNCHANGED <<vars, closes, version, actedOn>>

Signal(t) == IF view[t].closes = << >> THEN "Hold" ELSE Evaluate(view[t].closes)
LastListed(t) == view[t].closes[Len(view[t].closes)]

Listed(t) == At(t, "eval") /\ view[t] # Unread

\* A plausible fault: a Buy does not look at the position.
SignalBuyAnyway(t) ==
  /\ Listed(t) /\ Signal(t) = "Buy"
  /\ Become(t, [daemon[t] EXCEPT !.pc = "place",
                  !.intent = [side |-> "BUY", price |-> LastListed(t), value |-> BuyValue,
                              qty |-> 0]])
  /\ UNCHANGED <<storeVars, exchangeVars, localVars>>

(* Buy at the last close listed, unless already long; Sell what is held.     *)
SignalBuy(t) ==
  /\ Listed(t) /\ Signal(t) = "Buy"
  /\ EvaluateBuy(t) /\ daemon'[t].intent.price = LastListed(t)

\* A plausible fault: only a Buy signal is acted on.
SignalSellNever(t) ==
  /\ Listed(t) /\ Signal(t) = "Sell"
  /\ EvaluateNothing(t)

SignalSell(t) ==
  /\ Listed(t) /\ Signal(t) = "Sell"
  /\ EvaluateSell(t) /\ daemon'[t].intent.price = LastListed(t)

(* Hold, a Buy when long, a Sell with nothing to sell, and a failing query   *)
(* of the candles or the position.                                           *)
SignalNothing(t) ==
  /\ Listed(t)
  /\ \/ Signal(t) = "Hold"
     \/ Signal(t) = "Buy" /\ positions[SymbolOf[t]].qty > 0
     \/ Signal(t) = "Sell" /\ positions[SymbolOf[t]].qty <= 0
     \/ "store" \in Faults
  /\ EvaluateNothing(t)

Decide(t) == SignalBuy(t) \/ SignalSell(t) \/ SignalNothing(t)

(* The rest of Trader, which knows nothing of candles.                       *)
OtherStep(t) == Start(t) \/ Crash(t) \/ ReconcileStep(t) \/ Tick(t) \/ PlaceStep(t)

(* A tick forgets its candles when it ends; an order remembers them.         *)
KeepView(t) ==
  /\ view' = [view EXCEPT ![t] = IF daemon'[t].pc \in {"idle", "down"} THEN Unread ELSE @]
  /\ actedOn' = IF lastId' = lastId THEN actedOn
                ELSE [actedOn EXCEPT ![lastId'] = view[t].version]
  /\ UNCHANGED <<closes, version>>

SignalStep(t) ==
  \/ ListCandles(t)
  \/ (Decide(t) \/ OtherStep(t)) /\ KeepView(t)

SignalNext ==
  \/ TableChanges
  \/ \E t \in Traders : SignalStep(t)
  \/ (ExchangeStep \/ OperatorStep \/ NextDay) /\ UNCHANGED signalVars

SignalSpec == SignalInit /\ [][SignalNext]_allVars

-----------------------------------------------------------------------------
(* One state of the table moves a position at most once, however often it is *)
(* evaluated and whatever crashed: the strategy is a function of the candles *)
(* and the position guards each side (Trader.Tick).                          *)
OneFillPerTable ==
  \A i, j \in OrderIds :
    applied[i] > 0 /\ applied[j] > 0 /\ orders[i].symbol = orders[j].symbol
      /\ actedOn[i] = actedOn[j] => i = j

(* What the strategy says of a day's closes, and whether the pair's position *)
(* has heeded it: a Buy was bought, a Sell sold.                             *)
Says(cs) == IF cs = << >> THEN "Hold" ELSE Evaluate(cs)

Heeded(s, cs) ==
  /\ Says(cs) = "Buy" => positions[s].qty > 0
  /\ Says(cs) = "Sell" => positions[s].qty <= 0

(* The inductive invariant behind OneFillPerTable.  A fill heeds the table   *)
(* it came from, so on that table nothing is left to do for the pair; a      *)
(* daemon only acts on a table that moved nothing yet.                       *)
ViewInv ==
  \A t \in Traders : view[t] # Unread =>
    /\ view[t].version <= version
    /\ view[t].version = version => view[t].closes = closes

TableInv ==
  \A s \in Symbols : \A id \in AppliedTo(s) :
    actedOn[id] <= version /\ (actedOn[id] = version => Heeded(s, closes))

ListedInv ==
  \A t \in Traders : view[t] # Unread => \A id \in AppliedTo(SymbolOf[t]) :
    /\ actedOn[id] <= view[t].version
    /\ actedOn[id] = view[t].version => Heeded(SymbolOf[t], view[t].closes)

ActsOn(t, side) ==
  /\ view[t] # Unread
  /\ Signal(t) = IF side = "BUY" THEN "Buy" ELSE "Sell"
  /\ \A id \in AppliedTo(SymbolOf[t]) : actedOn[id] < view[t].version

ActingInv ==
  \A t \in Traders :
    /\ daemon[t].pc \in {"place", "risk", "insert"} => ActsOn(t, daemon[t].intent.side)
    /\ daemon[t].pc \in PaperPC =>
         ActsOn(t, orders[daemon[t].cur].side) /\ actedOn[daemon[t].cur] = view[t].version

FillInv == ViewInv /\ TableInv /\ ListedInv /\ ActingInv /\ OneFillPerTable

(* Fairness: a daemon that is stopped is started again, and none of its      *)
(* steps fails or is cut off every time it is reached.                       *)
SignalFairness ==
  \A t \in Traders :
    /\ WF_allVars(Start(t) /\ KeepView(t))
    /\ SF_allVars(Tick(t) /\ KeepView(t))
    /\ SF_allVars(ListCandles(t))
    /\ SF_allVars((SignalBuy(t) \/ SignalSell(t)) /\ KeepView(t))
    /\ WF_allVars(SignalNothing(t) /\ KeepView(t))
    /\ SF_allVars(PlaceKillFile(t) /\ KeepView(t))
    /\ SF_allVars(PlaceCheck(t) /\ KeepView(t))
    /\ SF_allVars(PlaceInsert(t) /\ KeepView(t))
    /\ SF_allVars(PaperReadPosition(t) /\ KeepView(t))
    /\ SF_allVars(PaperApply(t) /\ KeepView(t))
    /\ WF_allVars(PlaceError(t) /\ KeepView(t))

SignalLiveSpec == SignalSpec /\ SignalFairness

RestingSignal == Says(closes)

(* A cross on which the table rests is followed in the end: a paper daemon   *)
(* becomes long on a Buy and flat on a Sell, unless the rows of the bounded  *)
(* table are used up by orders whose fill failed.                            *)
SignalIsFollowed ==
  \A t \in Traders :
    /\ RestingSignal = "Buy" ~>
         positions[SymbolOf[t]].qty > 0 \/ RestingSignal # "Buy" \/ lastId = MaxOrders
    /\ RestingSignal = "Sell" ~>
         positions[SymbolOf[t]].qty <= 0 \/ RestingSignal # "Sell" \/ lastId = MaxOrders
=============================================================================
