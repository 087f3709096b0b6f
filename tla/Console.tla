-------------------------------- MODULE Console --------------------------------
(* The one-shot commands of the operator's console, one at a time: a manual  *)
(* order from its flags to the row `order hist` shows (internal/cli/order.go *)
(* and internal/invx/orders.go), a cancel, and the session snapshots.  The   *)
(* guard of a manual order is in Manual; here it may stop any order.         *)
EXTENDS Session

CONSTANTS
  Flags,       \* flags an operator may type, as records of texts
  CancelIds,   \* ids an operator may type
  Executions,  \* EXTERNAL: texts of quantityExecuted and avgPrice in a listed row
  MaxCommands  \* BOUND: commands run

ASSUME ConsoleAssumption ==
  /\ \A flags \in Flags : {flags.price, flags.qty, flags.value} \subseteq Text
  /\ Executions \subseteq Text \X Text
  /\ MaxCommands \in Nat

VARIABLES
  cmd,         \* the order or cancel command in progress
  commands     \* HISTORY: commands begun

vars == <<sessionVars, cmd, commands>>

-----------------------------------------------------------------------------
NoCommand == [pc |-> "none"]

Init == SessionInit /\ cmd = NoCommand /\ commands = 0

(* Each command is a process of its own, run when the one before has ended.  *)
BeginCommand ==
  /\ cmd = NoCommand /\ snap = NoSnap /\ commands < MaxCommands
  /\ commands' = commands + 1

TypeSend ==
  /\ BeginCommand
  /\ \E flags \in Flags : cmd' = [pc |-> "typed", flags |-> flags]
  /\ UNCHANGED sessionVars

(* Flags that do not fit end the command.                                    *)
RefuseFlags ==
  /\ cmd.pc = "typed" /\ ~Accepts(cmd.flags)
  /\ cmd' = NoCommand
  /\ UNCHANGED <<sessionVars, commands>>

(* The order as it is printed, before --live and the confirmation.           *)
AcceptFlags ==
  /\ cmd.pc = "typed" /\ Accepts(cmd.flags)
  /\ cmd' = [pc |-> "asked", flags |-> cmd.flags, in |-> SendOrderInput(cmd.flags)]
  /\ UNCHANGED <<sessionVars, commands>>

(* A dry run, no "y", the kill switch, or a failing call.                    *)
QuitCommand ==
  /\ cmd.pc \in {"asked", "posted", "listed"}
  /\ cmd' = NoCommand
  /\ UNCHANGED <<sessionVars, commands>>

SendOrder ==
  /\ cmd.pc = "asked"
  /\ cmd' = [pc |-> "posted", flags |-> cmd.flags, in |-> cmd.in, body |-> RequestFields(cmd.in)]
  /\ UNCHANGED <<sessionVars, commands>>

-----------------------------------------------------------------------------
(* EXTERNAL: how the exchange lists an order it took: words or numbers for   *)
(* side and type, the numbers it was sent as they were or with one more      *)
(* digit, either name of the quantity, and what was executed so far.         *)
Words(body) == [side |-> IF body.side = "BUY" THEN "Buy" ELSE "Sell",
                type |-> IF body.type = "MARKET" THEN "Market" ELSE "Limit"]
Codes(body) == [side |-> IF body.side = "BUY" THEN "0" ELSE "1",
                type |-> IF body.type = "MARKET" THEN "1" ELSE "2"]

Spelled(text, longer) == IF Given(text) /\ longer THEN Append(text, 0) ELSE text

RowsOf(body) ==
  {[side |-> names.side, orderType |-> names.type, price |-> Spelled(body.limitPrice, longer),
    origQuantity |-> IF older THEN Spelled(body.quantity, longer) ELSE << >>,
    quantity |-> IF older THEN << >> ELSE Spelled(body.quantity, longer),
    quantityExecuted |-> x[1], avgPrice |-> x[2]] :
     names \in {Words(body), Codes(body)}, longer, older \in BOOLEAN, x \in Executions}

(* EXTERNAL: only an order with a quantity, and with a price unless it is a  *)
(* market order, is taken.                                                   *)
Takes(body) ==
  /\ Given(body.quantity)
  /\ Given(body.limitPrice) \/ body.type = "MARKET"

ExchangeLists ==
  /\ cmd.pc = "posted" /\ Takes(cmd.body)
  /\ \E row \in RowsOf(cmd.body) : cmd' = [pc |-> "listed", in |-> cmd.in, raws |-> <<row>>]
  /\ UNCHANGED <<sessionVars, commands>>

(* `order hist` and `order open`: all the rows, or an error.                 *)
ShowList ==
  /\ cmd.pc = "listed" /\ ~ListFails(cmd.raws)
  /\ cmd' = [pc |-> "shown", in |-> cmd.in, raws |-> cmd.raws, infos |-> parseOrderList(cmd.raws)]
  /\ UNCHANGED <<sessionVars, commands>>

(* `order cancel`: a negative id passes the command's test, and none is sent.*)
TypeCancel ==
  /\ BeginCommand
  /\ \E ids \in CancelIds :
       /\ CancelAccepts(ids)
       /\ cmd' = [pc |-> "shown", cancel |-> CancelFields(ids)]
  /\ UNCHANGED sessionVars

EndCommand ==
  /\ cmd.pc = "shown"
  /\ cmd' = NoCommand
  /\ UNCHANGED <<sessionVars, commands>>

OrderStep ==
  \/ TypeSend \/ RefuseFlags \/ AcceptFlags \/ QuitCommand \/ SendOrder
  \/ ExchangeLists \/ ShowList \/ TypeCancel \/ EndCommand

SessionStep ==
  /\ UNCHANGED cmd
  /\ \/ BeginCommand /\ \E event \in Events : Begin(event)
     \/ (SnapshotStep \/ MarketMoves) /\ UNCHANGED commands

Next == OrderStep \/ SessionStep

Spec == Init /\ [][Next]_vars
=============================================================================
