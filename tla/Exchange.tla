------------------------------- MODULE Exchange -------------------------------
(* The InnovestX order API as internal/invx/orders.go uses it, external to   *)
(* the repository: requests under way, the exchange's order book restricted  *)
(* to this program's orders, and what may happen to an order there.  An      *)
(* order is known by the clientOrderId it was sent with.                     *)
EXTENDS Integers, FiniteSets

CONSTANTS
  ClientIds,    \* clientOrderIds a request may carry
  ExSymbols,    \* symbols the exchange trades
  Prices,       \* fill and limit prices, satang per whole coin
  Closings,     \* the closed, unfilled states the exchange uses
  HistoryLimit  \* orders one OrderHistory call returns (200)

ASSUME ExchangeAssumption ==
  /\ Prices \subseteq Nat \ {0}
  /\ Closings \subseteq {"Rejected", "Canceled", "Expired"}
  /\ ClientIds \subseteq Nat
  /\ HistoryLimit \in Nat

VARIABLES
  wire,   \* requests sent and neither received nor lost
  book    \* by clientOrderId: what the exchange knows

exchangeVars == <<wire, book>>

-----------------------------------------------------------------------------
(* A SendOrder request.                                                      *)
Request == [id : ClientIds, symbol : ExSymbols, side : {"BUY", "SELL"}, qty : Int, limit : Int]

Unknown == [state |-> "unknown"]
Refused == [state |-> "refused"]
FinalStates == {"FullyExecuted"} \cup Closings

(* An order the exchange took: its request, what was executed and at which   *)
(* average price.                                                            *)
Taken == [state : {"Working"} \cup FinalStates, req : Request, executed : Int, avg : Int]

IsTaken(id) == book[id].state \notin {"unknown", "refused"}

ExchangeInit == wire = {} /\ book = [id \in ClientIds |-> Unknown]

(* A reply with a non-success code leaves no order behind; a request without *)
(* a quantity is always refused.                                             *)
Receive(r) ==
  /\ wire' = wire \ {r}
  /\ book' = [book EXCEPT ![r.id] =
                [state |-> "Working", req |-> r, executed |-> 0, avg |-> 0]]

Refuse(r) ==
  /\ wire' = wire \ {r}
  /\ book' = [book EXCEPT ![r.id] = Refused]

Lose(r) == wire' = wire \ {r} /\ UNCHANGED book

(* A price the order's limit admits.                                         *)
Matches(o, p) == IF o.req.side = "BUY" THEN p <= o.req.limit ELSE p >= o.req.limit

Execute(id, p) ==
  /\ book[id].state = "Working"
  /\ Matches(book[id], p)
  /\ book' = [book EXCEPT ![id] = [@ EXCEPT !.state = "FullyExecuted",
                                            !.executed = book[id].req.qty, !.avg = p]]
  /\ UNCHANGED wire

(* Part of a resting order executes; it stays on the book.                   *)
PartlyExecute(id, p) ==
  /\ book[id].state = "Working"
  /\ Matches(book[id], p)
  /\ \E units \in book[id].executed + 1 .. book[id].req.qty - 1 :
       book' = [book EXCEPT ![id] = [@ EXCEPT !.executed = units, !.avg = p]]
  /\ UNCHANGED wire

Close(id, state) ==
  /\ book[id].state = "Working"
  /\ book' = [book EXCEPT ![id] = [@ EXCEPT !.state = state]]
  /\ UNCHANGED wire

(* SendOrder's request leaves the program.                                   *)
Submit(r) == wire' = wire \cup {r} /\ UNCHANGED book

(* OrderHistory(symbol, limit): the latest orders of one symbol.  Client     *)
(* order ids grow with time.                                                 *)
History(symbol) ==
  LET mine == {id \in ClientIds : IsTaken(id) /\ book[id].req.symbol = symbol}
  IN {id \in mine : Cardinality({newer \in mine : newer > id}) < HistoryLimit}
=============================================================================
