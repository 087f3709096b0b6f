------------------------------ MODULE OrderOutbox ------------------------------
(* What the ledger of orders promises, whatever fails and whichever daemon   *)
(* acts: an order is recorded before the exchange can have it, is settled at *)
(* most once and for good, and a live order is accepted only when the        *)
(* exchange has it.                                                          *)
CONSTANT Ids

VARIABLES
  row,    \* status of each order
  live,   \* orders meant for the exchange
  known   \* orders the exchange took

outboxVars == <<row, live, known>>

Init ==
  /\ row = [id \in Ids |-> "none"]
  /\ live = {}
  /\ known = {}

Record(id) ==
  /\ row[id] = "none"
  /\ row' = [row EXCEPT ![id] = "pending"]
  /\ live' \in {live, live \cup {id}}
  /\ UNCHANGED known

(* The request reaches the exchange, possibly after the sender gave up.      *)
Deliver(id) ==
  /\ row[id] # "none"
  /\ id \in live \ known
  /\ known' = known \cup {id}
  /\ UNCHANGED <<row, live>>

Accept(id) ==
  /\ row[id] = "pending"
  /\ id \in live => id \in known
  /\ row' = [row EXCEPT ![id] = "accepted"]
  /\ UNCHANGED <<live, known>>

Reject(id) ==
  /\ row[id] = "pending"
  /\ id \in live
  /\ row' = [row EXCEPT ![id] = "rejected"]
  /\ UNCHANGED <<live, known>>

Next == \E id \in Ids : Record(id) \/ Deliver(id) \/ Accept(id) \/ Reject(id)

Spec == Init /\ [][Next]_outboxVars
=============================================================================
