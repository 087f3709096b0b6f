------------------------------- MODULE Guard -------------------------------
(* The risk guard of internal/trader/guard.go: the caps an operator sets and *)
(* the pure decision Check takes on a day's risk state and an order's value. *)
(* A cap of 0 is disabled.                                                    *)
EXTENDS Integers

CONSTANTS
  MaxOrder,   \* Caps.MaxOrder: satang per order
  MaxDaily,   \* Caps.MaxDaily: satang deployed per day
  MaxLoss     \* Caps.MaxLoss: realized loss per day at which trading halts

ASSUME CapsAssumption == MaxOrder \in Nat /\ MaxDaily \in Nat /\ MaxLoss \in Nat

-----------------------------------------------------------------------------
(* The four refusals, in the order Check tries them.                         *)
LossStop(state) == MaxLoss > 0 /\ state.loss >= MaxLoss
ExceedsOrderCap(value) == MaxOrder > 0 /\ value > MaxOrder
ExceedsDailyCap(state, value) == MaxDaily > 0 /\ state.spent + value > MaxDaily

\* Plausible faults of Check: no halt test, no loss stop, a cap compared
\* without the order that is being placed.
CheckIgnoringHalt(state, value) ==
  [allowed |-> ~LossStop(state) /\ ~ExceedsOrderCap(value) /\ ~ExceedsDailyCap(state, value),
   tripHalt |-> LossStop(state)]

CheckWithoutLossStop(state, value) ==
  [allowed |-> ~state.halted /\ ~ExceedsOrderCap(value) /\ ~ExceedsDailyCap(state, value),
   tripHalt |-> FALSE]

CheckSpentOnly(state, value) ==
  [allowed |-> /\ ~state.halted /\ ~LossStop(state) /\ ~ExceedsOrderCap(value)
               /\ ~ExceedsDailyCap(state, 0),
   tripHalt |-> ~state.halted /\ LossStop(state)]

(* Check (guard.go): allowed, or refused; only the loss stop asks the caller *)
(* to persist a halt, and only when the day is not halted already.           *)
Check(state, value) ==
  [allowed  |-> /\ ~state.halted
                /\ ~LossStop(state)
                /\ ~ExceedsOrderCap(value)
                /\ ~ExceedsDailyCap(state, value),
   tripHalt |-> ~state.halted /\ LossStop(state)]
=============================================================================
