-------------------------------- MODULE Manual --------------------------------
(* Manual live orders (`order send --live`, `order cancel`) beside the       *)
(* trading daemons: another process on the same exchange account and the     *)
(* same kill switch, and outside the ledger.  The flags were checked and the *)
(* operator said yes; how they become a request is OrderForm's matter.       *)
EXTENDS TraderProps

CONSTANTS
  MaxManual,   \* BOUND: manual orders begun
  ManualUnits  \* quantities an operator asks for

ASSUME ManualAssumption ==
  /\ MaxManual \in Nat
  /\ ManualUnits \subseteq Nat
  /\ OrderIds \cup (MaxOrders + 1)..(MaxOrders + MaxManual) \subseteq ClientIds

VARIABLE manual   \* the `order send` in progress

manualVars == <<vars, manual>>

-----------------------------------------------------------------------------
\* A plausible fault: numbered like the rows of the ledger.
ManualIdLikeRow(n) == n

(* clientOrderId: the clock's milliseconds, far above any row id.            *)
ManualId(n) == MaxOrders + n

(* begun: commands begun; cleared: HISTORY, whether no kill stood at the     *)
(* check of the risk row.                                                    *)
ManualState == [pc : {"none", "killfile", "risk", "send"}, req : Request, begun : Nat,
                cleared : BOOLEAN]

ManualInit == Init /\ manual = [pc |-> "none", begun |-> 0, cleared |-> FALSE]

BeginManual ==
  /\ manual.pc = "none" /\ manual.begun < MaxManual
  /\ \E s \in Symbols, side \in Sides, units \in ManualUnits, p \in Prices :
       manual' = [pc |-> "killfile", begun |-> manual.begun + 1, cleared |-> FALSE,
                  req |-> [id |-> ManualId(manual.begun + 1), symbol |-> s, side |-> side,
                           qty |-> units, limit |-> p]]
  /\ UNCHANGED vars

EndManual == manual' = [pc |-> "none", begun |-> manual.begun, cleared |-> FALSE]

ManualKillFile ==
  /\ manual.pc = "killfile"
  /\ IF killFile THEN EndManual ELSE manual' = [manual EXCEPT !.pc = "risk"]
  /\ UNCHANGED vars

\* A plausible fault: the row is created, its flag not read.
ManualRiskUnread ==
  /\ manual.pc = "risk"
  /\ \E d \in LocalDays :
       /\ RiskToday(d)
       /\ manual' = [manual EXCEPT !.pc = "send", !.cleared = ~sinceKill.standing]
  /\ UNCHANGED <<exchangeVars, daemon, localVars>>

(* RiskToday(time.Now()): of the risk row only the halt flag is looked at,   *)
(* no cap and no loss.                                                       *)
ManualRisk ==
  /\ manual.pc = "risk"
  /\ \E d \in LocalDays :
       /\ RiskToday(d)
       /\ IF risk[d].halted
          THEN EndManual
          ELSE manual' = [manual EXCEPT !.pc = "send", !.cleared = ~sinceKill.standing]
  /\ UNCHANGED <<exchangeVars, daemon, localVars>>

(* SendOrder; its answer is only printed, and no row is written.             *)
ManualSend ==
  /\ manual.pc = "send"
  /\ Submit(manual.req)
  /\ EndManual
  /\ UNCHANGED <<storeVars, daemon, localVars>>

(* The configuration or the database fails, or the process is stopped.       *)
ManualFails ==
  /\ manual.pc # "none"
  /\ EndManual
  /\ UNCHANGED vars

(* `order cancel` of any order of the account, the daemons' included.        *)
Cancel(id) ==
  /\ "Canceled" \in Closings
  /\ Close(id, "Canceled")
  /\ UNCHANGED <<storeVars, daemon, localVars, manual>>

(* EXTERNAL: what the exchange does with a manual order.                     *)
ManualAtExchange ==
  /\ \E n \in 1..MaxManual :
       \/ \E p \in Prices : Execute(ManualId(n), p) \/ PartlyExecute(ManualId(n), p)
       \/ \E state \in Closings : Close(ManualId(n), state)
  /\ UNCHANGED <<storeVars, daemon, localVars, manual>>

ManualStep ==
  \/ BeginManual \/ ManualKillFile \/ ManualRisk \/ ManualSend \/ ManualFails
  \/ ManualAtExchange \/ \E id \in ClientIds : Cancel(id)

ManualNext == (Next /\ UNCHANGED manual) \/ ManualStep

ManualSpec == ManualInit /\ [][ManualNext]_manualVars

-----------------------------------------------------------------------------
(* The kill switch binds manual orders as well (MANUAL.md, "Trading          *)
(* safety"): while a kill of the day stands, an order leaves only if its     *)
(* command had read the risk row before the kill.                            *)
KillBindsManual ==
  [][wire' # wire /\ sinceKill.standing =>
       \A r \in wire' \ wire : r.id \in OrderIds \/ manual.cleared]_manualVars
=============================================================================
