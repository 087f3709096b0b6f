-------------------------------- MODULE Session --------------------------------
(* The session snapshots of internal/session: `session start`, `session end` *)
(* and the marks `trade` leaves at its start and end value the account one   *)
(* product after the other, each at a ticker asked for when its turn comes,  *)
(* and insert one row.  A step is one call, to the exchange or the database. *)
EXTENDS OrderForm

CONSTANTS
  THB,          \* the product that is money
  Products,     \* the order in which the balance lists the products
  AmountTexts,  \* EXTERNAL: texts of an amount in the balance
  Closes,       \* EXTERNAL: closes a market may show, satang per whole coin
  MaxMoves      \* BOUND: changes of the markets

ASSUME SessionAssumption ==
  /\ Products \in Seq(Range(Products))
  /\ \A i, j \in DOMAIN Products : Products[i] = Products[j] => i = j
  /\ AmountTexts \subseteq Text /\ Closes \subseteq Nat
  /\ MaxMoves \in Nat

VARIABLES
  account,  \* EXTERNAL: by product, the text of the amount
  close,    \* EXTERNAL: by product, the close of the first candle of its ticker
  moves,    \* HISTORY: how often one of these closes has changed
  snap,     \* the snapshot being taken
  tracks    \* table session_tracks, in order

sessionVars == <<account, close, moves, snap, tracks>>

-----------------------------------------------------------------------------
Names == Range(Products)
Coins == Names \ {THB}
Events == {"start", "end"}

(* held: amounts read, by product; at: the next product of the loop; missed: *)
(* HISTORY, the coins whose ticker failed; from: HISTORY, the markets' state *)
(* when the snapshot began.                                                  *)
NoSnap == [pc |-> "none"]
Snapshot == [pc : {"balance", "loop", "insert"}, event : Events, held : [Names -> Int],
             at : 1..(Len(Products) + 1), total : Int, missed : SUBSET Coins, from : Nat]

Track == [event : Events, balance : Int, missed : SUBSET Coins, from : Nat, to : Nat]

SatangPerTHB == Power(10, PriceDecimals)

\* A plausible fault: money is taken for satang already.
SatangOfUnscaled(p, amount) ==
  IF p = THB THEN TruncDiv(amount, Scale) ELSE ValueOf(amount, close[p])

(* The satang worth of an amount.                                            *)
SatangOf(p, amount) ==
  IF p = THB THEN TruncDiv(Wrap(amount * SatangPerTHB), Scale) ELSE ValueOf(amount, close[p])

SessionInit ==
  /\ account = [p \in Names |-> << >>]
  /\ close = [p \in Coins |-> 0]
  /\ moves = 0
  /\ snap = NoSnap
  /\ tracks = << >>

-----------------------------------------------------------------------------
(* EXTERNAL: the account and the markets are as they happen to be.           *)
Begin(event) ==
  /\ snap = NoSnap
  /\ account' \in [Names -> AmountTexts]
  /\ close' \in [Coins -> Closes]
  /\ snap' = [pc |-> "balance", event |-> event, held |-> [p \in Names |-> 0], at |-> 1,
              total |-> 0, missed |-> {}, from |-> moves]
  /\ UNCHANGED <<moves, tracks>>

(* AccountBalance: one amount that cannot be read fails the whole answer.    *)
ReadBalance ==
  /\ snap.pc = "balance"
  /\ \A p \in Names : ~Malformed(account[p], QtyDecimals)
  /\ snap' = [snap EXCEPT !.pc = "loop",
                          !.held = [p \in Names |-> ParseOrZero(account[p], QtyDecimals)]]
  /\ UNCHANGED <<account, close, moves, tracks>>

Product == Products[snap.at]
InLoop == snap.pc = "loop" /\ snap.at <= Len(Products)

(* A product without an amount is skipped, money needs no ticker.            *)
ValueProduct ==
  /\ InLoop
  /\ snap' = [snap EXCEPT !.at = @ + 1,
                !.total = IF snap.held[Product] = 0 THEN @
                          ELSE Wrap(@ + SatangOf(Product, snap.held[Product]))]
  /\ UNCHANGED <<account, close, moves, tracks>>

(* A ticker that fails, cannot be read or lists no candle: the product is    *)
(* skipped.                                                                  *)
SkipProduct ==
  /\ InLoop
  /\ Product # THB /\ snap.held[Product] # 0
  /\ snap' = [snap EXCEPT !.at = @ + 1, !.missed = @ \cup {Product}]
  /\ UNCHANGED <<account, close, moves, tracks>>

EndLoop ==
  /\ snap.pc = "loop" /\ snap.at > Len(Products)
  /\ snap' = [snap EXCEPT !.pc = "insert"]
  /\ UNCHANGED <<account, close, moves, tracks>>

InsertTrack ==
  /\ snap.pc = "insert"
  /\ tracks' = Append(tracks, [event |-> snap.event, balance |-> snap.total,
                               missed |-> snap.missed, from |-> snap.from, to |-> moves])
  /\ snap' = NoSnap
  /\ UNCHANGED <<account, close, moves>>

(* The balance or the insert fails, or the process stops: no row.  `trade`   *)
(* goes on without it.                                                       *)
Abandon ==
  /\ snap # NoSnap
  /\ snap' = NoSnap
  /\ UNCHANGED <<account, close, moves, tracks>>

(* EXTERNAL: a ticker lists another close first.                             *)
MarketMoves ==
  /\ snap # NoSnap /\ moves < MaxMoves
  /\ moves' = moves + 1
  /\ \E p \in Coins, c \in Closes : c # close[p] /\ close' = [close EXCEPT ![p] = c]
  /\ UNCHANGED <<account, snap, tracks>>

(* A step of a snapshot begun.                                               *)
SnapshotStep ==
  \/ ReadBalance \/ ValueProduct \/ SkipProduct \/ EndLoop \/ InsertTrack \/ Abandon
=============================================================================
