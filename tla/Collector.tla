------------------------------ MODULE Collector ------------------------------
(* The collect daemon (internal/collector, internal/cli/collect.go) and the  *)
(* table of candles it keeps (internal/candle, internal/sql/candles.sql),    *)
(* against an exchange whose last bar is still forming.  A candle is its     *)
(* version: how often the bar had changed when it was quoted.  A daemon is   *)
(* one thread; a step is one call to the exchange or to the database.        *)
EXTENDS Integers, Sequences, Functions

CONSTANTS
  Daemons,   \* collect processes
  Symbols,   \* --symbols, a sequence: the order of the polls
  Window,    \* EXTERNAL: candles in one answer of the ticker
  Faults,    \* what may fail: "fetch", "empty", "upsert", "stop"
  MaxBars,   \* BOUND: bars of a symbol
  MaxMoves   \* BOUND: changes of a bar while it forms

Names == Range(Symbols)
Bars == 1..MaxBars
Versions == 1..(MaxMoves + 1)
NoRow == 0

ASSUME CollectorAssumption ==
  /\ Symbols \in Seq(Names)
  /\ \A i, j \in DOMAIN Symbols : Symbols[i] = Symbols[j] => i = j
  /\ Len(Symbols) > 0
  /\ Window \in Nat \ {0} /\ MaxBars \in Nat \ {0} /\ MaxMoves \in Nat

VARIABLES
  bar,       \* EXTERNAL: the minute, the bar now forming
  quote,     \* EXTERNAL: the current version of each bar of each symbol
  candles,   \* table candles: by symbol and open time
  daemon     \* each daemon: pc, position in Symbols, candles left to upsert

vars == <<bar, quote, candles, daemon>>

Candle == [open : Bars, version : Versions]
DaemonState == [pc : {"down", "waiting", "fetch", "upsert"}, sym : DOMAIN Symbols,
                batch : Seq(Candle)]
Down == [pc |-> "down", sym |-> 1, batch |-> << >>]

-----------------------------------------------------------------------------
(* The market: a trade changes the forming bar; a minute opens the next bar  *)
(* of every symbol.                                                          *)
Quote(s) == /\ quote[s][bar] <= MaxMoves
            /\ quote' = [quote EXCEPT ![s][bar] = @ + 1]
            /\ UNCHANGED <<bar, candles, daemon>>

NextBar == /\ bar < MaxBars
           /\ bar' = bar + 1
           /\ quote' = [s \in Names |-> [quote[s] EXCEPT ![bar + 1] = 1]]
           /\ UNCHANGED <<candles, daemon>>

(* Ticker: the last Window bars, oldest first.                               *)
Ticker(s) ==
  LET first == IF bar > Window THEN bar - Window + 1 ELSE 1
  IN  [i \in 1..(bar - first + 1) |-> [open |-> first + i - 1, version |-> quote[s][first + i - 1]]]

-----------------------------------------------------------------------------
\* A plausible fault: ON CONFLICT DO NOTHING.
UpsertKeeping(s, c) ==
  candles' = [candles EXCEPT ![s][c.open] = IF @ = NoRow THEN c.version ELSE @]

(* UpsertCandle: one row per symbol and open time, the new values win.       *)
Upsert(s, c) == candles' = [candles EXCEPT ![s][c.open] = c.version]

Waiting == [pc |-> "waiting", sym |-> 1, batch |-> << >>]
Fetching(i) == [pc |-> "fetch", sym |-> i, batch |-> << >>]

\* A plausible fault: the loop runs one symbol too far.
AfterSymbolPastEnd(i) == IF i <= Len(Symbols) THEN Fetching(i + 1) ELSE Waiting

(* The next turn of the loop over symbols, or the end of PollOnce.           *)
AfterSymbol(i) == IF i < Len(Symbols) THEN Fetching(i + 1) ELSE Waiting

(* Run polls at once, then at every tick of its interval.                    *)
Start(d) == /\ daemon[d].pc = "down"
            /\ daemon' = [daemon EXCEPT ![d] = Fetching(1)]
            /\ UNCHANGED <<bar, quote, candles>>

Tick(d) == /\ daemon[d].pc = "waiting"
           /\ daemon' = [daemon EXCEPT ![d] = Fetching(1)]
           /\ UNCHANGED <<bar, quote, candles>>

Current(d) == Symbols[daemon[d].sym]

Fetch(d, s) ==
  /\ daemon[d].pc = "fetch" /\ Current(d) = s
  /\ daemon' = [daemon EXCEPT ![d].pc = "upsert", ![d].batch = Ticker(s)]
  /\ UNCHANGED <<bar, quote, candles>>

(* The next turn of the loop over the answer.                                *)
AfterCandle(d) ==
  IF Len(daemon[d].batch) > 1 THEN [daemon[d] EXCEPT !.batch = Tail(@)]
  ELSE AfterSymbol(daemon[d].sym)

(* An answer without candles: nothing to store, on to the next symbol.       *)
FetchNothing(d) ==
  /\ "empty" \in Faults /\ daemon[d].pc = "fetch"
  /\ daemon' = [daemon EXCEPT ![d] = AfterSymbol(daemon[d].sym)]
  /\ UNCHANGED <<bar, quote, candles>>

UpsertOne(d, s, b) ==
  /\ daemon[d].pc = "upsert" /\ Current(d) = s /\ Head(daemon[d].batch).open = b
  /\ Upsert(s, Head(daemon[d].batch))
  /\ daemon' = [daemon EXCEPT ![d] = AfterCandle(d)]
  /\ UNCHANGED <<bar, quote>>

(* A failing call ends the poll: neither the rest of the answer nor the      *)
(* symbols after it are stored before the next tick.                         *)
FetchFails(d) ==
  /\ "fetch" \in Faults /\ daemon[d].pc = "fetch"
  /\ daemon' = [daemon EXCEPT ![d] = Waiting]
  /\ UNCHANGED <<bar, quote, candles>>

\* A plausible fault: a candle that cannot be stored is skipped.
UpsertFailsSkipping(d) ==
  /\ "upsert" \in Faults /\ daemon[d].pc = "upsert" /\ Len(daemon[d].batch) > 1
  /\ daemon' = [daemon EXCEPT ![d].batch = Tail(@)]
  /\ UNCHANGED <<bar, quote, candles>>

UpsertFails(d) ==
  /\ "upsert" \in Faults /\ daemon[d].pc = "upsert"
  /\ daemon' = [daemon EXCEPT ![d] = Waiting]
  /\ UNCHANGED <<bar, quote, candles>>

(* SIGINT, SIGTERM or a crash.                                               *)
Stop(d) ==
  /\ "stop" \in Faults /\ daemon[d].pc # "down"
  /\ daemon' = [daemon EXCEPT ![d] = Down]
  /\ UNCHANGED <<bar, quote, candles>>

-----------------------------------------------------------------------------
Init ==
  /\ bar = 1
  /\ quote = [s \in Names |-> [b \in Bars |-> IF b = 1 THEN 1 ELSE NoRow]]
  /\ candles = [s \in Names |-> [b \in Bars |-> NoRow]]
  /\ daemon = [d \in Daemons |-> Down]

MarketStep == NextBar \/ \E s \in Names : Quote(s)

DaemonStep(d) ==
  \/ Start(d) \/ Tick(d)
  \/ \E s \in Names : Fetch(d, s) \/ \E b \in Bars : UpsertOne(d, s, b)
  \/ FetchNothing(d) \/ FetchFails(d) \/ UpsertFails(d) \/ Stop(d)

Next == MarketStep \/ \E d \in Daemons : DaemonStep(d)

Spec == Init /\ [][Next]_vars
=============================================================================
