# snow-white in TLA+

snow-white is a command-line trading program for the InnovestX exchange: a
candle collector, a moving-average strategy with a backtester, and trading
daemons that turn signals into orders under a risk guard, on one Postgres
database.  This directory specifies first the part that moves money: orders, positions
and the day's risk counters, as several processes, the operator, the exchange
and failures act on them; then the candle collector, the MA-cross strategy and the
backtest, which decide what is traded; then the operator's console, from the
characters of a flag to the request, and the session snapshots.

## 1. The system

| component | state it keeps | operations | what makes it correct |
|---|---|---|---|
| Risk guard (`internal/trader/guard.go`) | none; the caps | `Check` | no order past a halt, the loss stop or a cap |
| Order arithmetic (`trader/fill.go`, `trader/pipeline.go`) | none | `orderValue`, `simulatePaperFill`, `computeFill` | exact in int64 or refused; quantity and profit add up |
| Order store (`internal/order/store.go`, `internal/sql/orders.sql`) | tables `orders`, `positions`, `risk_state` | `InsertPending`, `Settle`, `RiskToday`, `ApplyFill`, `SetHalted`, `ListPendingOrders` | a row is settled once; each fill and each spend is counted once, on the right day |
| Exchange order API (`internal/invx/orders.go`) | the exchange's book; requests under way | `SendOrder`, `CancelOrder`, `OrderHistory`, `OpenOrders`, `AccountBalance` | numbers go out and come back as they are; the exchange is external |
| Pipeline and reconcile (`trader/pipeline.go`, `trader/reconcile.go`, `trader/killswitch.go`) | what one call has read so far | `Place`, `Reconcile` | the ledger agrees with the exchange, through crashes and lost replies |
| Trader daemon (`trader/trader.go`, `cli/trade.go`) | mode, ticker | start, startup reconcile, `Tick` | reconciles before it trades; one order at a time |
| Operator (`cli/risk.go`, `cli/order.go`) | kill file | `kill`, `resume`, `status` | a kill stops trading; resume does not lift the loss stop |
| Manual orders (`cli/order.go`) | none | `order send`, `cancel`, `open`, `hist` | what is sent is what was typed; the kill switch binds them too; the ledger does not notice them |
| Strategy, indicators (`internal/strategy`, `internal/indicator`) | last candles | `SMA`, `EMA`, `RSI`, `MACross.Evaluate` | signals exactly the crosses of the means, the same on a day of candles as on all of them |
| Candle store, collector (`internal/candle`, `internal/collector`) | table of candles | `Upsert`, `PollOnce`, `Run` | one candle per open time, final once its bar has closed and been polled; failures only delay |
| Backtest (`internal/backtest`) | cash, coins | `Run` over a series | value is conserved but for fees and rounding; wins, drawdown and profit agree |
| Analysis (`internal/analyze`) | none | `Compute` | each indicator is its definition and never looks ahead |
| Session tracking (`internal/session`, `cli/session.go`) | table of snapshots | start, end | a snapshot is the worth of the account at the closes its answers name, but for the coins whose ticker failed |
| Fixed-point numbers (`pkg/scale`) | none | `Parse`, `Format` | `Parse` truncates; `Parse` of `Format` is the number |
| Notifications, configuration, HTTP transport, generated queries | none that matters | | input and output only |

**How they interact.**  `trade` is one thread: its ticker runs `Reconcile`
(live only), then evaluates the strategy on stored candles, reads the position
and calls `Place`.  `Place` checks the kill file, reads the day's `risk_state`
row, decides with `Check`, inserts a pending row, sends the order (live) or
simulates it (paper) and settles the row.  Every call is a separate database or
network access, so daemons of several pairs, the operator's commands and the
exchange run between any two of them.  Several daemons share the `orders` and
`risk_state` tables; `positions` has a row per pair.  The process may die between any
two accesses, database and network calls fail, and a request whose reply was
lost may have reached the exchange or reach it later.  A manual order is a process of
its own: it reads the same kill file and the same `risk_state` row as the daemons, sends to the same
account, and writes no row.  The collector rewrites the candles a daemon reads.

**What is hard.**  Check, insert, send and record are separate transactions;
position read and overwrite are separate as well; `SettleOrder` updates whatever the
status was; the days of the guard (UTC) and of the operator (local) differ;
midnight may pass between any two steps; a row of `risk_state` may not exist yet.
`PROJECT.json` lists these hazards at the lines where they bite.

## 2. Modules

| module | models |
|---|---|
| `Guard` | `Check`: its refusals and which of them persists a halt |
| `Fill` | the money arithmetic on int64 with wrap-around and truncating division |
| `OrderStore` | the tables and each statement or transaction on them, one operator each |
| `Exchange` | external: requests on the wire, the book, fills, partial fills, closings, the history window |
| `Trader` | the daemons, the operator and the clock; composes the four modules above |
| `OrderOutbox` | abstract: what the ledger of orders promises |
| `TraderProps` | properties of `Trader`, its inductive invariants, fairness |
| `Manual` | manual live orders and cancels as one more process beside `Trader` |
| `Strategy` | `SMA` with its running sum, `MACross.Evaluate` |
| `Signals` | `Trader` composed with `Strategy` and a table of candles the collector keeps rewriting |
| `Backtest` | `backtest.Run`: one step per bar, then the liquidation |
| `Report` | `EMA`, `RSI` and `analyze.Compute` |
| `Collector` | the collect daemon and the table of candles, against a market whose last bar is forming |
| `Powers` | powers, by their recursion |
| `FixedPoint` | `scale.Parse` and `Format` on sequences of characters, with wrap-around |
| `OrderForm` | flags to a `SendOrderInput`, that to the fields of a request, a listed row back to an order |
| `Session` | a snapshot of the account, product by product, and the row it inserts |
| `Console` | the one-shot commands: composes `OrderForm` and `Session` |
| `BacktestProps`, `CollectorProps`, `ConsoleProps` | their properties, fairness, inductive invariants |
| `MCTrader`, `MCManual`, `MCSignals`, `MCConsole`, `MCBacktest`, `MCCollector` | instances for TLC |
| `FillProofs`, `SumProofs` | lemmas: int64 arithmetic; sums over finite sets and recursion over an interval |
| `TraderProofs`, `CapProofs`, `PaperProofs` | theorems about `Trader`; about its caps and kill switch, with `Manual`; about paper trading and losses, with `Signals` |
| `BacktestProofs`, `CollectorProofs`, `ConsoleProofs` | theorems about `Backtest`, `Strategy` and `Report`; `Collector`; `Console` |

The modules build on one another: `Trader` on `Guard`, `Fill`, `OrderStore` and `Exchange`; `Manual`
and `Signals` on `Trader`; `OrderForm` on `FixedPoint`, that on `Fill` and `Powers`, `Session` on `OrderForm`, `Console`
on `Session`; `BacktestProps` on `Backtest` and `Report`, both on `Strategy`.

`Collector` and `Backtest` are independent of `Trader`: they share only the table of candles,
which only the collector writes.  In `Collector` a candle is the number of changes its bar
had seen when it was quoted, so that "as it closed" and "half formed" can be told apart; a step
is one fetch or one upsert, and a failing call returns to waiting with the rest of the poll
undone, as `PollOnce` does.  `Backtest` takes any signal at any bar, as the interface
`Strategy` and the scripted strategy of its tests do, and keeps the closes seen so far, on
which `BacktestProps` also evaluates `MACross`.  Averages and the drawdown are exact
fractions where the code has float64; the account is unbounded where the code has int64
(it would wrap above 922 million THB).

`Manual` adds one process to `Trader`: the kill file, the risk row and the send are three
steps, and anything may happen between them.  Of the risk row it reads the halt flag alone, no cap
and no loss, as the code does.  Its client ids, the clock's milliseconds, lie above every row id.
How its numbers come about is `Console`'s matter.

`Signals` replaces the free signal of `Trader` by `Evaluate` of the closes a tick has listed.
A tick lists the table, decides and places; the table may change after the list: a bar is added, the
forming one rewritten, or the oldest one leaves the day that `Tick` lists (`trader.go:118`).  `actedOn`
remembers which state of the table an order was placed on.  The rest of `Trader` is reused unchanged.

In `FixedPoint` a text is a sequence of digits and a few other characters, so `Parse`
really parses: it pads, drops, rejects and wraps as the code does.  `Format` is its inverse only where
the number fits, and the properties of `Console` compare both with the exact fraction a text
denotes.  In `Session` a step is one call: the balance, one ticker, the insert; a market may
move between two tickers, and a failing ticker leaves its coin out.  The close of a coin is that of
`candles[0]` of the answer (`session.go:73`).  The exchange decides the order of an answer, and nothing in
the repository says which candle comes first: `close` is whatever the first one holds, and the properties
speak of the worth at these closes, which is the worth at the market only if the newest comes first.
In `Collector`, where the order decides which row is written last, an answer lists its bars oldest first.
An answer there may also be empty: the loop runs zero times and the poll goes on (`FetchNothing`).

**State.**  `orders`, `lastId`, `positions` and `risk` are the tables; an absent
`positions` row reads as a flat position, as `GetPosition` returns it, and
`risk[d].exists` tells an absent `risk_state` row apart, as an UPDATE does.
`wire` and `book` are the network and the exchange.  `daemon[t]` is what a daemon
has in local variables: `pc`, the mode it was started in, whether it is still in the
startup reconcile, the pending orders it has left, the day it captured, the
position it read, the intent and the id of its row.  `applied`, `lost`, `sinceKill` and
the columns `day` and `value` of a row are history: no guard of the code reads
them but where the code still has the same value in a local variable
(`day` and the exposure of the intent of `Place`).  `applied[id]` counts the fills an order
moved a position by, `lost[id]` is what they took off the realized profit: it is read off the
position before and after the write, and so does not depend on what the code books as a loss.

**Steps.**  An action is one access to the database, the exchange or the clock,
with the local computation after it.  `ReconcileReadPosition` and
`ReconcileApply`, for example, are `reconcile.go:77` and `:94`, and anything may happen
between them.  `Place` is up to the insert three steps: the day and the kill file
(`PlaceKillFile`), the risk row of that day and `Check` (`PlaceCheck`), and the insert or the
persisted halt.  A transaction is one step.  `Crash` returns a daemon to `Down` from
any point; a crash also stands for a cancelled context.  `ReconcileError`,
`PlaceError` and `SendFails` are the error returns.

**Abstractions.**
- `SetHalted`'s two statements are one step: only the existence of the row is
  visible in between.
- A final order at the exchange does not change, so the loop of `Reconcile` reads
  its entry from the book rather than from a copy of the history.
- The strategy is free to ask for a Buy whenever it is not long, a Sell whenever it
  holds, or nothing: the weakest strategy `Tick` lets through.
- Prices are positive: the last close of a listed candle.
- In `Report` an average is an exact fraction, and a row has no time and no CSV text.
- A flag holds no white space, and `--side` and `--type` are given in capitals.
- The order's id stands for `clientOrderId`, and grows with time as the sequence does.

## 3. Runs

`tlc -config X.cfg MCTrader` (or `MCManual`, `MCSignals`, `MCConsole`, `MCCollector`, `MCBacktest`).  Bounds of `Trader`: `MaxOrders` rows, `MaxDay` UTC days, one or
two prices, and `Scale = 1`, so a Buy worth 2 is 2 or 1 units and truncation, losses
and partial fills occur.  `TraderPaper` has a Buy worth 1 and `Scale = 2`: 2 or 1 units again, and a
spend of 1, so that caps are met exactly; its two pairs are alike (`SYMMETRY`).  `TraderOperator` has prices
2 and 3 and a Buy worth 3: one unit either way, so no partial fills, which do not bear on its questions.  Reaching the bound on orders fails the insert, as a
failing database would.

| run | instance | shows |
|---|---|---|
| `TraderLive` | one live daemon, 2 orders, 2 days, every fault at every step | `TypeOK`, `PositionIsSumOfFills`, `AppliedWasFilled`, `SpentIsExact`, `DailyCapHolds`, `OnlyRowlessDaysLose`, that `Trader` implements `OrderOutbox`, and `FinalPendingIsSettled` under `LiveSpec` |
| `TraderOperator` | 3 orders, a day, failing writes, kill, resume, kill file, status | `KillOvershootBounded`, `NoOrderPastLossStop` |
| `TraderPaper` | two paper daemons on two pairs and one risk row, 3 orders, 2 days, crashes, failing writes, resume | `LossesOnTheirDay`, `NeverShort`, `SpentIsExact`, `DailyOverrunBounded` (a cap of 1 and two daemons: a spend of 2 is reached, and 2 is the bound) |
| `TraderPairs` | two live daemons on two pairs, crashes, lost requests and replies | `PositionIsSumOfFills`, `OutboxSpec` |
| `Manual` | one live daemon, 2 rows, one manual order, cancels of any order, kill, kill file, crashes, a failing network | `KillBindsManual`, and `OrderOutbox` still implemented |
| `Signals` | a paper daemon, `MACross(1, 2)`, 4 bars, 5 states of the table, bars leaving the day listed, 3 orders, 2 days, crashes, failing writes | `OneFillPerTable`, `SignalIsFollowed` |
| `Console` | every text of up to 4 of 5 characters in each number flag, and typical forms; 3 products; an int64 of 29999 | `TypeOK`, `ParseTruncates`, `PostedWithinTyped`, `OnlyQuantitiesSent`, `ReadBackExact`, `SnapshotIsWorth` |
| `Collector` | one collector, 2 symbols, 3 bars of two versions each, a window of 2, failing calls, empty answers, restarts, `LiveSpec` | `TypeOK`, `PollSettlesClosedBars`, `TableCatchesUp` |
| `Backtest` | every backtest of up to 6 bars, closes 0 to 3, any signals, a 20% fee; `MACross(2, 3)`, EMA(3) and RSI(3) on the same closes | `TypeOK`, `TradesCreateNoValue`, `WinsExplainProfit`, `DrawdownCoversLoss`, `EvaluateIsCrossOfMeans`, `LiveSeesBacktest`, `EmaIsWeightedMean`, `RsiIsGainShare`, `ReportIsCausal` |

**Why the bounds are enough.**  Two orders are the smallest number with an order in
flight while another is reconciled; three allow buy, sell at a loss, and the order
the loss stop must refuse, or with two daemons a round trip of one beside a Buy of the other.  Two days are enough for
midnight between any two steps of an order, because no step looks further than the
day it captured.  `TraderOperator` has one day: what midnight does to the loss stop is in the theorem
(`LossStopHolds`).  Two daemons are enough for every race on one row.  A `HistoryLimit`
of 2 never truncates in these runs: with a smaller window an order can fall out of
it, see section 5.  For the collector, a window of 2 over 3 bars has a bar that is fetched
forming, refetched closed, and one that leaves the window; 2 symbols have one before and one
after the failure.  For the backtest, six bars hold a round trip, a second one and the
liquidation, and histories twice as long as the warm-up of `MACross(2, 3)`; a scale of 2 and
a fee of 20% make every division truncate, and leave three bars after the warm-up of EMA(3) and two
after that of RSI(3).  In `Signals`, with periods 1 and 2, three bars show a cross and four a
Buy and a Sell, and the states of the table that add no bar rewrite the forming one under a tick that
has read it, or withdraw a cross and show it again.  In `Manual` the window of 3 holds all the orders of the account.  In `Console`
four characters hold a sign, a point, a digit too many and a letter, with two decimals for
quantities and one for prices; values of 999 and an int64 of 29999 make the conversion wrap, into
negative quantities too.  Commands run one at a time and share nothing but the table of
snapshots, and `SnapshotIsWorth` judges the step that inserts a row, against the account of that
moment: one command is enough.

**Fairness** (`LiveSpec`).  A stopped daemon is started again by whoever ran it (it is
meant to run continuously), its ticker fires, a call in progress returns and a loop without orders
left ends: weak fairness of `Start`, `TickStep`, `PlaceStep`, `ReconcileEnd`, one condition as they are steps
of different pcs.  Each call of `Reconcile` is strongly fair: it may
fail, or be cut off by a crash, any number of times but not every time.  Nothing
is assumed of the operator, the strategy, the clock or what the exchange does with an
order.  For the collector: a stopped process is started again and its ticker fires; a fetch ends, with an
answer or with the client's timeout (`client.go:49`); an upsert may fail, or be cut off, any number
of times but not every time it is reached.  Nothing is assumed of the exchange's answers: `TableCatchesUp`
says for each symbol that its table catches up if it, and those before it in the list, are
answered again and again, because `PollOnce` stops at the first failure: a symbol that always fails
starves those after it, never those before it.  For `Signals`: a stopped daemon is started
again, and each of its steps is strongly fair, as a crash or a failing write may hit it many times but not
every time; nothing is assumed of the table.  Its rows are bounded, and a fill that fails leaves a row
behind, so `SignalIsFollowed` also ends when they are used up.

**Disagreements between the code and its documents**, each a run in which TLC finds
the counterexample:

| run | what the code does | what is said of it |
|---|---|---|
| `FindFills` | a normally placed live order is settled `accepted` at once, and `Reconcile` lists only pending rows: its fill never reaches the position | `pipeline.go:162`, `reconcile.go:28` |
| `FindLoss` | a loss reconciled on a day without a `risk_state` row updates no row and is counted nowhere | `store.go:105`, `reconcile.go:29` |
| `FindKill` | on a host ahead of UTC, `kill` halts the local date's row and the guard reads the UTC date's | `risk.go:22`, `MANUAL.md:157` |

More follows from the model and has no run of its own:

- A request whose reply is lost is settled `rejected` (`pipeline.go:152`) though the exchange may have
  taken it, and nobody looks at it again; the design (`:244`) promises no lost orders.
  `OrderOutbox` therefore lets a rejected order live at the exchange.
- The daily cap bounds the spend recorded, not the THB deployed (`MANUAL.md:59`).  An order whose record
  failed after the exchange took it stays pending, and `Reconcile` books its fill with a spend of 0
  because "spend was already counted when the order was placed" (`reconcile.go:35`, `:95`), which
  is not so for an order still pending; one whose reply was lost is not counted either.  In
  the instance of `TraderLive` two Buys worth 4 fill on a day capped at 3.  `SpentIsExact` and
  `DailyCapHolds` are therefore about what `Place` recorded and, the latter, the order in hand.
- Two daemons on two pairs can both pass the daily cap before either spends;
  `DailyOverrunBounded` is the bound that does hold for the spend recorded, `DailyCapHolds` the one
  for a lone daemon.
- A crash after the insert and before the send leaves a row pending for ever, as no history
  entry will match it (`reconcile.go:27` speaks of phantom rows); `FinalPendingIsSettled`
  is therefore stated for orders the exchange has.
- The loss stop is judged by what was booked: `OnlyRowlessDaysLose` says that the step of `FindLoss`
  is the only one that loses a loss, `LossesOnTheirDay` that on paper every day's counter is right.
  A live fill is booked on the day it is reconciled (`reconcile.go:65`), which may be
  later than the day that admitted it.
- An order closed after a partial execution is settled `rejected` and its executed units reach no
  position (`MANUAL.md:222` says partial fills stay pending).
- Paper fills are written to the rows live trading reads (the design, `:255`, calls paper
  side-effect-free).
- In live mode nothing stops a second Buy while the first rests: `Tick` looks at the position, not at
  pending orders.  `OneFillPerTable` is a promise of paper trading, where the fill is immediate.
- A cross is a signal on its own bar only: blocked or failing until the next bar opens, it is not
  acted on.  And a bar that is still forming may show a cross, be acted on, and close without one.
- `order send` checks the size for zero before it converts `--value`: a value below one unit's
  price, a negative number, or one whose product with 1e8 wraps passes, and no quantity is sent at all;
  `OnlyQuantitiesSent` lists exactly these cases.
- `SendOrder` sends a limit price for a market order too, when `--price` is given
  (`orders.go:46` says only for limit orders).

## 4. Proofs

All for every value of the constants: any number of daemons, pairs, orders, days and
prices, any set of faults and operator acts.  The assumptions are the named ASSUMEs of
the modules (caps are naturals, prices positive, order ids are client ids, modes are
paper or live), which each run evaluates, and the hypotheses a theorem names.

**The daemons.**

- **`TypeCorrect`** (`TraderProofs`): `Spec => [](TypeOK /\ StateInv)`.  `TypeOK` alone is
  not inductive: `Settle` of a row that was never inserted would not be typed.
  `StateInv` says what a daemon knows of the rows it works on: rows are exactly those
  handed out (`RowInv`); every request and exchange order under a row's id stems from that live
  row, of the same pair, and a request under way is the only one of its order (`TrafficInv`); the row
  in hand is of the daemon's pair and mode (`PlacingInv`); the orders left to reconcile
  are final at the exchange (`ReconcilingInv`); no two daemons place one row
  (`DistinctRows`).  The proof has a typing lemma and an invariant lemma per group of
  actions; steps that only change statuses share `KeepsRows`.
- **`RequestsStemFromRows`** (`TraderProofs`): when nobody sends by hand, every request has its row.
  `TrafficInv` only speaks of ids of rows, so that it also holds beside `Manual`.
- **`AppliedOnlyWhenFilled`** (`TraderProofs`), assuming one daemon per pair
  (`OneTraderPerPair`, the set-up `reconcile.go:39` asks for): a fill is applied only to an
  order that filled.  The strengthening is `OwnsRows`: the rows a daemon has in hand, and
  those of its own pair it has listed, are still pending, because nobody else settles rows of
  the pair.  Without the assumption it is false: two daemons of one pair settle a row twice.
- **`PositionsAddUp`** (`TraderProofs`), same assumption: every position is the wrapped sum of the
  fills applied to it.  `PositionInv` adds that a position read for a fill is still the table's
  when the fill is written; `OwnsRows` makes the row of that fill one that is not in the sum yet.
- **`LedgerIsOutbox`** (`TraderProofs`), same assumption: `Trader` implements `OrderOutbox`.  Every
  step maps to `Record`, `Deliver`, `Accept`, `Reject` or a stutter.
  **`LedgerIsOutboxBesideManual`** (`CapProofs`): so does `Trader` with orders sent and cancelled by
  hand; `ManualForm` says that a command's id is no row's.
- **`LossStopHolds`** and **`DailyCapIsKept`** (`CapProofs`), assuming a lone daemon
  (`LoneDaemon`): the caps hold although they are checked in one transaction and counted in
  another.  `LossInv` and `SpentInv` carry what `Check` saw to the insert and to the
  record; only the daemon itself moves the counters in between.  `DailyCapHolds` speaks of the orders
  themselves, not of the counter: `SpentIsExact` turns the one into the other, and a lone
  daemon has at most one order in hand (`InHandFits`).
- **`OverrunIsBounded`** (`CapProofs`), for any finite number of daemons, on one pair or many: the
  spend of a day exceeds the cap by at most an order for each daemon but one.  `OverrunInv` is a
  budget: the spend and what the daemons past their `Check` may still add, one claim each, fit under
  that bound together.  A `Check` makes a claim where there was none, and the others' claims are
  capped one by one.
- **`SpendAddsUp`** (`CapProofs`), one daemon per pair: `spent_today` is exactly the exposure of the
  orders of the day that were recorded.  The row must exist for the UPDATE to count (`DayRows`:
  `Place` read it, and so created it, before it inserted an order of that day).
- **`KillStops`** (`CapProofs`), for any finite number of daemons on hosts in UTC: after a
  standing kill no more orders are inserted than there are daemons.  `KillInv`: the day is
  halted, so a daemon passes `Check` only if it captured the day before midnight and the kill came after,
  and the orders inserted since the kill, the daemons at their insert and those about to check an
  earlier day are together no more than the daemons.
  **`KillBindsManualOrders`** (`CapProofs`): a manual order leaves while a kill stands only if its
  command had read the risk row before (`ManualCleared`).
- **`PaperNeverShort`** (`PaperProofs`), for one paper daemon per pair and a budget whose conversion
  to units fits an int64: no position becomes negative.  `PaperInv` says that from the tick's read of
  the position to the fill nobody else writes it, so the Sell is still of what is held, and a Buy
  adds a quantity that does not wrap.
- **`OnlyRowlessLossesEscape`** (`PaperProofs`), one daemon per pair: what the day's counters miss of the
  realized losses (`Uncounted`, all losses less all that is booked) changes in no step but a `Reconcile` that
  books on a day without a risk row, which run `FindLoss` shows to happen.  Every other fill books what it takes off
  the profit, order by order (`Books`, `BookedIsCounted`), because the position it read is still the table's
  (`PositionInv`) and the row it books on exists (`DayRows`).
- **`PaperLossesOnTheirDay`** (`PaperProofs`), on paper, one daemon per pair and a budget that converts
  without overflow: on each day `loss_today` is the sum of what the orders admitted that day lost, by order
  (`LostInv`); a profit of one order or another day makes up for nothing.
  Both assume that no profit is beyond half the int64 range (`PnlSmall`, a sum the code does not test).
- **`CandlesMoveOnce`** (`PaperProofs`), of `Signals`: one state of the table of candles moves a
  position at most once, if the budget buys at least a unit (`BuysSome`; a Buy of nothing leaves the
  position flat, and the same cross buys again).  `FillInv` says that a fill heeds the table it came
  from, so that `Evaluate` of the same table, under the guards of `Tick`, acts no more.

**Indicators and backtest** (`BacktestProofs`), for closes of any number and any periods.

- **`NoValueFromTrades`**, **`WinsAndProfitAgree`**, **`DrawdownIsHonest`**: the
  account a backtest reports, for every strategy, series of closes, fee up to 100% and scale.
  Truncating division enters through three lemmas (`FeeBounds`, `WorthBounds`, `BoughtBounds`)
  and `Fair`, which bounds what one trade may do to the value of the account.  `WinsExplainProfit`
  is not inductive: `AccountInv` follows the stake of the open round trip;
  `DrawdownCoversLoss` needs `DrawdownInv`, that the drawdown covers the fall from the peak, and
  `SmallerLevel`, that it then covers the fall from any lower level.
- **`MACrossIsCross`**: the running sum is the sum of its window (`WindowMoves`, then recursion), so
  comparing averages is comparing means.  **`LiveDecidesAsBacktest`**: a window of the end of a series
  is a window of the series, shifted (`WindowOfEnd`).
- **`EmaIsItsDefinition`** and **`RsiIsItsDefinition`**: each average, computed one bar from the last, is
  the closed form of its definition.  One more bar multiplies every term by the same factor and adds one
  (`Fades`, `FadedSum`), and the fraction does the same (`MeanStep`, `AverageStep`); the two averages
  of the relative strength have one denominator (`SmoothedDens`), which cancels (`SameShare`).
- **`ReportNeverLooksAhead`**: a longer series leaves every row of the shorter one alone.

**Collector.**

- **`CollectorTyped`** and **`ClosedBarsAreFinal`** (`CollectorProofs`), the second for a lone collector
  (with two it is false: an old answer may overwrite a newer one): `CollectorInv` follows an answer
  through its upserts, as a run of bars whose closed ones are final either in what is left of the answer
  or in the table already.

**Console** (`ConsoleProofs`), for texts of any length, any number of decimals and any int64.

- **`CommandsAreTraced`**: `CommandInv` traces each stage of an order command back to the flags it was
  made from: the input, the fields posted, the row the exchange lists, the row shown.  The theorems about orders
  are facts about these flags.
- **`NumbersAreCutOff`**: `Parse` is the decimal typed, cut off toward zero, as long as it fits an int64.
  The loop over the digits is the sum of the digits by their places, wrapped (`ReadingIsNumber`); padding and
  dropping digits is multiplying and truncating (`DigitsCut`); together `ParseCuts`.
- **`OnlyQuantitiesArePosted`** and **`OrdersArePostedAsTyped`**: what is posted is what was typed.  `FormatWrites`
  is the converse of `ParseCuts`: the digits of a number are `DigitsOfNumber`, and zeros before
  them change nothing (`Padded`), so what is written denotes the number (`FormatDenotes`).  A value becomes
  the most units it pays for (`ConvertedFits`), while its product with 1e8 fits.
- **`OrdersReadBack`**: `Parse` undoes `Format`, also with one zero more (`ParseUndoesFormat`), so a listed order is
  the one sent, under either name of its quantity and either spelling of its side and type.
- **`ConsoleTypes`**: every number a command goes on with is an int64 (`ParseInt64`: `Parse` of any text at all
  is one), and a snapshot counts in integers.
- **`RowsAreWorth`**, if no amount of the balance is negative (`NoDebt`): a row of the session table is worth of the
  account.  `SnapshotIInv` follows a snapshot product by product: `SnapshotInv`, that its total approximates the
  worth of the products done, as long as no market moved; `TotalInv`, that it is not negative, without which truncation
  could go either way; and its form.

**Arithmetic** (`FillProofs`).

- **`FillType`** and **`BuyCostIsCovered`**: `computeFill` yields a position and a loss
  whatever wraps; and a Buy that its overflow tests let through is booked exactly, its average cost
  covering no more than what was paid, as long as the two sums the code does not test
  (`fill.go:53`, the quantity held and its value) fit an int64.

**Induction over data.**  The library's induction theorems take an operator, which the provers cannot
instantiate.  `SumProofs` proves what is needed from a smallest counterexample instead: of natural
numbers, or of the subsets of a finite set.  `SumFunctionOnSet` is a recursion that takes an arbitrary
element at each step; the lemmas show that the function exists and that the order does not matter, then how a
sum changes with one member, one value, a factor or a shift.  `RecursionExists` does the same for a
recursion over an interval, its step given as a function, and `RecursionsAgree` compares two.
The provers know no `^` either: `Power` is b^n by its recursion
(`Powers`), and `PowerNext` and the bounds on it are proved like the rest.

**What the proofs changed.**  `SnapshotIsWorth`, as an invariant of all rows, was only true of one
command: a later snapshot changed the account an earlier row was compared with.  It is now a property of
the step that inserts a row.  Its bound, too, is stated per product, not per product valued.  The
recursions of `EMA` and `Smoothed` in `Report` are defined on the positions they are used at: below
them they had read an index that does not exist.  The digits of a number (`ReadDigits`, `DigitsOf`) are a
recursive function and a choice instead of a fold and a recursion over all integers, and the console's texts are
declared as texts, so that `TypeOK` can say what the account holds.

**Only model-checked:** `FinalPendingIsSettled`, `TableCatchesUp` and `SignalIsFollowed`, as liveness under
fairness is out of the proof system's reach.  Every invariant and every action property of the passing runs is
proved; where a theorem has a hypothesis (one daemon per pair, a lone daemon or collector, sums that fit an int64), the
property fails without it or is not promised by the code, and the run's instance satisfies it.  The
properties of the runs named `Find...` are refuted there and are not claimed.

## 5. Not modelled

- **Notifications** (`internal/discord`, `cli/notify.go`): fire and forget, a failure is logged.
- **HTTP, HMAC signing and JSON** (`invx/client.go`, `invx/sign.go`): input and output; an answer, an
  error and a lost reply are what the models see of it.  The fields of a candle
  (`client.go:119`) are parsed as `Parse` does, and one that cannot be read is a failing fetch.
- **Configuration** (`internal/config`) and the float64 budget of `trade` (`cli/trade.go:62`,
  which truncates to satang): constants here.
- **The CSV text** of `analyze` and the printed lines of the console.
- **Generated queries** (`sqlc/`): generated from `internal/sql`, whose statements are modelled.
- A **history window** shorter than the resting orders of a pair is a parameter (`HistoryLimit`) and not
  a run: an order that falls out of it, pushed out by manual orders for instance, stays
  pending.
- **Two daemons on one pair** and **two collectors on one symbol**: `reconcile.go:39` excludes the first,
  the manual starts one collector, and the theorems name the assumption.
