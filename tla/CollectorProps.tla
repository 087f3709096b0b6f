--------------------------- MODULE CollectorProps ---------------------------
(* What the collect daemon promises of the table of candles, and the         *)
(* fairness under which it keeps up with the market.                         *)
EXTENDS Collector

TypeOK ==
  /\ bar \in Bars
  /\ quote \in [Names -> [Bars -> Versions \cup {NoRow}]]
  /\ candles \in [Names -> [Bars -> Versions \cup {NoRow}]]
  /\ daemon \in [Daemons -> DaemonState]

(* Bars of one answer of the ticker whose forming bar was `last`.            *)
ClosedBefore(last) == {b \in Bars : b < last /\ b > last - Window}

(* When a lone collector stores the last candle of a symbol, every bar of    *)
(* that answer which had closed by then is in the table as it closed, though *)
(* earlier polls had stored it half formed: what analysis and backtest read  *)
(* of the past is final.                                                     *)
PollSettlesClosedBars ==
  [][\A d \in Daemons, s \in Names, last \in Bars :
       Len(daemon[d].batch) = 1 /\ UpsertOne(d, s, last) =>
         \A b \in ClosedBefore(last) : candles'[s][b] = quote'[s][b]]_vars

(* What an answer still to be stored knows: it is a run of bars up to the    *)
(* one that was forming, and the bars that had closed by then are final in   *)
(* it, or, stored already, in the table.                                     *)
LastOpen(d) == daemon[d].batch[Len(daemon[d].batch)].open

AnswerInv(d) ==
  /\ LastOpen(d) <= bar
  /\ \A i \in DOMAIN daemon[d].batch :
       LET c == daemon[d].batch[i]
       IN /\ c.open = LastOpen(d) - Len(daemon[d].batch) + i
          /\ i < Len(daemon[d].batch) => c.version = quote[Current(d)][c.open]
  /\ \A b \in ClosedBefore(LastOpen(d)) :
       b < daemon[d].batch[1].open => candles[Current(d)][b] = quote[Current(d)][b]

TypeInv ==
  /\ TypeOK
  /\ \A s \in Names, b \in Bars : b <= bar => quote[s][b] \in Versions
  /\ \A d \in Daemons : daemon[d].pc = "upsert" => daemon[d].batch # << >>

CollectorInv ==
  /\ TypeInv
  /\ \A d \in Daemons : daemon[d].pc = "upsert" => AnswerInv(d)

LoneCollector == \A d, e \in Daemons : d = e

-----------------------------------------------------------------------------
(* The process is started again, its ticker fires, a request ends with an    *)
(* answer, an empty one perhaps, or with the client's timeout, and an upsert *)
(* may fail or be cut off any number of times, but not every time it is      *)
(* reached.  Nothing is assumed of the fetch of any symbol: it may fail for  *)
(* ever.                                                                     *)
Fairness ==
  \A d \in Daemons :
    /\ WF_vars(Start(d))
    /\ WF_vars(Tick(d))
    /\ WF_vars(FetchFails(d) \/ FetchNothing(d) \/ \E s \in Names : Fetch(d, s))
    /\ \A s \in Names, b \in Bars : SF_vars(UpsertOne(d, s, b))

LiveSpec == Spec /\ Fairness

(* Not every fetch of the symbol fails or is answered without candles.       *)
Answered(s) == \A d \in Daemons : SF_vars(Fetch(d, s))

InTable(s) == \A b \in Bars : b <= bar /\ b > bar - Window => candles[s][b] = quote[s][b]

(* Once the market rests, the table of a symbol comes to agree with the      *)
(* exchange on all the bars the ticker returns, if the exchange answers for  *)
(* that symbol and for those before it in the list, however often polls fail *)
(* half way or the process stops.  A symbol that always fails, a delisted    *)
(* one for instance, harms those after it (PollOnce), never those before it. *)
TableCatchesUp ==
  \A i \in DOMAIN Symbols :
    (\A j \in 1..i : Answered(Symbols[j])) => <>[]InTable(Symbols[i])
=============================================================================
