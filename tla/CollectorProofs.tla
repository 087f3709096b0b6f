--------------------------- MODULE CollectorProofs ---------------------------
(* What the collect daemon stores is typed, and a lone one leaves the closed *)
(* bars of every answer final, for all symbols, windows and histories.       *)
EXTENDS CollectorProps, SequenceTheorems, TLAPS

-----------------------------------------------------------------------------
(* The current symbol of a daemon is one of the names.                       *)
LEMMA CurrentIsName ==
  ASSUME TypeOK, NEW d \in Daemons
  PROVE  /\ daemon[d] \in DaemonState
         /\ Current(d) \in Names
  BY DEF TypeOK, DaemonState, Current, Names, Range

(* A function on 1..n is a sequence of length n.                             *)
LEMMA RunIsSeq ==
  ASSUME NEW S, NEW n \in Nat, NEW f \in [1..n -> S]
  PROVE  f \in Seq(S) /\ Len(f) = n
<1>1. f \in Seq(S)
  BY SeqDef
<1>2. DOMAIN f = 1..n
  OBVIOUS
<1>3. Len(f) \in Nat /\ DOMAIN f = 1..Len(f)
  BY <1>1, LenProperties
<1>4. QED  BY <1>1, <1>2, <1>3

(* An answer of the ticker is a run of bars that ends with the forming one.  *)
LEMMA TickerIsRun ==
  ASSUME TypeInv, NEW s \in Names
  PROVE  LET a == Ticker(s)
             n == IF bar > Window THEN Window ELSE bar
         IN /\ a \in Seq(Candle)
            /\ n \in Nat \ {0} /\ n <= bar /\ Len(a) = n
            /\ \A i \in 1..n : /\ a[i].open = bar - n + i
                               /\ a[i].version = quote[s][a[i].open]
<1> DEFINE first == IF bar > Window THEN bar - Window + 1 ELSE 1
           n == IF bar > Window THEN Window ELSE bar
           at(i) == [open |-> first + i - 1, version |-> quote[s][first + i - 1]]
<1>1. bar \in Bars /\ Bars \subseteq Nat \ {0}
  BY CollectorAssumption DEF TypeInv, TypeOK, Bars
<1>2. n \in Nat \ {0} /\ n <= bar /\ first \in Nat \ {0} /\ bar - first + 1 = n
  BY <1>1, CollectorAssumption
<1>3. Ticker(s) = [i \in 1..n |-> at(i)]
  <2>1. Ticker(s) = [i \in 1..(bar - first + 1) |-> at(i)]
    BY Zenon DEF Ticker
  <2>2. QED  BY <1>2, <2>1, Zenon
<1>4. \A i \in 1..n : first + i - 1 = bar - n + i /\ first + i - 1 \in 1..bar
  BY <1>1, <1>2
<1>5. 1..bar \subseteq Bars
  BY <1>1, CollectorAssumption DEF Bars
<1>6. \A i \in 1..n : at(i) \in Candle
  <2>1. TAKE i \in 1..n
  <2>2. first + i - 1 \in Bars /\ first + i - 1 <= bar
    BY <1>1, <1>4, <1>5
  <2>3. quote[s][first + i - 1] \in Versions
    BY <2>2, Zenon DEF TypeInv
  <2>4. [open |-> first + i - 1, version |-> quote[s][first + i - 1]] \in Candle
    BY <2>2, <2>3 DEF Candle
  <2>5. QED  BY <2>4
<1>7. Ticker(s) \in Seq(Candle) /\ Len(Ticker(s)) = n
  <2>1. Ticker(s) \in [1..n -> Candle]
    BY <1>3, <1>6
  <2>2. QED  BY <1>2, <2>1, RunIsSeq
<1>8. \A i \in 1..n : Ticker(s)[i] = at(i)
  BY <1>3
<1>9. \A i \in 1..n : /\ Ticker(s)[i].open = bar - n + i
                      /\ Ticker(s)[i].version = quote[s][Ticker(s)[i].open]
  <2>1. TAKE i \in 1..n
  <2>2. Ticker(s)[i] = [open |-> first + i - 1, version |-> quote[s][first + i - 1]]
    BY <1>8
  <2>3. Ticker(s)[i].open = first + i - 1
    BY <2>2
  <2>4. Ticker(s)[i].version = quote[s][first + i - 1]
    BY <2>2
  <2>5. first + i - 1 = bar - n + i
    BY <1>4
  <2>6. QED  BY <2>3, <2>4, <2>5, Zenon
<1>10. QED  BY <1>2, <1>7, <1>9

(* The states a daemon is put into between two symbols.                      *)
LEMMA AfterSymbolTyped ==
  ASSUME NEW i \in DOMAIN Symbols
  PROVE  /\ AfterSymbol(i) \in DaemonState /\ AfterSymbol(i).pc # "upsert"
         /\ Waiting \in DaemonState /\ Waiting.pc # "upsert"
         /\ Fetching(1) \in DaemonState /\ Fetching(1).pc # "upsert"
         /\ Down \in DaemonState /\ Down.pc # "upsert"
<1>1. Len(Symbols) \in Nat \ {0} /\ DOMAIN Symbols = 1..Len(Symbols)
  BY CollectorAssumption
<1>2. 1 \in DOMAIN Symbols /\ (i < Len(Symbols) => i + 1 \in DOMAIN Symbols)
  BY <1>1
<1>3. << >> \in Seq(Candle)
  OBVIOUS
<1>4. QED  BY <1>2, <1>3 DEF AfterSymbol, Waiting, Fetching, Down, DaemonState

-----------------------------------------------------------------------------
LEMMA InitTyped == Init => TypeInv
<1> SUFFICES ASSUME Init PROVE TypeInv
  OBVIOUS
<1>1. 1 \in Bars /\ 1 \in Versions /\ Bars \subseteq Int
  BY CollectorAssumption DEF Bars, Versions
<1>2. 1 \in DOMAIN Symbols
  BY CollectorAssumption
<1>3. Down \in DaemonState /\ Down.pc # "upsert"
  BY <1>2, AfterSymbolTyped
<1>4. TypeOK
  BY <1>1, <1>3 DEF Init, TypeOK
<1>5. \A s \in Names, b \in Bars : b <= bar => quote[s][b] \in Versions
  <2>1. TAKE s \in Names, b \in Bars
  <2>2. b <= 1 => b = 1
    BY CollectorAssumption DEF Bars
  <2>3. QED  BY <1>1, <2>2 DEF Init
<1>6. QED  BY <1>3, <1>4, <1>5 DEF Init, TypeInv

(* A step that only puts one daemon into a typed state keeps the invariant.  *)
LEMMA BecomeTyped ==
  ASSUME TypeInv, NEW d \in Daemons, NEW state \in DaemonState,
         state.pc = "upsert" => state.batch # << >>,
         daemon' = [daemon EXCEPT ![d] = state],
         candles' \in [Names -> [Bars -> Versions \cup {NoRow}]],
         UNCHANGED <<bar, quote>>
  PROVE  TypeInv'
<1>1. daemon' \in [Daemons -> DaemonState]
  BY DEF TypeInv, TypeOK
<1>2. TypeOK'
  BY <1>1 DEF TypeInv, TypeOK
<1>3. (\A s \in Names, b \in Bars : b <= bar => quote[s][b] \in Versions)'
  BY DEF TypeInv
<1>4. (\A e \in Daemons : daemon[e].pc = "upsert" => daemon[e].batch # << >>)'
  BY DEF TypeInv, TypeOK
<1>5. QED  BY <1>2, <1>3, <1>4 DEF TypeInv

(* The market moves only the forming bar, and opens a new one.               *)
LEMMA MarketTyped == TypeInv /\ MarketStep => TypeInv'
<1> SUFFICES ASSUME TypeInv, MarketStep PROVE TypeInv'
  OBVIOUS
<1>1. bar \in Bars /\ Bars \subseteq Int /\ 1 \in Versions
  BY CollectorAssumption DEF TypeInv, TypeOK, Bars, Versions
<1>2. CASE NextBar
  <2>1. bar + 1 \in Bars
    BY <1>1, <1>2, CollectorAssumption DEF NextBar, Bars
  <2>2. quote' \in [Names -> [Bars -> Versions \cup {NoRow}]]
    BY <1>1, <1>2, <2>1 DEF NextBar, TypeInv, TypeOK
  <2>3. \A s \in Names, b \in Bars : b <= bar' => quote'[s][b] \in Versions
    <3>1. TAKE s \in Names, b \in Bars
    <3>2. quote'[s][b] = IF b = bar + 1 THEN 1 ELSE quote[s][b]
      BY <1>2, <2>1 DEF NextBar, TypeInv, TypeOK
    <3>3. b <= bar' /\ b # bar + 1 => b <= bar
      BY <1>1, <1>2 DEF NextBar
    <3>4. QED  BY <1>1, <3>2, <3>3 DEF TypeInv
  <2>4. QED  BY <1>2, <2>1, <2>2, <2>3 DEF NextBar, TypeInv, TypeOK
<1>3. ASSUME NEW s \in Names, Quote(s) PROVE TypeInv'
  <2>1. quote[s][bar] \in Versions
    BY <1>1 DEF TypeInv
  <2>2. quote[s][bar] + 1 \in Versions
    BY <1>3, <2>1, CollectorAssumption DEF Quote, Versions
  <2>3. quote' \in [Names -> [Bars -> Versions \cup {NoRow}]]
    BY <1>3, <2>2 DEF Quote, TypeInv, TypeOK
  <2>4. \A z \in Names, b \in Bars : b <= bar => quote'[z][b] \in Versions
    BY <1>1, <1>3, <2>2 DEF Quote, TypeInv, TypeOK
  <2>5. QED  BY <1>3, <2>3, <2>4 DEF Quote, TypeInv, TypeOK
<1>4. QED  BY <1>2, <1>3 DEF MarketStep

(* The state UpsertOne leaves the daemon in.                                 *)
LEMMA AfterCandleTyped ==
  ASSUME TypeInv, NEW d \in Daemons, daemon[d].pc = "upsert"
  PROVE  AfterCandle(d) \in DaemonState /\ (AfterCandle(d).pc = "upsert" => AfterCandle(d).batch # << >>)
<1>1. daemon[d] \in DaemonState
  BY CurrentIsName DEF TypeInv
<1>2. daemon[d].batch \in Seq(Candle) /\ daemon[d].sym \in DOMAIN Symbols
  BY <1>1 DEF DaemonState
<1>3. CASE Len(daemon[d].batch) > 1
  <2>1. daemon[d].batch # << >>
    BY <1>3, EmptySeq
  <2>2. /\ Tail(daemon[d].batch) \in Seq(Candle)
        /\ Len(Tail(daemon[d].batch)) = Len(daemon[d].batch) - 1
    BY <1>2, <2>1, HeadTailProperties
  <2>3. Tail(daemon[d].batch) # << >>
    <3>1. Len(daemon[d].batch) \in Nat
      BY <1>2, LenProperties
    <3>2. Len(daemon[d].batch) - 1 > 0
      BY <1>3, <3>1
    <3>3. Len(<< >>) = 0 /\ ~(0 > 0)
      OBVIOUS
    <3>4. QED  BY <2>2, <3>2, <3>3, Zenon
  <2>4. QED  BY <1>1, <1>3, <2>2, <2>3 DEF AfterCandle, DaemonState
<1>4. CASE ~(Len(daemon[d].batch) > 1)
  BY <1>2, <1>4, AfterSymbolTyped DEF AfterCandle
<1>5. QED  BY <1>3, <1>4

LEMMA UpsertOneTyped ==
  ASSUME TypeInv, NEW d \in Daemons, NEW s \in Names, NEW b \in Bars, UpsertOne(d, s, b)
  PROVE  TypeInv'
<1>1. daemon[d].pc = "upsert" /\ daemon' = [daemon EXCEPT ![d] = AfterCandle(d)]
  BY DEF UpsertOne
<1>2. AfterCandle(d) \in DaemonState /\ (AfterCandle(d).pc = "upsert" => AfterCandle(d).batch # << >>)
  BY <1>1, AfterCandleTyped
<1>3. daemon[d].batch \in Seq(Candle) /\ daemon[d].batch # << >>
  BY <1>1, CurrentIsName DEF TypeInv, DaemonState
<1>4. Head(daemon[d].batch) \in Candle
  BY <1>3
<1>5. candles' \in [Names -> [Bars -> Versions \cup {NoRow}]]
  BY <1>4 DEF UpsertOne, Upsert, Candle, TypeInv, TypeOK
<1>6. QED  BY <1>1, <1>2, <1>5, BecomeTyped DEF UpsertOne

LEMMA FetchTyped ==
  ASSUME TypeInv, NEW d \in Daemons, NEW s \in Names, Fetch(d, s)
  PROVE  TypeInv'
<1>1. daemon[d] \in DaemonState
  BY CurrentIsName DEF TypeInv
<1>2. Ticker(s) \in Seq(Candle) /\ Ticker(s) # << >>
  BY TickerIsRun
<1> DEFINE state == [daemon[d] EXCEPT !.pc = "upsert", !.batch = Ticker(s)]
<1>3. state \in DaemonState /\ state.batch # << >>
  BY <1>1, <1>2 DEF DaemonState
<1>4. daemon' = [daemon EXCEPT ![d] = state]
  BY DEF Fetch, TypeInv, TypeOK
<1>5. QED  BY <1>3, <1>4, BecomeTyped DEF Fetch, TypeInv, TypeOK

(* Every other step of a daemon leaves it with nothing to upsert.            *)
Rests(d) == Start(d) \/ Tick(d) \/ FetchNothing(d) \/ FetchFails(d) \/ UpsertFails(d) \/ Stop(d)

LEMMA RestsEmpty ==
  ASSUME TypeInv, NEW d \in Daemons, Rests(d)
  PROVE  \E state \in DaemonState :
           /\ daemon' = [daemon EXCEPT ![d] = state]
           /\ state.pc # "upsert"
           /\ UNCHANGED <<bar, quote, candles>>
<1>1. 1 \in DOMAIN Symbols
  BY CollectorAssumption
<1>2. \A state \in {Down, Waiting, Fetching(1)} : state \in DaemonState /\ state.pc # "upsert"
  BY <1>1, AfterSymbolTyped
<1>3. CASE FetchNothing(d)
  <2>1. daemon[d].sym \in DOMAIN Symbols
    BY <1>3, CurrentIsName DEF FetchNothing, TypeInv, DaemonState
  <2>2. AfterSymbol(daemon[d].sym) \in DaemonState /\ AfterSymbol(daemon[d].sym).pc # "upsert"
    BY <2>1, AfterSymbolTyped
  <2>3. QED  BY <1>3, <2>2 DEF FetchNothing
<1>4. CASE ~FetchNothing(d)
  BY <1>2, <1>4 DEF Rests, Start, Tick, FetchFails, UpsertFails, Stop
<1>5. QED  BY <1>3, <1>4

LEMMA RestsTyped ==
  ASSUME TypeInv, NEW d \in Daemons, Rests(d)
  PROVE  TypeInv'
  BY RestsEmpty, BecomeTyped DEF TypeInv, TypeOK

LEMMA NextTyped == TypeInv /\ [Next]_vars => TypeInv'
<1> SUFFICES ASSUME TypeInv, [Next]_vars PROVE TypeInv'
  OBVIOUS
<1>1. CASE UNCHANGED vars
  BY <1>1 DEF vars, TypeInv, TypeOK
<1>2. CASE MarketStep
  BY <1>2, MarketTyped
<1>3. ASSUME NEW d \in Daemons, DaemonStep(d) PROVE TypeInv'
  <2>1. CASE Rests(d)
    BY <2>1, RestsTyped
  <2>2. ASSUME NEW s \in Names, Fetch(d, s) PROVE TypeInv'
    BY <2>2, FetchTyped
  <2>3. ASSUME NEW s \in Names, NEW b \in Bars, UpsertOne(d, s, b) PROVE TypeInv'
    BY <2>3, UpsertOneTyped
  <2>4. QED  BY <1>3, <2>1, <2>2, <2>3 DEF DaemonStep, Rests
<1>4. QED  BY <1>1, <1>2, <1>3 DEF Next

(* The table, the market and the daemons stay in their types, however many   *)
(* collectors run (PollOnce, UpsertCandle).                                  *)
THEOREM CollectorTyped == Spec => []TypeOK
<1>1. Spec => []TypeInv
  BY InitTyped, NextTyped, PTL DEF Spec
<1>2. TypeInv => TypeOK
  BY DEF TypeInv
<1>3. QED  BY <1>1, <1>2, PTL

-----------------------------------------------------------------------------
(* What is known of the answer in hand.                                      *)
LEMMA BatchFacts ==
  ASSUME TypeInv, NEW d \in Daemons, daemon[d].pc = "upsert"
  PROVE  /\ daemon[d].batch \in Seq(Candle)
         /\ Len(daemon[d].batch) \in Nat \ {0}
         /\ DOMAIN daemon[d].batch = 1..Len(daemon[d].batch)
         /\ \A i \in DOMAIN daemon[d].batch : daemon[d].batch[i].open \in Bars
         /\ LastOpen(d) \in Bars
         /\ Bars \subseteq Int
<1>1. daemon[d].batch \in Seq(Candle) /\ daemon[d].batch # << >>
  BY CurrentIsName DEF TypeInv, DaemonState
<1>2. Len(daemon[d].batch) \in Nat \ {0}
  BY <1>1, EmptySeq
<1>3. DOMAIN daemon[d].batch = 1..Len(daemon[d].batch)
  BY <1>1, LenProperties
<1>4. \A i \in DOMAIN daemon[d].batch : daemon[d].batch[i].open \in Bars
  <2>1. TAKE i \in DOMAIN daemon[d].batch
  <2>2. daemon[d].batch[i] \in Candle
    BY <1>1, <1>3, ElementOfSeq
  <2>3. QED  BY <2>2 DEF Candle
<1>5. Len(daemon[d].batch) \in DOMAIN daemon[d].batch
  BY <1>2, <1>3
<1>6. LastOpen(d) \in Bars
  BY <1>4, <1>5 DEF LastOpen
<1>7. Bars \subseteq Int
  BY CollectorAssumption DEF Bars
<1>8. QED  BY <1>1, <1>2, <1>3, <1>4, <1>6, <1>7

(* The answer just fetched.                                                  *)
LEMMA FetchAnswers ==
  ASSUME TypeInv, NEW d \in Daemons, NEW s \in Names, Fetch(d, s)
  PROVE  AnswerInv(d)'
<1> DEFINE n == IF bar > Window THEN Window ELSE bar
<1>1. /\ n \in Nat \ {0} /\ n <= bar /\ Len(Ticker(s)) = n /\ Ticker(s) \in Seq(Candle)
      /\ \A i \in 1..n : /\ Ticker(s)[i].open = bar - n + i
                         /\ Ticker(s)[i].version = quote[s][Ticker(s)[i].open]
  BY TickerIsRun
<1>2. bar \in Nat /\ Bars \subseteq Nat
  BY CollectorAssumption DEF TypeInv, TypeOK, Bars
<1>3. /\ daemon'[d].batch = Ticker(s) /\ Current(d)' = s
      /\ UNCHANGED <<bar, quote, candles>>
  BY DEF Fetch, Current, TypeInv, TypeOK, DaemonState
<1>4. DOMAIN Ticker(s) = 1..n
  BY <1>1, LenProperties
<1>5. Ticker(s)[n].open = bar
  BY <1>1, <1>2
<1>6. LastOpen(d)' = bar
  BY <1>1, <1>3, <1>5 DEF LastOpen
<1>7. \A i \in 1..n : /\ Ticker(s)[i].open = LastOpen(d)' - n + i
                      /\ Ticker(s)[i].version = quote[s][Ticker(s)[i].open]
  BY <1>1, <1>6
<1>8. \A b \in ClosedBefore(bar) : ~(b < Ticker(s)[1].open)
  <2>1. TAKE b \in ClosedBefore(bar)
  <2>2. b \in Nat /\ b > bar - Window /\ b >= 1
    BY <1>2, CollectorAssumption DEF ClosedBefore, Bars
  <2>3. Ticker(s)[1].open = bar - n + 1
    BY <1>1, <1>2
  <2>4. QED  BY <1>2, <2>2, <2>3, CollectorAssumption
<1>9. QED  BY <1>1, <1>2, <1>3, <1>4, <1>6, <1>7, <1>8 DEF AnswerInv

(* The market changes no closed bar.                                         *)
LEMMA ClosedStays ==
  ASSUME TypeInv, MarketStep
  PROVE  /\ bar \in Int /\ bar' \in Int /\ bar <= bar'
         /\ \A s \in Names, b \in Bars : b < bar => quote'[s][b] = quote[s][b]
         /\ UNCHANGED <<candles, daemon>>
<1>1. bar \in Bars /\ Bars \subseteq Int
  BY CollectorAssumption DEF TypeInv, TypeOK, Bars
<1>2. CASE NextBar
  BY <1>1, <1>2 DEF NextBar, TypeInv, TypeOK
<1>3. ASSUME NEW s \in Names, Quote(s)
      PROVE  /\ bar' = bar
             /\ \A z \in Names, b \in Bars : b < bar => quote'[z][b] = quote[z][b]
             /\ UNCHANGED <<candles, daemon>>
  BY <1>1, <1>3 DEF Quote, TypeInv, TypeOK
<1>4. QED  BY <1>1, <1>2, <1>3 DEF MarketStep

LEMMA MarketAnswers ==
  ASSUME TypeInv, MarketStep, NEW d \in Daemons, daemon[d].pc = "upsert", AnswerInv(d)
  PROVE  AnswerInv(d)'
<1>1. /\ bar \in Int /\ bar' \in Int /\ bar <= bar'
      /\ \A s \in Names, b \in Bars : b < bar => quote'[s][b] = quote[s][b]
      /\ UNCHANGED <<candles, daemon>>
  BY ClosedStays
<1> DEFINE a == daemon[d].batch
           n == Len(daemon[d].batch)
<1>2. /\ n \in Nat \ {0} /\ DOMAIN a = 1..n
      /\ \A i \in 1..n : a[i].open \in Bars
      /\ LastOpen(d) \in Bars /\ Bars \subseteq Int
  BY BatchFacts
<1>3. Current(d)' = Current(d) /\ Current(d) \in Names /\ LastOpen(d)' = LastOpen(d) /\ a' = a
  BY <1>1, CurrentIsName DEF Current, LastOpen, TypeInv
<1>4. LastOpen(d) <= bar /\ LastOpen(d) <= bar' /\ LastOpen(d) \in Int
  <2>1. LastOpen(d) <= bar
    BY DEF AnswerInv
  <2>2. LastOpen(d) \in Int
    BY <1>2, Zenon
  <2>3. QED  BY <1>1, <2>1, <2>2
<1>5. \A i \in 1..n : a[i].open = LastOpen(d) - n + i
  BY <1>2 DEF AnswerInv
<1>6. \A i \in 1..n : i < n => a[i].version = quote'[Current(d)][a[i].open]
  <2>1. TAKE i \in 1..n
  <2>2. HAVE i < n
  <2>3. a[i].open < bar /\ a[i].open \in Bars
    <3>1. a[i].open = LastOpen(d) - n + i /\ a[i].open \in Bars
      BY <1>2, <1>5
    <3>2. n \in Int /\ i \in Int
      BY <1>2
    <3>3. LastOpen(d) - n + i < LastOpen(d)
      BY <1>4, <2>2, <3>2
    <3>4. QED  BY <1>1, <1>4, <3>1, <3>2, <3>3
  <2>4. a[i].version = quote[Current(d)][a[i].open]
    BY <1>2, <2>2 DEF AnswerInv
  <2>5. QED  BY <1>1, <1>3, <2>3, <2>4
<1>7. \A b \in ClosedBefore(LastOpen(d)) :
        b < a[1].open => candles[Current(d)][b] = quote'[Current(d)][b]
  <2>1. TAKE b \in ClosedBefore(LastOpen(d))
  <2>2. HAVE b < a[1].open
  <2>3. b \in Bars /\ b < bar
    <3>1. b \in Bars /\ b < LastOpen(d)
      BY DEF ClosedBefore
    <3>2. b \in Int
      BY <1>2, <3>1, Zenon
    <3>3. QED  BY <1>1, <1>4, <3>1, <3>2
  <2>4. candles[Current(d)][b] = quote[Current(d)][b]
    BY <2>2 DEF AnswerInv
  <2>5. QED  BY <1>1, <1>3, <2>3, <2>4
<1>8. QED  BY <1>1, <1>2, <1>3, <1>4, <1>5, <1>6, <1>7 DEF AnswerInv

(* What the upsert of the first candle of an answer does.                    *)
LEMMA UpsertFacts ==
  ASSUME TypeInv, NEW d \in Daemons, NEW s \in Names, NEW b \in Bars, UpsertOne(d, s, b)
  PROVE  /\ daemon[d].pc = "upsert" /\ Current(d) = s
         /\ daemon[d].batch[1].open = b
         /\ candles'[s][b] = daemon[d].batch[1].version
         /\ \A c \in Bars : c # b => candles'[s][c] = candles[s][c]
         /\ daemon'[d] = AfterCandle(d)
         /\ UNCHANGED <<bar, quote>>
<1>1. Head(daemon[d].batch) = daemon[d].batch[1]
  <2>1. daemon[d].batch \in Seq(Candle) /\ daemon[d].batch # << >>
    BY CurrentIsName DEF UpsertOne, TypeInv, DaemonState
  <2>2. QED  BY <2>1
<1>2. candles' = [candles EXCEPT ![s][b] = daemon[d].batch[1].version]
  BY <1>1 DEF UpsertOne, Upsert
<1>3. QED  BY <1>1, <1>2 DEF UpsertOne, TypeInv, TypeOK

LEMMA UpsertAnswers ==
  ASSUME TypeInv, NEW d \in Daemons, AnswerInv(d),
         NEW s \in Names, NEW b \in Bars, UpsertOne(d, s, b), daemon'[d].pc = "upsert"
  PROVE  AnswerInv(d)'
<1> DEFINE a == daemon[d].batch
           last == LastOpen(d)
<1>1. /\ daemon[d].pc = "upsert" /\ Current(d) = s /\ a[1].open = b
      /\ candles'[s][b] = a[1].version
      /\ \A c \in Bars : c # b => candles'[s][c] = candles[s][c]
      /\ daemon'[d] = AfterCandle(d)
      /\ UNCHANGED <<bar, quote>>
  BY UpsertFacts
<1>0. PICK n \in Nat \ {0} : n = Len(a)
  BY <1>1, BatchFacts
<1>2. /\ a \in Seq(Candle) /\ n = Len(a) /\ n \in Nat \ {0} /\ DOMAIN a = 1..n
      /\ \A i \in 1..n : a[i].open \in Bars
      /\ last \in Bars /\ Bars \subseteq Int
  BY <1>0, <1>1, BatchFacts
<1>3. n > 1
  <2>1. daemon[d].sym \in DOMAIN Symbols
    BY CurrentIsName DEF TypeInv, DaemonState
  <2>2. QED  BY <1>0, <1>1, <2>1, AfterSymbolTyped DEF AfterCandle
<1>4. daemon'[d] = [daemon[d] EXCEPT !.batch = Tail(a)]
  BY <1>0, <1>1, <1>3 DEF AfterCandle
<1>5. daemon'[d].batch = Tail(a) /\ daemon'[d].sym = daemon[d].sym
  BY <1>4, CurrentIsName DEF TypeInv, DaemonState
<1>6. a # << >>
  BY <1>0, <1>3, EmptySeq
<1>7. /\ Tail(a) \in Seq(Candle) /\ Len(Tail(a)) = n - 1
      /\ \A i \in 1..(n - 1) : Tail(a)[i] = a[i + 1]
  BY <1>2, <1>6, HeadTailProperties
<1>8. DOMAIN Tail(a) = 1..(n - 1)
  BY <1>7, LenProperties
<1>9. LastOpen(d)' = last
  BY <1>2, <1>3, <1>5, <1>7 DEF LastOpen
<1>10. Current(d)' = s
  BY <1>1, <1>5 DEF Current
<1>11. /\ \A i \in 1..n : a[i].open = last - n + i
       /\ \A i \in 1..n : i < n => a[i].version = quote[s][a[i].open]
       /\ last <= bar
       /\ \A c \in ClosedBefore(last) : c < a[1].open => candles[s][c] = quote[s][c]
  BY <1>1, <1>2 DEF AnswerInv
<1>12. \A i \in 1..(n - 1) :
         /\ Tail(a)[i].open = last - (n - 1) + i
         /\ i < n - 1 => Tail(a)[i].version = quote[s][Tail(a)[i].open]
  <2>1. TAKE i \in 1..(n - 1)
  <2>2. i + 1 \in 1..n /\ (i < n - 1 => i + 1 < n) /\ last - n + (i + 1) = last - (n - 1) + i
    <3>1. n \in Int /\ last \in Int
      BY <1>2
    <3>2. i \in Int /\ 1 <= i /\ i <= n - 1
      BY <3>1
    <3>3. QED  BY <3>1, <3>2
  <2>3. QED  BY <1>7, <1>11, <2>2
<1>13. \A c \in ClosedBefore(last) : c < Tail(a)[1].open => candles'[s][c] = quote[s][c]
  <2>1. TAKE c \in ClosedBefore(last)
  <2>2. HAVE c < Tail(a)[1].open
  <2>3. c \in Bars /\ c \in Int /\ n \in Int /\ last \in Int
    <3>1. c \in Bars
      BY DEF ClosedBefore
    <3>2. c \in Int /\ last \in Int
      BY <1>2, <3>1, Zenon
    <3>3. QED  BY <3>1, <3>2
  <2>4. 1 \in 1..(n - 1) /\ 1 \in 1..n
    BY <1>3, <2>3
  <2>5. Tail(a)[1].open = last - (n - 1) + 1 /\ a[1].open = last - n + 1
    <3>1. Tail(a)[1].open = last - (n - 1) + 1
      BY <1>12, <2>4
    <3>2. a[1].open = last - n + 1
      BY <1>11, <2>4, Zenon
    <3>3. QED  BY <3>1, <3>2
  <2>6. c < b \/ c = b
    <3>1. c < last - (n - 1) + 1
      BY <2>2, <2>5
    <3>2. c < last - n + 1 \/ c = last - n + 1
      BY <2>3, <3>1
    <3>3. QED  BY <1>1, <2>5, <3>2
  <2>7. CASE c = b
    <3>1. 1 < n /\ 1 \in 1..n
      BY <1>3, <2>4
    <3>2. a[1].version = quote[s][b]
      BY <1>1, <1>11, <3>1
    <3>3. QED  BY <1>1, <2>7, <3>2
  <2>8. CASE c < b
    <3>1. candles[s][c] = quote[s][c]
      BY <1>1, <1>11, <2>8
    <3>2. c # b
      BY <2>3, <2>8
    <3>3. QED  BY <1>1, <2>3, <3>1, <3>2
  <2>9. QED  BY <2>6, <2>7, <2>8
<1>14. LastOpen(d)' <= bar'
  BY <1>1, <1>9, <1>11
<1>15. \A i \in DOMAIN daemon'[d].batch :
         LET c == daemon'[d].batch[i]
         IN /\ c.open = LastOpen(d)' - Len(daemon'[d].batch) + i
            /\ i < Len(daemon'[d].batch) => c.version = quote'[Current(d)'][c.open]
  <2>1. daemon'[d].batch = Tail(a) /\ DOMAIN Tail(a) = 1..(n - 1) /\ Len(Tail(a)) = n - 1
    BY <1>5, <1>7, <1>8
  <2>2. LastOpen(d)' = last /\ Current(d)' = s /\ quote' = quote
    BY <1>1, <1>9, <1>10
  <2>3. \A i \in DOMAIN Tail(a) :
          /\ Tail(a)[i].open = last - Len(Tail(a)) + i
          /\ i < Len(Tail(a)) => Tail(a)[i].version = quote[s][Tail(a)[i].open]
    BY <1>12, <2>1, Zenon
  <2>4. QED  BY <2>1, <2>2, <2>3, Zenon
<1>16. \A c \in ClosedBefore(LastOpen(d)') :
         c < daemon'[d].batch[1].open => candles'[Current(d)'][c] = quote'[Current(d)'][c]
  BY <1>1, <1>5, <1>9, <1>10, <1>13, Zenon
<1>17. QED  BY <1>14, <1>15, <1>16, Zenon DEF AnswerInv, ClosedBefore

LEMMA NextAnswers ==
  ASSUME LoneCollector, CollectorInv, [Next]_vars
  PROVE  CollectorInv'
<1>1. TypeInv /\ TypeInv'
  BY NextTyped DEF CollectorInv
<1>2. SUFFICES ASSUME NEW d \in Daemons, daemon'[d].pc = "upsert" PROVE AnswerInv(d)'
  BY <1>1 DEF CollectorInv
<1>3. CASE UNCHANGED vars
  BY <1>2, <1>3 DEF vars, CollectorInv, AnswerInv, LastOpen, Current
<1>4. CASE MarketStep
  <2>1. daemon[d].pc = "upsert" /\ AnswerInv(d)
    BY <1>1, <1>2, <1>4, ClosedStays DEF CollectorInv
  <2>2. QED  BY <1>1, <1>4, <2>1, MarketAnswers
<1>5. ASSUME NEW e \in Daemons, DaemonStep(e) PROVE AnswerInv(d)'
  <2>1. e = d
    BY DEF LoneCollector
  <2>2. CASE Rests(d)
    BY <1>1, <1>2, <2>2, RestsEmpty DEF TypeInv, TypeOK
  <2>3. ASSUME NEW s \in Names, Fetch(d, s) PROVE AnswerInv(d)'
    BY <1>1, <2>3, FetchAnswers
  <2>4. ASSUME NEW s \in Names, NEW b \in Bars, UpsertOne(d, s, b) PROVE AnswerInv(d)'
    <3>1. AnswerInv(d)
      BY <2>4 DEF CollectorInv, UpsertOne
    <3>2. QED  BY <1>1, <1>2, <2>4, <3>1, UpsertAnswers
  <2>5. QED  BY <1>5, <2>1, <2>2, <2>3, <2>4 DEF DaemonStep, Rests
<1>6. QED  BY <1>3, <1>4, <1>5 DEF Next

(* One upsert, of the last candle of an answer.                              *)
LEMMA LastUpsertSettles ==
  ASSUME CollectorInv, NEW d \in Daemons, NEW s \in Names, NEW last \in Bars,
         Len(daemon[d].batch) = 1, UpsertOne(d, s, last), NEW b \in ClosedBefore(last)
  PROVE  candles'[s][b] = quote'[s][b]
<1>1. /\ daemon[d].pc = "upsert" /\ Current(d) = s /\ daemon[d].batch[1].open = last
      /\ \A c \in Bars : c # last => candles'[s][c] = candles[s][c]
      /\ UNCHANGED quote
  BY UpsertFacts DEF CollectorInv
<1>2. LastOpen(d) = last
  BY <1>1 DEF LastOpen
<1>3. b \in Bars /\ b < last /\ b # last
  BY CollectorAssumption DEF ClosedBefore, Bars
<1>4. candles[s][b] = quote[s][b]
  BY <1>1, <1>2, <1>3 DEF CollectorInv, AnswerInv
<1>5. QED  BY <1>1, <1>3, <1>4

(* When a lone collector has stored an answer, every bar of it that had      *)
(* closed is in the table as it closed (PollOnce, UpsertCandle).             *)
THEOREM ClosedBarsAreFinal == ASSUME LoneCollector PROVE Spec => PollSettlesClosedBars
<1>1. Init => CollectorInv
  <2> SUFFICES ASSUME Init PROVE CollectorInv
    OBVIOUS
  <2>1. 1 \in DOMAIN Symbols
    BY CollectorAssumption
  <2>2. QED  BY <2>1, InitTyped, AfterSymbolTyped DEF Init, CollectorInv
<1>2. CollectorInv /\ [Next]_vars => CollectorInv'
  BY NextAnswers
<1>3. CollectorInv =>
        [\A d \in Daemons, s \in Names, last \in Bars :
           Len(daemon[d].batch) = 1 /\ UpsertOne(d, s, last) =>
             \A b \in ClosedBefore(last) : candles'[s][b] = quote'[s][b]]_vars
  BY LastUpsertSettles
<1>4. QED  BY <1>1, <1>2, <1>3, PTL DEF Spec, PollSettlesClosedBars
=============================================================================
