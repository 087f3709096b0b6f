------------------------------- MODULE MCConsole -------------------------------
(* A small instance of Console for TLC: one number of the order is any text  *)
(* over a small alphabet, the others are typical, and then all are typical.  *)
EXTENDS ConsoleProps

CONSTANTS BTC, ETH, Longest

MCProducts == <<THB, BTC, ETH>>

Alphabet == {0, 5, Minus, Point, Letter}
AnyText == UNION {[1..n -> Alphabet] : n \in 0..Longest}

Prices == {<< >>, <<0>>, <<3>>, <<2, Point, 1, 9>>}
Quantities == {<< >>, <<0>>, <<1, Point, 0, 5>>, <<Point, 0, 0, 1>>, <<Minus, 1>>}
Values == {<< >>, <<7>>, <<0, Point, 1>>, <<9, 9, 9>>, <<Minus, 1>>}

Form(sides, types, prices, quantities, values) ==
  [side : sides, type : types, price : prices, qty : quantities, value : values]

MCFlags ==
  Form({"BUY", "SELL", "HOLD"}, {"LIMIT", "MARKET", "STOP"}, Prices, Quantities, Values)
    \cup Form({"SELL"}, {"LIMIT"}, AnyText, {<<1>>}, {<< >>})
    \cup Form({"SELL"}, {"LIMIT"}, {<<3>>}, AnyText, {<< >>})
    \cup Form({"BUY"}, {"LIMIT"}, {<<3>>}, {<< >>}, AnyText)

MCCancelIds == [order : {-1, 0, 7}, client : {0, 8}]

MCExecutions == {<< << >>, << >> >>, << <<0, Point, 0, 5, 9>>, <<2, Point, 9, 9>> >>,
                 << <<Letter>>, <<1>> >>}

MCAmounts == {<< >>, <<1, Point, 2, 5>>, <<Point, 0, 7>>, <<Letter>>}
=============================================================================
