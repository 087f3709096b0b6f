------------------------------ MODULE FixedPoint ------------------------------
(* pkg/scale: decimal text to a scaled int64 and back.  A text is a sequence *)
(* of characters: a digit is its number, and the characters that are none    *)
(* are the constants below.  Texts hold no white space.                      *)
EXTENDS Fill, Powers, SequencesExt

CONSTANTS
  Minus, Point,  \* "-" and "."
  Letter         \* any character that is no digit, "-" or "."

Digit == 0..9

ASSUME CharacterAssumption ==
  /\ Minus \notin Digit /\ Point \notin Digit /\ Letter \notin Digit
  /\ Minus # Point /\ Letter \notin {Minus, Point}

Text == Seq(Digit \cup {Minus, Point, Letter})

-----------------------------------------------------------------------------
Unsigned(s) == IF s # << >> /\ Head(s) = Minus THEN Tail(s) ELSE s

(* strings.Cut at the first ".".                                             *)
FirstPoint(s) == SelectInSeq(s, LAMBDA c : c = Point)
IntPart(s) == IF FirstPoint(s) = 0 THEN s ELSE SubSeq(s, 1, FirstPoint(s) - 1)
FracPart(s) == IF FirstPoint(s) = 0 THEN << >> ELSE SubSeq(s, FirstPoint(s) + 1, Len(s))

(* Exactly `decimals` digits after the point: padded with zeros, or the rest *)
(* dropped unread.                                                           *)
AtScale(s, decimals) ==
  IntPart(s) \o [i \in 1..decimals |-> IF i <= Len(FracPart(s)) THEN FracPart(s)[i] ELSE 0]

(* The loop over the digits: v = v*10 + digit, on int64.                     *)
ReadDigits(digits) ==
  LET v[i \in 0..Len(digits)] == IF i = 0 THEN 0 ELSE Wrap(v[i - 1] * 10 + digits[i])
  IN  v[Len(digits)]

NotANumber == [ok |-> FALSE, value |-> 0]

\* A plausible fault: one decimal too many is kept.
ParseOneMore(s, decimals) ==
  LET digits == AtScale(Unsigned(s), decimals + 1)
  IN  IF s = << >> \/ \E i \in DOMAIN digits : digits[i] \notin Digit
      THEN NotANumber
      ELSE LET v == ReadDigits(digits)
           IN [ok |-> TRUE, value |-> IF Head(s) = Minus THEN Wrap(-v) ELSE v]

(* Parse: no test for overflow, and no test that there was a digit at all.   *)
Parse(s, decimals) ==
  LET digits == AtScale(Unsigned(s), decimals)
  IN  IF s = << >> \/ digits = << >> \/ \E i \in DOMAIN digits : digits[i] \notin Digit
      THEN NotANumber
      ELSE LET v == ReadDigits(digits)
           IN [ok |-> TRUE, value |-> IF Head(s) = Minus THEN Wrap(-v) ELSE v]

-----------------------------------------------------------------------------
(* As many digits as v >= 0 takes, at least one.                             *)
DigitsOf(v) ==
  LET n == CHOOSE n \in 1..(v + 1) : v < Power(10, n) /\ (n = 1 \/ Power(10, n - 1) <= v)
  IN  [i \in 1..n |-> (v \div Power(10, n - i)) % 10]

(* Sprintf("%d"); the least int64 is its own negation and keeps its sign.    *)
Decimal(v) == IF v < 0 THEN <<Minus>> \o DigitsOf(-v) ELSE DigitsOf(v)

PadTo(s, length) == [i \in 1..(length - Len(s)) |-> 0] \o s

(* Format, for decimals > 0: at least one digit before the point.            *)
Format(v, decimals) ==
  LET s == PadTo(Decimal(IF v < 0 THEN Wrap(-v) ELSE v), decimals + 1)
      split == Len(s) - decimals
  IN  (IF v < 0 THEN <<Minus>> ELSE << >>)
        \o SubSeq(s, 1, split) \o <<Point>> \o SubSeq(s, split + 1, Len(s))

(* zeroIfEmpty (internal/invx/orders.go).                                    *)
zeroIfEmpty(s) == IF s = << >> THEN <<0>> ELSE s
=============================================================================
