-------------------------------- MODULE Powers --------------------------------
(* b^n, by its recursion.                                                    *)
EXTENDS Integers

Power(b, n) ==
  LET power[k \in 0..n] == IF k = 0 THEN 1 ELSE b * power[k - 1]
  IN  power[n]
=============================================================================
