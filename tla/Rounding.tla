------------------------------- MODULE Rounding -------------------------------
(* Arithmetic on whole numbers as Python's round, math.ceil and the median    *)
(* of the code's helpers do it.                                               *)
EXTENDS Integers, Sequences

\* round(n / d): the nearest integer, an even one when two are as near.
Rounded(n, d) ==
  LET q == n \div d
      twice == 2 * (n % d)
  IN IF twice > d \/ (twice = d /\ q % 2 = 1) THEN q + 1 ELSE q

\* math.ceil(a / b).
CeilDiv(a, b) == (a + b - 1) \div b

\* Twice the median of a sorted sequence.
TwiceMedian(sorted) ==
  LET n == Len(sorted)
  IN IF n % 2 = 1 THEN 2 * sorted[(n \div 2) + 1]
                  ELSE sorted[n \div 2] + sorted[(n \div 2) + 1]

\* A share in whole percents; of nothing it is 0.
Percent(part, whole) == IF whole = 0 THEN 0 ELSE Rounded(100 * part, whole)
=============================================================================
