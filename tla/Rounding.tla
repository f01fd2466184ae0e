------------------------------- MODULE Rounding -------------------------------
(* The conversions of numbers that the code uses in several places. *)
EXTENDS Integers

Clamp(lo, hi, n) == IF n < lo THEN lo ELSE IF n > hi THEN hi ELSE n

(* int(float(v)): towards zero, from hundredths. *)
Whole(v) == IF v >= 0 THEN v \div 100 ELSE -((-v) \div 100)

(* round(n / d): to the nearest, a half to the even neighbour. *)
Round(n, d) ==
  LET q == n \div d
      r == n % d
  IN  IF 2 * r < d \/ (2 * r = d /\ q % 2 = 0) THEN q ELSE q + 1
===============================================================================
