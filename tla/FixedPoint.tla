----------------------------- MODULE FixedPoint -----------------------------
(***************************************************************************)
(* threads/fixed-point.h: numbers with FIX_P integer and FIX_Q fraction    *)
(* bits in a word of FIX_P + FIX_Q.  A number is the word x.f.  NULL is a  *)
(* failed assertion.                                                       *)
(***************************************************************************)
EXTENDS Integers

CONSTANTS FIX_P, FIX_Q

NULL == "NULL"
FIX_F == 2^FIX_Q
FIX_MAX_INT == 2^FIX_P - 1
FIX_MIN_INT == -FIX_MAX_INT

\* An int has the width of the word, in two's complement; division truncates.
Word == 2^(FIX_P + FIX_Q)
AsInt(v) == ((v + Word \div 2) % Word) - Word \div 2
Div(n, d) == LET q == (IF n < 0 THEN -n ELSE n) \div (IF d < 0 THEN -d ELSE d)
             IN  IF (n < 0) = (d < 0) THEN q ELSE -q

fix_int(n) == IF n \in FIX_MIN_INT..FIX_MAX_INT THEN AsInt(n * FIX_F) ELSE NULL
fix_frac(n, d) ==
  IF d # 0 /\ Div(n, d) \in FIX_MIN_INT..FIX_MAX_INT THEN AsInt(Div(n * FIX_F, d)) ELSE NULL
fix_round(x) == Div(AsInt(x + FIX_F \div 2), FIX_F)
fix_trunc(x) == Div(x, FIX_F)
fix_add(x, y) == AsInt(x + y)
fix_sub(x, y) == AsInt(x - y)
fix_mul(x, y) == AsInt(Div(x * y, FIX_F))
fix_scale(x, n) == IF n >= 0 THEN AsInt(x * n) ELSE NULL
fix_div(x, y) == AsInt(Div(x * FIX_F, y))
fix_unscale(x, n) == IF n > 0 THEN Div(x, n) ELSE NULL
fix_inv(x) == fix_div(fix_int(1), x)
fix_compare(x, y) == IF x < y THEN -1 ELSE IF x > y THEN 1 ELSE 0

-----------------------------------------------------------------------------
Half == Word \div 2
Fits(v) == v \in -Half..(Half - 1)

\* v is n / d, off by less than one unit and towards zero.
Close(v, n, d) == LET rest == n - v * d
                  IN  rest * rest < d * d /\ rest * n >= 0

\* For numbers whose result fits, each operation is exact or loses less than
\* one unit of the last place, towards zero, however large the intermediate
\* product is; sums, differences and comparisons agree; an integer that fits
\* comes back; and numbers that are not negative round to the nearest integer.
ArithmeticOK(x, y) ==
  /\ Fits(Div(x * y, FIX_F)) => Close(fix_mul(x, y), x * y, FIX_F)
  /\ y # 0 /\ Fits(Div(x * FIX_F, y)) =>
       /\ Close(fix_div(x, y), x * FIX_F, y)
       /\ Div(x, y) \in FIX_MIN_INT..FIX_MAX_INT => fix_frac(x, y) = fix_div(x, y)
       /\ x = FIX_F => fix_inv(y) = fix_div(x, y)
  /\ y > 0 => /\ Close(fix_unscale(x, y), x, y)
              /\ Fits(x * y) => fix_unscale(fix_scale(x, y), y) = x
  /\ fix_sub(fix_add(x, y), y) = x
  /\ Fits(x - y) => (fix_compare(x, y) < 0 <=> fix_sub(x, y) < 0)
  /\ x \in FIX_MIN_INT..FIX_MAX_INT /\ Fits(x * FIX_F) => fix_trunc(fix_int(x)) = x
  /\ x >= 0 /\ Fits(x + FIX_F \div 2) => LET e == 2 * (x - fix_round(x) * FIX_F)
                                         IN  -FIX_F <= e /\ e < FIX_F
=============================================================================
