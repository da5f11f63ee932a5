----------------------------- MODULE BinaryFloat -----------------------------
(***************************************************************************)
(* Binary floating point as Go's float64 computes it: every result of      *)
(* strconv.ParseFloat, + and - is the exact result rounded to the nearest  *)
(* number with Precision significant bits, ties to even.  float64 has     *)
(* Precision = 53; TLC's integers are 32 bits wide, so a model uses a      *)
(* smaller Precision and keeps the same rounding rule.                     *)
(*                                                                         *)
(* A float is kept exactly, as a dyadic rational: the integer v stands for *)
(* v * 2^-Scale.  Scale is chosen so that every number the model meets    *)
(* above 2^(Precision-Scale) has its last significant bit at or above      *)
(* 2^-Scale; the exact difference of two such floats is then on the grid,  *)
(* as IEEE subtraction of nearby floats is exact.                          *)
(***************************************************************************)
EXTENDS Integers

CONSTANTS
    Precision,   \* significant bits of a float
    Scale        \* the grid: the integer v stands for v * 2^-Scale

ASSUME Precision \in Nat \ {0} /\ Scale \in Nat

\* Number of binary digits of n >= 0.
RECURSIVE BitLength(_)
BitLength(n) == IF n = 0 THEN 0 ELSE 1 + BitLength(n \div 2)

\* n / den (n >= 0, den > 0) rounded to Precision significant bits, ties
\* to even, in grid units.
RoundPos(n, den) ==
    LET shift == IF BitLength(n \div den) > Precision
                 THEN BitLength(n \div den) - Precision ELSE 0
        d == den * 2^shift
        q == n \div d
        r == n % d
        up == 2 * r > d \/ (2 * r = d /\ q % 2 = 1)
    IN  (IF up THEN q + 1 ELSE q) * 2^shift

\* The float nearest to n / den grid units.
Round(n, den) == IF n < 0 THEN -RoundPos(-n, den) ELSE RoundPos(n, den)

\* a + b and a - b of two floats.
FAdd(a, b) == Round(a + b, 1)
FSub(a, b) == Round(a - b, 1)

\* strconv.ParseFloat(s, 64) of the decimal s = num / den.
ParseFloat(num, den) == Round(num * 2^Scale, den)

=============================================================================
