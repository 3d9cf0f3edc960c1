------------------------------- MODULE Money -------------------------------
(***************************************************************************)
(* Money as domain/money.py keeps it: whole minor units, and exact ratios  *)
(* that are rounded once, in a direction the caller names.  A ratio is a   *)
(* pair of a numerator and a positive denominator.                         *)
(***************************************************************************)
EXTENDS Integers, Sequences, FiniteSets, FiniteSetsExt

Fraction == Nat \X (Nat \ {0})

RoundDown(n, d) == n \div d
RoundUp(n, d) == -((-n) \div d)

(* ROUND_HALF_EVEN, by which the code quantises probabilities. *)
RoundHalfEven(n, d) ==
  LET q == n \div d
      twice == 2 * (n - q * d)
  IN IF twice < d \/ (twice = d /\ q % 2 = 0) THEN q ELSE q + 1

ScaledUp(amount, ratio) == RoundUp(amount * ratio[1], ratio[2])
ScaledDown(amount, ratio) == RoundDown(amount * ratio[1], ratio[2])

Magnitude(amount) == IF amount < 0 THEN -amount ELSE amount

(* Ratios, compared without dividing. *)
AtLeast(r, s) == r[1] * s[2] >= s[1] * r[2]

SumOver(S, f) == FoldSet(LAMBDA x, acc : acc + f[x], 0, S)
ProductOver(S, f) == FoldSet(LAMBDA x, acc : acc * f[x], 1, S)
=============================================================================
