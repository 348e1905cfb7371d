-------------------------------- MODULE Sums --------------------------------
(***************************************************************************)
(* Sums over finite sets, and repeated division.                           *)
(***************************************************************************)
EXTENDS Integers, Sequences, FiniteSetsExt

\* The sum of the values of a function.
Total(f) == MapThenSumSet(LAMBDA x : f[x], DOMAIN f)

\* A number without its last k digits to the base b.
Quotient(n, b, k) ==
  LET q[i \in 0..k] == IF i = 0 THEN n ELSE q[i - 1] \div b IN q[k]
=============================================================================
