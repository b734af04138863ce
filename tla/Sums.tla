-------------------------------- MODULE Sums --------------------------------
(***************************************************************************)
(* Sums over an index interval, the larger and smaller of two numbers, and *)
(* a set put in order. The sum is a recursive function and the order is    *)
(* told by counting, so that SumsProofs can reason about them; f is any    *)
(* function whose domain contains 1 .. n.                                  *)
(***************************************************************************)
EXTENDS Integers, FiniteSets

Total(f, n) ==
  LET s[i \in 0 .. n] == IF i = 0 THEN 0 ELSE s[i - 1] + f[i]
  IN  s[n]

Lower(a, b) == IF a <= b THEN a ELSE b

Higher(a, b) == IF a >= b THEN a ELSE b

\* The least element of a non-empty set of integers.
Least(S) == CHOOSE x \in S : \A y \in S : x <= y

Greatest(S) == CHOOSE x \in S : \A y \in S : x >= y

\* The elements of a finite set as a sequence: each stands after as many
\* elements as come before it in a strict order of them.
Ranked(S, Before(_, _)) ==
  [i \in 1 .. Cardinality(S) |->
     CHOOSE x \in S : Cardinality({y \in S : Before(y, x)}) = i - 1]
=============================================================================
