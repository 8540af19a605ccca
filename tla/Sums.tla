-------------------------------- MODULE Sums --------------------------------
(***************************************************************************)
(* Sums of the numbers f[1], ..., f[n], and the fold of a sequence from    *)
(* its left end, as recursive functions.                                   *)
(***************************************************************************)
EXTENDS Naturals, Sequences

\* The sums of the first 0, 1, ..., n numbers.
PartialSums(f, n) ==
  LET part[i \in 0 .. n] == IF i = 0 THEN 0 ELSE part[i - 1] + f[i]
  IN  part

SumTo(f, n) == PartialSums(f, n)[n]

\* The sum of a sequence of numbers.
Total(s) == SumTo(s, Len(s))

\* What Op makes of the elements of s, one after the other.
FoldAlong(Op(_, _), start, s) ==
  LET acc[i \in 0 .. Len(s)] == IF i = 0 THEN start ELSE Op(acc[i - 1], s[i])
  IN  acc[Len(s)]
=============================================================================
