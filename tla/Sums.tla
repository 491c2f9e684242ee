-------------------------------- MODULE Sums --------------------------------
(* Adding up: MapThenSumSet over a function, so that it can be proved about.  *)
EXTENDS Integers

(* The sum of f over a finite set of its arguments. *)
SumOver(f, S) ==
  LET T[k \in SUBSET S] ==
        IF k = {} THEN 0 ELSE LET x == CHOOSE x \in k : TRUE IN f[x] + T[k \ {x}]
  IN T[S]
=============================================================================
