--------------------------------- MODULE Totals ---------------------------------
(* Sums of natural numbers over a finite set, as SELECT SUM(...) makes them: the  *)
(* number of units when each x of the set holds f[x] of them.                      *)
EXTENDS Naturals, FiniteSets

Units(f, S) == UNION {{x} \X (1 .. f[x]) : x \in S}

Total(f, S) == Cardinality(Units(f, S))
================================================================================
