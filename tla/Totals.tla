------------------------------ MODULE Totals ------------------------------
(***************************************************************************)
(* Sums of natural numbers over a finite set of keys: the SUM that the     *)
(* ledgers of this project take over database rows.  A sum is counted      *)
(* rather than accumulated: every key x contributes the unit pairs         *)
(* <<x, 1>>, ..., <<x, f[x]>>, and the total is the number of pairs.  This *)
(* needs no recursion, so that facts about totals can be proved.           *)
(***************************************************************************)
EXTENDS Integers, FiniteSets

\* The unit pairs of f over the keys in S.
UnitsOf(f, S) == UNION {{x} \X (1 .. f[x]) : x \in S}

\* The sum of f[x] over the keys x in S.
Total(f, S) == Cardinality(UnitsOf(f, S))
=============================================================================
