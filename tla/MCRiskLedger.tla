--------------------------- MODULE MCRiskLedger ---------------------------
(***************************************************************************)
(* RiskLedger on a small instance: two intents compete for a gross limit *)
(* of three units and a per-name limit of two.                             *)
(***************************************************************************)
EXTENDS RiskLedger, Functions, TLC

CONSTANTS r1, r2, o1, o2

MCReservationIds == {r1, r2}
MCOrderIds == {o1, o2}
MCDimensions == {"gross", "name"}
MCScalars == {"gross"}
MCCapacity == [d \in MCDimensions |-> IF d = "gross" THEN 3 ELSE 2]

\* A unit of another name (gross only), a unit of the limited name, and the
\* same unit after its price doubled.
MCRates == {[d \in MCDimensions |-> IF d = "gross" THEN 1 ELSE 0],
            [d \in MCDimensions |-> 1],
            [d \in MCDimensions |-> 2]}
MCBases == {[d \in MCDimensions |-> n] : n \in {0, 1}}

Symmetry == Permutations(MCReservationIds) \cup Permutations(MCOrderIds)

\* Counting unit pairs is summation.
ASSUME \A f \in [1 .. 3 -> 0 .. 2], S \in SUBSET (1 .. 3) :
  Total(f, S) = FoldFunctionOnSet(+, 0, f, S)
=============================================================================
