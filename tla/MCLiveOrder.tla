---------------------------- MODULE MCLiveOrder ----------------------------
(***************************************************************************)
(* LiveOrder on small instances: one or two placements, of two units and   *)
(* of one, and two broker orders, one more than a placement should ever    *)
(* leave behind.                                                           *)
(***************************************************************************)
EXTENDS LiveOrder, TLC

CONSTANTS s1, s2, c1, c2

UnitsOne == [c \in {c1} |-> 2]
UnitsBoth == [c \in {c1, c2} |-> IF c = c1 THEN 2 ELSE 1]

MCOrderIds == 1 .. 2
MCDimensions == {"gross"}

\* Room for one placement and a unit of the other, and room for both.
CapacityTwo == [d \in MCDimensions |-> 2]
CapacityThree == [d \in MCDimensions |-> 3]

\* The two requests of the GUI that place are alike.
Symmetry == Permutations(Submitters)

\* A price that does not move, and one that may double.
OneRate == {[d \in MCDimensions |-> 1]}
TwoRates == {[d \in MCDimensions |-> n] : n \in {1, 2}}
=============================================================================
