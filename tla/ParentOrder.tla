---------------------------- MODULE ParentOrder ----------------------------
(***************************************************************************)
(* What a patient execution promises whoever ordered it: one order at a    *)
(* time works at the broker, each asks for exactly what the ones before it *)
(* left unfilled, and so no more than the quantity ordered is ever bought. *)
(***************************************************************************)
EXTENDS Integers

CONSTANT Quantity

VARIABLES
  filled,   \* units filled so far, over every child order
  working   \* units that the child order at work may still fill

parentVars == <<filled, working>>

Init == filled = 0 /\ working = 0

PlaceRest ==
  /\ working = 0 /\ filled < Quantity
  /\ working' = Quantity - filled
  /\ UNCHANGED filled

FillOne ==
  /\ working > 0
  /\ filled' = filled + 1 /\ working' = working - 1

CloseChild ==
  /\ working > 0 /\ working' = 0
  /\ UNCHANGED filled

Next == PlaceRest \/ FillOne \/ CloseChild

Spec == Init /\ [][Next]_parentVars
=============================================================================
