------------------------- MODULE MCPatientExecutor -------------------------
(***************************************************************************)
(* PatientExecutor on small instances: a parent order of three units,      *)
(* worked by up to three children at three prices, with an envelope that   *)
(* pays for all of them at the middle one.                                 *)
(***************************************************************************)
EXTENDS PatientExecutor

MCPrices == 1 .. 3
=============================================================================
