---------------------------- MODULE MCTradingCycle ----------------------------
(***************************************************************************)
(* TradingCycle on a small instance.                                       *)
(***************************************************************************)
EXTENDS TradingCycle

MCValues == {98, 100}
MCTargets == {0, 2}
=============================================================================
