---------------------------- MODULE MCAuthSession ----------------------------
(***************************************************************************)
(* AuthSession on a small instance; the routes are interchangeable where   *)
(* only safety is checked.                                                 *)
(***************************************************************************)
EXTENDS AuthSession, TLC

MCSymmetry == Permutations(Routes)
=============================================================================
