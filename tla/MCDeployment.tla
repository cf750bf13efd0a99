----------------------------- MODULE MCDeployment -----------------------------
(***************************************************************************)
(* Deployment on small instances.                                          *)
(***************************************************************************)
EXTENDS Deployment

MCNotionals == {1, 2}
=============================================================================
