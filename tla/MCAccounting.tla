---------------------------- MODULE MCAccounting ----------------------------
(***************************************************************************)
(* Accounting on small instances.                                          *)
(***************************************************************************)
EXTENDS Accounting
=============================================================================
