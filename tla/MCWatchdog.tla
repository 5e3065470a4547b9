------------------------------ MODULE MCWatchdog ------------------------------
(***************************************************************************)
(* Watchdog on small instances.                                            *)
(***************************************************************************)
EXTENDS Watchdog
=============================================================================
