----------------------------- MODULE MCBacktest -----------------------------
(***************************************************************************)
(* Instances of Backtest for TLC.  Every file of the bounded length is an  *)
(* initial state.                                                          *)
(***************************************************************************)
EXTENDS Backtest
=============================================================================
