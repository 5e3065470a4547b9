-------------------------- MODULE MCExchangeWrapper --------------------------
(***************************************************************************)
(* ExchangeWrapper on small instances.                                     *)
(***************************************************************************)
EXTENDS ExchangeWrapper
=============================================================================
