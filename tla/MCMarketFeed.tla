---------------------------- MODULE MCMarketFeed ----------------------------
(***************************************************************************)
(* Instances of MarketFeed for TLC.  The configurations give the symbols   *)
(* and exchanges as model values.                                          *)
(***************************************************************************)
EXTENDS MarketFeed
=============================================================================
