--------------------------- MODULE MCOrderPipeline ---------------------------
(***************************************************************************)
(* OrderPipeline on small instances.                                       *)
(***************************************************************************)
EXTENDS OrderPipeline
=============================================================================
