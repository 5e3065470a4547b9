------------------------- MODULE MCServiceLifecycle -------------------------
(***************************************************************************)
(* ServiceLifecycle on small instances.                                    *)
(***************************************************************************)
EXTENDS ServiceLifecycle, TLC

CONSTANTS market, strategy, trap, execution, risk, monitoring, health

AllServices == <<market, strategy, trap, execution, risk, monitoring, health>>

\* Who handles order books, requests and reports, and what the tasks publish.
Handlers == (0 :> {strategy, monitoring}) @@ (1 :> {execution}) @@ (2 :> {risk, monitoring})
TaskKinds == (market :> 0) @@ (trap :> 1)
=============================================================================
