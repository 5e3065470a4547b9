-------------------------- MODULE MCTradingRuntime --------------------------
(***************************************************************************)
(* TradingRuntime on small instances.                                      *)
(***************************************************************************)
EXTENDS TradingRuntime

\* Subsequence is SelectSeq, for every queue of up to five of two events.
ASSUME SubsequenceIsSelectSeq ==
    \A n \in 0 .. 5 : \A queue \in [1 .. n -> {"this", "other"}] :
        Subsequence(queue, {i \in 1 .. n : queue[i] = "this"})
          = SelectSeq(queue, LAMBDA e : e = "this")
=============================================================================
