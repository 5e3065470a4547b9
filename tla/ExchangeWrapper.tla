--------------------------- MODULE ExchangeWrapper ---------------------------
(***************************************************************************)
(* One ExchangeWrapper (exchange.py) and the threads that call it at once: *)
(* the executor threads of the market feed and the momentum trap, and the  *)
(* thread of the event loop, which asks for prices when it routes an order *)
(* and then creates it.                                                    *)
(*                                                                         *)
(* A fetch is retried (utils.retry).  Each attempt takes a token of the    *)
(* bucket, waits for the wrapper's lock and calls the ccxt client under    *)
(* it.  create_order calls the client as it is: no token, no lock, no      *)
(* second attempt.                                                         *)
(*                                                                         *)
(* Time goes in ticks of Rate token units each.  The bucket is refilled    *)
(* when it is looked at.  A window of time may be opened at any moment; it *)
(* counts the calls that reach the client in it.  The client is external.  *)
(***************************************************************************)
EXTENDS Naturals, FiniteSets

CONSTANTS
    Threads, LoopThread,   \* the threads, and the one of the event loop
    NoThread,              \* nobody holds the lock
    Capacity, Rate, Cost,  \* token units: of a full bucket, per tick, per call
    MaxAttempts,           \* of the retry decorator
    MaxIdle,               \* bound: ticks told apart since the last refill
    MaxWindow              \* bound: ticks of a window

ASSUME WrapperAssumption ==
    /\ IsFiniteSet(Threads) /\ LoopThread \in Threads /\ NoThread \notin Threads
    /\ Capacity \in Nat /\ Rate \in Nat \ {0}
    /\ Cost \in 1 .. Capacity
    /\ MaxAttempts \in Nat \ {0}
    /\ MaxIdle \in Nat /\ MaxIdle * Rate >= Capacity
    /\ MaxWindow \in Nat

VARIABLES
    tokens,     \* TokenBucket._tokens
    elapsed,    \* time since TokenBucket._last_refill
    lock,       \* the thread that holds ExchangeWrapper._lock
    pc,         \* where each thread is
    attempt,    \* attempt of its retry loop
    executed,   \* exchange: how often the last order was executed
    answer,     \* what create_order told its caller of that order
    watching,   \* history: a window is open,
    since,      \*   for so many ticks,
    reached     \*   and calls of so many units have reached the client in it

bucket == <<tokens, elapsed>>
order == <<executed, answer>>
window == <<watching, since, reached>>
vars == <<bucket, lock, pc, attempt, order, window>>

Places == {"idle", "bucket", "lock", "client", "order"}

Init ==
    /\ tokens = Capacity /\ elapsed = 0
    /\ lock = NoThread
    /\ pc = [t \in Threads |-> "idle"]
    /\ attempt = [t \in Threads |-> 0]
    /\ executed = 0 /\ answer = "none"
    /\ watching = FALSE /\ since = 0 /\ reached = 0

-----------------------------------------------------------------------------
(* TokenBucket                                                             *)

Smaller(a, b) == IF a <= b THEN a ELSE b

\* Mistake: the refill forgets the capacity.
Available_NoCapacity == tokens + elapsed * Rate

\* What the bucket holds once _refill has added what came since the last time.
Available == Smaller(Capacity, tokens + elapsed * Rate)

\* Mistake: the token is looked at and not taken.
TakeToken_NotTaken(t) ==
    /\ pc[t] = "bucket"
    /\ Available >= Cost
    /\ tokens' = Available /\ elapsed' = 0
    /\ pc' = [pc EXCEPT ![t] = "lock"]
    /\ UNCHANGED <<lock, attempt, order, window>>

\* consume finds a token.
TakeToken(t) ==
    /\ pc[t] = "bucket"
    /\ Available >= Cost
    /\ tokens' = Available - Cost /\ elapsed' = 0
    /\ pc' = [pc EXCEPT ![t] = "lock"]
    /\ UNCHANGED <<lock, attempt, order, window>>

\* consume finds too little, sleeps and will look again.
NoToken(t) ==
    /\ pc[t] = "bucket"
    /\ Available < Cost
    /\ tokens' = Available /\ elapsed' = 0
    /\ UNCHANGED <<lock, pc, attempt, order, window>>

-----------------------------------------------------------------------------
(* A retried call                                                          *)

\* A thread calls one of the wrapper's fetches.
Begin(t) ==
    /\ pc[t] = "idle"
    /\ pc' = [pc EXCEPT ![t] = "bucket"]
    /\ attempt' = [attempt EXCEPT ![t] = 1]
    /\ UNCHANGED <<bucket, lock, order, window>>

\* Mistake: the client is called without the lock.
Enter_Unlocked(t) ==
    /\ pc[t] = "lock"
    /\ lock' = t
    /\ pc' = [pc EXCEPT ![t] = "client"]
    /\ reached' = IF watching THEN reached + Cost ELSE reached
    /\ UNCHANGED <<bucket, attempt, order, watching, since>>

\* _call has the lock and calls the client.
Enter(t) ==
    /\ pc[t] = "lock"
    /\ lock = NoThread
    /\ lock' = t
    /\ pc' = [pc EXCEPT ![t] = "client"]
    /\ reached' = IF watching THEN reached + Cost ELSE reached
    /\ UNCHANGED <<bucket, attempt, order, watching, since>>

\* The client answers; the call is over.
Answers(t) ==
    /\ pc[t] = "client"
    /\ lock' = NoThread
    /\ pc' = [pc EXCEPT ![t] = "idle"]
    /\ attempt' = [attempt EXCEPT ![t] = 0]
    /\ UNCHANGED <<bucket, order, window>>

\* Mistake: an exception leaves the lock taken.
Raises_KeepsLock(t) ==
    /\ pc[t] = "client"
    /\ UNCHANGED lock
    /\ IF attempt[t] < MaxAttempts
       THEN /\ pc' = [pc EXCEPT ![t] = "bucket"]
            /\ attempt' = [attempt EXCEPT ![t] = @ + 1]
       ELSE /\ pc' = [pc EXCEPT ![t] = "idle"]
            /\ attempt' = [attempt EXCEPT ![t] = 0]
    /\ UNCHANGED <<bucket, order, window>>

\* The client raises: the lock is released, and retry sleeps before the next
\* attempt, or passes the exception on after the last.
Raises(t) ==
    /\ pc[t] = "client"
    /\ lock' = NoThread
    /\ IF attempt[t] < MaxAttempts
       THEN /\ pc' = [pc EXCEPT ![t] = "bucket"]
            /\ attempt' = [attempt EXCEPT ![t] = @ + 1]
       ELSE /\ pc' = [pc EXCEPT ![t] = "idle"]
            /\ attempt' = [attempt EXCEPT ![t] = 0]
    /\ UNCHANGED <<bucket, order, window>>

-----------------------------------------------------------------------------
(* An order                                                                *)

\* The pipeline, on the loop's thread, calls create_order of a wrapper whose
\* execution is enabled; the router passes over the others.
CreateOrder ==
    /\ pc[LoopThread] = "idle"
    /\ pc' = [pc EXCEPT ![LoopThread] = "order"]
    /\ executed' = 0 /\ answer' = "none"
    /\ UNCHANGED <<bucket, lock, attempt, window>>

\* Mistake: create_order is retried like the other calls.
OrderRaises_Retried ==
    /\ pc[LoopThread] = "order"
    /\ executed' \in {executed, executed + 1}
    /\ IF attempt[LoopThread] + 1 < MaxAttempts
       THEN /\ attempt' = [attempt EXCEPT ![LoopThread] = @ + 1]
            /\ UNCHANGED <<pc, answer>>
       ELSE /\ attempt' = [attempt EXCEPT ![LoopThread] = 0]
            /\ pc' = [pc EXCEPT ![LoopThread] = "idle"]
            /\ answer' = "error"
    /\ UNCHANGED <<bucket, lock, window>>

\* create_order raises; the exchange may have executed the order all the same.
OrderRaises ==
    /\ pc[LoopThread] = "order"
    /\ executed' \in {executed, executed + 1}
    /\ answer' = "error"
    /\ pc' = [pc EXCEPT ![LoopThread] = "idle"]
    /\ UNCHANGED <<bucket, lock, attempt, window>>

\* create_order returns the exchange's answer to the order.
OrderAnswered ==
    /\ pc[LoopThread] = "order"
    /\ executed' = executed + 1
    /\ answer' = "ok"
    /\ pc' = [pc EXCEPT ![LoopThread] = "idle"]
    /\ UNCHANGED <<bucket, lock, attempt, window>>

-----------------------------------------------------------------------------
(* Time                                                                    *)

\* After MaxIdle ticks the bucket is full and more of them add nothing.
Tick ==
    /\ elapsed' = Smaller(elapsed + 1, MaxIdle)
    /\ IF watching /\ since < MaxWindow
       THEN since' = since + 1 /\ UNCHANGED <<watching, reached>>
       ELSE watching' = FALSE /\ since' = 0 /\ reached' = 0
    /\ UNCHANGED <<tokens, lock, pc, attempt, order>>

OpenWindow ==
    /\ ~watching
    /\ watching' = TRUE /\ since' = 0 /\ reached' = 0
    /\ UNCHANGED <<bucket, lock, pc, attempt, order>>

Next ==
    \/ \E t \in Threads : \/ Begin(t) \/ TakeToken(t) \/ NoToken(t)
                          \/ Enter(t) \/ Answers(t) \/ Raises(t)
    \/ CreateOrder \/ OrderRaises \/ OrderAnswered
    \/ Tick \/ OpenWindow

Spec == Init /\ [][Next]_vars

\* Time passes and the client answers or raises.  A thread that looks for a
\* token again and again finds one some time, and gets the lock some time.
Fairness ==
    /\ WF_vars(Tick)
    /\ WF_vars(OrderRaises \/ OrderAnswered)
    /\ \A t \in Threads : /\ SF_vars(TakeToken(t)) /\ SF_vars(Enter(t))
                          /\ WF_vars(Answers(t) \/ Raises(t))

FairSpec == Spec /\ Fairness

-----------------------------------------------------------------------------

\* The types of the variables.
TypeOK ==
    /\ tokens \in 0 .. Capacity
    /\ elapsed \in 0 .. MaxIdle
    /\ lock \in Threads \cup {NoThread}
    /\ pc \in [Threads -> Places]
    /\ attempt \in [Threads -> 0 .. MaxAttempts]
    /\ executed \in Nat /\ answer \in {"none", "ok", "error"}
    /\ watching \in BOOLEAN /\ since \in 0 .. MaxWindow /\ reached \in Nat

\* Of the retried calls at most one is in the client, whichever of the threads
\* make them and whatever raises (exchange.py:62-65).  An order may overlap it.
InClient == {t \in Threads : pc[t] = "client"}
OneInClient == \A t, u \in InClient : t = u

\* In any window the retried calls that reach the exchange stay within a full
\* bucket, what the time refills, and one call of each thread that had its
\* token before and waited for the lock (utils.py:176-196, exchange.py:62-65).
RateKept ==
    watching => reached <= Capacity + Rate * since + Cost * Cardinality(Threads)

\* An order is executed at most once for one call of create_order, and it was
\* executed if the caller was told so; after an exception it may have been
\* (exchange.py:193-219, execution/execution_pipeline.py:155).
OrderOnce ==
    /\ executed <= 1
    /\ answer = "ok" => executed = 1

\* Every call returns or raises: tokens come back, an exception releases the
\* lock, and the attempts are bounded (utils.py:124-147).  The loop's thread
\* waits in such calls when it routes an order.
CallsEnd == \A t \in Threads : pc[t] # "idle" ~> pc[t] = "idle"
=============================================================================
