------------------------ MODULE ExchangeWrapper_proofs ------------------------
(***************************************************************************)
(* What ExchangeWrapper promises for any threads, capacity and rate.       *)
(***************************************************************************)
EXTENDS ExchangeWrapper, FiniteSetTheorems, TLAPS

\* The threads that have their token and wait for the lock.
Waiting == {t \in Threads : pc[t] = "lock"}

\* The lock is held by the thread in the client and by no other.
LockHeld == \A t \in Threads : pc[t] = "client" <=> lock = t

\* A window has on its bill what it can still let through without a tick: the
\* calls that wait for the lock with their token, and the tokens of the bucket.
WindowPaid ==
    watching => reached + Cost * Cardinality(Waiting) + Available
                  <= Capacity + Rate * since + Cost * Cardinality(Threads)

\* An order that create_order has not answered yet is not executed.
OrderPending == pc[LoopThread] = "order" => executed = 0 /\ answer = "none"

-----------------------------------------------------------------------------
(* Arithmetic of the bucket                                                *)

LEMMA ConstantTypes ==
    /\ Capacity \in Nat /\ Rate \in Nat /\ Cost \in Nat /\ Cost >= 1
    /\ MaxAttempts \in Nat /\ MaxAttempts >= 1 /\ MaxIdle \in Nat
    /\ MaxWindow \in Nat
BY WrapperAssumption

LEMMA Products ==
    ASSUME NEW a \in Nat, NEW b \in Nat, NEW c \in Nat
    PROVE  /\ a * c \in Nat /\ 0 * c = 0 /\ c * 0 = 0 /\ a * c = c * a
           /\ (a + 1) * c = a * c + c /\ (a >= 1 => (a - 1) * c = a * c - c)
           /\ a <= b => a * c <= b * c
OBVIOUS

LEMMA SmallerNat ==
    ASSUME NEW a \in Nat, NEW b \in Nat
    PROVE  Smaller(a, b) \in Nat /\ Smaller(a, b) <= a /\ Smaller(a, b) <= b
BY DEF Smaller

LEMMA RefilledBounded ==
    ASSUME NEW a \in Nat, NEW b \in Nat
    PROVE  Smaller(Capacity, a + b * Rate) \in 0 .. Capacity
<1>1. b * Rate \in Nat
  BY Products, ConstantTypes
<1>2. a + b * Rate \in Nat
  BY <1>1
<1> QED BY <1>2, SmallerNat, ConstantTypes

LEMMA OneTickMore ==
    ASSUME NEW calls \in Nat, NEW unpaid \in Nat, NEW held \in Nat,
           NEW held2 \in Nat, NEW gain \in Nat, NEW share \in Nat,
           held2 <= held + Rate,
           calls + unpaid + held <= Capacity + gain + share
    PROVE  calls + unpaid + held2 <= Capacity + (gain + Rate) + share
BY ConstantTypes

\* The bucket never holds more than its capacity.
LEMMA AvailableBounded ==
    ASSUME TypeOK
    PROVE  Available \in 0 .. Capacity
<1>1. tokens \in Nat /\ elapsed \in Nat
  BY ConstantTypes DEF TypeOK
<1> QED BY <1>1, RefilledBounded DEF Available

\* A bucket that was just looked at holds the tokens that were left in it.
LEMMA AvailableFresh ==
    ASSUME elapsed' = 0, tokens' \in 0 .. Capacity
    PROVE  Available' = tokens'
<1>1. elapsed' * Rate = 0
  BY Products, ConstantTypes
<1>2. Available' = Smaller(Capacity, tokens' + elapsed' * Rate)
  BY DEF Available, Smaller
<1>3. tokens' \in Nat /\ tokens' <= Capacity
  BY ConstantTypes
<1>4. Available' = Smaller(Capacity, tokens')
  BY <1>1, <1>2, <1>3
<1> QED BY <1>3, <1>4, ConstantTypes DEF Smaller

\* A tick adds at most Rate.
LEMMA TickRefills ==
    ASSUME TypeOK, Tick
    PROVE  Available' <= Available + Rate
<1>1. tokens \in Nat /\ elapsed \in Nat /\ tokens' = tokens
  BY ConstantTypes DEF TypeOK, Tick
<1>2. elapsed' \in Nat /\ elapsed' <= elapsed + 1
  BY <1>1, ConstantTypes DEF Tick, Smaller
<1> DEFINE more == elapsed' * Rate
           old == elapsed * Rate
<1>3. old \in Nat /\ more \in Nat /\ more <= old + Rate
  <2>1. (elapsed + 1) * Rate = old + Rate
    BY <1>1, Products, ConstantTypes
  <2>2. elapsed + 1 \in Nat
    BY <1>1
  <2>3. elapsed' * Rate <= (elapsed + 1) * Rate
    BY <1>2, <2>2, Products, ConstantTypes
  <2>4. old \in Nat /\ more \in Nat
    BY <1>1, <1>2, Products, ConstantTypes
  <2> HIDE DEF more, old
  <2>5. more <= (elapsed + 1) * Rate
    BY <2>3 DEF more
  <2> QED BY <2>1, <2>4, <2>5, ConstantTypes
<1>4. /\ Available = Smaller(Capacity, tokens + old)
      /\ Available' = Smaller(Capacity, tokens + more)
  BY <1>1 DEF Available
<1> HIDE DEF more, old
<1> QED BY <1>1, <1>3, <1>4, ConstantTypes DEF Smaller

-----------------------------------------------------------------------------
(* Type correctness                                                        *)

LEMMA TypeInit == Init => TypeOK
<1> SUFFICES ASSUME Init
             PROVE  TypeOK
  OBVIOUS
<1>1. /\ tokens \in 0 .. Capacity /\ elapsed \in 0 .. MaxIdle
      /\ since \in 0 .. MaxWindow /\ reached \in Nat /\ executed \in Nat
  BY ConstantTypes DEF Init
<1>2. attempt \in [Threads -> 0 .. MaxAttempts]
  BY ConstantTypes DEF Init
<1> QED BY <1>1, <1>2 DEF Init, TypeOK, Places

LEMMA TypeStep == TypeOK /\ [Next]_vars => TypeOK'
<1> SUFFICES ASSUME TypeOK, [Next]_vars
             PROVE  TypeOK'
  OBVIOUS
<1> USE ConstantTypes
<1>0. Available \in 0 .. Capacity
  BY AvailableBounded
<1>1. ASSUME NEW t \in Threads, Begin(t)
      PROVE  TypeOK'
  BY <1>1 DEF TypeOK, Begin, bucket, order, window, Places
<1>2. ASSUME NEW t \in Threads, TakeToken(t)
      PROVE  TypeOK'
  BY <1>0, <1>2 DEF TypeOK, TakeToken, order, window, Places
<1>3. ASSUME NEW t \in Threads, NoToken(t)
      PROVE  TypeOK'
  BY <1>0, <1>3 DEF TypeOK, NoToken, order, window
<1>4. ASSUME NEW t \in Threads, Enter(t)
      PROVE  TypeOK'
  BY <1>4 DEF TypeOK, Enter, bucket, order, Places
<1>5. ASSUME NEW t \in Threads, Answers(t)
      PROVE  TypeOK'
  BY <1>5 DEF TypeOK, Answers, bucket, order, window, Places
<1>6. ASSUME NEW t \in Threads, Raises(t)
      PROVE  TypeOK'
  BY <1>6 DEF TypeOK, Raises, bucket, order, window, Places
<1>7. CASE CreateOrder
  BY <1>7, WrapperAssumption DEF TypeOK, CreateOrder, bucket, window, Places
<1>8. CASE OrderRaises
  BY <1>8, WrapperAssumption DEF TypeOK, OrderRaises, bucket, window, Places
<1>9. CASE OrderAnswered
  BY <1>9, WrapperAssumption DEF TypeOK, OrderAnswered, bucket, window, Places
<1>10. CASE Tick
  <2>1. elapsed' \in 0 .. MaxIdle
    BY <1>10 DEF TypeOK, Tick, Smaller
  <2> UNCHANGED <<tokens, lock, pc, attempt, executed, answer>>
    BY <1>10 DEF Tick, order
  <2>2. CASE watching /\ since < MaxWindow
    <3>1. since' = since + 1 /\ UNCHANGED <<watching, reached>>
      BY <1>10, <2>2 DEF Tick
    <3>2. since' \in 0 .. MaxWindow
      BY <2>2, <3>1 DEF TypeOK
    <3>3. watching' \in BOOLEAN /\ reached' \in Nat
      BY <3>1 DEF TypeOK
    <3> QED BY <2>1, <3>2, <3>3 DEF TypeOK
  <2>3. CASE ~(watching /\ since < MaxWindow)
    <3>1. watching' = FALSE /\ since' = 0 /\ reached' = 0
      BY <1>10, <2>3 DEF Tick
    <3>2. watching' \in BOOLEAN
      BY <3>1
    <3>3. since' \in 0 .. MaxWindow /\ reached' \in Nat
      BY <3>1, ConstantTypes
    <3> QED BY <2>1, <3>2, <3>3 DEF TypeOK
  <2> QED BY <2>2, <2>3
<1>11. CASE OpenWindow
  BY <1>11 DEF TypeOK, OpenWindow, bucket, order
<1>12. CASE UNCHANGED vars
  BY <1>12 DEF TypeOK, vars, bucket, order, window
<1> QED BY <1>1, <1>2, <1>3, <1>4, <1>5, <1>6, <1>7, <1>8, <1>9, <1>10,
           <1>11, <1>12 DEF Next

\* Every variable of the wrapper keeps its type: the bucket stays within its
\* capacity and the attempts within those of the decorator (utils.py:112-196).
THEOREM WrapperTyped == Spec => []TypeOK
<1>1. Init => TypeOK
  BY TypeInit
<1>2. TypeOK /\ [Next]_vars => TypeOK'
  BY TypeStep
<1> QED BY <1>1, <1>2, PTL DEF Spec

-----------------------------------------------------------------------------
(* The lock                                                                *)

LEMMA LockStep == TypeOK /\ LockHeld /\ [Next]_vars => LockHeld'
<1> SUFFICES ASSUME TypeOK, LockHeld, [Next]_vars
             PROVE  LockHeld'
  OBVIOUS
<1> USE WrapperAssumption DEF TypeOK, LockHeld
<1>1. ASSUME NEW t \in Threads,
             Begin(t) \/ TakeToken(t) \/ NoToken(t)
      PROVE  LockHeld'
  BY <1>1 DEF Begin, TakeToken, NoToken
<1>2. ASSUME NEW t \in Threads, Enter(t)
      PROVE  LockHeld'
  BY <1>2 DEF Enter
<1>3. ASSUME NEW t \in Threads, Answers(t) \/ Raises(t)
      PROVE  LockHeld'
  BY <1>3 DEF Answers, Raises
<1>4. CASE CreateOrder \/ OrderRaises \/ OrderAnswered
  BY <1>4 DEF CreateOrder, OrderRaises, OrderAnswered
<1>5. CASE Tick \/ OpenWindow \/ UNCHANGED vars
  BY <1>5 DEF Tick, OpenWindow, vars
<1> QED BY <1>1, <1>2, <1>3, <1>4, <1>5 DEF Next

\* However many threads share the wrapper, its client serves one retried call
\* at a time, also after exceptions (exchange.py:62-65).
THEOREM ClientSerial == Spec => []OneInClient
<1>1. Init => LockHeld
  BY WrapperAssumption DEF Init, LockHeld
<1>2. TypeOK /\ LockHeld /\ [Next]_vars => LockHeld'
  BY LockStep
<1>3. LockHeld => OneInClient
  BY DEF LockHeld, OneInClient, InClient
<1> QED BY <1>1, <1>2, <1>3, WrapperTyped, PTL DEF Spec

-----------------------------------------------------------------------------
(* The rate                                                                *)

LEMMA WaitingFinite ==
    /\ IsFiniteSet(Waiting)
    /\ Cardinality(Waiting) \in Nat /\ Cardinality(Threads) \in Nat
    /\ Cardinality(Waiting) <= Cardinality(Threads)
<1>1. Waiting \in SUBSET Threads
  BY DEF Waiting
<1> QED BY <1>1, FS_Subset, FS_CardinalityType, WrapperAssumption

LEMMA WindowStep == TypeOK /\ WindowPaid /\ [Next]_vars => WindowPaid'
<1> SUFFICES ASSUME TypeOK, WindowPaid, [Next]_vars
             PROVE  WindowPaid'
  OBVIOUS
<1> DEFINE waiting == Cardinality(Waiting)
           all == Cardinality(Threads)
           unpaid == Cost * waiting
           share == Cost * all
           gained == Rate * since
<1>0. /\ Available \in Nat /\ Available <= Capacity
      /\ waiting \in Nat /\ all \in Nat /\ waiting <= all
      /\ reached \in Nat /\ since \in Nat
  BY AvailableBounded, WaitingFinite, ConstantTypes DEF TypeOK
<1>1. unpaid \in Nat /\ share \in Nat /\ gained \in Nat /\ unpaid <= share
  BY <1>0, ConstantTypes
<1>2. ASSUME Available' = Available, Waiting' = Waiting, UNCHANGED window
      PROVE  WindowPaid'
  BY <1>2 DEF WindowPaid, window
<1>3. ASSUME UNCHANGED <<bucket, window>>, Waiting' = Waiting
      PROVE  WindowPaid'
  BY <1>2, <1>3 DEF bucket, Available
<1>4. ASSUME NEW t \in Threads, Begin(t) \/ Answers(t) \/ Raises(t)
      PROVE  WindowPaid'
  <2>1. Waiting' = Waiting
    BY <1>4 DEF TypeOK, Begin, Answers, Raises, Waiting
  <2> QED BY <1>3, <1>4, <2>1 DEF Begin, Answers, Raises
<1>5. ASSUME NEW t \in Threads, TakeToken(t)
      PROVE  WindowPaid'
  <2>1. t \notin Waiting /\ Waiting' = Waiting \cup {t}
    BY <1>5 DEF TypeOK, TakeToken, Waiting
  <2>2. waiting' = waiting + 1
    BY <2>1, FS_AddElement, WaitingFinite
  <2>3. Cost * waiting' = unpaid + Cost
    BY <1>0, <2>2, ConstantTypes
  <2>4. Available' = Available - Cost
    BY <1>0, <1>5, AvailableFresh, ConstantTypes DEF TakeToken
  <2>5. /\ UNCHANGED <<watching, since, reached>>
        /\ WindowPaid' = (watching => reached + Cost * waiting' + Available'
                                        <= Capacity + gained + share)
    BY <1>5 DEF TakeToken, window, WindowPaid
  <2> HIDE DEF unpaid, share, gained, waiting, all
  <2>6. WindowPaid = (watching => reached + unpaid + Available
                                    <= Capacity + gained + share)
    BY DEF WindowPaid, unpaid, share, gained, waiting, all
  <2> QED BY <1>0, <1>1, <2>3, <2>4, <2>5, <2>6, ConstantTypes
<1>6. ASSUME NEW t \in Threads, NoToken(t)
      PROVE  WindowPaid'
  <2>1. Available' = Available
    BY <1>0, <1>6, AvailableFresh, ConstantTypes DEF NoToken
  <2> QED BY <1>2, <1>6, <2>1 DEF NoToken, Waiting
<1>7. ASSUME NEW t \in Threads, Enter(t)
      PROVE  WindowPaid'
  <2>1. t \in Waiting /\ Waiting' = Waiting \ {t}
    BY <1>7 DEF TypeOK, Enter, Waiting
  <2>2. waiting' = waiting - 1
    BY <2>1, FS_RemoveElement, WaitingFinite
  <2>3. Cost * waiting' = unpaid - Cost
    BY <1>0, <2>2, ConstantTypes
  <2>4. Available' = Available
    BY <1>7 DEF Enter, bucket, Available
  <2>5. /\ UNCHANGED <<watching, since>>
        /\ watching => reached' = reached + Cost
        /\ WindowPaid' = (watching => reached' + Cost * waiting' + Available'
                                        <= Capacity + gained + share)
    BY <1>7 DEF Enter, WindowPaid
  <2> HIDE DEF unpaid, share, gained, waiting, all
  <2>6. WindowPaid = (watching => reached + unpaid + Available
                                    <= Capacity + gained + share)
    BY DEF WindowPaid, unpaid, share, gained, waiting, all
  <2> QED BY <1>0, <1>1, <2>3, <2>4, <2>5, <2>6, ConstantTypes
<1>8. CASE CreateOrder \/ OrderRaises \/ OrderAnswered
  <2>1. Waiting' = Waiting
    BY <1>8, WrapperAssumption
       DEF TypeOK, CreateOrder, OrderRaises, OrderAnswered, Waiting
  <2> QED BY <1>3, <1>8, <2>1 DEF CreateOrder, OrderRaises, OrderAnswered
<1>9. CASE Tick
  <2>1. Waiting' = Waiting
    BY <1>9 DEF Tick, Waiting
  <2>2. TypeOK'
    BY TypeStep
  <2>3. Available' \in Nat /\ Available' <= Available + Rate
    <3>1. tokens' \in Nat /\ elapsed' \in Nat
      BY <2>2, ConstantTypes DEF TypeOK
    <3>2. Available' = Smaller(Capacity, tokens' + elapsed' * Rate)
      BY DEF Available, Smaller
    <3>3. Available' \in Nat
      BY <3>1, <3>2, RefilledBounded
    <3> QED BY <1>9, <3>3, TickRefills
  <2>4. CASE watching /\ since < MaxWindow
    <3>1. /\ watching' = watching /\ reached' = reached
          /\ since' = since + 1
      BY <1>9, <2>4 DEF Tick
    <3>2. Rate * since' = gained + Rate
      BY <1>0, <3>1, ConstantTypes
    <3>3. WindowPaid' = (watching => reached + unpaid + Available'
                                       <= Capacity + (gained + Rate) + share)
      BY <2>1, <3>1, <3>2 DEF WindowPaid
    <3> HIDE DEF unpaid, share, gained, waiting, all
    <3>4. WindowPaid = (watching => reached + unpaid + Available
                                      <= Capacity + gained + share)
      BY DEF WindowPaid, unpaid, share, gained, waiting, all
    <3>5. reached + unpaid + Available <= Capacity + gained + share
            => reached + unpaid + Available' <= Capacity + (gained + Rate) + share
      BY <1>0, <1>1, <2>3, OneTickMore, ConstantTypes
    <3> QED BY <3>3, <3>4, <3>5
  <2>5. CASE ~(watching /\ since < MaxWindow)
    <3> SUFFICES ASSUME watching'
                 PROVE  FALSE
      BY DEF WindowPaid
    <3> QED BY <1>9, <2>5 DEF Tick
  <2> QED BY <2>4, <2>5
<1>10. CASE OpenWindow
  <2>1. /\ Waiting' = Waiting /\ Available' = Available
        /\ since' = 0 /\ reached' = 0
    BY <1>10 DEF OpenWindow, Waiting, bucket, Available
  <2>2. Rate * 0 = 0
    BY ConstantTypes
  <2>3. 0 + unpaid + Available <= Capacity + 0 + share
    <3> HIDE DEF unpaid, share
    <3> QED BY <1>0, <1>1, ConstantTypes
  <2>4. WindowPaid' = (watching' => 0 + unpaid + Available
                                      <= Capacity + 0 + share)
    BY <2>1, <2>2 DEF WindowPaid
  <2> QED BY <2>3, <2>4
<1>11. CASE UNCHANGED vars
  BY <1>3, <1>11 DEF vars, Waiting
<1> QED BY <1>4, <1>5, <1>6, <1>7, <1>8, <1>9, <1>10, <1>11 DEF Next

LEMMA WindowBounds == TypeOK /\ WindowPaid => RateKept
<1> SUFFICES ASSUME TypeOK, WindowPaid, watching
             PROVE  reached <= Capacity + Rate * since
                                 + Cost * Cardinality(Threads)
  BY DEF RateKept
<1> DEFINE unpaid == Cost * Cardinality(Waiting)
           share == Cost * Cardinality(Threads)
           gained == Rate * since
<1>1. /\ Available \in Nat /\ reached \in Nat
      /\ unpaid \in Nat /\ share \in Nat /\ gained \in Nat
  BY AvailableBounded, WaitingFinite, ConstantTypes DEF TypeOK
<1>2. reached + unpaid + Available <= Capacity + gained + share
  BY DEF WindowPaid
<1> HIDE DEF unpaid, share, gained
<1>3. reached <= Capacity + gained + share
  BY <1>1, <1>2, ConstantTypes
<1> QED BY <1>3 DEF gained, share

\* In a window of any length the calls that reach the exchange stay within a
\* full bucket, the refill, and one call of each thread (utils.py:176-196,
\* exchange.py:62-65).
THEOREM RateLimited == Spec => []RateKept
<1>1. Init => WindowPaid
  BY DEF Init, WindowPaid
<1>2. TypeOK /\ WindowPaid /\ [Next]_vars => WindowPaid'
  BY WindowStep
<1>3. TypeOK /\ WindowPaid => RateKept
  BY WindowBounds
<1> QED BY <1>1, <1>2, <1>3, WrapperTyped, PTL DEF Spec

-----------------------------------------------------------------------------
(* Orders                                                                  *)

LEMMA OrderStep ==
    TypeOK /\ OrderOnce /\ OrderPending /\ [Next]_vars
      => OrderOnce' /\ OrderPending'
<1> SUFFICES ASSUME TypeOK, OrderOnce, OrderPending, [Next]_vars
             PROVE  OrderOnce' /\ OrderPending'
  OBVIOUS
<1> USE WrapperAssumption DEF TypeOK, OrderOnce, OrderPending
<1>1. ASSUME NEW t \in Threads,
             \/ Begin(t) \/ TakeToken(t) \/ NoToken(t)
             \/ Enter(t) \/ Answers(t) \/ Raises(t)
      PROVE  OrderOnce' /\ OrderPending'
  BY <1>1 DEF Begin, TakeToken, NoToken, Enter, Answers, Raises, order
<1>2. CASE CreateOrder
  BY <1>2 DEF CreateOrder
<1>3. CASE OrderRaises
  BY <1>3 DEF OrderRaises
<1>4. CASE OrderAnswered
  BY <1>4 DEF OrderAnswered
<1>5. CASE Tick \/ OpenWindow \/ UNCHANGED vars
  BY <1>5 DEF Tick, OpenWindow, vars, order
<1> QED BY <1>1, <1>2, <1>3, <1>4, <1>5 DEF Next

\* One call of create_order executes at most one order (exchange.py:193-219).
THEOREM OrderSentOnce == Spec => []OrderOnce
<1>1. Init => OrderOnce /\ OrderPending
  BY WrapperAssumption DEF Init, OrderOnce, OrderPending
<1>2. TypeOK /\ (OrderOnce /\ OrderPending) /\ [Next]_vars
        => (OrderOnce /\ OrderPending)'
  BY OrderStep
<1> QED BY <1>1, <1>2, WrapperTyped, PTL DEF Spec
=============================================================================
