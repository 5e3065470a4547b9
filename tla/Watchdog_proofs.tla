---------------------------- MODULE Watchdog_proofs ----------------------------
(***************************************************************************)
(* Theorems about Watchdog for every timeout, window, limit of restarts    *)
(* and longest turn.                                                       *)
(***************************************************************************)
EXTENDS Watchdog, Integers, FiniteSetTheorems, TLAPS

-----------------------------------------------------------------------------
(* The inductive invariant                                                 *)

Base ==
    /\ process \in {"up", "frozen", "stopping", "none"}
    /\ beaten \in BOOLEAN /\ watched \in BOOLEAN /\ polled \in BOOLEAN
    /\ turn \in 0 .. MaxTurn + 1
    /\ beat \in 0 .. Timeout + 2
    /\ count \in 0 .. MaxRestarts
    /\ opened \in 0 .. Window + 1
    /\ recent \subseteq 0 .. Window /\ forgotten \subseteq recent

\* A process that wrote a heartbeat finds its own in the file.
OwnBeat == beaten /\ turn <= MaxTurn => beat = turn

Younger(ages, x) == {age \in ages : age < x}
Few(ages, n) == Cardinality(ages) < n

\* Before a poll no restart is as young as now: there is one a tick.
OneATick == ~polled => 0 \notin recent

\* What the limit and the restarts that failing reads let through allow.
Allowed(x) == MaxRestarts * (1 + Cardinality(Younger(forgotten, x)))

\* In a window that is open, the restart that opened it is older than those that
\* followed, and the youngest restarts, however many of them are looked at, are
\* less than the count, the limit and a limit's worth for each forgotten window;
\* when it is over, the one that opened it has left the last Window ticks.
Windows ==
    /\ opened <= Window =>
          /\ count >= 1 /\ Few(Younger(recent, opened), count)
          /\ \A x \in 0 .. Window + 1 : Few(Younger(recent, x), Allowed(x) + count)
    /\ opened > Window => recent = {} \/ Few(recent, MaxRestarts)

IInv == Base /\ OwnBeat /\ OneATick /\ Windows

LEMMA Bounds == /\ Timeout \in Nat /\ Window \in Nat /\ MaxRestarts \in Nat
                /\ MaxTurn \in Nat /\ 1 <= MaxTurn /\ MaxTurn <= Timeout
BY WatchdogAssumption

\* A set of naturals whose elements, shifted by d, are in S is no larger than S.
LEMMA ShiftedCardinality ==
    ASSUME NEW S \in SUBSET Nat, IsFiniteSet(S), NEW d \in Int,
           NEW T \in SUBSET Nat, \A x \in T : x + d \in S
    PROVE  IsFiniteSet(T) /\ Cardinality(T) <= Cardinality(S)
<1> DEFINE f == [x \in T |-> x + d]
<1>1. f \in [T -> S]
  OBVIOUS
<1>2. \A x, y \in T : f[x] = f[y] => x = y
  <2> SUFFICES ASSUME NEW x \in T, NEW y \in T, f[x] = f[y]
               PROVE  x = y
    OBVIOUS
  <2>1. x \in Nat /\ y \in Nat /\ x + d = y + d
    OBVIOUS
  <2> QED BY <2>1
<1>3. f \in Injection(T, S)
  BY <1>1, <1>2 DEF Injection, IsInjective
<1> HIDE DEF f
<1> QED BY <1>3, FS_Injection

LEMMA ShiftedDown ==
    ASSUME NEW S \in SUBSET Nat, IsFiniteSet(S),
           NEW T \in SUBSET Nat, \A x \in T : x - 1 \in S
    PROVE  IsFiniteSet(T) /\ Cardinality(T) <= Cardinality(S)
<1>1. -1 \in Int /\ \A x \in T : x + (-1) \in S
  OBVIOUS
<1> QED BY <1>1, ShiftedCardinality

LEMMA ShiftedUp ==
    ASSUME NEW S \in SUBSET Nat, IsFiniteSet(S),
           NEW T \in SUBSET Nat, \A x \in T : x + 1 \in S
    PROVE  IsFiniteSet(T) /\ Cardinality(T) <= Cardinality(S)
<1>1. 1 \in Int
  OBVIOUS
<1> QED BY <1>1, ShiftedCardinality

\* Subsets of the window are finite.
LEMMA AgesFinite ==
    ASSUME NEW S \in SUBSET (0 .. Window)
    PROVE  IsFiniteSet(S) /\ Cardinality(S) \in Nat
<1>1. IsFiniteSet(0 .. Window)
  BY FS_Interval, Bounds
<1>2. IsFiniteSet(S)
  BY <1>1, FS_Subset
<1> QED BY <1>2, FS_CardinalityType

\* So are the youngest of them.
LEMMA YoungerFinite ==
    ASSUME NEW S \in SUBSET (0 .. Window), NEW x
    PROVE  /\ Younger(S, x) \in SUBSET (0 .. Window) /\ Younger(S, x) \in SUBSET Nat
           /\ IsFiniteSet(Younger(S, x)) /\ Cardinality(Younger(S, x)) \in Nat
<1>1. Younger(S, x) \in SUBSET (0 .. Window)
  BY DEF Younger
<1>2. Younger(S, x) \in SUBSET Nat
  BY <1>1, Bounds
<1> QED BY <1>1, <1>2, AgesFinite

\* What is allowed only grows with what is forgotten.
LEMMA AllowedGrows ==
    ASSUME NEW m \in Nat, NEW n \in Nat
    PROVE  /\ MaxRestarts * (1 + m) \in Nat /\ MaxRestarts <= MaxRestarts * (1 + m)
           /\ m <= n => MaxRestarts * (1 + m) <= MaxRestarts * (1 + n)
           /\ n = m + 1 => MaxRestarts * (1 + n) = MaxRestarts * (1 + m) + MaxRestarts
BY Bounds

LEMMA InvInit == Init => IInv
<1> SUFFICES ASSUME Init
             PROVE  IInv
  OBVIOUS
<1>1. Base
  <2>1. /\ process \in {"up", "frozen", "stopping", "none"}
        /\ beaten \in BOOLEAN /\ watched \in BOOLEAN /\ polled \in BOOLEAN
    BY DEF Init
  <2>2. beat \in 0 .. Timeout + 2 /\ turn \in 0 .. MaxTurn + 1
    BY Bounds DEF Init, NoFile
  <2>3. count \in 0 .. MaxRestarts /\ opened \in 0 .. Window + 1
    BY Bounds DEF Init
  <2>4. recent \subseteq 0 .. Window /\ forgotten \subseteq recent
    BY DEF Init
  <2> QED BY <2>1, <2>2, <2>3, <2>4 DEF Base
<1>2. OwnBeat
  BY DEF Init, OwnBeat
<1>3. OneATick /\ Windows
  BY Bounds DEF Init, OneATick, Windows
<1> QED BY <1>1, <1>2, <1>3 DEF IInv

-----------------------------------------------------------------------------
(* The main loop and time                                                  *)

LEMMA StepProcess ==
    IInv /\ (Beat \/ Freeze \/ Thaw \/ Shutdown \/ Exit \/ OperatorStarts \/ Check) => IInv'
<1> SUFFICES ASSUME IInv,
                    Beat \/ Freeze \/ Thaw \/ Shutdown \/ Exit \/ OperatorStarts \/ Check
             PROVE  IInv'
  OBVIOUS
<1> USE DEF IInv
<1>1. UNCHANGED <<count, opened, recent, forgotten>> /\ (~polled' => ~polled)
  BY DEF Beat, Freeze, Thaw, Shutdown, Exit, OperatorStarts, Check, limit, history, Base
<1>2. Windows' /\ OneATick'
  BY <1>1 DEF Windows, OneATick, Few, Younger, Allowed
<1>3. CASE Beat
  <2>1. Base'
    <3>1. beat' = 0 /\ turn' = 0
      BY <1>3 DEF Beat
    <3>2. beat' \in 0 .. Timeout + 2 /\ turn' \in 0 .. MaxTurn + 1
      BY <3>1, Bounds
    <3> QED BY <1>1, <1>3, <3>2 DEF Beat, Base
  <2>2. OwnBeat'
    BY <1>3 DEF Beat, OwnBeat
  <2> QED BY <1>2, <2>1, <2>2
<1>4. CASE Freeze \/ Thaw \/ Shutdown \/ Exit
  <2>1. Base' /\ OwnBeat'
    BY <1>1, <1>4 DEF Freeze, Thaw, Shutdown, Exit, Base, OwnBeat
  <2> QED BY <1>2, <2>1
<1>5. CASE OperatorStarts
  <2>1. Base'
    <3>1. turn' = 0
      BY <1>5 DEF OperatorStarts
    <3>2. turn' \in 0 .. MaxTurn + 1
      BY <3>1, Bounds
    <3> QED BY <1>1, <1>5, <3>2 DEF OperatorStarts, Base
  <2>2. OwnBeat'
    BY <1>5 DEF OperatorStarts, OwnBeat
  <2> QED BY <1>2, <2>1, <2>2
<1>6. CASE Check
  <2>1. Base' /\ OwnBeat'
    BY <1>1, <1>6 DEF Check, Goes, Base, OwnBeat, main
  <2> QED BY <1>2, <2>1
<1> QED BY <1>3, <1>4, <1>5, <1>6

LEMMA StepTick == IInv /\ Tick => IInv'
<1> SUFFICES ASSUME IInv, Tick
             PROVE  IInv'
  OBVIOUS
<1> USE DEF IInv
<1>1. Base'
  <2>1. turn' \in 0 .. MaxTurn + 1
    BY Bounds DEF Tick, Base, Older
  <2>2. beat' \in 0 .. Timeout + 2
    BY Bounds DEF Tick, Base, Older, NoFile
  <2>3. opened' \in 0 .. Window + 1
    BY Bounds DEF Tick, Base, Older
  <2>4. recent' \subseteq 0 .. Window /\ forgotten' \subseteq recent'
    BY Bounds DEF Tick, Base, Aged
  <2> QED BY <2>1, <2>2, <2>3, <2>4 DEF Tick, Base
<1>2. OwnBeat'
  BY Bounds DEF Tick, Base, Older, NoFile, OwnBeat
<1>3. OneATick'
  BY Bounds DEF Tick, Base, Aged, OneATick
<1>4. Windows'
  <2>1. /\ recent \in SUBSET (0 .. Window) /\ recent' \in SUBSET (0 .. Window)
        /\ forgotten \in SUBSET (0 .. Window) /\ forgotten' \in SUBSET (0 .. Window)
    BY <1>1 DEF Base
  <2>2. /\ recent \in SUBSET Nat /\ recent' \in SUBSET Nat
        /\ IsFiniteSet(recent) /\ IsFiniteSet(recent')
        /\ Cardinality(recent) \in Nat /\ Cardinality(recent') \in Nat
    BY <2>1, AgesFinite
  <2>3. \A x \in recent' : x - 1 \in recent /\ x - 1 < Window
    BY Bounds DEF Tick, Base, Aged
  <2>4. /\ count' = count /\ count \in Nat /\ opened \in 0 .. Window + 1
        /\ opened <= Window => opened' = opened + 1
        /\ opened > Window => opened' = opened
    BY Bounds DEF Tick, Base, Older
  <2>5. CASE opened > Window
    <3>2. Cardinality(recent') <= Cardinality(recent)
      BY <2>2, <2>3, ShiftedDown
    <3>3. opened' > Window /\ ~(opened' <= Window)
      BY <2>4, <2>5, Bounds
    <3>4. recent = {} => recent' = {}
      BY <2>3
    <3>5. Few(recent, MaxRestarts) => Few(recent', MaxRestarts)
      BY <2>2, <3>2, Bounds DEF Few
    <3> QED BY <2>5, <3>3, <3>4, <3>5 DEF Windows
  <2>6. CASE opened = Window
    <3> DEFINE since == Younger(recent, opened)
    <3>1. /\ since \in SUBSET Nat /\ IsFiniteSet(since) /\ Cardinality(since) \in Nat
      BY <2>1, YoungerFinite
    <3>2. \A x \in recent' : x - 1 \in since
      BY <2>2, <2>3, <2>6 DEF Younger
    <3>3. Few(since, count) /\ count <= MaxRestarts
      BY <2>6, Bounds DEF Windows, Base
    <3> HIDE DEF since
    <3>4. Cardinality(recent') <= Cardinality(since)
      BY <2>2, <3>1, <3>2, ShiftedDown
    <3>5. Few(recent', MaxRestarts)
      BY <2>2, <2>4, <3>1, <3>3, <3>4, Bounds DEF Few
    <3>6. opened' > Window /\ ~(opened' <= Window)
      BY <2>4, <2>6, Bounds
    <3> QED BY <3>5, <3>6 DEF Windows
  <2>7. CASE opened < Window
    <3>1. opened' <= Window /\ ~(opened' > Window) /\ opened' = opened + 1 /\ opened <= Window
      BY <2>4, <2>7, Bounds
    <3>2. count' >= 1 /\ Few(Younger(recent, opened), count)
      BY <2>4, <3>1 DEF Windows
    <3>3. Few(Younger(recent', opened'), count')
      <4> DEFINE S == Younger(recent, opened)
                 T == Younger(recent', opened')
      <4>1. /\ S \in SUBSET Nat /\ IsFiniteSet(S) /\ Cardinality(S) \in Nat
            /\ T \in SUBSET Nat /\ Cardinality(T) \in Nat
        BY <2>1, YoungerFinite
      <4>2. \A x \in T : x - 1 \in S
        BY <2>2, <2>3, <2>4, <3>1 DEF Younger
      <4> HIDE DEF S, T
      <4>3. Cardinality(T) <= Cardinality(S)
        BY <4>1, <4>2, ShiftedDown
      <4>4. Few(S, count)
        BY <3>2 DEF S
      <4>5. Few(T, count')
        BY <2>4, <4>1, <4>3, <4>4 DEF Few
      <4> QED BY <4>5 DEF T
    <3>4. ASSUME NEW x \in 0 .. Window + 1
          PROVE  Few(Younger(recent', x), Allowed(x)' + count')
      <4> DEFINE y == IF x = 0 THEN 0 ELSE x - 1
                 R == Younger(recent, y)
                 U == Younger(forgotten, y)
                 R2 == Younger(recent', x)
                 U2 == Younger(forgotten', x)
      <4>1. y \in 0 .. Window /\ y \in 0 .. Window + 1
        BY Bounds
      <4>2. /\ R \in SUBSET Nat /\ IsFiniteSet(R) /\ Cardinality(R) \in Nat
            /\ U \in SUBSET Nat /\ Cardinality(U) \in Nat
            /\ R2 \in SUBSET Nat /\ Cardinality(R2) \in Nat
            /\ U2 \in SUBSET Nat /\ IsFiniteSet(U2) /\ Cardinality(U2) \in Nat
        BY <2>1, YoungerFinite
      <4>3. \A age \in R2 : age - 1 \in R
        BY <2>2, <2>3 DEF Younger
      <4>4. \A age \in U : age + 1 \in U2
        <5> SUFFICES ASSUME NEW age \in U
                     PROVE  age + 1 \in U2
          OBVIOUS
        <5>1. age \in forgotten /\ age < y /\ age \in Nat
          BY <4>2 DEF Younger
        <5>2. age < Window /\ age + 1 < x
          BY <4>1, <5>1, Bounds
        <5>3. age + 1 \in forgotten'
          BY <5>1, <5>2 DEF Tick, Aged
        <5> QED BY <5>2, <5>3 DEF Younger
      <4>5. Few(R, MaxRestarts * (1 + Cardinality(U)) + count)
        BY <3>1, <4>1 DEF Windows, Allowed
      <4>6. Allowed(x)' = MaxRestarts * (1 + Cardinality(U2))
        BY DEF Allowed
      <4> HIDE DEF y, R, U, R2, U2
      <4>7. Cardinality(R2) <= Cardinality(R) /\ Cardinality(U) <= Cardinality(U2)
        BY <4>2, <4>3, <4>4, ShiftedDown, ShiftedUp
      <4>8. /\ MaxRestarts * (1 + Cardinality(U)) <= MaxRestarts * (1 + Cardinality(U2))
            /\ MaxRestarts * (1 + Cardinality(U)) \in Nat
            /\ MaxRestarts * (1 + Cardinality(U2)) \in Nat
        BY <4>2, <4>7, AllowedGrows
      <4> DEFINE a == MaxRestarts * (1 + Cardinality(U))
                 b == MaxRestarts * (1 + Cardinality(U2))
      <4>9. a \in Nat /\ b \in Nat /\ a <= b /\ Few(R, a + count)
        BY <4>5, <4>8
      <4> HIDE DEF a, b
      <4>10. Few(R2, b + count')
        BY <2>4, <4>2, <4>7, <4>9 DEF Few
      <4> QED BY <4>6, <4>10 DEF b, R2
    <3> QED BY <3>1, <3>2, <3>3, <3>4 DEF Windows
  <2> QED BY <2>4, <2>5, <2>6, <2>7, Bounds
<1> QED BY <1>1, <1>2, <1>3, <1>4

-----------------------------------------------------------------------------
(* The watchdog                                                            *)

LEMMA StepRestart ==
    ASSUME IInv, NEW readable \in BOOLEAN, Restart(readable)
    PROVE  IInv'
<1> USE DEF IInv
<1>1. /\ IF opened > Window \/ ~readable
         THEN count' = 1 /\ opened' = 0 /\ 0 < MaxRestarts
         ELSE count' = count + 1 /\ opened' = opened /\ count < MaxRestarts
      /\ recent' = recent \cup {0}
      /\ forgotten' = IF readable \/ opened > Window THEN forgotten ELSE forgotten \cup {0}
      /\ ~beaten' /\ beat' = beat /\ polled' /\ ~polled
  BY DEF Restart, CanRestart, NewWindow, Polls
<1>2. Base'
  <2>1. count' \in 0 .. MaxRestarts /\ opened' \in 0 .. Window + 1
    BY <1>1, Bounds DEF Base
  <2>2. recent' \subseteq 0 .. Window /\ forgotten' \subseteq recent'
    BY <1>1, Bounds DEF Base
  <2>3. /\ process' \in {"up", "none"} /\ turn' = 0 /\ polled' = TRUE
        /\ beaten' = FALSE /\ watched' = TRUE
    BY DEF Restart
  <2>4. turn' \in 0 .. MaxTurn + 1
    BY <2>3, Bounds
  <2> QED BY <1>1, <2>1, <2>2, <2>3, <2>4 DEF Base
<1>3. OwnBeat' /\ OneATick'
  BY <1>1 DEF OwnBeat, OneATick
<1>4. Windows'
  <2>1. /\ recent \in SUBSET (0 .. Window) /\ forgotten \in SUBSET (0 .. Window)
        /\ recent' \in SUBSET (0 .. Window) /\ forgotten' \in SUBSET (0 .. Window)
        /\ IsFiniteSet(recent) /\ Cardinality(recent) \in Nat
    BY <1>2, AgesFinite DEF Base
  <2>2. /\ 0 \notin recent /\ 0 \notin forgotten
        /\ count \in Nat /\ count <= MaxRestarts /\ opened \in Nat
    BY <1>1, Bounds DEF OneATick, Base
  <2>3. \A x : /\ IsFiniteSet(Younger(recent, x)) /\ Cardinality(Younger(recent, x)) \in Nat
               /\ IsFiniteSet(Younger(forgotten, x))
               /\ Cardinality(Younger(forgotten, x)) \in Nat
               /\ Cardinality(Younger(recent', x)) \in Nat
    BY <2>1, YoungerFinite
  <2>4. ASSUME NEW S \in SUBSET (0 .. Window), 0 \notin S, NEW x \in Nat, x > 0
        PROVE  Cardinality(Younger(S \cup {0}, x)) = Cardinality(Younger(S, x)) + 1
    <3>1. Younger(S \cup {0}, x) = Younger(S, x) \cup {0} /\ 0 \notin Younger(S, x)
      BY <2>4 DEF Younger
    <3>2. IsFiniteSet(Younger(S, x))
      BY YoungerFinite
    <3> QED BY <3>1, <3>2, FS_AddElement
  <2>5. \A S \in SUBSET (0 .. Window) : Younger(S, 0) = {} /\ Cardinality(Younger(S, 0)) = 0
    <3>1. \A age \in 0 .. Window : ~(age < 0)
      BY Bounds
    <3>2. \A S \in SUBSET (0 .. Window) : Younger(S, 0) = {}
      BY <3>1 DEF Younger
    <3> QED BY <3>2, FS_EmptySet
  <2>6. Allowed(0) \in Nat /\ Allowed(0)' \in Nat
    BY <2>1, YoungerFinite, AllowedGrows DEF Allowed
  <2>7. CASE opened > Window \/ ~readable
    <3>1. count' = 1 /\ opened' = 0 /\ 0 < MaxRestarts
      BY <1>1, <2>7
    <3>2. Few(Younger(recent', opened'), count')
      BY <2>1, <2>5, <3>1 DEF Few
    <3>3. ASSUME NEW x \in 0 .. Window + 1, x # 0
          PROVE  Few(Younger(recent', x), Allowed(x)' + count')
      <4> DEFINE r == Cardinality(Younger(recent, x))
                 u == Cardinality(Younger(forgotten, x))
                 u2 == Cardinality(Younger(forgotten', x))
      <4>1. r \in Nat /\ u \in Nat /\ u2 \in Nat /\ x \in Nat /\ x > 0
        BY <2>1, <2>3, <3>3, YoungerFinite, Bounds
      <4>2. Cardinality(Younger(recent', x)) = r + 1
        BY <1>1, <2>1, <2>2, <2>4, <4>1
      <4>3. CASE opened > Window
        <5>1. r + 1 < MaxRestarts + 1
          <6>1. CASE recent = {}
            <7>1. Younger(recent, x) = {}
              BY <6>1 DEF Younger
            <7> QED BY <3>1, <7>1, FS_EmptySet, Bounds
          <6>2. CASE Few(recent, MaxRestarts)
            <7>1. r <= Cardinality(recent)
              BY <2>1, FS_Subset DEF Younger
            <7> QED BY <2>1, <4>1, <6>2, <7>1, Bounds DEF Few
          <6> QED BY <4>3, <6>1, <6>2 DEF Windows
        <5>2. MaxRestarts <= MaxRestarts * (1 + u2) /\ MaxRestarts * (1 + u2) \in Nat
          BY <4>1, AllowedGrows
        <5>3. Allowed(x)' = MaxRestarts * (1 + u2)
          BY DEF Allowed
        <5> DEFINE b == MaxRestarts * (1 + u2)
        <5>4. b \in Nat /\ MaxRestarts <= b /\ Allowed(x)' = b
          BY <5>2, <5>3
        <5> HIDE DEF b, r
        <5>5. r + 1 < b + count'
          BY <3>1, <4>1, <5>1, <5>4, Bounds
        <5> QED BY <4>2, <5>4, <5>5 DEF Few
      <4>4. CASE ~(opened > Window)
        <5>1. opened <= Window /\ forgotten' = forgotten \cup {0}
          BY <1>1, <2>2, <2>7, <4>4, Bounds
        <5>2. u2 = u + 1
          BY <2>1, <2>2, <2>4, <4>1, <5>1
        <5>3. r < MaxRestarts * (1 + u) + count
          BY <5>1 DEF Windows, Few, Allowed
        <5>4. /\ MaxRestarts * (1 + u) \in Nat
              /\ MaxRestarts * (1 + u2) = MaxRestarts * (1 + u) + MaxRestarts
          BY <4>1, <5>2, AllowedGrows
        <5> DEFINE a == MaxRestarts * (1 + u)
                   b == MaxRestarts * (1 + u2)
        <5>5. a \in Nat /\ b = a + MaxRestarts /\ r < a + count /\ Allowed(x)' = b
          BY <5>3, <5>4 DEF Allowed
        <5> HIDE DEF a, b, r
        <5>6. r + 1 < b + count'
          BY <2>2, <3>1, <4>1, <5>5, Bounds
        <5> QED BY <4>2, <5>5, <5>6 DEF Few
      <4> QED BY <4>3, <4>4
    <3>4. Few(Younger(recent', 0), Allowed(0)' + count')
      BY <2>1, <2>5, <2>6, <3>1 DEF Few
    <3> QED BY <3>1, <3>2, <3>3, <3>4, Bounds DEF Windows
  <2>8. CASE ~(opened > Window \/ ~readable)
    <3>1. /\ count' = count + 1 /\ opened' = opened /\ count < MaxRestarts
          /\ opened <= Window /\ forgotten' = forgotten /\ ~(opened' > Window)
      BY <1>1, <2>2, <2>8, Bounds
    <3>2. ASSUME NEW x \in Nat
          PROVE  Cardinality(Younger(recent', x)) <= Cardinality(Younger(recent, x)) + 1
      <4>1. CASE x = 0
        BY <2>1, <2>3, <2>5, <4>1
      <4>2. CASE x # 0
        BY <1>1, <2>1, <2>2, <2>3, <2>4, <4>2
      <4> QED BY <4>1, <4>2
    <3>3. Few(Younger(recent', opened'), count')
      <4>1. Few(Younger(recent, opened), count)
        BY <3>1 DEF Windows
      <4> QED BY <2>2, <2>3, <3>1, <3>2, <4>1 DEF Few
    <3>4. ASSUME NEW x \in 0 .. Window + 1
          PROVE  Few(Younger(recent', x), Allowed(x)' + count')
      <4>1. Few(Younger(recent, x), Allowed(x) + count) /\ Allowed(x)' = Allowed(x)
        BY <3>1 DEF Windows, Allowed
      <4>2. Allowed(x) \in Nat
        BY <2>3, AllowedGrows DEF Allowed
      <4>3. x \in Nat
        BY Bounds
      <4> QED BY <2>2, <2>3, <3>1, <3>2, <4>1, <4>2, <4>3 DEF Few
    <3>5. count' >= 1
      BY <2>2, <3>1
    <3> QED BY <3>1, <3>3, <3>4, <3>5 DEF Windows
  <2> QED BY <2>7, <2>8
<1> QED BY <1>2, <1>3, <1>4

LEMMA InvStep == IInv /\ [Next]_vars => IInv'
<1> SUFFICES ASSUME IInv, [Next]_vars
             PROVE  IInv'
  OBVIOUS
<1>1. CASE Beat \/ Freeze \/ Thaw \/ Shutdown \/ Exit \/ OperatorStarts \/ Check
  BY <1>1, StepProcess
<1>2. ASSUME NEW readable \in BOOLEAN, Restart(readable)
      PROVE  IInv'
  BY <1>2, StepRestart
<1>3. CASE Tick
  BY <1>3, StepTick
<1>4. CASE UNCHANGED vars
  BY <1>4 DEF vars, main, limit, history, IInv, Base, OwnBeat, OneATick, Windows,
              Few, Younger, Allowed
<1> QED BY <1>1, <1>2, <1>3, <1>4 DEF Next

LEMMA InvHolds == Init /\ [][Next]_vars => []IInv
BY InvInit, InvStep, PTL

-----------------------------------------------------------------------------
(* What follows                                                            *)

\* Every variable keeps its type: the restart file never counts more restarts
\* than the limit (watchdog.py:96-114).
THEOREM WatchdogTyped == FairSpec => []TypeOK
<1>1. IInv => TypeOK
  BY DEF IInv, Base, TypeOK, Ages, NoFile
<1> QED BY <1>1, InvHolds, PTL DEF FairSpec, Spec

\* Fewer than twice as many restarts as the limit says come within a window's
\* length, wherever it begins, and a limit's worth more for each restart at which
\* the file of the limit could not be read (watchdog.py:96-114,
\* utils.py:99-104).
THEOREM RestartsLimited == FairSpec => []RestartsBounded
<1>1. IInv => RestartsBounded
  <2> SUFFICES ASSUME IInv, recent # {}
               PROVE  Cardinality(recent) < (2 + Cardinality(forgotten)) * MaxRestarts
    BY DEF RestartsBounded
  <2> DEFINE r == Cardinality(recent)
             u == Cardinality(forgotten)
  <2>1. recent \in SUBSET (0 .. Window) /\ forgotten \in SUBSET (0 .. Window)
    BY DEF IInv, Base
  <2>2. /\ r \in Nat /\ u \in Nat /\ opened \in Nat
        /\ count \in Nat /\ count <= MaxRestarts
    BY <2>1, AgesFinite, Bounds DEF IInv, Base
  <2>3. r < MaxRestarts * (1 + u) + MaxRestarts
    <3>1. MaxRestarts * (1 + u) \in Nat /\ MaxRestarts <= MaxRestarts * (1 + u)
      BY <2>2, AllowedGrows
    <3> DEFINE a == MaxRestarts * (1 + u)
    <3>2. CASE opened <= Window
      <4>1. Younger(recent, Window + 1) = recent /\ Younger(forgotten, Window + 1) = forgotten
        <5>1. \A age \in 0 .. Window : age < Window + 1
          BY Bounds
        <5> QED BY <2>1, <5>1 DEF Younger
      <4>2. Window + 1 \in 0 .. Window + 1
        BY Bounds
      <4>3. r < a + count
        BY <3>2, <4>1, <4>2 DEF IInv, Windows, Few, Allowed
      <4>4. a \in Nat
        BY <3>1
      <4> HIDE DEF a, r, u
      <4>5. r < a + MaxRestarts
        BY <2>2, <4>3, <4>4, Bounds
      <4> QED BY <4>5 DEF a
    <3>3. CASE opened > Window
      <4>1. r < MaxRestarts
        BY <3>3 DEF IInv, Windows, Few
      <4>2. a \in Nat /\ MaxRestarts <= a
        BY <3>1
      <4> HIDE DEF a, r, u
      <4>3. r < a + MaxRestarts
        BY <2>2, <4>1, <4>2, Bounds
      <4> QED BY <4>3 DEF a
    <3> QED BY <2>2, <3>2, <3>3, Bounds
  <2>4. MaxRestarts * (1 + u) + MaxRestarts = (2 + u) * MaxRestarts
    <3> HIDE DEF u
    <3> QED BY <2>2, Bounds
  <2> QED BY <2>3, <2>4
<1> QED BY <1>1, InvHolds, PTL DEF FairSpec, Spec

\* A process that wrote a heartbeat and ends its turns in time is not replaced
\* (watchdog.py:77-94, main_legacy.py:155-170).
THEOREM OnlySilent == FairSpec => OnlySilentReplaced
<1>1. IInv => [\A readable \in BOOLEAN : Restart(readable) => turn > MaxTurn \/ ~beaten]_vars
  <2> SUFFICES ASSUME IInv, NEW readable \in BOOLEAN, Restart(readable),
                      beaten, ~(turn > MaxTurn)
               PROVE  FALSE
    OBVIOUS
  <2>1. beat > Timeout /\ turn \in Nat /\ turn <= MaxTurn
    BY Bounds DEF Restart, Stale, IInv, Base
  <2>2. beat = turn
    BY <2>1 DEF IInv, OwnBeat
  <2> QED BY <2>1, <2>2, Bounds
<1> QED BY <1>1, InvHolds, PTL DEF FairSpec, Spec, OnlySilentReplaced
=============================================================================
