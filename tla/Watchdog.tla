------------------------------- MODULE Watchdog -------------------------------
(***************************************************************************)
(* The watchdog thread (watchdog.py) and the process it watches: the main  *)
(* loop writes a heartbeat file after every turn, the thread reads it at   *)
(* every poll and replaces a silent process, within a limit of restarts    *)
(* that it keeps in a second file.  Both files outlive the process.        *)
(*                                                                         *)
(* A tick of time is a poll interval.  Ages are counted as far as the code *)
(* tells them apart.                                                       *)
(***************************************************************************)
EXTENDS Naturals, FiniteSets

CONSTANTS
    Timeout,      \* cfg.heartbeat_timeout_secs, in ticks
    Window,       \* the hour of the restart limit, in ticks
    MaxRestarts,  \* cfg.max_restarts_per_hour
    MaxTurn       \* a main loop that takes longer for a turn is frozen

ASSUME WatchdogAssumption ==
    /\ Timeout \in Nat /\ Window \in Nat
    /\ MaxRestarts \in Nat
    /\ MaxTurn \in 1 .. Timeout

VARIABLES
    process,    \* of the bot: up, frozen, stopping or none
    watched,    \* the loop of the watchdog thread goes on
    beaten,     \* this process wrote a heartbeat
    turn,       \* ticks since its start or its last heartbeat
    beat,       \* age of the heartbeat in the file
    polled,     \* the watchdog has looked since the last tick
    count,      \* of restarts, in the restart file
    opened,     \* age of window_start, in the restart file
    recent,     \* history: ages of the restarts in the last Window ticks, one a tick
    forgotten   \* history: those that a failing read let the limit start over at

main == <<process, beaten, turn, beat>>
limit == <<count, opened>>
history == <<recent, forgotten>>
vars == <<main, watched, polled, limit, history>>

NoFile == Timeout + 2    \* beat: there is no heartbeat file
Ages(n) == 0 .. n + 1    \* ages up to n, and older

\* The restart file is there from a run long ago, or was never written.
Init ==
    /\ process = "up" /\ beaten = FALSE /\ turn = 0
    /\ beat \in {Timeout + 1, NoFile}
    /\ watched = TRUE /\ polled = TRUE
    /\ count \in 0 .. MaxRestarts /\ opened = Window + 1
    /\ recent = {} /\ forgotten = {}

-----------------------------------------------------------------------------
(* The main loop                                                           *)

\* Mistake: the heartbeat is not renewed once there is one.
Beat_Once ==
    /\ process = "up"
    /\ beaten' = TRUE /\ turn' = 0
    /\ beat' = IF beaten THEN beat ELSE 0
    /\ UNCHANGED <<process, watched, polled, limit, history>>

\* A turn of the main loop is over.
Beat ==
    /\ process = "up"
    /\ beaten' = TRUE /\ turn' = 0 /\ beat' = 0
    /\ UNCHANGED <<process, watched, polled, limit, history>>

\* A call hangs; it may return after all.
Freeze ==
    /\ process = "up"
    /\ process' = "frozen"
    /\ UNCHANGED <<beaten, turn, beat, watched, polled, limit, history>>

Thaw ==
    /\ process = "frozen"
    /\ process' = "up"
    /\ UNCHANGED <<beaten, turn, beat, watched, polled, limit, history>>

\* A signal was seen, or an exception left the main loop, as when the heartbeat
\* cannot be written: no turn follows, and the watchdog is told to stop.
Shutdown ==
    /\ process = "up"
    /\ process' = "stopping"
    /\ UNCHANGED <<beaten, turn, beat, watched, polled, limit, history>>

\* What was left to save and to send is done; the thread ends with the process.
Exit ==
    /\ process = "stopping"
    /\ process' = "none"
    /\ UNCHANGED <<beaten, turn, beat, watched, polled, limit, history>>

\* An operator starts a process that is gone.
OperatorStarts ==
    /\ process = "none"
    /\ process' = "up" /\ beaten' = FALSE /\ turn' = 0
    /\ watched' = TRUE /\ polled' = TRUE
    /\ UNCHANGED <<beat, limit, history>>

-----------------------------------------------------------------------------
(* The watchdog                                                            *)

\* The thread has slept and looks.  A stopped watchdog still does so once.
Polls == process # "none" /\ watched /\ ~polled
Goes == process # "stopping"

\* Mistake: the window never ends.
NewWindow_Never(readable) == ~readable

\* The window of the restart file is over, or the file cannot be read and the
\* default stands for it, with a window of long ago and no restart in it.
NewWindow(readable) == opened > Window \/ ~readable

\* Mistake: one restart too many.
CanRestart_OneMore(readable) == NewWindow(readable) \/ count <= MaxRestarts

\* _can_restart: the limit of the window is not reached.
CanRestart(readable) == (IF NewWindow(readable) THEN 0 ELSE count) < MaxRestarts

Stale == beat # NoFile /\ beat > Timeout

\* A poll that does nothing: there is no heartbeat or it cannot be read, it is
\* fresh, the limit is reached, or the restart file cannot be written.
Check ==
    /\ Polls
    /\ polled' = TRUE /\ watched' = Goes
    /\ UNCHANGED <<main, limit, history>>

\* Mistake: the start of the new window is not written.
Restart_WindowNotKept(readable) ==
    /\ Polls /\ Stale /\ CanRestart(readable)
    /\ count' = IF NewWindow(readable) THEN 1 ELSE count + 1
    /\ process' \in {"up", "none"}
    /\ beaten' = FALSE /\ turn' = 0 /\ watched' = TRUE /\ polled' = TRUE
    /\ recent' = recent \cup {0}
    /\ forgotten' = IF readable \/ opened > Window THEN forgotten ELSE forgotten \cup {0}
    /\ UNCHANGED <<beat, opened>>

\* A poll finds the heartbeat stale: the restart is counted, a process is
\* spawned or that fails, and this one exits either way.  The new one finds the
\* old heartbeat.
Restart(readable) ==
    /\ Polls /\ Stale /\ CanRestart(readable)
    /\ IF NewWindow(readable) THEN count' = 1 /\ opened' = 0
                              ELSE count' = count + 1 /\ UNCHANGED opened
    /\ process' \in {"up", "none"}
    /\ beaten' = FALSE /\ turn' = 0 /\ watched' = TRUE /\ polled' = TRUE
    /\ recent' = recent \cup {0}
    /\ forgotten' = IF readable \/ opened > Window THEN forgotten ELSE forgotten \cup {0}
    /\ UNCHANGED beat

-----------------------------------------------------------------------------
(* Time                                                                    *)

Older(age, n) == IF age <= n THEN age + 1 ELSE age

Aged(ages) == {age + 1 : age \in {a \in ages : a < Window}}

\* A main loop that is not frozen ends its turn in time.
Tick ==
    /\ ~Polls
    /\ process = "up" => turn < MaxTurn
    /\ turn' = Older(turn, MaxTurn)
    /\ beat' = IF beat = NoFile THEN beat ELSE Older(beat, Timeout)
    /\ opened' = Older(opened, Window)
    /\ recent' = Aged(recent) /\ forgotten' = Aged(forgotten)
    /\ polled' = FALSE
    /\ UNCHANGED <<process, beaten, watched, count>>

Next ==
    \/ Beat \/ Freeze \/ Thaw \/ Shutdown \/ Exit \/ OperatorStarts
    \/ Check \/ (\E readable \in BOOLEAN : Restart(readable)) \/ Tick

Spec == Init /\ [][Next]_vars

\* Time passes, and reading and writing the files does not fail for ever.
FairSpec == Spec /\ WF_vars(Tick) /\ WF_vars(Check) /\ SF_vars(Restart(TRUE))

-----------------------------------------------------------------------------

\* The types of the variables.
TypeOK ==
    /\ process \in {"up", "frozen", "stopping", "none"}
    /\ beaten \in BOOLEAN /\ watched \in BOOLEAN /\ polled \in BOOLEAN
    /\ turn \in Ages(MaxTurn)
    /\ beat \in 0 .. NoFile
    /\ count \in 0 .. MaxRestarts
    /\ opened \in Ages(Window)
    /\ recent \subseteq 0 .. Window /\ forgotten \subseteq recent

\* How far the limit holds in any Window ticks.  The docstrings promise
\* max_restarts_per_hour (watchdog.py:32, 97), and it is not kept: the windows
\* start with a restart and do not slide, so those that end one come close to
\* those that start the next, up to one less than twice the limit; and each time
\* the restart file could not be read there may be a limit's worth more
\* (watchdog.py:96-114, utils.py:99-104).
RestartsBounded ==
    recent # {} => Cardinality(recent) < (2 + Cardinality(forgotten)) * MaxRestarts

\* A process is replaced only if its turn takes longer than it may, or if it
\* has not finished its first turn: until then it is held to the heartbeat of
\* its predecessor (watchdog.py:77-94, main_legacy.py:155-170).
OnlySilentReplaced ==
    [][\A readable \in BOOLEAN : Restart(readable) => turn > MaxTurn \/ ~beaten]_vars

\* A frozen process does not stay, if there is a heartbeat at all: when the
\* limit is reached a later window lets the restart through, over any number of
\* failing polls (watchdog.py:69-122).
FrozenReplaced == (process = "frozen" /\ beat # NoFile) ~> process # "frozen"
=============================================================================
