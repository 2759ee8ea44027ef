----------------------------- MODULE MonitorLock -----------------------------
(***************************************************************************)
(* Which loop may run a cycle of the signal monitor: the loops that the    *)
(* backend processes start (SignalMonitorService.start), their stopping    *)
(* and restarting by the control routes, and PostgreSQL's advisory lock    *)
(* 123456, which each cycle takes on a connection of its own.  What a      *)
(* cycle does with a coin is SignalOrder; here a coin is a thread that     *)
(* ends, or hangs, while the loop awaits it.                               *)
(*                                                                         *)
(* Faults an instance may allow:                                           *)
(*   "hang"    the evaluation of a coin never returns                      *)
(*   "noconn"  the lock's connection cannot be opened or used              *)
(*   "dropped" the server drops the connection that holds the lock         *)
(*   "crash"   a process dies, and is started again                        *)
(***************************************************************************)
EXTENDS Naturals

CONSTANTS
    Procs,      \* the backend processes of the deployment
    Primaries,  \* those with RUN_SIGNAL_MONITOR
    Loops,      \* room for the loops that may be there at one time
    Timeouts,   \* MONITOR_CYCLE_TIMEOUT is positive: the values to explore
    MaxCoins,   \* bound on the coins of a cycle
    Faults      \* the faults this instance allows

ASSUME MonitorLockAssumption ==
    /\ Procs # {} /\ Primaries \subseteq Procs
    /\ Timeouts \subseteq BOOLEAN
    /\ MaxCoins \in Nat

VARIABLES
    up,        \* the processes that run
    running,   \* is_running of each process's service object
    file,      \* the status file says is_running, and is fresh
    fixing,    \* processes between the halves of POST /health/fix
    loop,      \* the loops
    granted,   \* the loops on whose connection the server holds the lock
    timeout    \* monitor_cycle_timeout > 0

vars == <<up, running, file, fixing, loop, granted, timeout>>

\* "created" is a task that has not begun; a cycle's pcs are those between the
\* acquisition of the lock and the end of the finally that releases it.
Pcs == {"free", "created", "ready", "cycle", "coin", "release", "unwind", "sleep"}
InCycle == {"cycle", "coin", "release", "unwind"}

\* tracked: self._task is this loop's task; cancelled: cancel() awaits delivery;
\* coins: still to evaluate; hung: the thread awaited never ends; dropped: the
\* connection of this cycle is gone.
Loop == [pc : Pcs, proc : Procs, tracked : BOOLEAN, cancelled : BOOLEAN,
         coins : 0..MaxCoins, hung : BOOLEAN, dropped : BOOLEAN]

\* (The process of a free place has no meaning.)
Free == [pc |-> "free", proc |-> CHOOSE p \in Procs : TRUE, tracked |-> FALSE,
         cancelled |-> FALSE, coins |-> 0, hung |-> FALSE, dropped |-> FALSE]

TypeOK ==
    /\ up \subseteq Procs /\ fixing \subseteq up
    /\ running \in [Procs -> BOOLEAN]
    /\ file \in [Procs -> BOOLEAN]
    /\ loop \in [Loops -> Loop]
    /\ granted \subseteq Loops
    /\ timeout \in BOOLEAN

Init ==
    /\ up = {} /\ fixing = {}
    /\ running = [p \in Procs |-> FALSE]
    /\ file = [p \in Procs |-> FALSE]
    /\ loop = [l \in Loops |-> Free]
    /\ granted = {}
    /\ timeout \in Timeouts

At(l, pc) == loop[l].pc = pc
LoopsOf(p) == {l \in Loops : loop[l].proc = p /\ ~At(l, "free")}

Goto(l, pc) == loop' = [loop EXCEPT ![l].pc = pc]

\* _persist_status: the flag as it now stands goes to the file.
Persist(p) == file' = [file EXCEPT ![p] = running'[p]]

-----------------------------------------------------------------------------
(* Starting and stopping.                                                  *)

\* create_task: a loop of p that has not yet begun.
CreateTask(p, tracked) ==
    \E l \in Loops :
        /\ At(l, "free")
        /\ loop' = [loop EXCEPT ![l] = [Free EXCEPT !.pc = "created", !.proc = p,
                                                    !.tracked = tracked]]

\* The service object takes is_running from a fresh status file; a primary calls
\* start_background.
Boot(p) ==
    /\ p \notin up
    /\ up' = up \cup {p}
    /\ running' = [running EXCEPT ![p] = file[p]]
    /\ IF p \in Primaries THEN CreateTask(p, TRUE) ELSE UNCHANGED loop
    /\ UNCHANGED <<file, fixing, granted, timeout>>

\* POST /services/start: only where is_running is not set.
StartServices(p) ==
    /\ p \in up /\ ~running[p]
    /\ CreateTask(p, FALSE)
    /\ UNCHANGED <<up, running, file, fixing, granted, timeout>>

\* stop(): the loop finds is_running cleared when it next looks; of the tasks
\* only the one in self._task is cancelled.
StopLoops(p) ==
    /\ running' = [running EXCEPT ![p] = FALSE]
    /\ Persist(p)
    /\ loop' = [l \in Loops |->
                   [loop[l] EXCEPT !.cancelled = @ \/ (loop[l].tracked /\ loop[l].proc = p)]]

StopServices(p) ==
    /\ p \in up
    /\ StopLoops(p)
    /\ UNCHANGED <<up, fixing, granted, timeout>>

\* POST /health/fix: stop(), one second, start().
FixHealth(p) ==
    /\ p \in up \ fixing
    /\ StopLoops(p)
    /\ fixing' = fixing \cup {p}
    /\ UNCHANGED <<up, granted, timeout>>

FixRestarts(p) ==
    /\ p \in fixing
    /\ fixing' = fixing \ {p}
    /\ CreateTask(p, FALSE)
    /\ UNCHANGED <<up, running, file, granted, timeout>>

-----------------------------------------------------------------------------
(* start(): the loop.                                                      *)

Begin(l) ==
    LET p == loop[l].proc
    IN  /\ At(l, "created") /\ ~loop[l].cancelled
        /\ IF running[p]
           THEN loop' = [loop EXCEPT ![l] = Free] /\ UNCHANGED <<running, file>>
           ELSE /\ Goto(l, "ready")
                /\ running' = [running EXCEPT ![p] = TRUE]
                /\ Persist(p)
        /\ UNCHANGED <<up, fixing, granted, timeout>>

\* Mutation of TryLock: the cycle goes on with or without the lock.
MutLockNotChecked(l) ==
    /\ At(l, "ready")
    /\ \E n \in 0..MaxCoins :
        loop' = [loop EXCEPT ![l].pc = "cycle", ![l].coins = n, ![l].dropped = FALSE]
    /\ granted' = granted \cup {l}
    /\ running' = running /\ Persist(loop[l].proc)
    /\ UNCHANGED <<up, fixing, timeout>>

\* _acquire_monitor_lock: a connection of the cycle's own, and a try.  One that
\* did not get the lock, or failed, is closed at once and the cycle skipped.
TryLock(l) ==
    /\ At(l, "ready")
    /\ \/ /\ granted = {}
          /\ granted' = {l}
          /\ \E n \in 0..MaxCoins :
                loop' = [loop EXCEPT ![l].pc = "cycle", ![l].coins = n, ![l].dropped = FALSE]
       \/ (granted # {} \/ "noconn" \in Faults) /\ Goto(l, "sleep") /\ UNCHANGED granted
    /\ running' = running /\ Persist(loop[l].proc)
    /\ UNCHANGED <<up, fixing, timeout>>

\* Mutation of StartCoin: the watchlist is gone past its end.
MutPastTheEnd(l) ==
    /\ At(l, "cycle")
    /\ loop' = [loop EXCEPT ![l].pc = "coin", ![l].coins = @ - 1]
    /\ UNCHANGED <<up, running, file, fixing, granted, timeout>>

\* monitor_signals: one thread per coin, one coin at a time.
StartCoin(l) ==
    /\ At(l, "cycle") /\ loop[l].coins > 0
    /\ \E hung \in {FALSE} \cup (IF "hang" \in Faults THEN {TRUE} ELSE {}) :
        loop' = [loop EXCEPT ![l].pc = "coin", ![l].coins = @ - 1, ![l].hung = hung]
    /\ UNCHANGED <<up, running, file, fixing, granted, timeout>>

EndCoin(l) ==
    /\ At(l, "coin") /\ ~loop[l].hung
    /\ Goto(l, "cycle")
    /\ UNCHANGED <<up, running, file, fixing, granted, timeout>>

\* The watchlist is done, or monitor_signals raised.
Finish(l) ==
    /\ At(l, "cycle") /\ loop[l].coins = 0
    /\ Goto(l, "release")
    /\ UNCHANGED <<up, running, file, fixing, granted, timeout>>

\* wait_for gives up on monitor_signals; the coin's thread goes on by itself.
Timeout(l) ==
    /\ timeout /\ At(l, "coin")
    /\ loop' = [loop EXCEPT ![l].pc = "release", ![l].hung = FALSE]
    /\ UNCHANGED <<up, running, file, fixing, granted, timeout>>

\* The loop is over, by cancellation or because is_running was cleared:
\* whichever loop it was, is_running is cleared with it.
Exit(l) ==
    /\ loop' = [loop EXCEPT ![l] = Free]
    /\ running' = [running EXCEPT ![loop[l].proc] = FALSE]
    /\ Persist(loop[l].proc)

\* CancelledError arrives at an await: in a cycle it abandons the coin and the
\* finally is on its way, asleep it ends the loop, and a task that has not begun
\* never does.
Cancelled(l) ==
    /\ loop[l].cancelled
    /\ \/ /\ At(l, "coin")
          /\ loop' = [loop EXCEPT ![l].pc = "unwind", ![l].hung = FALSE]
          /\ UNCHANGED <<running, file>>
       \/ At(l, "sleep") /\ Exit(l)
       \/ /\ At(l, "created")
          /\ loop' = [loop EXCEPT ![l] = Free]
          /\ UNCHANGED <<running, file>>
    /\ UNCHANGED <<up, fixing, granted, timeout>>

\* Mutation of Release: the connection goes back to a pool, lock and all.
MutPooledConnection(l) ==
    /\ At(l, "release") /\ Goto(l, "sleep")
    /\ running' = running /\ Persist(loop[l].proc)
    /\ UNCHANGED <<up, fixing, granted, timeout>>

\* _release_monitor_lock, in the finally: closing the connection gives up the
\* lock, whether or not the unlock before it succeeded.
Release(l) ==
    /\ At(l, "release") /\ Goto(l, "sleep")
    /\ granted' = granted \ {l}
    /\ running' = running /\ Persist(loop[l].proc)
    /\ UNCHANGED <<up, fixing, timeout>>

\* Mutation of Unwind: a cycle that was cancelled leaves without the finally.
MutCancelSkipsRelease(l) ==
    /\ At(l, "unwind") /\ Exit(l)
    /\ UNCHANGED <<up, fixing, granted, timeout>>

\* The same finally on the way of a CancelledError, which ends the loop.
Unwind(l) ==
    /\ At(l, "unwind") /\ Exit(l)
    /\ granted' = granted \ {l}
    /\ UNCHANGED <<up, fixing, timeout>>

\* Mutation of Wake: the loop does not look at is_running.
MutRunsOn(l) ==
    /\ At(l, "sleep") /\ ~loop[l].cancelled
    /\ Goto(l, "ready")
    /\ UNCHANGED <<up, running, file, fixing, granted, timeout>>

\* The sleep of monitor_interval is over.
Wake(l) ==
    /\ At(l, "sleep") /\ ~loop[l].cancelled
    /\ IF running[loop[l].proc]
       THEN Goto(l, "ready") /\ UNCHANGED <<running, file>>
       ELSE Exit(l)
    /\ UNCHANGED <<up, fixing, granted, timeout>>

Continue(l) ==
    \/ Begin(l) \/ TryLock(l) \/ StartCoin(l) \/ EndCoin(l) \/ Finish(l)
    \/ Timeout(l) \/ Cancelled(l) \/ Release(l) \/ Unwind(l) \/ Wake(l)

-----------------------------------------------------------------------------
(* What happens to them.                                                   *)

\* The server ends the session, and the lock with it; the cycle does not notice.
DropConnection(l) ==
    /\ "dropped" \in Faults /\ l \in granted
    /\ granted' = granted \ {l}
    /\ loop' = [loop EXCEPT ![l].dropped = TRUE]
    /\ UNCHANGED <<up, running, file, fixing, timeout>>

\* More than two intervals without a write make the file stale.
AgeFile(p) ==
    /\ file[p]
    /\ file' = [file EXCEPT ![p] = FALSE]
    /\ UNCHANGED <<up, running, fixing, loop, granted, timeout>>

\* The process dies, its connections with it.  The status file stays.
Crash(p) ==
    /\ "crash" \in Faults /\ p \in up
    /\ up' = up \ {p} /\ fixing' = fixing \ {p}
    /\ running' = [running EXCEPT ![p] = FALSE]
    /\ loop' = [l \in Loops |-> IF loop[l].proc = p THEN Free ELSE loop[l]]
    /\ granted' = {l \in granted : loop[l].proc # p}
    /\ UNCHANGED <<file, timeout>>

Next ==
    \/ \E p \in Procs : \/ Boot(p) \/ StartServices(p) \/ StopServices(p) \/ FixHealth(p)
                        \/ FixRestarts(p) \/ AgeFile(p) \/ Crash(p)
    \/ \E l \in Loops : Continue(l) \/ DropConnection(l)

\* The event loop runs every task that is ready, a coin that does not hang ends,
\* and a deadline passes; nobody need start, stop or break anything.
Spec == Init /\ [][Next]_vars /\ \A l \in Loops : WF_vars(Continue(l))
-----------------------------------------------------------------------------
(* Properties                                                              *)

\* "CRITICAL: Prevent duplicate runners" (signal_monitor.py:11713): two cycles
\* are under way at once, in one process or in two, only if the server has
\* dropped the connection that held the lock for one of them.
OneCycle ==
    \A k, l \in Loops :
        /\ loop[k].pc \in InCycle /\ ~loop[k].dropped
        /\ loop[l].pc \in InCycle /\ ~loop[l].dropped
        => k = l

\* The lock never leaks: it is held only on the connection of a cycle that is
\* under way, whatever timed out, was cancelled or died.
LockIsOfCycle ==
    \A l \in granted : loop[l].pc \in InCycle /\ ~loop[l].dropped

\* With a cycle timeout, the lock comes free even if the evaluation of a coin
\* hangs: no process is locked out for good.
LockComesFree ==
    \A l \in Loops : (timeout /\ l \in granted) ~> (l \notin granted)

\* A stop ends every loop of the process unless a new one has begun meanwhile,
\* those included that a route started and no stop can cancel.
StopEndsLoops ==
    \A l \in Loops : LET p == loop[l].proc IN
        (timeout /\ loop[l].pc \notin {"free", "created"} /\ ~running[p])
            ~> (At(l, "free") \/ running[p])

\* start() turns away duplicates ("already running, skipping duplicate start",
\* signal_monitor.py:11658): the only loop of its process is never turned away.
StartIsHeeded ==
    [][\A l \in Loops : Begin(l) /\ LoopsOf(loop[l].proc) = {l} => loop'[l].pc = "ready"]_vars
=============================================================================
