-------------------------- MODULE MonitorLock_proofs --------------------------
(* The singleton of the signal monitor, for any number of processes and loops. *)
EXTENDS MonitorLock, TLAPS

-----------------------------------------------------------------------------
(* Type correctness.                                                       *)

LEMMA FreeType == Free \in Loop
BY MonitorLockAssumption DEF Free, Loop, Pcs

\* A free place takes a new task of any process.
LEMMA NewTask ==
    ASSUME NEW r \in Loop, NEW p \in Procs, NEW b \in BOOLEAN
    PROVE  [r EXCEPT !.pc = "created", !.proc = p, !.tracked = b] \in Loop
BY DEF Loop, Pcs

\* Every variable keeps its type: no step leaves the control points, the bound on
\* a cycle's coins, or the processes and loops there are.
THEOREM TypeCorrect == Spec => []TypeOK
<1>1. Init => TypeOK
  BY MonitorLockAssumption, FreeType DEF Init, TypeOK
<1>2. TypeOK /\ [Next]_vars => TypeOK'
  <2> SUFFICES ASSUME TypeOK, [Next]_vars PROVE TypeOK'
    OBVIOUS
  <2> USE DEF TypeOK
  <2>0. \A l \in Loops : loop[l] \in Loop /\ loop[l].proc \in Procs
    BY DEF Loop
  <2>1. ASSUME NEW p \in Procs, NEW b \in BOOLEAN, CreateTask(p, b)
        PROVE  loop' \in [Loops -> Loop]
    <3>1. [Free EXCEPT !.pc = "created", !.proc = p, !.tracked = b] \in Loop
      BY FreeType, NewTask
    <3>2. QED BY <2>1, <3>1 DEF CreateTask
  <2>2. ASSUME NEW p \in Procs, StopLoops(p)
        PROVE  /\ loop' \in [Loops -> Loop]
               /\ running' \in [Procs -> BOOLEAN] /\ file' \in [Procs -> BOOLEAN]
    <3>1. \A l \in Loops : loop'[l] \in Loop
      BY <2>2, <2>0 DEF StopLoops, Loop
    <3>2. QED BY <2>2, <3>1 DEF StopLoops, Persist
  <2>3. ASSUME NEW l \in Loops, Exit(l)
        PROVE  /\ loop' \in [Loops -> Loop]
               /\ running' \in [Procs -> BOOLEAN] /\ file' \in [Procs -> BOOLEAN]
    BY <2>3, <2>0, FreeType DEF Exit, Persist
  <2>4. ASSUME NEW l \in Loops, NEW pc \in Pcs, Goto(l, pc)
        PROVE  loop' \in [Loops -> Loop]
    <3>1. [loop[l] EXCEPT !.pc = pc] \in Loop
      BY <2>0 DEF Loop
    <3>2. QED BY <2>4, <3>1 DEF Goto
  <2>5. ASSUME NEW p \in Procs, Boot(p) PROVE TypeOK'
    BY <2>5, <2>1 DEF Boot
  <2>6. ASSUME NEW p \in Procs, StartServices(p) PROVE TypeOK'
    BY <2>6, <2>1 DEF StartServices
  <2>7. ASSUME NEW p \in Procs, StopServices(p) PROVE TypeOK'
    BY <2>7, <2>2 DEF StopServices
  <2>8. ASSUME NEW p \in Procs, FixHealth(p) PROVE TypeOK'
    BY <2>8, <2>2 DEF FixHealth
  <2>9. ASSUME NEW p \in Procs, FixRestarts(p) PROVE TypeOK'
    BY <2>9, <2>1 DEF FixRestarts
  <2>10. ASSUME NEW p \in Procs, AgeFile(p) PROVE TypeOK'
    BY <2>10 DEF AgeFile
  <2>11. ASSUME NEW p \in Procs, Crash(p) PROVE TypeOK'
    BY <2>11, FreeType DEF Crash
  <2>12. ASSUME NEW l \in Loops, DropConnection(l) PROVE TypeOK'
    <3>1. [loop[l] EXCEPT !.dropped = TRUE] \in Loop
      BY <2>0 DEF Loop
    <3>2. QED BY <2>12, <3>1 DEF DropConnection
  <2>13. ASSUME NEW l \in Loops, Begin(l) PROVE TypeOK'
    BY <2>13, <2>0, <2>4, FreeType DEF Begin, Persist, Pcs
  <2>14. ASSUME NEW l \in Loops, TryLock(l) PROVE TypeOK'
    <3>1. running' = running /\ file' \in [Procs -> BOOLEAN]
      BY <2>14, <2>0 DEF TryLock, Persist
    <3>2. loop' \in [Loops -> Loop] /\ granted' \subseteq Loops
      <4>1. \A n \in 0..MaxCoins :
               [loop[l] EXCEPT !.pc = "cycle", !.coins = n, !.dropped = FALSE] \in Loop
        BY <2>0 DEF Loop, Pcs
      <4>2. "sleep" \in Pcs
        BY DEF Pcs
      <4>3. QED BY <2>14, <2>4, <4>1, <4>2 DEF TryLock
    <3>3. QED BY <2>14, <3>1, <3>2 DEF TryLock
  <2>15. ASSUME NEW l \in Loops, StartCoin(l) PROVE TypeOK'
    <3>1. loop[l].coins - 1 \in 0..MaxCoins
      BY <2>15, <2>0, MonitorLockAssumption DEF StartCoin, Loop
    <3>2. \A b \in BOOLEAN : [loop[l] EXCEPT !.pc = "coin", !.coins = loop[l].coins - 1,
                                            !.hung = b] \in Loop
      BY <3>1, <2>0 DEF Loop, Pcs
    <3>3. PICK b \in BOOLEAN :
             loop' = [loop EXCEPT ![l].pc = "coin", ![l].coins = @ - 1, ![l].hung = b]
      BY <2>15 DEF StartCoin
    <3>4. loop' \in [Loops -> Loop]
      BY <3>2, <3>3
    <3>5. QED BY <2>15, <3>4 DEF StartCoin
  <2>16. ASSUME NEW l \in Loops, EndCoin(l) PROVE TypeOK'
    BY <2>16, <2>4 DEF EndCoin, Pcs
  <2>17. ASSUME NEW l \in Loops, Finish(l) PROVE TypeOK'
    BY <2>17, <2>4 DEF Finish, Pcs
  <2>18. ASSUME NEW l \in Loops, Timeout(l) PROVE TypeOK'
    <3>1. [loop[l] EXCEPT !.pc = "release", !.hung = FALSE] \in Loop
      BY <2>0 DEF Loop, Pcs
    <3>2. QED BY <2>18, <3>1 DEF Timeout
  <2>19. ASSUME NEW l \in Loops, Cancelled(l) PROVE TypeOK'
    <3>1. [loop[l] EXCEPT !.pc = "unwind", !.hung = FALSE] \in Loop
      BY <2>0 DEF Loop, Pcs
    <3>2. QED BY <2>19, <3>1, <2>3, FreeType DEF Cancelled
  <2>20. ASSUME NEW l \in Loops, Release(l) PROVE TypeOK'
    BY <2>20, <2>0, <2>4 DEF Release, Persist, Pcs
  <2>21. ASSUME NEW l \in Loops, Unwind(l) PROVE TypeOK'
    BY <2>21, <2>3 DEF Unwind
  <2>22. ASSUME NEW l \in Loops, Wake(l) PROVE TypeOK'
    BY <2>22, <2>3, <2>4 DEF Wake, Pcs
  <2>23. CASE UNCHANGED vars
    BY <2>23 DEF vars
  <2>24. QED
    BY <2>5, <2>6, <2>7, <2>8, <2>9, <2>10, <2>11, <2>12, <2>13, <2>14, <2>15, <2>16,
       <2>17, <2>18, <2>19, <2>20, <2>21, <2>22, <2>23 DEF Next, Continue
<1>3. QED
  BY <1>1, <1>2, PTL DEF Spec

-----------------------------------------------------------------------------
(* The lock.  That two cycles do not overlap follows from what each of them  *)
(* is to the server: a cycle whose connection stands is one the lock is      *)
(* granted to, and it is granted to one session.                             *)

\* The server grants the lock to one session at a time.
OneGrant == \A k, l \in granted : k = l

\* A cycle under way holds the lock until its connection is dropped.
CycleHolds == \A l \in Loops : loop[l].pc \in InCycle /\ ~loop[l].dropped => l \in granted

LockInv == TypeOK /\ OneGrant /\ LockIsOfCycle /\ CycleHolds

\* A step that keeps the grants, and keeps every loop either as it was to the
\* lock or outside a cycle as before, keeps the invariant.
LEMMA LockFrame ==
    ASSUME LockInv, TypeOK', granted' = granted,
           \A l \in Loops : (loop'[l].pc \in InCycle /\ ~loop'[l].dropped)
                             <=> (loop[l].pc \in InCycle /\ ~loop[l].dropped)
    PROVE  LockInv'
BY DEF LockInv, OneGrant, LockIsOfCycle, CycleHolds, TypeOK

\* A step of one loop that gives up its grant and leaves the cycle.
LEMMA LockGivenUp ==
    ASSUME LockInv, TypeOK', NEW l \in Loops, granted' = granted \ {l},
           loop'[l].pc \notin InCycle \/ loop'[l].dropped,
           \A k \in Loops \ {l} : loop'[k] = loop[k]
    PROVE  LockInv'
<1>1. OneGrant'
  BY DEF LockInv, OneGrant
<1>2. LockIsOfCycle'
  BY DEF LockInv, LockIsOfCycle, TypeOK
<1>3. CycleHolds'
  <2> SUFFICES ASSUME NEW k \in Loops, loop'[k].pc \in InCycle, ~loop'[k].dropped
               PROVE  k \in granted'
    BY DEF CycleHolds
  <2>1. k # l
    OBVIOUS
  <2>2. QED BY <2>1 DEF LockInv, CycleHolds
<1>4. QED BY <1>1, <1>2, <1>3 DEF LockInv

LEMMA LockInit == Init => OneGrant /\ LockIsOfCycle /\ CycleHolds
<1>1. Free.pc \notin InCycle
  BY DEF Free, InCycle
<1>2. SUFFICES ASSUME Init PROVE OneGrant /\ LockIsOfCycle /\ CycleHolds
  OBVIOUS
<1>3. granted = {} /\ \A l \in Loops : loop[l] = Free
  BY <1>2 DEF Init
<1>4. QED
  BY <1>1, <1>3 DEF OneGrant, LockIsOfCycle, CycleHolds

LEMMA LockStep == LockInv /\ TypeOK' /\ [Next]_vars => LockInv'
<1> SUFFICES ASSUME LockInv, TypeOK', [Next]_vars PROVE LockInv'
  OBVIOUS
<1> USE DEF TypeOK, InCycle
<1>0. TypeOK /\ \A l \in Loops : loop[l] \in Loop
  BY DEF LockInv
<1>1. Free.pc = "free"
  BY DEF Free
<1>2. ASSUME NEW p \in Procs, NEW b \in BOOLEAN, CreateTask(p, b), granted' = granted
      PROVE  LockInv'
  <2>1. PICK l \in Loops : /\ At(l, "free")
                           /\ loop' = [loop EXCEPT ![l] = [Free EXCEPT !.pc = "created",
                                                   !.proc = p, !.tracked = b]]
    BY <1>2 DEF CreateTask
  <2>2. loop'[l].pc = "created"
    BY <1>0, <2>1 DEF Free
  <2>3. QED BY <1>0, <1>2, <2>1, <2>2, LockFrame DEF At
<1>3. ASSUME NEW p \in Procs, StopLoops(p), granted' = granted PROVE LockInv'
  <2>1. \A l \in Loops : loop'[l].pc = loop[l].pc /\ loop'[l].dropped = loop[l].dropped
    BY <1>0, <1>3 DEF StopLoops, Loop
  <2>2. QED BY <1>3, <2>1, LockFrame
<1>4. ASSUME NEW p \in Procs, Crash(p) PROVE LockInv'
  BY <1>0, <1>1, <1>4 DEF Crash, LockInv, OneGrant, LockIsOfCycle, CycleHolds
<1>5. ASSUME NEW l \in Loops, DropConnection(l) PROVE LockInv'
  <2>1. loop'[l].dropped /\ \A k \in Loops \ {l} : loop'[k] = loop[k]
    BY <1>0, <1>5 DEF DropConnection, Loop
  <2>2. QED BY <1>5, <2>1, LockGivenUp DEF DropConnection
<1>6. ASSUME NEW l \in Loops, TryLock(l) PROVE LockInv'
  <2>1. CASE granted = {} /\ granted' = {l} /\
             \E n \in 0..MaxCoins : loop' = [loop EXCEPT ![l].pc = "cycle",
                                           ![l].coins = n, ![l].dropped = FALSE]
    <3>1. loop'[l].pc = "cycle" /\ ~loop'[l].dropped
          /\ \A k \in Loops \ {l} : loop'[k] = loop[k]
      BY <1>0, <2>1 DEF Loop
    <3>2. QED BY <2>1, <3>1 DEF LockInv, OneGrant, LockIsOfCycle, CycleHolds
  <2>2. CASE Goto(l, "sleep") /\ granted' = granted
    <3>1. loop'[l].pc = "sleep" /\ \A k \in Loops \ {l} : loop'[k] = loop[k]
      BY <1>0, <2>2 DEF Goto, Loop
    <3>2. QED BY <1>6, <2>2, <3>1, LockFrame DEF TryLock, At
  <2>3. QED BY <1>6, <2>1, <2>2 DEF TryLock
<1>7. ASSUME NEW l \in Loops, Release(l) \/ Unwind(l) PROVE LockInv'
  <2>1. loop'[l].pc \notin InCycle /\ \A k \in Loops \ {l} : loop'[k] = loop[k]
    BY <1>0, <1>1, <1>7 DEF Release, Unwind, Goto, Exit, Loop
  <2>2. QED BY <1>7, <2>1, LockGivenUp DEF Release, Unwind
<1>8. ASSUME NEW l \in Loops, Exit(l), At(l, "sleep"), granted' = granted PROVE LockInv'
  <2>1. loop'[l].pc = "free" /\ \A k \in Loops \ {l} : loop'[k] = loop[k]
    BY <1>0, <1>1, <1>8 DEF Exit
  <2>2. QED BY <1>8, <2>1, LockFrame DEF At
<1>9. ASSUME NEW l \in Loops, Begin(l) \/ Wake(l) PROVE LockInv'
  <2>1. CASE Begin(l)
    <3>1. loop'[l].pc \in {"free", "ready"} /\ \A k \in Loops \ {l} : loop'[k] = loop[k]
      BY <1>0, <1>1, <2>1 DEF Begin, Goto, Loop
    <3>2. QED BY <2>1, <3>1, LockFrame DEF Begin, At
  <2>2. CASE Wake(l) /\ ~Exit(l)
    <3>1. loop'[l].pc = "ready" /\ \A k \in Loops \ {l} : loop'[k] = loop[k]
      BY <1>0, <2>2 DEF Wake, Goto, Loop
    <3>2. QED BY <2>2, <3>1, LockFrame DEF Wake, At
  <2>3. CASE Wake(l) /\ Exit(l)
    BY <1>8, <2>3 DEF Wake
  <2>4. QED BY <1>9, <2>1, <2>2, <2>3
<1>10. ASSUME NEW l \in Loops, StartCoin(l) \/ EndCoin(l) \/ Finish(l) \/ Timeout(l)
       PROVE  LockInv'
  <2> DEFINE Moved == /\ loop[l].pc \in InCycle /\ loop'[l].pc \in InCycle
                      /\ loop'[l].dropped = loop[l].dropped
                      /\ \A k \in Loops \ {l} : loop'[k] = loop[k]
  <2>1. StartCoin(l) => Moved
    BY <1>0 DEF StartCoin, At, Loop
  <2>2. EndCoin(l) => Moved
    BY <1>0 DEF EndCoin, Goto, At, Loop
  <2>3. Finish(l) => Moved
    BY <1>0 DEF Finish, Goto, At, Loop
  <2>4. Timeout(l) => Moved
    BY <1>0 DEF Timeout, At, Loop
  <2>5. Moved /\ granted' = granted
    BY <1>10, <2>1, <2>2, <2>3, <2>4 DEF StartCoin, EndCoin, Finish, Timeout
  <2>6. QED BY <2>5, LockFrame
<1>11. ASSUME NEW l \in Loops, Cancelled(l) PROVE LockInv'
  <2>1. CASE At(l, "coin") /\ loop' = [loop EXCEPT ![l].pc = "unwind", ![l].hung = FALSE]
    <3>1. /\ loop'[l].pc = "unwind" /\ loop'[l].dropped = loop[l].dropped
          /\ \A k \in Loops \ {l} : loop'[k] = loop[k]
      BY <1>0, <2>1 DEF Loop
    <3>2. QED BY <1>11, <2>1, <3>1, LockFrame DEF Cancelled, At
  <2>2. CASE At(l, "sleep") /\ Exit(l)
    BY <1>8, <1>11, <2>2 DEF Cancelled
  <2>3. CASE At(l, "created") /\ loop' = [loop EXCEPT ![l] = Free]
    <3>1. loop'[l].pc = "free" /\ \A k \in Loops \ {l} : loop'[k] = loop[k]
      BY <1>0, <1>1, <2>3
    <3>2. QED BY <1>11, <2>3, <3>1, LockFrame DEF Cancelled, At
  <2>4. QED BY <1>11, <2>1, <2>2, <2>3 DEF Cancelled
<1>12. ASSUME NEW p \in Procs, Boot(p) \/ StartServices(p) \/ FixRestarts(p) PROVE LockInv'
  <2>1. granted' = granted
    BY <1>12 DEF Boot, StartServices, FixRestarts
  <2>2. CASE \E b \in BOOLEAN : CreateTask(p, b)
    BY <1>2, <2>1, <2>2
  <2>3. CASE loop' = loop
    BY <2>1, <2>3, LockFrame
  <2>4. QED BY <1>12, <2>2, <2>3 DEF Boot, StartServices, FixRestarts
<1>13. ASSUME NEW p \in Procs, StopServices(p) \/ FixHealth(p) PROVE LockInv'
  BY <1>3, <1>13 DEF StopServices, FixHealth
<1>14. CASE (\E p \in Procs : AgeFile(p)) \/ UNCHANGED vars
  <2>1. granted' = granted /\ loop' = loop
    BY <1>14 DEF AgeFile, vars
  <2>2. QED BY <2>1, LockFrame
<1>15. QED
  BY <1>4, <1>5, <1>6, <1>7, <1>9, <1>10, <1>11, <1>12, <1>13, <1>14 DEF Next, Continue

LEMMA LockInvariant == Spec => []LockInv
<1>1. Init /\ TypeOK => LockInv
  BY LockInit DEF LockInv
<1>2. LockInv /\ TypeOK' /\ [Next]_vars => LockInv'
  BY LockStep
<1>3. QED
  BY <1>1, <1>2, TypeCorrect, PTL DEF Spec

\* The lock is held only by a cycle that is under way: neither a timeout, nor a
\* cancellation, nor the death of a process leaves it behind.
THEOREM LockNeverLeaks == Spec => []LockIsOfCycle
<1>1. LockInv => LockIsOfCycle
  BY DEF LockInv
<1>2. QED
  BY <1>1, LockInvariant, PTL

\* No two cycles at once, however many processes and loops there are and however
\* they are started and stopped, but for one whose connection was dropped.
THEOREM OnlyOneCycle == Spec => []OneCycle
<1>1. LockInv => OneCycle
  BY DEF LockInv, OneGrant, CycleHolds, OneCycle
<1>2. QED
  BY <1>1, LockInvariant, PTL

-----------------------------------------------------------------------------
(* The duplicate guard.  is_running is the service object's word for "a loop  *)
(* of mine is past its start"; while no process dies, the word is true: only  *)
(* a loop's beginning sets the flag, and only its exit ends the loop.  (A     *)
(* process that dies leaves a fresh status file behind, which its successor   *)
(* believes: the run monitor_restart.)                                        *)

Under(l) == ~At(l, "free") /\ ~At(l, "created")

\* The flag of a process has a loop behind it.
FlagIsTrue ==
    \A p \in Procs : running[p] => \E l \in Loops : loop[l].proc = p /\ Under(l)

\* A process that is not up has left nothing: no flag, no file, no loop.
DownIsClean ==
    \A p \in Procs \ up : /\ ~running[p] /\ ~file[p]
                          /\ \A l \in Loops : loop[l].proc = p => At(l, "free")

HeedInv == TypeOK /\ FlagIsTrue /\ DownIsClean

\* What a step of loop l may do to the flags, when l's process is p: l stays or
\* comes to be under way, or the flag of p is not set afterwards.
LEMMA HeedLoop ==
    ASSUME HeedInv, TypeOK', NEW l \in Loops, ~At(l, "free"), up' = up,
           \A k \in Loops \ {l} : loop'[k] = loop[k],
           loop'[l] = Free \/ loop'[l].proc = loop[l].proc,
           \A p \in Procs \ {loop[l].proc} : running'[p] = running[p] /\ file'[p] = file[p],
           \/ ~running'[loop[l].proc]
           \/ loop'[l].proc = loop[l].proc /\ ~At(l, "free")' /\ ~At(l, "created")'
           \/ /\ running'[loop[l].proc] = running[loop[l].proc]
              /\ ~Under(l)
    PROVE  HeedInv'
<1>1. loop[l].proc \in up /\ loop[l].proc \in Procs
  BY DEF HeedInv, DownIsClean, TypeOK, Loop
<1>2. FlagIsTrue'
  <2> SUFFICES ASSUME NEW p \in Procs, running'[p]
               PROVE  \E k \in Loops : loop'[k].proc = p /\ loop'[k].pc # "free"
                                                        /\ loop'[k].pc # "created"
    BY DEF FlagIsTrue, Under, At
  <2>1. CASE p = loop[l].proc
    <3>1. CASE loop'[l].proc = loop[l].proc /\ ~At(l, "free")' /\ ~At(l, "created")'
      BY <2>1, <3>1 DEF At
    <3>2. CASE running'[p] = running[p] /\ ~Under(l)
      BY <2>1, <3>2 DEF HeedInv, FlagIsTrue, Under, At
    <3>3. QED BY <2>1, <3>1, <3>2
  <2>2. CASE p # loop[l].proc
    <3>1. PICK k \in Loops : loop[k].proc = p /\ Under(k)
      BY <2>2 DEF HeedInv, FlagIsTrue
    <3>2. k # l
      BY <2>2, <3>1
    <3>3. QED BY <3>1, <3>2 DEF Under, At
  <2>3. QED BY <2>1, <2>2
<1>3. DownIsClean'
  <2> SUFFICES ASSUME NEW p \in Procs, p \notin up
               PROVE  /\ ~running'[p] /\ ~file'[p]
                      /\ \A k \in Loops : loop'[k].proc = p => loop'[k].pc = "free"
    BY DEF DownIsClean, At
  <2>1. p # loop[l].proc
    BY <1>1
  <2>2. loop'[l].proc = p => loop'[l].pc = "free"
    BY <2>1 DEF Free
  <2>3. QED BY <2>1, <2>2 DEF HeedInv, DownIsClean, At
<1>4. QED BY <1>2, <1>3 DEF HeedInv

\* A new task of a process that is up changes no flag.
LEMMA HeedTask ==
    ASSUME HeedInv, TypeOK', NEW p \in Procs, NEW b \in BOOLEAN, CreateTask(p, b),
           up' = up \cup {p}, UNCHANGED running, UNCHANGED file
    PROVE  HeedInv'
<1>1. PICK l \in Loops :
        /\ At(l, "free")
        /\ loop' = [loop EXCEPT ![l] = [Free EXCEPT !.pc = "created", !.proc = p,
                                                    !.tracked = b]]
  BY DEF CreateTask
<1>2. \A k \in Loops \ {l} : loop'[k] = loop[k]
  BY <1>1 DEF HeedInv, TypeOK
<1>3. loop'[l].proc = p
  BY <1>1, FreeType DEF HeedInv, TypeOK, Loop
<1>4. FlagIsTrue'
  BY <1>1, <1>2 DEF HeedInv, FlagIsTrue, Under, At
<1>5. DownIsClean'
  BY <1>2, <1>3 DEF HeedInv, DownIsClean, At
<1>6. QED BY <1>4, <1>5 DEF HeedInv

\* A step that moves no loop and sets no flag.
LEMMA HeedFrame ==
    ASSUME HeedInv, TypeOK', up' = up,
           \A l \in Loops : loop'[l].pc = loop[l].pc /\ loop'[l].proc = loop[l].proc,
           \A p \in Procs : (running'[p] => running[p]) /\ (file'[p] => file[p] \/ running[p])
    PROVE  HeedInv'
BY DEF HeedInv, FlagIsTrue, DownIsClean, Under, At

LEMMA HeedStep ==
    ASSUME "crash" \notin Faults, HeedInv, TypeOK', [Next]_vars
    PROVE  HeedInv'
<1>0. /\ TypeOK /\ \A l \in Loops : loop[l] \in Loop /\ loop[l].proc \in Procs
      /\ running \in [Procs -> BOOLEAN] /\ file \in [Procs -> BOOLEAN]
      /\ loop \in [Loops -> Loop] /\ fixing \subseteq up
  BY DEF HeedInv, TypeOK, Loop
<1>1. Free.pc = "free"
  BY DEF Free
<1>2. ASSUME NEW p \in Procs, Boot(p) PROVE HeedInv'
  <2>1. /\ ~running[p] /\ ~file[p] /\ p \notin up
        /\ \A l \in Loops : loop[l].proc = p => At(l, "free")
    BY <1>2 DEF Boot, HeedInv, DownIsClean
  <2>2. running' = running /\ file' = file /\ up' = up \cup {p}
    BY <1>0, <1>2, <2>1 DEF Boot
  <2>3. CASE CreateTask(p, TRUE)
    BY <2>2, <2>3, HeedTask
  <2>4. CASE loop' = loop
    BY <2>1, <2>2, <2>4 DEF HeedInv, FlagIsTrue, DownIsClean, Under, At
  <2>5. QED BY <1>2, <2>3, <2>4 DEF Boot
<1>3. ASSUME NEW p \in Procs, StartServices(p) \/ FixRestarts(p) PROVE HeedInv'
  <2>1. CreateTask(p, FALSE) /\ UNCHANGED running /\ UNCHANGED file /\ up' = up
    BY <1>3 DEF StartServices, FixRestarts
  <2>2. p \in up
    BY <1>0, <1>3 DEF StartServices, FixRestarts
  <2>3. up' = up \cup {p}
    BY <2>1, <2>2
  <2>4. QED BY <2>1, <2>3, HeedTask
<1>4. ASSUME NEW p \in Procs, StopServices(p) \/ FixHealth(p) PROVE HeedInv'
  <2>1. StopLoops(p) /\ up' = up
    BY <1>4 DEF StopServices, FixHealth
  <2>2. \A l \in Loops : loop'[l].pc = loop[l].pc /\ loop'[l].proc = loop[l].proc
    BY <1>0, <2>1 DEF StopLoops, Loop
  <2>3. \A q \in Procs : (running'[q] => running[q]) /\ (file'[q] => file[q] \/ running[q])
    BY <1>0, <2>1 DEF StopLoops, Persist
  <2>4. QED BY <2>1, <2>2, <2>3, HeedFrame
<1>5. ASSUME NEW p \in Procs, AgeFile(p) PROVE HeedInv'
  BY <1>0, <1>5, HeedFrame DEF AgeFile
<1>6. ASSUME NEW l \in Loops, DropConnection(l) PROVE HeedInv'
  <2>1. \A k \in Loops : loop'[k].pc = loop[k].pc /\ loop'[k].proc = loop[k].proc
    BY <1>0, <1>6 DEF DropConnection, Loop
  <2>2. QED BY <1>6, <2>1, HeedFrame DEF DropConnection
<1>7. ASSUME NEW l \in Loops, Exit(l), ~At(l, "free"), up' = up PROVE HeedInv'
  <2>1. /\ loop'[l] = Free /\ \A k \in Loops \ {l} : loop'[k] = loop[k]
        /\ ~running'[loop[l].proc]
        /\ \A p \in Procs \ {loop[l].proc} : running'[p] = running[p] /\ file'[p] = file[p]
    BY <1>0, <1>7 DEF Exit, Persist
  <2>2. QED BY <1>7, <2>1, HeedLoop
<1>8. ASSUME NEW l \in Loops, ~At(l, "free"), up' = up, running' = running,
             Persist(loop[l].proc) \/ file' = file,
             \A k \in Loops \ {l} : loop'[k] = loop[k],
             loop'[l].proc = loop[l].proc,
             loop'[l].pc \notin {"free", "created"}
      PROVE  HeedInv'
  <2>1. \A p \in Procs \ {loop[l].proc} : running'[p] = running[p] /\ file'[p] = file[p]
    BY <1>0, <1>8 DEF Persist
  <2>2. ~At(l, "free")' /\ ~At(l, "created")'
    BY <1>8 DEF At
  <2>3. QED BY <1>8, <2>1, <2>2, HeedLoop
<1>9. ASSUME NEW l \in Loops, At(l, "created"), loop' = [loop EXCEPT ![l] = Free],
             UNCHANGED <<up, running, file>>
      PROVE  HeedInv'
  <2>1. loop'[l] = Free /\ \A k \in Loops \ {l} : loop'[k] = loop[k]
    BY <1>0, <1>9
  <2>2. ~At(l, "free") /\ ~Under(l)
    BY <1>9 DEF At, Under
  <2>3. QED BY <1>9, <2>1, <2>2, HeedLoop
<1>10. ASSUME NEW l \in Loops, Begin(l) PROVE HeedInv'
  <2>1. CASE loop' = [loop EXCEPT ![l] = Free] /\ UNCHANGED <<running, file>>
    BY <1>9, <1>10, <2>1 DEF Begin
  <2>2. CASE /\ Goto(l, "ready") /\ Persist(loop[l].proc)
             /\ running' = [running EXCEPT ![loop[l].proc] = TRUE]
    <3>1. /\ loop'[l].pc = "ready" /\ loop'[l].proc = loop[l].proc
          /\ \A k \in Loops \ {l} : loop'[k] = loop[k]
      BY <1>0, <2>2 DEF Goto, Loop
    <3>2. \A p \in Procs \ {loop[l].proc} : running'[p] = running[p] /\ file'[p] = file[p]
      BY <1>0, <2>2 DEF Persist
    <3>3. ~At(l, "free") /\ up' = up /\ ~At(l, "free")' /\ ~At(l, "created")'
      BY <1>10, <3>1 DEF Begin, At
    <3>4. QED BY <3>1, <3>2, <3>3, HeedLoop
  <2>3. QED BY <1>10, <2>1, <2>2 DEF Begin
<1>11. ASSUME NEW l \in Loops, TryLock(l) \/ Release(l) PROVE HeedInv'
  <2>1. /\ ~At(l, "free") /\ up' = up /\ running' = running /\ Persist(loop[l].proc)
    BY <1>11 DEF TryLock, Release, At
  <2>2. /\ loop'[l].proc = loop[l].proc /\ loop'[l].pc \in {"cycle", "sleep"}
        /\ \A k \in Loops \ {l} : loop'[k] = loop[k]
    <3>1. CASE Goto(l, "sleep")
      BY <1>0, <3>1 DEF Goto, Loop
    <3>2. CASE \E n \in 0..MaxCoins : loop' = [loop EXCEPT ![l].pc = "cycle", ![l].coins = n,
                                                           ![l].dropped = FALSE]
      BY <1>0, <3>2 DEF Loop
    <3>3. QED BY <1>11, <3>1, <3>2 DEF TryLock, Release
  <2>3. QED BY <1>8, <2>1, <2>2
<1>12. ASSUME NEW l \in Loops, StartCoin(l) \/ EndCoin(l) \/ Finish(l) \/ Timeout(l)
       PROVE  HeedInv'
  <2>1. ~At(l, "free") /\ UNCHANGED <<up, running, file>>
    BY <1>12 DEF StartCoin, EndCoin, Finish, Timeout, At
  <2> DEFINE Moved == /\ loop'[l].proc = loop[l].proc /\ loop'[l].pc \in InCycle
                      /\ \A k \in Loops \ {l} : loop'[k] = loop[k]
  <2>2. StartCoin(l) => Moved
    BY <1>0 DEF StartCoin, Loop, InCycle
  <2>3. EndCoin(l) \/ Finish(l) => Moved
    BY <1>0 DEF EndCoin, Finish, Goto, Loop, InCycle
  <2>4. Timeout(l) => Moved
    BY <1>0 DEF Timeout, Loop, InCycle
  <2>5. Moved
    BY <1>12, <2>2, <2>3, <2>4
  <2>6. QED BY <1>8, <2>1, <2>5 DEF InCycle
<1>13. ASSUME NEW l \in Loops, Cancelled(l) PROVE HeedInv'
  <2>1. CASE /\ At(l, "coin") /\ UNCHANGED <<running, file>>
             /\ loop' = [loop EXCEPT ![l].pc = "unwind", ![l].hung = FALSE]
    <3>1. /\ loop'[l].pc = "unwind" /\ loop'[l].proc = loop[l].proc
          /\ \A k \in Loops \ {l} : loop'[k] = loop[k]
      BY <1>0, <2>1 DEF Loop
    <3>2. ~At(l, "free") /\ up' = up
      BY <1>13, <2>1 DEF Cancelled, At
    <3>3. QED BY <1>8, <2>1, <3>1, <3>2
  <2>2. CASE At(l, "sleep") /\ Exit(l)
    BY <1>7, <1>13, <2>2 DEF Cancelled, At
  <2>3. CASE At(l, "created") /\ loop' = [loop EXCEPT ![l] = Free] /\ UNCHANGED <<running, file>>
    BY <1>9, <1>13, <2>3 DEF Cancelled
  <2>4. QED BY <1>13, <2>1, <2>2, <2>3 DEF Cancelled
<1>14. ASSUME NEW l \in Loops, Unwind(l) PROVE HeedInv'
  BY <1>7, <1>14 DEF Unwind, At
<1>15. ASSUME NEW l \in Loops, Wake(l) PROVE HeedInv'
  <2>1. CASE Goto(l, "ready") /\ UNCHANGED <<running, file>>
    <3>1. /\ loop'[l].pc = "ready" /\ loop'[l].proc = loop[l].proc
          /\ \A k \in Loops \ {l} : loop'[k] = loop[k]
      BY <1>0, <2>1 DEF Goto, Loop
    <3>2. ~At(l, "free") /\ up' = up
      BY <1>15 DEF Wake, At
    <3>3. QED BY <1>8, <2>1, <3>1, <3>2
  <2>2. CASE Exit(l)
    BY <1>7, <1>15, <2>2 DEF Wake, At
  <2>3. QED BY <1>15, <2>1, <2>2 DEF Wake
<1>16. CASE UNCHANGED vars
  BY <1>0, <1>16, HeedFrame DEF vars
<1>17. QED
  BY <1>2, <1>3, <1>4, <1>5, <1>6, <1>10, <1>11, <1>12, <1>13, <1>14, <1>15, <1>16
     DEF Next, Continue, Crash

\* As long as no process dies, the only loop of its process is never turned away:
\* a flag that is set has another loop behind it, however often the control
\* routes stop and start and cancel, connections drop and cycles time out
\* (SignalMonitorService.start, "already running, skipping duplicate start").
THEOREM StartHeededUntilCrash == ASSUME "crash" \notin Faults PROVE Spec => StartIsHeeded
<1>1. Init /\ TypeOK => HeedInv
  <2>1. Free.pc = "free"
    BY DEF Free
  <2>2. QED BY <2>1 DEF Init, HeedInv, TypeOK, FlagIsTrue, DownIsClean, At
<1>2. HeedInv /\ TypeOK' /\ [Next]_vars => HeedInv'
  BY HeedStep
<1>3. HeedInv => \A l \in Loops : Begin(l) /\ LoopsOf(loop[l].proc) = {l} => loop'[l].pc = "ready"
  <2> SUFFICES ASSUME HeedInv, NEW l \in Loops, Begin(l), LoopsOf(loop[l].proc) = {l}
               PROVE  loop'[l].pc = "ready"
    OBVIOUS
  <2>1. loop[l] \in Loop /\ loop[l].proc \in Procs
    BY DEF HeedInv, TypeOK, Loop
  <2>2. ~running[loop[l].proc]
    <3>1. \A k \in Loops : loop[k].proc = loop[l].proc /\ Under(k) => k = l
      BY DEF LoopsOf, Under
    <3>2. ~Under(l)
      BY DEF Begin, Under
    <3>3. QED BY <2>1, <3>1, <3>2 DEF HeedInv, FlagIsTrue
  <2>3. Goto(l, "ready")
    BY <2>2 DEF Begin
  <2>4. QED BY <2>1, <2>3 DEF HeedInv, TypeOK, Goto, Loop
<1>4. QED
  BY <1>1, <1>2, <1>3, TypeCorrect, PTL DEF Spec, StartIsHeeded
===============================================================================
