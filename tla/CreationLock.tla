---------------------------- MODULE CreationLock ----------------------------
(***************************************************************************)
(* The advisory lock under which _create_sl_tp_for_filled_order creates    *)
(* the protection of one unprotected entry, when the order history, the    *)
(* hourly check and the routes find the entry at the same time, in one     *)
(* process or in two.  Nothing fails here: what failures do to one caller  *)
(* is EntryProtection.                                                     *)
(*                                                                         *)
(* The lock belongs to a connection.  A session takes a connection of its  *)
(* process's pool at its first statement and hands it back at each commit, *)
(* with whatever advisory locks it holds.                                  *)
(***************************************************************************)
EXTENDS Naturals, FiniteSets

CONSTANTS
    Callers,      \* the sessions that call the creation
    ProcessOf(_), \* the process a caller runs in: backend-aws or its canary
    Connections,  \* of the pools
    PoolOf(_)     \* the process whose pool a connection belongs to

Roles == {"SL", "TP"}
NoConnection == "no connection"

VARIABLES
    margin,   \* trade_on_margin: two orders, one after the other, or a native OCO
    live,     \* the exchange: per role, how many legs rest
    row,      \* the roles that have an active row
    held,     \* per connection, how often it holds the lock's key of its process
    conn,     \* the connection each session has out
    pc,       \* where each caller is
    missing   \* the roles each caller has found without a leg

vars == <<margin, live, row, held, conn, pc, missing>>

TypeOK ==
    /\ margin \in BOOLEAN
    /\ live \in [Roles -> 0..Cardinality(Callers)] /\ row \subseteq Roles
    /\ held \in [Connections -> 0..Cardinality(Callers)]
    /\ conn \in [Callers -> Connections \cup {NoConnection}]
    /\ pc \in [Callers -> {"start", "sync", "look", "check", "place", "save",
                           "release", "done"}]
    /\ missing \in [Callers -> SUBSET Roles]

Init ==
    /\ margin \in BOOLEAN
    /\ live = [r \in Roles |-> 0] /\ row = {}
    /\ held = [c \in Connections |-> 0]
    /\ conn = [s \in Callers |-> NoConnection]
    /\ pc = [s \in Callers |-> "start"]
    /\ missing = [s \in Callers |-> {}]

Free(s) == {c \in Connections : PoolOf(c) = ProcessOf(s) /\ \A u \in Callers : conn[u] # c}

\* The connection a statement of s goes over.
Uses(s, c) == IF conn[s] # NoConnection THEN c = conn[s] ELSE c \in Free(s)

Keeps(s, c) == conn' = [conn EXCEPT ![s] = c]
HandsBack(s) == conn' = [conn EXCEPT ![s] = NoConnection]
Goto(s, p) == pc' = [pc EXCEPT ![s] = p]

\* _sl_tp_lock_key hashes a string, and each process salts its hashes: the keys of
\* two processes for one entry differ.  A connection may take its lock again.
Locked(c) == \E d \in Connections \ {c} : PoolOf(d) = PoolOf(c) /\ held[d] > 0

TryLock(s) ==
    /\ pc[s] = "start"
    /\ \E c \in Connections :
          /\ Uses(s, c)
          /\ IF Locked(c)
             THEN Goto(s, "done") /\ HandsBack(s) /\ UNCHANGED held
             ELSE Goto(s, "sync") /\ Keeps(s, c) /\ held' = [held EXCEPT ![c] = @ + 1]
    /\ UNCHANGED <<margin, live, row, missing>>

\* sync_open_orders on the same session: it commits, unless the fetch is unverified.
SyncOpenOrders(s) ==
    /\ pc[s] = "sync"
    /\ HandsBack(s) \/ UNCHANGED conn
    /\ Goto(s, "look")
    /\ UNCHANGED <<margin, live, row, held, missing>>

Look(s) ==
    /\ pc[s] = "look"
    /\ \E c \in Connections : Uses(s, c) /\ Keeps(s, c)
    /\ missing' = [missing EXCEPT ![s] = Roles \ row]
    /\ Goto(s, IF Roles \subseteq row THEN "release" ELSE "check")
    /\ UNCHANGED <<margin, live, row, held>>

\* The legs of the next placement: both as a list, or the take-profit first.
Order(s) == IF ~margin THEN Roles
            ELSE IF "TP" \in missing[s] THEN {"TP"} ELSE {"SL"}

\* Where to go on when the legs of a placement are there.
Placed(s) ==
    /\ missing' = [missing EXCEPT ![s] = @ \ Order(s)]
    /\ Goto(s, IF missing[s] \subseteq Order(s) THEN "release" ELSE "check")

\* The creators look once more, and reuse what has come to be there.
CheckAgain(s) ==
    /\ pc[s] = "check"
    /\ \E c \in Connections : Uses(s, c) /\ Keeps(s, c)
    /\ IF Order(s) \subseteq row THEN Placed(s)
       ELSE Goto(s, "place") /\ UNCHANGED missing
    /\ UNCHANGED <<margin, live, row, held>>

Place(s) ==
    /\ pc[s] = "place"
    /\ live' = [r \in Roles |-> IF r \in Order(s) THEN live[r] + 1 ELSE live[r]]
    /\ Goto(s, "save")
    /\ UNCHANGED <<margin, row, held, conn, missing>>

Save(s) ==
    /\ pc[s] = "save"
    /\ row' = row \cup Order(s)
    /\ HandsBack(s) /\ Placed(s)
    /\ UNCHANGED <<margin, live, held>>

\* Of a lock that another connection took, the unlock changes nothing.
Release(s) ==
    /\ pc[s] = "release"
    /\ \E c \in Connections :
          Uses(s, c) /\ held' = [held EXCEPT ![c] = IF @ > 0 THEN @ - 1 ELSE 0]
    /\ HandsBack(s) /\ Goto(s, "done")
    /\ UNCHANGED <<margin, live, row, missing>>

Next ==
    \E s \in Callers :
        \/ TryLock(s) \/ SyncOpenOrders(s) \/ Look(s) \/ CheckAgain(s)
        \/ Place(s) \/ Save(s) \/ Release(s)

Spec == Init /\ [][Next]_vars

-----------------------------------------------------------------------------

\* However many find the entry unprotected, it gets one stop-loss and one
\* take-profit: a second of either would close the position twice over.
OnePairPerEntry == \A r \in Roles : live[r] <= 1
=============================================================================
