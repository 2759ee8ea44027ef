--------------------------- MODULE MCCreationLock ---------------------------
(***************************************************************************)
(* CreationLock with a caller in each of two processes.                    *)
(***************************************************************************)
EXTENDS CreationLock

\* Each process, its caller and the connections of its pool.
MCCallers == {"history sync", "canary check"}
MCProcessOf(s) == IF s = "history sync" THEN "primary" ELSE "canary"
MCConnections == {"p1", "p2", "c1", "c2"}
MCPoolOf(c) == IF c \in {"p1", "p2"} THEN "primary" ELSE "canary"
=============================================================================
