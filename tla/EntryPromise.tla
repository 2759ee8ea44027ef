---------------------------- MODULE EntryPromise ----------------------------
(***************************************************************************)
(* What the fill-time thread of EntryProtection promises for one entry,    *)
(* whatever way it goes about it.  From the moment the fill is confirmed   *)
(* it works on the lot, and cover comes and goes.  It settles a lot that   *)
(* is covered: by a stop-loss at the exchange, by having been closed, or   *)
(* by an operator called to close it.  One lot escapes: having found a     *)
(* stop-loss without a take-profit it may begin a recovery, and that one   *)
(* promises nothing.  A settled lot stays as it is.                        *)
(***************************************************************************)
VARIABLES
    phase,   \* "pending", "working", "recovering", "settled" or "abandoned"
    cover    \* "none", "stop", "flat" or "operator"

vars == <<phase, cover>>

TypeOK == /\ phase \in {"pending", "working", "recovering", "settled", "abandoned"}
          /\ cover \in {"none", "stop", "flat", "operator"}

Init == phase = "pending" /\ cover = "none"

Begin == phase = "pending" /\ phase' = "working" /\ UNCHANGED cover

Abandon == phase = "pending" /\ phase' = "abandoned" /\ UNCHANGED cover

\* Legs are placed, cancelled and placed again.
Work == /\ phase \in {"working", "recovering"}
        /\ cover' \in {"none", "stop"} /\ UNCHANGED phase

\* Only a lot with its stop-loss is worth recovering; doing so may cancel it.
Recover == /\ phase = "working" /\ cover = "stop"
           /\ phase' = "recovering" /\ cover' \in {"none", "stop"}

\* What was at the exchange stays, or the position is closed or handed over.
Settle == /\ phase = "working" /\ phase' = "settled"
          /\ \/ cover = "stop" /\ UNCHANGED cover
             \/ cover' \in {"flat", "operator"}

EndRecovery == phase = "recovering" /\ phase' = "settled" /\ UNCHANGED cover

Next == Begin \/ Abandon \/ Work \/ Recover \/ Settle \/ EndRecovery

Spec == Init /\ [][Next]_vars
=============================================================================
