----------------------------- MODULE OcoPromise -----------------------------
(***************************************************************************)
(* What the synchronisation promises for protective legs, as the exchange  *)
(* sees them: nothing is cancelled on behalf of a group before one of its  *)
(* legs has filled, and from then on no other leg of it stays for ever.    *)
(***************************************************************************)
CONSTANTS
    Legs,       \* the stop-loss and take-profit orders
    Group(_)    \* the legs that stand or fall together

VARIABLE leg    \* "live", "filled", "ended" (by the exchange, the user) or "cancelled"

TypeOK == leg \in [Legs -> {"live", "filled", "ended", "cancelled"}]

\* Some leg of l's group has filled.
Decided(l) == \E f \in Legs : Group(f) = Group(l) /\ leg[f] = "filled"

Becomes(l, s) == leg' = [leg EXCEPT ![l] = s]

Init == leg = [l \in Legs |-> "live"]

\* With a native pair the exchange ends the others in the same step.
Fill(l) ==
    /\ leg[l] = "live"
    /\ \E S \in SUBSET {g \in Legs : Group(g) = Group(l) /\ g # l /\ leg[g] = "live"} :
          leg' = [g \in Legs |-> IF g = l THEN "filled"
                                 ELSE IF g \in S THEN "ended" ELSE leg[g]]

End(l) == leg[l] = "live" /\ Becomes(l, "ended")

Cancel(l) == leg[l] = "live" /\ Decided(l) /\ Becomes(l, "cancelled")

Next == \E l \in Legs : Fill(l) \/ End(l) \/ Cancel(l)

Steps == Init /\ [][Next]_leg

Spec == Steps /\ \A l \in Legs : WF_leg(Cancel(l))
=============================================================================
