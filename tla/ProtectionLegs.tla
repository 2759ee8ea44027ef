--------------------------- MODULE ProtectionLegs ---------------------------
(***************************************************************************)
(* The stop-loss (SL) and take-profit (TP) orders that protect one filled  *)
(* entry ("parent"), and the calls of tp_sl_order_creator.py and           *)
(* sl_tp_protection.py that place, look up and cancel them.                *)
(*                                                                         *)
(* Each leg has two lives: what the exchange holds (exch) and what the     *)
(* ExchangeOrder row of the database says (row).  The code decides on rows *)
(* and acts on the exchange, and every call below is modelled by the SET   *)
(* of outcomes it can have on both, so that a caller picks one with \E.    *)
(*                                                                         *)
(* Faults names the faults an instance allows:                             *)
(*   "refused"  a placement is answered with an error                      *)
(*   "disabled" a placement is answered with 140001 (API_DISABLED)         *)
(*   "lost"     a placement is accepted but its answer is an exception     *)
(*   "unsaved"  the row of an accepted order cannot be committed           *)
(*   "deadTP"   an accepted TP is REJECTED at once (seen by the poll)      *)
(*   "deadSL"   an accepted SL is REJECTED at once (nobody polls it)       *)
(*   "stuck"    a cancellation is refused                                  *)
(*   "unmarked" a cancelled leg's row cannot be committed as CANCELLED     *)
(***************************************************************************)
EXTENDS Naturals, Sequences, FiniteSets, FiniteSetsExt

CONSTANTS Faults     \* the faults this instance allows

Roles == {"SL", "TP"}
ExchStates == {"live", "cancelled", "rejected"}
RowStates == {"none", "active", "cancelled", "rejected"}
Leg == [role : Roles, exch : ExchStates, row : RowStates]

NewLeg(role, exch, row) == [role |-> role, exch |-> exch, row |-> row]

-----------------------------------------------------------------------------
(* What the database and the exchange hold.                                *)

ActiveRows(legs, role) ==
    {i \in DOMAIN legs : legs[i].role = role /\ legs[i].row = "active"}

\* Mutation of ActiveLeg: the row of a stop-loss is not found.
MutActiveTpOnly(legs, role) ==
    IF role = "SL" \/ ActiveRows(legs, role) = {} THEN 0 ELSE Min(ActiveRows(legs, role))

\* get_active_protection_order: the oldest active row of the role, 0 if none.
ActiveLeg(legs, role) ==
    IF ActiveRows(legs, role) = {} THEN 0 ELSE Min(ActiveRows(legs, role))

\* has_rejected_protection_order
HasRejected(legs, role) ==
    \E i \in DOMAIN legs : legs[i].role = role /\ legs[i].row = "rejected"

LiveLegs(legs, role) ==
    {i \in DOMAIN legs : legs[i].role = role /\ legs[i].exch = "live"}

IsLive(legs, role) == LiveLegs(legs, role) # {}

-----------------------------------------------------------------------------
(* The answer of a creator: {"order_id": id, "error": err}.                *)

Errors == {"none", "refused", "balance", "disabled", "not_cancelled", "blocked"}
Answer == [id : Nat, err : Errors]
Placed(id) == [id |-> id, err |-> "none"]
Failed(err) == [id |-> 0, err |-> err]
Nothing == [id |-> 0, err |-> "none"]

\* bool(leg.get("order_id")) and not leg.get("error")
Confirmed(answer) == answer.id # 0 /\ answer.err = "none"

Kinds(fault, kinds) == IF fault \in Faults THEN kinds ELSE {}

\* The ways a placement is refused: an error of the exchange (or of the
\* checks before it), possibly for want of balance, or 140001.
Refusals == Kinds("refused", {"refused", "balance"}) \cup Kinds("disabled", {"disabled"})

-----------------------------------------------------------------------------
(* cancel_protection_leg_on_exchange and _cancel_sl_for_balance_recovery.  *)

\* Mutation of CancelLeg: a refused cancellation is recorded as done.
MutCancelBelieved(legs, i, live) ==
    LET gone == [legs EXCEPT ![i].exch = IF @ = "live" THEN "cancelled" ELSE @]
    IN  {[legs |-> [gone EXCEPT ![i].row = "cancelled"], ok |-> TRUE]}
        \cup Kinds("stuck", {[legs |-> [legs EXCEPT ![i].row = "cancelled"], ok |-> TRUE]})

\* A leg that is already gone (NOT_FOUND, CANCELLED) counts as cancelled, and a
\* row that cannot be committed does not stop the caller.  With live trading
\* off the broker client answers "CANCELLED" without asking the exchange.
CancelLeg(legs, i, live) ==
    LET gone == IF live THEN [legs EXCEPT ![i].exch = IF @ = "live" THEN "cancelled" ELSE @]
                        ELSE legs
    IN  {[legs |-> [gone EXCEPT ![i].row = "cancelled"], ok |-> TRUE]}
        \cup Kinds("unmarked", {[legs |-> gone, ok |-> TRUE]})
        \cup Kinds("stuck", {[legs |-> legs, ok |-> FALSE]})

-----------------------------------------------------------------------------
(* Placing one leg.                                                        *)

\* An accepted order, with or without its row; a refusal; a lost answer.
PlaceLeg(legs, role) ==
    LET id == Len(legs) + 1
        with(exch, row) == Append(legs, NewLeg(role, exch, row))
    IN  {[legs |-> with("live", "active"), answer |-> Placed(id)]}
        \cup Kinds("unsaved", {[legs |-> with("live", "none"), answer |-> Placed(id)]})
        \cup Kinds("lost", {[legs |-> with("live", "none"), answer |-> Failed("refused")]})
        \cup {[legs |-> legs, answer |-> Failed(e)] : e \in Refusals}

\* create_stop_loss_order: the checks that can refuse (short cover, wallet)
\* come before the reuse of an active row, and the accepted order is never
\* polled: one that dies at once is still answered with its id.
PlaceStopLoss(legs) ==
    LET row == ActiveLeg(legs, "SL")
        id  == Len(legs) + 1
        refused == {[legs |-> legs, answer |-> Failed(e)] : e \in Refusals \ {"disabled"}}
        dead == Append(legs, NewLeg("SL", "rejected", "active"))
    IN  IF row # 0
        THEN {[legs |-> legs, answer |-> Placed(row)]} \cup refused
        ELSE PlaceLeg(legs, "SL")
             \cup Kinds("deadSL", {[legs |-> dead, answer |-> Placed(id)]})

\* create_take_profit_order: an active row is reused first; an accepted order
\* is polled, one found dead is recorded REJECTED and placed once more at a
\* price clear of the market (or given up when there is no such price).
PlaceTakeProfit(legs) ==
    LET row  == ActiveLeg(legs, "TP")
        dead(L) == Append(L, NewLeg("TP", "rejected", "rejected"))
        gaveUp(L) == [legs |-> dead(L), answer |-> Failed("refused")]
    IN  IF row # 0
        THEN {[legs |-> legs, answer |-> Placed(row)]}
        ELSE PlaceLeg(legs, "TP")
             \cup Kinds("deadTP", {gaveUp(legs), gaveUp(dead(legs))}
                                  \cup PlaceLeg(dead(legs), "TP"))

-----------------------------------------------------------------------------
(* create_oco_protection_orders: both legs as one native OCO list.         *)

OcoAnswer == [already : BOOLEAN, sl : Answer, tp : Answer]

OcoFailed(err) == [already |-> FALSE, sl |-> Failed(err), tp |-> Failed(err)]

\* allowed is the answer of can_place_real_order, which this call asks
\* WITHOUT is_protective_order.
PlaceOco(legs, allowed) ==
    LET sl == ActiveLeg(legs, "SL")
        tp == ActiveLeg(legs, "TP")
        n  == Len(legs)
        pair(row) == legs \o <<NewLeg("SL", "live", row), NewLeg("TP", "live", row)>>
        created == [already |-> FALSE, sl |-> Placed(n + 1), tp |-> Placed(n + 2)]
    IN  IF sl # 0 /\ tp # 0
        THEN {[legs |-> legs,
               answer |-> [already |-> TRUE, sl |-> Placed(sl), tp |-> Placed(tp)]]}
        ELSE IF ~allowed
        THEN {[legs |-> legs, answer |-> OcoFailed("blocked")]}
        ELSE {[legs |-> pair("active"), answer |-> created]}
             \cup Kinds("unsaved", {[legs |-> pair("none"), answer |-> created]})
             \cup Kinds("lost", {[legs |-> pair("none"), answer |-> OcoFailed("refused")]})
             \cup {[legs |-> legs, answer |-> OcoFailed(e)] : e \in Refusals}
=============================================================================
