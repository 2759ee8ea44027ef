--------------------------- MODULE EntryProtection --------------------------
(***************************************************************************)
(* The protection of one filled entry: the fill-time thread of             *)
(* signal_monitor.py (_create_protection_after_entry_fill), the hourly     *)
(* healer of half-protected lots (_heal_half_protected_tp_parents), and    *)
(* the creation routine both run (_create_sl_tp_impl), call by call, over  *)
(* the legs of ProtectionLegs.  Around them: the entry fills, the exchange *)
(* drops a resting leg, the open-orders sync brings rows up to date, and   *)
(* the operator switches live trading off, throws the kill switch or flips *)
(* the watchlist's trade_on_margin.                                        *)
(*                                                                         *)
(* Further faults an instance may allow:                                   *)
(*   "unseen"   the polls miss a fill that happened                        *)
(*   "raised"   the creation routine raises (a query fails)                *)
(*   "wallet"   a lagging wallet snapshot contradicts a spot entry         *)
(*   "noqty"    the filled quantity cannot be normalised                   *)
(*   "noclose"  the emergency market close is refused                      *)
(*   "drop"     the exchange drops a resting leg                           *)
(*   "margin"   trade_on_margin is flipped while the lot is open           *)
(*   "toggle"   live trading is switched off                               *)
(*   "kill"     the kill switch is thrown                                  *)
(***************************************************************************)
EXTENDS ProtectionLegs

CONSTANTS
    MaxAttempts,   \* SLTP_CREATE_MAX_ATTEMPTS
    MaxHeals,      \* healer passes an instance explores; 0 when healing is off
    OcoFlags,      \* the values SLTP_NATIVE_OCO may have (default TRUE)
    Margins,       \* the values trade_on_margin may start with
    MaxLegs        \* bound on the orders ever placed for the lot

ASSUME EntryProtectionAssumption ==
    /\ MaxAttempts \in Nat \ {0}
    /\ MaxHeals \in Nat
    /\ OcoFlags \subseteq BOOLEAN
    /\ Margins \subseteq BOOLEAN
    /\ MaxLegs \in Nat

VARIABLES
    entry,      \* the entry order on the exchange: "resting" or "filled"
    position,   \* "none", "open" or "flat"
    legs,       \* every SL/TP order placed for the entry, oldest first
    oco,        \* SLTP_NATIVE_OCO, as this deployment sets it
    margin,     \* watchlist.trade_on_margin
    live,       \* the live-trading toggle
    killed,     \* the trading kill switch
    breaker,    \* the conditional-orders breaker is tripped
    fill,       \* the fill-time thread
    heal,       \* the healer
    impl        \* per caller, its activation of the creation routine

vars == <<entry, position, legs, oco, margin, live, killed, breaker, fill, heal, impl>>
env  == <<entry, oco, margin, live, killed>>

Callers == {"fill", "heal"}

-----------------------------------------------------------------------------
(* Results of the creation routine and how callers read them.              *)

Statuses == {"", "already_protected", "raised", "none"}
Result == [status : Statuses, sl : Answer, tp : Answer]

NoResult == [status |-> "none", sl |-> Nothing, tp |-> Nothing]
Raised   == [status |-> "raised", sl |-> Nothing, tp |-> Nothing]

\* Mutation of ConfirmsSL: the status alone is read, not the leg's error.
MutStatusIsEnough(r) == r.status \in {"", "already_protected"}

\* _protection_confirms_stop_loss, _take_profit, _complete
ConfirmsSL(r) == r.status \in {"", "already_protected"} /\ Confirmed(r.sl)
ConfirmsTP(r) == r.status \in {"", "already_protected"} /\ Confirmed(r.tp)
ConfirmsBoth(r) == ConfirmsSL(r) /\ ConfirmsTP(r)

\* _protection_leg_conditional_disabled, on either leg
Disabled(r) == r.sl.err = "disabled" \/ r.tp.err = "disabled"

-----------------------------------------------------------------------------
(* Threads.  impl[c].pc is "idle" when c has no activation running; "back" *)
(* when one has returned and its result waits in impl[c].result.           *)

ImplPcs == {"idle", "read", "oco", "ocoCancel", "ocoPlace", "preCancel",
            "tp", "tpCancel", "tpAgain", "sl", "back"}

\* sl, tp: the existing_sl and existing_tp the routine read; leg, next: the
\* legs ensure_spot_oco_protection has still to cancel; whole: FALSE when
\* the healer calls ensure_spot_oco_protection directly.
Activation == [pc : ImplPcs, whole : BOOLEAN, margin : BOOLEAN,
               sl : Nat, tp : Nat, todo : SUBSET Nat,
               tpAnswer : Answer, tpNew : BOOLEAN, skipTp : BOOLEAN,
               result : Result]

Idle == [pc |-> "idle", whole |-> TRUE, margin |-> FALSE, sl |-> 0, tp |-> 0,
         todo |-> {}, tpAnswer |-> Nothing, tpNew |-> FALSE, skipTp |-> FALSE,
         result |-> NoResult]

FillPcs == {"poll", "start", "attempt", "waiting", "flatten", "gap", "recovery", "done"}
Outcomes == {"none", "unconfirmed", "protected", "flattened", "close_failed",
             "tp_missing", "tp_recovered"}

TypeOK ==
    /\ entry \in {"resting", "filled"}
    /\ position \in {"none", "open", "flat"}
    /\ legs \in Seq(Leg) /\ Len(legs) <= MaxLegs
    /\ {oco, margin, live, killed, breaker} \subseteq BOOLEAN
    /\ fill \in [pc : FillPcs, attempt : 0..MaxAttempts, created : Result,
                 outcome : Outcomes]
    /\ heal \in [pc : {"asleep", "cancel", "waiting"}, passes : 0..MaxHeals, sl : Nat]
    /\ impl \in [Callers -> Activation]

Init ==
    /\ entry = "resting" /\ position = "none"
    /\ legs = <<>>
    /\ oco \in OcoFlags /\ margin \in Margins
    /\ live = TRUE /\ killed = FALSE /\ breaker = FALSE
    /\ fill = [pc |-> "poll", attempt |-> 0, created |-> NoResult, outcome |-> "none"]
    /\ heal = [pc |-> "asleep", passes |-> 0, sl |-> 0]
    /\ impl = [c \in Callers |-> Idle]

-----------------------------------------------------------------------------
(* _create_sl_tp_impl, one action per call to the exchange.                *)

Room(n) == Len(legs) + n <= MaxLegs

\* The routine's own assignments: c moves to act, everything else rests.
Step(c, act) ==
    /\ impl' = [impl EXCEPT ![c] = act]
    /\ UNCHANGED <<env, position, breaker, fill, heal>>

Return(c, result) == [impl[c] EXCEPT !.pc = "back", !.result = result]

Reply(status, sl, tp) == [status |-> status, sl |-> sl, tp |-> tp]

\* The rows and the margin mode decide the path: both legs active, nothing to
\* do; spot, one native OCO; else two standalone orders, TP first.  A live SL
\* that stands in the way of the TP (spot, or a TP already REJECTED) is
\* cancelled before.
Read(c) ==
    LET sl == ActiveLeg(legs, "SL")
        tp == ActiveLeg(legs, "TP")
        act == [impl[c] EXCEPT !.margin = margin, !.sl = sl, !.tp = tp]
        path == CASE tp # 0 -> "sl"
                  [] tp = 0 /\ sl # 0 /\ (margin => HasRejected(legs, "TP")) -> "preCancel"
                  [] OTHER -> "tp"
    IN  /\ impl[c].pc = "read"
        /\ UNCHANGED legs
        /\ \/ /\ sl # 0 /\ tp # 0
              /\ Step(c, Return(c, Reply("already_protected", Placed(sl), Placed(tp))))
           \/ /\ sl = 0 \/ tp = 0
              /\ ~margin /\ oco
              /\ Step(c, [act EXCEPT !.pc = "oco"])
           \/ /\ sl = 0 \/ tp = 0
              /\ margin \/ ~oco
              /\ Step(c, [act EXCEPT !.pc = path,
                                     !.tpAnswer = IF tp # 0 THEN Placed(tp) ELSE Nothing])
           \/ /\ "raised" \in Faults
              /\ Step(c, Return(c, Raised))

\* The caller's reading of an OCO answer: on failure beside a leg that existed,
\* that leg is reported by its id and without an error, cancelled or not.
OcoReply(a, answer) ==
    LET existing(leg, was) == IF was = 0 THEN leg ELSE [id |-> was, err |-> "none"]
    IN  CASE answer.already -> Reply("already_protected", answer.sl, answer.tp)
          [] ~answer.already /\ Confirmed(answer.sl) -> Reply("", answer.sl, answer.tp)
          [] OTHER -> Reply("", existing(answer.sl, a.sl), existing(answer.tp, a.tp))

\* The healer that called ensure_spot_oco_protection itself takes its answer raw.
OcoReturn(c, answer) ==
    Return(c, IF impl[c].whole THEN OcoReply(impl[c], answer)
              ELSE Reply(IF answer.already THEN "already_protected" ELSE "",
                         answer.sl, answer.tp))

\* ensure_spot_oco_protection re-reads a leg it was not given.
EnsureOco(c) ==
    LET a  == impl[c]
        sl == IF a.sl # 0 THEN a.sl ELSE ActiveLeg(legs, "SL")
        tp == IF a.tp # 0 THEN a.tp ELSE ActiveLeg(legs, "TP")
    IN  /\ a.pc = "oco"
        /\ UNCHANGED legs
        /\ IF sl # 0 /\ tp # 0
           THEN Step(c, OcoReturn(c, [already |-> TRUE, sl |-> Placed(sl), tp |-> Placed(tp)]))
           ELSE Step(c, [a EXCEPT !.pc = IF sl = 0 /\ tp = 0 THEN "ocoPlace" ELSE "ocoCancel",
                                  !.todo = {sl, tp} \ {0}])

\* A standalone leg is cancelled so that its quantity is free.  (At most one
\* of the two exists here: with both, EnsureOco has returned.)
CancelForOco(c) ==
    /\ impl[c].pc = "ocoCancel"
    /\ \E i \in impl[c].todo : \E o \in CancelLeg(legs, i, live) :
        /\ legs' = o.legs
        /\ IF o.ok THEN Step(c, [impl[c] EXCEPT !.pc = "ocoPlace", !.todo = {}])
                   ELSE Step(c, OcoReturn(c, OcoFailed("not_cancelled")))

PlaceNativeOco(c) ==
    /\ impl[c].pc = "ocoPlace" /\ Room(2)
    /\ \E o \in PlaceOco(legs, live /\ ~killed) :
        /\ legs' = o.legs
        /\ Step(c, OcoReturn(c, o.answer))

\* Mutation of CancelBeforeTP: the cancelled SL is not forgotten.
MutKeepsCancelledSL(c) ==
    LET a == impl[c]
    IN  /\ a.pc = "preCancel"
        /\ \E o \in CancelLeg(legs, a.sl, live) :
            /\ legs' = o.legs
            /\ Step(c, IF o.ok \/ a.margin THEN [a EXCEPT !.pc = "tp"]
                       ELSE [a EXCEPT !.pc = "sl", !.skipTp = TRUE])

\* _cancel_sl_for_balance_recovery before the TP: spot gives the TP up when the
\* SL cannot be freed, margin goes on beside it.
CancelBeforeTP(c) ==
    LET a == impl[c]
    IN  /\ a.pc = "preCancel"
        /\ \E o \in CancelLeg(legs, a.sl, live) :
            /\ legs' = o.legs
            /\ Step(c, IF o.ok THEN [a EXCEPT !.pc = "tp", !.sl = 0]
                       ELSE IF a.margin THEN [a EXCEPT !.pc = "tp"]
                       ELSE [a EXCEPT !.pc = "sl", !.skipTp = TRUE])

TakeProfit(c) ==
    LET a == impl[c]
        again(answer) == /\ ~Confirmed(answer) /\ a.sl # 0
                         /\ answer.err = "balance" \/ a.margin
    IN  /\ a.pc = "tp" /\ Room(3)
        /\ \E o \in PlaceTakeProfit(legs) :
            /\ legs' = o.legs
            /\ Step(c, [a EXCEPT !.pc = IF again(o.answer) THEN "tpCancel" ELSE "sl",
                                 !.tpAnswer = o.answer, !.tpNew = Confirmed(o.answer)])

\* The TP failed beside a live SL: free the SL and try once more.
CancelAfterTP(c) ==
    LET a == impl[c]
    IN  /\ a.pc = "tpCancel"
        /\ \E o \in CancelLeg(legs, a.sl, live) :
            /\ legs' = o.legs
            /\ Step(c, IF o.ok THEN [a EXCEPT !.pc = "tpAgain", !.sl = 0]
                               ELSE [a EXCEPT !.pc = "sl"])

TakeProfitAgain(c) ==
    /\ impl[c].pc = "tpAgain" /\ Room(3)
    /\ \E o \in PlaceTakeProfit(legs) :
        /\ legs' = o.legs
        /\ Step(c, [impl[c] EXCEPT !.pc = "sl", !.tpAnswer = o.answer,
                                   !.tpNew = Confirmed(o.answer)])

\* Mutation of StopLoss: a failed TP ends the routine before its SL.
MutNoStopWithoutTP(c) ==
    LET a == impl[c]
    IN  /\ a.pc = "sl" /\ (a.sl = 0 => Room(1))
        /\ IF a.sl # 0 \/ ~Confirmed(a.tpAnswer)
           THEN /\ UNCHANGED legs
                /\ Step(c, Return(c, Reply("", IF a.sl = 0 THEN Nothing ELSE Placed(a.sl),
                                           a.tpAnswer)))
           ELSE \E o \in PlaceStopLoss(legs) :
                /\ legs' = o.legs
                /\ Step(c, Return(c, Reply("", o.answer, a.tpAnswer)))

\* The SL of the dual path: the one that lives on, or a new one.
StopLoss(c) ==
    LET a == impl[c]
        status(sl) == IF sl # 0 /\ (a.tp # 0 \/ a.skipTp) /\ ~a.tpNew
                      THEN "already_protected" ELSE ""
    IN  /\ a.pc = "sl" /\ (a.sl = 0 => Room(1))
        /\ IF a.sl # 0
           THEN /\ UNCHANGED legs
                /\ Step(c, Return(c, Reply(status(a.sl), Placed(a.sl), a.tpAnswer)))
           ELSE \E o \in PlaceStopLoss(legs) :
                /\ legs' = o.legs
                /\ Step(c, Return(c, Reply("", o.answer, a.tpAnswer)))

Create(c) == \/ Read(c) \/ EnsureOco(c) \/ CancelForOco(c) \/ PlaceNativeOco(c)
             \/ CancelBeforeTP(c) \/ TakeProfit(c) \/ CancelAfterTP(c)
             \/ TakeProfitAgain(c) \/ StopLoss(c)

-----------------------------------------------------------------------------
(* _create_protection_after_entry_fill                                     *)

Enter(c, pc) == impl' = [impl EXCEPT ![c] = [Idle EXCEPT !.pc = pc]]

Settle(outcome) == fill' = [fill EXCEPT !.pc = "done", !.outcome = outcome]

\* The polls confirm the fill, or give up: no protection and no flatten.
PollFill ==
    /\ fill.pc = "poll"
    /\ \/ entry = "filled" /\ fill' = [fill EXCEPT !.pc = "start"]
       \/ (entry = "resting" \/ "unseen" \in Faults) /\ Settle("unconfirmed")
    /\ UNCHANGED <<env, position, legs, breaker, heal, impl>>

\* Quantity, then the idempotency check on both rows.
StartProtection ==
    LET both == ActiveLeg(legs, "SL") # 0 /\ ActiveLeg(legs, "TP") # 0
    IN  /\ fill.pc = "start"
        /\ \/ "noqty" \in Faults /\ fill' = [fill EXCEPT !.pc = "flatten"]
           \/ both /\ Settle("protected")
           \/ ~both /\ fill' = [fill EXCEPT !.pc = "attempt"]
        /\ UNCHANGED <<env, position, legs, breaker, heal, impl>>

\* _create_sl_tp_for_filled_order(skip_gate=True): no lock; the wallet check
\* can end a spot call before the routine, with neither ids nor errors.
CallCreate == \/ Enter("fill", "read")
              \/ "wallet" \in Faults /\ ~margin /\ Enter("fill", "back")

\* Mutation of Attempt: the attempts are not counted.
MutAttemptUncounted ==
    /\ fill.pc = "attempt"
    /\ fill' = [fill EXCEPT !.pc = "waiting"]
    /\ CallCreate
    /\ UNCHANGED <<env, position, legs, breaker, heal>>

Attempt ==
    /\ fill.pc = "attempt"
    /\ fill' = [fill EXCEPT !.pc = "waiting", !.attempt = @ + 1]
    /\ CallCreate
    /\ UNCHANGED <<env, position, legs, breaker, heal>>

\* Mutation of LastAttempt: one attempt more than the configured number.
MutOneAttemptMore(r) == ConfirmsBoth(r) \/ Disabled(r) \/ fill.attempt > MaxAttempts

\* What the loop does with an attempt's result.
LastAttempt(r) == ConfirmsBoth(r) \/ Disabled(r) \/ fill.attempt = MaxAttempts

\* Mutation of Judge: the two legs are confused.
MutJudgeLegsSwapped ==
    LET r == impl["fill"].result
        next == CASE ~LastAttempt(r) -> "attempt"
                  [] LastAttempt(r) /\ ~ConfirmsTP(r) /\ ~ConfirmsSL(r) -> "flatten"
                  [] LastAttempt(r) /\ ConfirmsBoth(r) -> "done"
                  [] OTHER -> "gap"
    IN  /\ fill.pc = "waiting" /\ impl["fill"].pc = "back"
        /\ fill' = [fill EXCEPT !.pc = next, !.created = r,
                                !.outcome = IF next = "done" THEN "protected" ELSE @]
        /\ Enter("fill", "idle")
        /\ UNCHANGED <<env, position, legs, breaker, heal>>

Judge ==
    LET r == impl["fill"].result
        next == CASE ~LastAttempt(r) -> "attempt"
                  [] LastAttempt(r) /\ ~ConfirmsSL(r) -> "flatten"
                  [] LastAttempt(r) /\ ConfirmsSL(r) /\ ~ConfirmsTP(r) -> "gap"
                  [] OTHER -> "done"
    IN  /\ fill.pc = "waiting" /\ impl["fill"].pc = "back"
        /\ fill' = [fill EXCEPT !.pc = next, !.created = r,
                                !.outcome = IF next = "done" THEN "protected" ELSE @]
        /\ Enter("fill", "idle")
        /\ UNCHANGED <<env, position, legs, breaker, heal>>

\* Mutation of Flatten: a refused close is taken for a closed position.
MutFlattenBelieved ==
    /\ fill.pc = "flatten"
    /\ breaker' = (breaker \/ Disabled(fill.created))
    /\ position' \in {position, "flat"}
    /\ Settle("flattened")
    /\ UNCHANGED <<env, legs, heal, impl>>

\* _flatten_unprotected_entry: trip the breaker on 140001, close at market,
\* and call for manual intervention when the close fails.  The market close is
\* an order the kill switch refuses (require_mutation_allowed_for_broker).
Flatten ==
    /\ fill.pc = "flatten"
    /\ breaker' = (breaker \/ Disabled(fill.created))
    /\ \/ ~killed /\ position' = "flat" /\ Settle("flattened")
       \/ (killed \/ "noclose" \in Faults) /\ UNCHANGED position /\ Settle("close_failed")
    /\ UNCHANGED <<env, legs, heal, impl>>

\* SL but no TP: on margin the SL is cancelled first, and a failure to cancel
\* it is only logged; then one more creation.
GapCancel ==
    LET sl == ActiveLeg(legs, "SL")
    IN  /\ fill.pc = "gap"
        /\ IF margin /\ sl # 0
           THEN \E o \in CancelLeg(legs, sl, live) : legs' = o.legs
           ELSE UNCHANGED legs
        /\ CallCreate
        /\ fill' = [fill EXCEPT !.pc = "recovery"]
        /\ UNCHANGED <<env, position, breaker, heal>>

\* An exception leaves the earlier result in force; a TP still missing is
\* reported with the words "SL is live".
GapJudge ==
    LET r == impl["fill"].result
        created == IF r = Raised THEN fill.created ELSE r
    IN  /\ fill.pc = "recovery" /\ impl["fill"].pc = "back"
        /\ fill' = [fill EXCEPT !.pc = "done", !.created = created,
                       !.outcome = IF ConfirmsBoth(r) THEN "protected"
                                   ELSE IF ConfirmsTP(created) THEN "tp_recovered"
                                   ELSE "tp_missing"]
        /\ Enter("fill", "idle")
        /\ UNCHANGED <<env, position, legs, breaker, heal>>

FillThread == \/ PollFill \/ StartProtection \/ Attempt \/ Judge \/ Flatten
              \/ GapCancel \/ GapJudge \/ Create("fill")

-----------------------------------------------------------------------------
(* _heal_half_protected_tp_parents, for this parent                        *)

\* should_skip_rejected_tp_backfill, with both heal paths allowed
SkipRejected == HasRejected(legs, "TP") /\ ~margin /\ ~oco

\* The parent row is FILLED, has an active SL and no active TP.  Spot with
\* native OCO goes straight to ensure_spot_oco_protection, else the SL goes first.
HealStart ==
    LET sl == ActiveLeg(legs, "SL")
        ensure == [Idle EXCEPT !.pc = "oco", !.whole = FALSE, !.sl = sl]
        begin(pc) == heal' = [pc |-> pc, passes |-> heal.passes + 1, sl |-> sl]
    IN  /\ heal.pc = "asleep" /\ heal.passes < MaxHeals
        /\ entry = "filled" /\ position = "open"
        /\ sl # 0 /\ ActiveLeg(legs, "TP") = 0 /\ ~SkipRejected
        /\ IF ~margin /\ oco
           THEN impl' = [impl EXCEPT !["heal"] = ensure] /\ begin("waiting")
           ELSE UNCHANGED impl /\ begin("cancel")
        /\ UNCHANGED <<env, position, legs, breaker, fill>>

\* Mutation of HealCancel: the pass ends once the SL is cancelled.
MutHealCancelOnly ==
    /\ heal.pc = "cancel"
    /\ \E o \in CancelLeg(legs, heal.sl, live) : legs' = o.legs
    /\ heal' = [heal EXCEPT !.pc = "asleep", !.sl = 0]
    /\ UNCHANGED <<env, position, breaker, fill, impl>>

HealCancel ==
    /\ heal.pc = "cancel"
    /\ \E o \in CancelLeg(legs, heal.sl, live) :
        /\ legs' = o.legs
        /\ IF o.ok
           THEN Enter("heal", "read") /\ heal' = [heal EXCEPT !.pc = "waiting"]
           ELSE UNCHANGED impl /\ heal' = [heal EXCEPT !.pc = "asleep", !.sl = 0]
    /\ UNCHANGED <<env, position, breaker, fill>>

\* Healed or failed, the pass only reports it.
HealEnd ==
    /\ heal.pc = "waiting" /\ impl["heal"].pc = "back"
    /\ Enter("heal", "idle")
    /\ heal' = [heal EXCEPT !.pc = "asleep", !.sl = 0]
    /\ UNCHANGED <<env, position, legs, breaker, fill>>

Healer == HealStart \/ HealCancel \/ HealEnd \/ Create("heal")

-----------------------------------------------------------------------------
(* Everyone else                                                           *)

FillEntry ==
    /\ entry = "resting"
    /\ entry' = "filled" /\ position' = "open"
    /\ UNCHANGED <<legs, oco, margin, live, killed, breaker, fill, heal, impl>>

\* The exchange drops a resting TP (rejected or expired after the fact).
DropLeg ==
    /\ "drop" \in Faults
    /\ \E i \in LiveLegs(legs, "TP") : legs' = [legs EXCEPT ![i].exch = "rejected"]
    /\ UNCHANGED <<env, position, breaker, fill, heal, impl>>

\* sync_open_orders gives the row of a leg that is gone its final status.
SyncRow ==
    /\ \E i \in DOMAIN legs :
        /\ legs[i].row = "active" /\ legs[i].exch # "live"
        /\ legs' = [legs EXCEPT ![i].row = legs[i].exch]
    /\ UNCHANGED <<env, position, breaker, fill, heal, impl>>

FlipMargin ==
    /\ "margin" \in Faults
    /\ margin' = ~margin
    /\ UNCHANGED <<entry, position, legs, oco, live, killed, breaker, fill, heal, impl>>

SwitchOff ==
    /\ "toggle" \in Faults /\ live
    /\ live' = FALSE
    /\ UNCHANGED <<entry, position, legs, oco, margin, killed, breaker, fill, heal, impl>>

EmergencyStop ==
    /\ "kill" \in Faults /\ ~killed
    /\ killed' = TRUE
    /\ UNCHANGED <<entry, position, legs, oco, margin, live, breaker, fill, heal, impl>>

Settled == fill.pc = "done" /\ heal.pc = "asleep" /\ UNCHANGED vars

Next == \/ FillThread \/ Healer \/ FillEntry \/ DropLeg \/ SyncRow
        \/ FlipMargin \/ SwitchOff \/ EmergencyStop \/ Settled

\* The thread runs to its end (every call it makes answers or raises), and so
\* does a healer's pass once begun.
Spec == Init /\ [][Next]_vars /\ WF_vars(FillThread)
             /\ WF_vars(HealCancel \/ HealEnd \/ Create("heal"))
-----------------------------------------------------------------------------
(* Properties                                                              *)

ThreadDone == fill.pc = "done" /\ fill.outcome # "unconfirmed" /\ heal.pc = "asleep"

\* "A freshly-opened entry must NEVER be left without a stop-loss"
\* (signal_monitor.py:10087): once the thread is done with a confirmed fill,
\* a stop-loss rests on the exchange, or the position is closed, or the close
\* failed and the operator has been called.
HardInvariant ==
    ThreadDone => IsLive(legs, "SL") \/ position = "flat" \/ fill.outcome = "close_failed"

\* The thread implements EntryPromise: outside the recovery of a missing
\* take-profit it settles only a covered lot, and a lot it has settled is not
\* touched again.
Phase == CASE fill.pc = "poll" -> "pending"
           [] fill.pc = "done" /\ fill.outcome = "unconfirmed" -> "abandoned"
           [] fill.pc = "done" /\ fill.outcome # "unconfirmed" -> "settled"
           [] fill.pc = "recovery" -> "recovering"
           [] OTHER -> "working"

Cover == CASE position = "flat" -> "flat"
           [] position # "flat" /\ fill.outcome = "close_failed" -> "operator"
           [] position # "flat" /\ fill.outcome # "close_failed" /\ IsLive(legs, "SL") -> "stop"
           [] OTHER -> "none"

Promise == INSTANCE EntryPromise WITH phase <- Phase, cover <- Cover
PromiseKept == Promise!Spec

\* With a native OCO there is no such gap: a spot entry whose legs are placed as
\* one list is never left naked.
SpotInvariant == ~margin /\ oco => HardInvariant

\* A creation that reports a stop-loss reports one that rests on the exchange:
\* the thread's only ground for not flattening (_protection_confirms_stop_loss).
ClaimedStopIsLive ==
    \A c \in Callers :
        LET r == impl[c].result
        IN  impl[c].pc = "back" /\ ConfirmsSL(r) => legs[r.sl.id].exch = "live"

\* When the thread goes on without flattening, to look for the missing
\* take-profit, the stop-loss is there.
GapHasStop == fill.pc = "gap" => IsLive(legs, "SL")

\* Retries, recoveries and healing never leave two resting orders of one role
\* for the same entry: the second would reverse the position when it triggers.
OneLegPerRole == \A role \in Roles : Cardinality(LiveLegs(legs, role)) <= 1

\* A row is marked CANCELLED only for an order that is off the exchange: what
\* the code takes as the licence to place the next leg over the same quantity.
CancelledIsGone == \A i \in DOMAIN legs : legs[i].row = "cancelled" => legs[i].exch # "live"

\* A pass of the healer, which takes up lots that have a stop-loss, hands them
\* back with one (when it is alone on the lot).
HealKeepsStop == [][HealEnd /\ fill.pc = "done" => IsLive(legs, "SL")]_vars

\* "Turning trading OFF / an emergency stop never strips protection from open
\* positions" (trading_guardrails.py:269): where the exchange refuses nothing, a
\* filled entry ends with a stop-loss or closed, whatever the two switches say.
NeverStripped == ThreadDone => IsLive(legs, "SL") \/ position = "flat"

\* Whatever fails, the thread comes to an end: its retries are bounded.
ThreadEnds == <>(fill.pc = "done")
=============================================================================
