----------------------------- MODULE SignalOrder -----------------------------
(***************************************************************************)
(* From a strategy signal to an exchange order, for one symbol and side:   *)
(* the BUY block of _check_signal_for_coin_sync (signal_monitor.py), the   *)
(* Week-5 alert dedup, the order intents of signal_order_orchestrator.py,  *)
(* the in-memory slot of _place_order_from_signal, and the reconciliation  *)
(* of intents.  Workers are the evaluations running at one time: those of  *)
(* the two deployed processes, and, within a process, the cycle whose      *)
(* timeout abandoned it and its successor.                                 *)
(*                                                                         *)
(* Faults an instance may allow:                                           *)
(*   "telegram" the alert cannot be sent (or is taken for a duplicate)     *)
(*   "unsaved"  the sent alert's row, and so its id, is lost               *)
(*   "criteria" the trade guardrails say no at one of their evaluations    *)
(*   "refused"  the exchange refuses the order                             *)
(*   "lost"     the order is accepted and its answer is an exception       *)
(*   "skipped"  a process may not call the exchange, which is no error     *)
(*   "broken"   a query or a commit of the evaluation's session raises     *)
(*   "raised"   the throttle event cannot be recorded                      *)
(*   "stalled"  an evaluation outlasts the 300 seconds of its alert lock   *)
(*   "slow"     a placement outlasts the 10 seconds of its slot            *)
(*   "toggle"   live trading is switched off and on                        *)
(*   "crash"    a process restarts                                         *)
(***************************************************************************)
EXTENDS Naturals

CONSTANTS
    Workers,    \* evaluations that may run at the same time
    Procs,      \* the processes of the deployment
    ProcOf,     \* the process each worker runs in
    Prices,     \* the prices a signal may fire at
    PriceGate,  \* min_price_change_pct is positive
    MaxBucket,  \* bound on the five-minute buckets that pass
    MaxEvals,   \* bound on the evaluations whose signal passes the throttle
    Faults      \* the faults this instance allows

ASSUME SignalOrderAssumption ==
    /\ ProcOf \in [Workers -> Procs]
    /\ 0 \notin Prices
    /\ PriceGate \in BOOLEAN
    /\ MaxBucket \in Nat
    /\ MaxEvals \in Nat

VARIABLES
    worker,     \* the evaluation each worker is in
    evals,      \* evaluations begun
    throttle,   \* signal_throttle_states: the last recorded event
    alertLock,  \* processes with a live entry in alert_sending_locks
    slot,       \* processes with a live entry in order_creation_locks
    bucket,     \* the current five-minute bucket
    dedup,      \* the keys in dedup_events_week5
    lastMsg,    \* id of the newest telegram_messages row
    sent,       \* how often the alert for a price was sent in a bucket
    sentIds,    \* ids of the rows whose alert was really sent
    intents,    \* order_intents, by idempotency key
    orders,     \* how many orders the exchange accepted for a key
    rows,       \* keys whose order has its exchange_orders row
    live,       \* the live-trading toggle
    abandoned   \* history: keys whose evaluation died or ended in an exception

vars == <<worker, evals, throttle, alertLock, slot, bucket, dedup, lastMsg, sent,
          sentIds, intents, orders, rows, live, abandoned>>

-----------------------------------------------------------------------------
(* A key is the alert's message id, or, without one, the alert's content:   *)
(* the symbol, the price and the reason, but no time.                       *)

SignalKeys  == [by : {"signal"}, n : 1..MaxEvals]
ContentKeys == [by : {"content"}, n : Prices]
Keys == SignalKeys \cup ContentKeys
NoKey == [by |-> "none", n |-> 0]

IdempotencyKey(sid, price) == IF sid # 0 THEN [by |-> "signal", n |-> sid]
                                         ELSE [by |-> "content", n |-> price]

Statuses == {"absent", "PENDING", "ORDER_PLACED", "ORDER_FAILED", "BLOCKED_LIVE_TRADING"}

\* The order id of an answer, and of an intent: none, one made up by the client
\* for a dry run, or one that the exchange gave.
OrderIds == {"none", "dry", "exchange"}

Intent == [status : Statuses, bucket : 0..MaxBucket, id : OrderIds]
NoIntent == [status |-> "absent", bucket |-> 0, id |-> "none"]

Pcs == {"idle", "check", "lock", "dedup", "send", "persist", "intent", "guard", "claim",
        "place", "protect", "release", "record"}
\* bucket: the one its alert's dedup key was computed in; id: of its order.
Worker == [pc : Pcs, price : Prices \cup {0}, bucket : 0..MaxBucket, sid : 0..MaxEvals,
           key : Keys \cup {NoKey}, id : OrderIds]
Idle == [pc |-> "idle", price |-> 0, bucket |-> 0, sid |-> 0, key |-> NoKey, id |-> "none"]

Throttle == [price : Prices \cup {0}, fresh : BOOLEAN]

\* Only some of the control points carry an intent.
Holding == {"guard", "claim", "place", "protect", "release"}

TypeOK ==
    /\ worker \in [Workers -> Worker]
    /\ evals \in 0..MaxEvals
    /\ throttle \in Throttle
    /\ alertLock \subseteq Procs
    /\ slot \subseteq Procs
    /\ bucket \in 0..MaxBucket
    /\ dedup \subseteq Prices \X (0..MaxBucket)
    /\ lastMsg \in 0..MaxEvals
    /\ sent \in [Prices \X (0..MaxBucket) -> Nat]
    /\ sentIds \subseteq 1..lastMsg
    /\ intents \in [Keys -> Intent]
    /\ orders \in [Keys -> Nat]
    /\ rows \subseteq Keys
    /\ live \in BOOLEAN
    /\ abandoned \subseteq Keys

Init ==
    /\ worker = [w \in Workers |-> Idle]
    /\ evals = 0
    /\ throttle = [price |-> 0, fresh |-> FALSE]
    /\ alertLock = {}
    /\ slot = {}
    /\ bucket = 0
    /\ dedup = {}
    /\ lastMsg = 0
    /\ sent = [a \in Prices \X (0..MaxBucket) |-> 0]
    /\ sentIds = {}
    /\ intents = [k \in Keys |-> NoIntent]
    /\ orders = [k \in Keys |-> 0]
    /\ rows = {}
    /\ live = TRUE
    /\ abandoned = {}

-----------------------------------------------------------------------------
(* One evaluation.                                                         *)

Goto(w, pc) == worker' = [worker EXCEPT ![w].pc = pc]

\* Of an evaluation whose placement is over only the price is used any more.
Finish(w) ==
    worker' = [worker EXCEPT ![w] = [Idle EXCEPT !.pc = "record", !.price = worker[w].price]]

At(w, pc) == worker[w].pc = pc

\* should_emit_signal on the snapshot read at the start of the evaluation: a
\* first signal passes, a later one once 60 s are over and the price has moved.
MayEmit(price) == \/ throttle.price = 0
                  \/ ~throttle.fresh /\ (PriceGate => throttle.price # price)

\* A signal that is refused ends here, but first it drops the alert lock of its
\* process, whoever has set it.
Refuse(w) ==
    /\ At(w, "idle") /\ ProcOf[w] \in alertLock
    /\ \E price \in Prices : ~MayEmit(price)
    /\ alertLock' = alertLock \ {ProcOf[w]}
    /\ UNCHANGED <<evals, worker, throttle, slot, bucket, dedup, lastMsg, sent, sentIds,
                   intents, orders, rows, live, abandoned>>

Evaluate(w) ==
    /\ At(w, "idle") /\ evals < MaxEvals
    /\ evals' = evals + 1
    /\ \E price \in Prices :
        /\ MayEmit(price)
        /\ worker' = [worker EXCEPT ![w] = [Idle EXCEPT !.pc = "check", !.price = price]]
    /\ UNCHANGED <<throttle, alertLock, slot, bucket, dedup, lastMsg, sent, sentIds,
                   intents, orders, rows, live, abandoned>>

\* The test of alert_sending_locks and its setting are two steps of a dict that
\* no mutex guards.  An entry older than ALERT_SENDING_LOCK_SECONDS is deleted: an
\* evaluation drops its entry at its end, so that only a stalled one's is that old.
CheckAlertLock(w) ==
    /\ At(w, "check")
    /\ \/ /\ ProcOf[w] \in alertLock /\ UNCHANGED alertLock
          /\ worker' = [worker EXCEPT ![w] = Idle]
       \/ /\ ProcOf[w] \in alertLock => "stalled" \in Faults
          /\ alertLock' = alertLock \ {ProcOf[w]} /\ Goto(w, "lock")
    /\ UNCHANGED <<evals, throttle, slot, bucket, dedup, lastMsg, sent, sentIds, intents,
                   orders, rows, live, abandoned>>

SetAlertLock(w) ==
    /\ At(w, "lock")
    /\ alertLock' = alertLock \cup {ProcOf[w]}
    /\ Goto(w, "dedup")
    /\ UNCHANGED <<evals, throttle, slot, bucket, dedup, lastMsg, sent, sentIds, intents,
                   orders, rows, live, abandoned>>

\* _should_persist_only_signal_alert: what the guardrails refuse, and with live
\* trading off that is every entry, is written to the monitor and not sent.
Emissions == {pc \in {"send", "persist"} :
                IF pc = "send" THEN live ELSE ~live \/ "criteria" \in Faults}

\* Mutation of CheckDedup: the key of an alert is looked up and not recorded.
MutDedupNotRecorded(w) ==
    /\ At(w, "dedup")
    /\ \E pc \in IF <<worker[w].price, bucket>> \in dedup THEN {"intent"} ELSE Emissions :
        worker' = [worker EXCEPT ![w].pc = pc, ![w].bucket = bucket]
    /\ UNCHANGED <<evals, dedup, throttle, alertLock, slot, bucket, lastMsg, sent, sentIds,
                   intents, orders, rows, live, abandoned>>

\* emit_alert, up to check_and_record_dedup: a unique key of the price and the
\* bucket.  DEDUPED is answered with no message id, and the evaluation goes on.
CheckDedup(w) ==
    LET key == <<worker[w].price, bucket>>
    IN  /\ At(w, "dedup")
        /\ \E pc \in IF key \in dedup THEN {"intent"} ELSE Emissions :
            worker' = [worker EXCEPT ![w].pc = pc, ![w].bucket = bucket]
        /\ dedup' = dedup \cup {key}
        /\ UNCHANGED <<evals, throttle, alertLock, slot, bucket, lastMsg, sent, sentIds,
                       intents, orders, rows, live, abandoned>>

\* emit_alert answers with the id of a message, or with none (0).
Alerted(w, sid) == worker' = [worker EXCEPT ![w].pc = "intent", ![w].sid = sid]

\* The alert's row.  (An evaluation writes one, so that MaxEvals bounds their ids.)
NewRow(w) == lastMsg < MaxEvals /\ lastMsg' = lastMsg + 1 /\ Alerted(w, lastMsg')

\* The alert is sent and its row gives the id; or the row is lost and the newest
\* earlier alert of the symbol lends its id; or the alert is not sent at all.
SendAlert(w) ==
    LET alert == <<worker[w].price, worker[w].bucket>>
    IN  /\ At(w, "send")
        /\ \/ /\ NewRow(w) /\ sentIds' = sentIds \cup {lastMsg'}
              /\ sent' = [sent EXCEPT ![alert] = @ + 1]
           \/ /\ "unsaved" \in Faults
              /\ sent' = [sent EXCEPT ![alert] = @ + 1]
              /\ UNCHANGED <<lastMsg, sentIds>> /\ Alerted(w, lastMsg)
           \/ /\ "telegram" \in Faults
              /\ UNCHANGED <<lastMsg, sent, sentIds>> /\ Alerted(w, 0)
        /\ UNCHANGED <<evals, throttle, alertLock, slot, bucket, dedup, intents, orders,
                       rows, live, abandoned>>

\* The alert is written and not sent, with an id like any other.
PersistAlert(w) ==
    /\ At(w, "persist")
    /\ \/ NewRow(w)
       \/ "unsaved" \in Faults /\ UNCHANGED lastMsg /\ Alerted(w, 0)
    /\ UNCHANGED <<evals, throttle, alertLock, slot, bucket, dedup, sent, sentIds, intents,
                   orders, rows, live, abandoned>>

\* Mutation of CreateIntent: an intent that failed may be taken up again.
MutIntentRetried(w) ==
    LET key == IdempotencyKey(worker[w].sid, worker[w].price)
    IN  /\ At(w, "intent")
        /\ IF intents[key].status \notin {"absent", "ORDER_FAILED"}
           THEN Finish(w) /\ UNCHANGED intents
           ELSE /\ intents' = [intents EXCEPT ![key] = [NoIntent EXCEPT !.status = "PENDING",
                                                                       !.bucket = bucket]]
                /\ worker' = [worker EXCEPT ![w].pc = "guard", ![w].key = key]
        /\ UNCHANGED <<evals, throttle, alertLock, slot, bucket, dedup, lastMsg, sent, sentIds,
                       orders, rows, live, abandoned>>

\* Mutation of CreateIntent: the legacy status, too long for its column.
MutLegacyStatus(w) ==
    LET key == IdempotencyKey(worker[w].sid, worker[w].price)
    IN  /\ At(w, "intent") /\ Finish(w)
        /\ intents' = [intents EXCEPT ![key].status = "ORDER_BLOCKED_LIVE_TRADING"]
        /\ UNCHANGED <<evals, throttle, alertLock, slot, bucket, dedup, lastMsg, sent,
                       sentIds, orders, rows, live, abandoned>>

\* create_order_intent: the insert under the unique key decides, whatever the
\* alert's fate; a duplicate ends the attempt, and so does live trading off, or an
\* insert that raises.
CreateIntent(w) ==
    LET key == IdempotencyKey(worker[w].sid, worker[w].price)
        insert(status) == intents' = [intents EXCEPT ![key] = [NoIntent EXCEPT
                                                     !.status = status, !.bucket = bucket]]
    IN  /\ At(w, "intent")
        /\ \/ /\ intents[key].status # "absent" \/ "broken" \in Faults
              /\ Finish(w) /\ UNCHANGED intents
           \/ /\ intents[key].status = "absent" /\ ~live
              /\ insert("BLOCKED_LIVE_TRADING") /\ Finish(w)
           \/ /\ intents[key].status = "absent" /\ live
              /\ insert("PENDING")
              /\ worker' = [worker EXCEPT ![w].pc = "guard", ![w].key = key]
        /\ UNCHANGED <<evals, throttle, alertLock, slot, bucket, dedup, lastMsg, sent, sentIds,
                       orders, rows, live, abandoned>>

\* update_order_intent_status: whatever the status was.
Update(w, status) == intents' = [intents EXCEPT ![worker[w].key].status = status]

\* The status is committed and the placement is over.
Close(w, status) == Update(w, status) /\ Finish(w) /\ UNCHANGED abandoned

\* except orchestrator_err: the session is rolled back, the intent stays as it is,
\* and the evaluation goes on to its last step.
Abandon(w) ==
    /\ "broken" \in Faults
    /\ abandoned' = abandoned \cup {worker[w].key}
    /\ Finish(w) /\ UNCHANGED intents

\* _orchestrator_order_guard, which says no while live trading is off, and then
\* _block_orchestrator_order.
Guard(w) ==
    /\ At(w, "guard")
    /\ \/ live /\ Goto(w, "claim") /\ UNCHANGED <<intents, abandoned>>
       \/ (~live \/ "criteria" \in Faults) /\ Close(w, "ORDER_FAILED")
       \/ Abandon(w)
    /\ UNCHANGED <<evals, throttle, alertLock, slot, bucket, dedup, lastMsg, sent, sentIds,
                   orders, rows, live>>

InPlacement(p) ==
    {w \in Workers : ProcOf[w] = p /\ worker[w].pc \in {"place", "protect", "release"}}

\* Mutation of ClaimSlot: the slot is taken whatever it holds.
MutSlotNotChecked(w) ==
    /\ At(w, "claim")
    /\ slot' = slot \cup {ProcOf[w]}
    /\ Goto(w, "place")
    /\ UNCHANGED <<evals, intents, throttle, alertLock, bucket, dedup, lastMsg, sent, sentIds,
                   orders, rows, live, abandoned>>

\* _try_claim_order_slot, under _order_dedup_lock: a slot is taken anew when it is older
\* than ORDER_CREATION_LOCK_SECONDS, and without "slow" no placement of the process
\* lasts that long.  A suppressed duplicate is an error like any other.
ClaimSlot(w) ==
    /\ At(w, "claim")
    /\ \/ /\ ProcOf[w] \in slot /\ UNCHANGED slot
          /\ Close(w, "ORDER_FAILED") \/ Abandon(w)
       \/ /\ ProcOf[w] \in slot => InPlacement(ProcOf[w]) = {} \/ "slow" \in Faults
          /\ slot' = slot \cup {ProcOf[w]}
          /\ Goto(w, "place") /\ UNCHANGED <<intents, abandoned>>
    /\ UNCHANGED <<evals, throttle, alertLock, bucket, dedup, lastMsg, sent, sentIds,
                   orders, rows, live>>

\* The broker's answer without an error: its order id, and the orders it makes.
Answered(w, id) ==
    /\ worker' = [worker EXCEPT ![w].pc = "protect", ![w].id = id]
    /\ orders' = IF id = "exchange" THEN [orders EXCEPT ![worker[w].key] = @ + 1] ELSE orders

\* Mutation of Place: the error in the exchange's answer is not looked at.
MutErrorIgnored(w) ==
    /\ At(w, "place")
    /\ orders' \in {orders, [orders EXCEPT ![worker[w].key] = @ + 1]}
    /\ worker' = [worker EXCEPT ![w].pc = "protect", ![w].id = "exchange"]
    /\ UNCHANGED <<evals, throttle, alertLock, slot, bucket, dedup, lastMsg, sent, sentIds,
                   intents, rows, live, abandoned>>

\* The market order.  With live trading off by now the client answers FILLED, under
\* an id of its own; where the process may not call the exchange, without an error and
\* without an id.  An accepted order is protected before the call returns; one
\* whose answer is lost counts as failed.
Place(w) ==
    /\ At(w, "place")
    /\ \/ Answered(w, IF live THEN "exchange" ELSE "dry")
       \/ "skipped" \in Faults /\ Answered(w, "none")
       \/ /\ "lost" \in Faults /\ live
          /\ orders' = [orders EXCEPT ![worker[w].key] = @ + 1] /\ Goto(w, "release")
       \/ "refused" \in Faults /\ UNCHANGED orders /\ Goto(w, "release")
    /\ UNCHANGED <<evals, throttle, alertLock, slot, bucket, dedup, lastMsg, sent, sentIds,
                   intents, rows, live, abandoned>>

\* The placement returns without an error: with an id of either kind the slot is
\* kept for its TTL.  When the update to ORDER_PLACED raises, the handler of the
\* placement's errors tries ORDER_FAILED, order or no order.
Placed(w) ==
    /\ At(w, "protect")
    /\ slot' = IF worker[w].id = "none" THEN slot \ {ProcOf[w]} ELSE slot
    /\ \/ /\ intents' = [intents EXCEPT ![worker[w].key].status = "ORDER_PLACED",
                                        ![worker[w].key].id = worker[w].id]
          /\ Finish(w) /\ UNCHANGED abandoned
       \/ "broken" \in Faults /\ Close(w, "ORDER_FAILED")
       \/ Abandon(w)
    /\ UNCHANGED <<evals, throttle, alertLock, bucket, dedup, lastMsg, sent, sentIds,
                   orders, rows, live>>

\* Mutation of Release: the intent of a failed placement stays as it was.
MutFailureNotRecorded(w) ==
    /\ At(w, "release")
    /\ slot' = slot \ {ProcOf[w]}
    /\ Finish(w)
    /\ UNCHANGED <<evals, intents, throttle, alertLock, bucket, dedup, lastMsg, sent, sentIds,
                   orders, rows, live, abandoned>>

\* The placement failed: _release_order_slot pops the slot, its own or not.
Release(w) ==
    /\ At(w, "release")
    /\ slot' = slot \ {ProcOf[w]}
    /\ Close(w, "ORDER_FAILED") \/ Abandon(w)
    /\ UNCHANGED <<evals, throttle, alertLock, bucket, dedup, lastMsg, sent, sentIds,
                   orders, rows, live>>

\* record_signal_event, last of all, and the alert lock is dropped.
Record(w) ==
    /\ At(w, "record")
    /\ \/ throttle' = [price |-> worker[w].price, fresh |-> TRUE]
       \/ "raised" \in Faults /\ UNCHANGED throttle
    /\ alertLock' = alertLock \ {ProcOf[w]}
    /\ worker' = [worker EXCEPT ![w] = Idle]
    /\ UNCHANGED <<evals, slot, bucket, dedup, lastMsg, sent, sentIds, intents, orders,
                   rows, live, abandoned>>

Continue(w) ==
    \/ CheckAlertLock(w) \/ SetAlertLock(w) \/ CheckDedup(w) \/ SendAlert(w)
    \/ PersistAlert(w) \/ CreateIntent(w) \/ Guard(w) \/ ClaimSlot(w) \/ Place(w) \/ Placed(w)
    \/ Release(w) \/ Record(w)

-----------------------------------------------------------------------------
(* Time, the operator, and the rest of the system.                         *)

\* 60 seconds have passed since the last recorded event.
CoolDown ==
    /\ throttle.fresh
    /\ throttle' = [throttle EXCEPT !.fresh = FALSE]
    /\ UNCHANGED <<evals, worker, alertLock, slot, bucket, dedup, lastMsg, sent, sentIds,
                   intents, orders, rows, live, abandoned>>

NextBucket ==
    /\ bucket < MaxBucket
    /\ bucket' = bucket + 1
    /\ UNCHANGED <<evals, worker, throttle, alertLock, slot, dedup, lastMsg, sent, sentIds,
                   intents, orders, rows, live, abandoned>>

Toggle ==
    /\ "toggle" \in Faults
    /\ live' = ~live
    /\ UNCHANGED <<evals, worker, throttle, alertLock, slot, bucket, dedup, lastMsg, sent,
                   sentIds, intents, orders, rows, abandoned>>

\* exchange_sync writes the row of an order it finds at the exchange.
SyncOrder ==
    /\ \E k \in Keys \ rows : orders[k] > 0 /\ rows' = rows \cup {k}
    /\ UNCHANGED <<evals, worker, throttle, alertLock, slot, bucket, dedup, lastMsg, sent,
                   sentIds, intents, orders, live, abandoned>>

\* run_reconciliation: an open intent of more than five minutes whose order has no
\* row.  A PENDING one carries no order id to find a row by.
Reconcile ==
    /\ \E k \in Keys :
        /\ \/ intents[k].status = "PENDING"
           \/ intents[k].status = "ORDER_PLACED" /\ k \notin rows
        /\ intents[k].bucket < bucket
        /\ intents' = [intents EXCEPT ![k].status = "ORDER_FAILED"]
    /\ UNCHANGED <<evals, worker, throttle, alertLock, slot, bucket, dedup, lastMsg, sent,
                   sentIds, orders, rows, live, abandoned>>

\* What was in memory is gone.
Crash(p) ==
    /\ "crash" \in Faults
    /\ abandoned' = abandoned \cup
          {worker[w].key : w \in {v \in Workers : ProcOf[v] = p /\ worker[v].pc \in Holding}}
    /\ worker' = [w \in Workers |-> IF ProcOf[w] = p THEN Idle ELSE worker[w]]
    /\ alertLock' = alertLock \ {p}
    /\ slot' = slot \ {p}
    /\ UNCHANGED <<evals, throttle, bucket, dedup, lastMsg, sent, sentIds, intents,
                   orders, rows, live>>

\* All the evaluations there are to be are over.
Exhausted == evals = MaxEvals /\ (\A w \in Workers : At(w, "idle")) /\ UNCHANGED vars

Next ==
    \/ \E w \in Workers : Refuse(w) \/ Evaluate(w) \/ Continue(w)
    \/ \E p \in Procs : Crash(p)
    \/ CoolDown \/ NextBucket \/ Toggle \/ SyncOrder \/ Reconcile \/ Exhausted

Spec == Init /\ [][Next]_vars
-----------------------------------------------------------------------------
(* Properties                                                              *)

\* Each signal triggers at most one order (models/order_intent.py:20): whatever
\* crashes, races and reconciliations, one idempotency key never has two orders
\* at the exchange.
OneOrderPerIntent == \A k \in Keys : orders[k] <= 1

\* No two evaluations work on the same intent.
OneWorkerPerIntent ==
    \A v, w \in Workers :
        v # w /\ worker[v].pc \in Holding /\ worker[w].pc \in Holding
            => worker[v].key # worker[w].key

\* ORDER_PLACED does not say that there is an order (a dry run has it too), but the
\* order id tells: an intent with an id of the exchange's has its order there, and
\* one that was placed without has none.
OrderIdIsTrue ==
    \A k \in Keys :
        /\ intents[k].id = "exchange" => orders[k] = 1
        /\ intents[k].status = "ORDER_PLACED" /\ intents[k].id # "exchange" => orders[k] = 0

\* The alert for a price goes out once in a five-minute bucket, also when two
\* processes evaluate it at once.
AlertOnce == \A a \in DOMAIN sent : sent[a] <= 1

\* The cap-race guard: in one process no two placements overlap, as long as none
\* outlasts the slot.
OnePlacementPerProcess ==
    \A v, w \in Workers :
        v # w /\ ProcOf[v] = ProcOf[w] => {v, w} \cap InPlacement(ProcOf[v]) # {v, w}

Held(k) == \E w \in Workers : worker[w].pc \in Holding /\ worker[w].key = k

\* An intent that is PENDING has an evaluation at work on it, or had one that died
\* or was ended by an exception: no other path through the placement leaves it so.
PendingIsHandled ==
    \A k \in Keys : intents[k].status = "PENDING" => Held(k) \/ k \in abandoned

\* An intent is worked on once.  When its evaluation is over, by whatever way, the
\* one that meets the key again takes it for a duplicate: the intent is never taken
\* up again, gets no order any more, and only reconciliation still changes it.
HandledOnce ==
    [][\A k \in Keys :
          intents[k].status # "absent" /\ ~Held(k) =>
              /\ ~Held(k)' /\ orders'[k] = orders[k]
              /\ intents'[k] \in {intents[k], [intents[k] EXCEPT !.status = "ORDER_FAILED"]}]_vars

\* Orders are placed only after an alert was sent (signal_order_policy.py:9).
OrderHasAlert ==
    \A k \in Keys : orders[k] > 0 =>
        IF k.by = "signal" THEN k.n \in sentIds
        ELSE \E b \in 0..MaxBucket : sent[<<k.n, b>>] > 0
=============================================================================
