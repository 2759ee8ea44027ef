-------------------------- MODULE SignalOrder_proofs --------------------------
(* At most one order per intent, for any number of processes, workers, prices *)
(* and evaluations, and whatever fails.                                       *)
EXTENDS SignalOrder, TLAPS

-----------------------------------------------------------------------------
(* Type correctness.  That a key is one of Keys rests on the price of a       *)
(* worker that is under way being one a signal fired at.                      *)

Priced == \A w \in Workers : worker[w].pc # "idle" => worker[w].price \in Prices
Keyed  == \A w \in Workers : worker[w].pc \in Holding => worker[w].key \in Keys

TypeInv == TypeOK /\ Priced /\ Keyed

LEMMA KeyType ==
    ASSUME NEW sid \in 0..MaxEvals, NEW price \in Prices
    PROVE  IdempotencyKey(sid, price) \in Keys
BY SignalOrderAssumption DEF IdempotencyKey, Keys, SignalKeys, ContentKeys

LEMMA IdleType == Idle \in Worker
BY SignalOrderAssumption DEF Idle, Worker, Pcs, OrderIds

\* What the ways of moving a worker do to it, and that they move no other.
LEMMA GotoMoves ==
    ASSUME TypeInv, NEW w \in Workers, NEW pc \in Pcs, Goto(w, pc)
    PROVE  /\ worker'[w] = [worker[w] EXCEPT !.pc = pc] /\ worker'[w].pc = pc
           /\ worker'[w].price = worker[w].price /\ worker'[w].bucket = worker[w].bucket
           /\ worker'[w].sid = worker[w].sid /\ worker'[w].key = worker[w].key
           /\ worker'[w].id = worker[w].id
           /\ \A v \in Workers \ {w} : worker'[v] = worker[v]
<1>1. worker \in [Workers -> Worker] /\ worker[w] \in Worker
  BY DEF TypeInv, TypeOK
<1>2. /\ worker'[w] = [worker[w] EXCEPT !.pc = pc]
      /\ \A v \in Workers \ {w} : worker'[v] = worker[v]
  BY <1>1 DEF Goto
<1>3. QED
  BY <1>1, <1>2 DEF Worker

LEMMA FinishMoves ==
    ASSUME TypeInv, NEW w \in Workers, Finish(w)
    PROVE  /\ worker'[w] \in Worker /\ worker'[w].pc = "record"
           /\ worker'[w].price = worker[w].price
           /\ \A v \in Workers \ {w} : worker'[v] = worker[v]
<1>1. worker \in [Workers -> Worker] /\ worker[w] \in Worker
  BY DEF TypeInv, TypeOK
<1>2. /\ worker'[w] = [Idle EXCEPT !.pc = "record", !.price = worker[w].price]
      /\ \A v \in Workers \ {w} : worker'[v] = worker[v]
  BY <1>1 DEF Finish
<1>3. /\ [Idle EXCEPT !.pc = "record", !.price = worker[w].price] \in Worker
      /\ [Idle EXCEPT !.pc = "record", !.price = worker[w].price].pc = "record"
      /\ [Idle EXCEPT !.pc = "record", !.price = worker[w].price].price = worker[w].price
  BY <1>1, IdleType DEF Idle, Worker, Pcs
<1>4. QED
  BY <1>2, <1>3

LEMMA AnsweredMoves ==
    ASSUME TypeInv, NEW w \in Workers, NEW id \in OrderIds, Answered(w, id)
    PROVE  /\ worker'[w] \in Worker /\ worker'[w].pc = "protect"
           /\ worker'[w].price = worker[w].price
           /\ worker'[w].key = worker[w].key /\ worker'[w].id = id
           /\ \A v \in Workers \ {w} : worker'[v] = worker[v]
<1>1. worker \in [Workers -> Worker] /\ worker[w] \in Worker
  BY DEF TypeInv, TypeOK
<1>2. /\ worker'[w] = [worker[w] EXCEPT !.pc = "protect", !.id = id]
      /\ \A v \in Workers \ {w} : worker'[v] = worker[v]
  BY <1>1 DEF Answered
<1>3. QED
  BY <1>1, <1>2 DEF Worker, Pcs

LEMMA AlertedMoves ==
    ASSUME TypeInv, NEW w \in Workers, NEW sid \in 0..MaxEvals, Alerted(w, sid)
    PROVE  /\ worker'[w] \in Worker /\ worker'[w].pc = "intent"
           /\ worker'[w].price = worker[w].price /\ worker'[w].sid = sid
           /\ \A v \in Workers \ {w} : worker'[v] = worker[v]
<1>1. worker \in [Workers -> Worker] /\ worker[w] \in Worker
  BY DEF TypeInv, TypeOK
<1>2. /\ worker'[w] = [worker[w] EXCEPT !.pc = "intent", !.sid = sid]
      /\ \A v \in Workers \ {w} : worker'[v] = worker[v]
  BY <1>1 DEF Alerted
<1>3. QED
  BY <1>1, <1>2 DEF Worker, Pcs

LEMMA DedupMoves ==
    ASSUME TypeInv, NEW w \in Workers, CheckDedup(w)
    PROVE  /\ worker'[w] \in Worker
           /\ worker'[w].price = worker[w].price /\ worker'[w].sid = worker[w].sid
           /\ worker'[w].bucket = bucket
           /\ IF <<worker[w].price, bucket>> \in dedup THEN worker'[w].pc = "intent"
                                                       ELSE worker'[w].pc \in Emissions
           /\ \A v \in Workers \ {w} : worker'[v] = worker[v]
<1>1. worker \in [Workers -> Worker] /\ worker[w] \in Worker /\ bucket \in 0..MaxBucket
  BY DEF TypeInv, TypeOK
<1>2. PICK pc \in (IF <<worker[w].price, bucket>> \in dedup THEN {"intent"} ELSE Emissions) :
         worker' = [worker EXCEPT ![w].pc = pc, ![w].bucket = bucket]
  BY DEF CheckDedup
<1>3. pc \in Pcs
  BY <1>2 DEF Emissions, Pcs
<1>4. /\ worker'[w] = [worker[w] EXCEPT !.pc = pc, !.bucket = bucket]
      /\ \A v \in Workers \ {w} : worker'[v] = worker[v]
  BY <1>1, <1>2
<1>5. /\ worker'[w] \in Worker /\ worker'[w].pc = pc
      /\ worker'[w].price = worker[w].price /\ worker'[w].sid = worker[w].sid
      /\ worker'[w].bucket = bucket
  BY <1>1, <1>3, <1>4 DEF Worker
<1>6. QED
  BY <1>2, <1>4, <1>5

\* A step of one worker w alone.
LEMMA WorkerStep ==
    ASSUME TypeInv, NEW w \in Workers, worker' \in [Workers -> Worker],
           \A v \in Workers \ {w} : worker'[v] = worker[v],
           worker'[w].pc # "idle" => worker'[w].price \in Prices,
           worker'[w].pc \in Holding => worker'[w].key \in Keys
    PROVE  Priced' /\ Keyed'
BY DEF TypeInv, Priced, Keyed

\* A worker under way that moves to another control point.
LEMMA GotoStep ==
    ASSUME TypeInv, NEW w \in Workers, NEW pc \in Pcs, Goto(w, pc),
           worker[w].pc # "idle", pc \in Holding => worker[w].pc \in Holding
    PROVE  worker' \in [Workers -> Worker] /\ Priced' /\ Keyed'
<1>1. worker \in [Workers -> Worker] /\ worker[w] \in Worker
  BY DEF TypeInv, TypeOK
<1>2. [worker[w] EXCEPT !.pc = pc] \in Worker
  BY <1>1 DEF Worker
<1>3. worker' \in [Workers -> Worker]
  BY <1>1, <1>2 DEF Goto
<1>4. worker[w].price \in Prices /\ (pc \in Holding => worker[w].key \in Keys)
  BY DEF TypeInv, Priced, Keyed
<1>5. QED
  BY <1>3, <1>4, GotoMoves, WorkerStep

\* The same, of a worker that ends its evaluation.
LEMMA IdleStep ==
    ASSUME TypeInv, NEW w \in Workers, worker' = [worker EXCEPT ![w] = Idle]
    PROVE  worker' \in [Workers -> Worker] /\ Priced' /\ Keyed'
<1>1. Idle.pc = "idle" /\ Idle.pc \notin Holding
  BY DEF Idle, Holding
<1>2. worker' \in [Workers -> Worker] /\ worker'[w] = Idle
  BY IdleType DEF TypeInv, TypeOK
<1>3. \A v \in Workers \ {w} : worker'[v] = worker[v]
  BY DEF TypeInv, TypeOK
<1>4. QED
  BY <1>1, <1>2, <1>3, WorkerStep

\* And of one whose placement, if any, is over.
LEMMA FinishStep ==
    ASSUME TypeInv, NEW w \in Workers, Finish(w), worker[w].pc # "idle"
    PROVE  worker' \in [Workers -> Worker] /\ Priced' /\ Keyed'
<1>1. worker' \in [Workers -> Worker]
  <2>1. worker'[w] \in Worker
    BY FinishMoves
  <2>2. \A v \in Workers \ {w} : worker'[v] \in Worker
    BY FinishMoves DEF TypeInv, TypeOK
  <2>3. worker' = [v \in Workers |-> worker'[v]]
    BY DEF Finish, TypeInv, TypeOK
  <2>4. \A v \in Workers : worker'[v] \in Worker
    BY <2>1, <2>2
  <2>5. QED BY <2>3, <2>4
<1>2. worker[w].price \in Prices
  BY DEF TypeInv, Priced
<1>3. QED
  BY <1>1, <1>2, FinishMoves, WorkerStep DEF Holding

\* What becomes of an intent that is updated, and of the others.
LEMMA UpdateMoves ==
    ASSUME TypeInv, NEW w \in Workers, worker[w].pc \in Holding,
           NEW status \in Statuses, Update(w, status)
    PROVE  /\ worker[w].key \in Keys /\ intents' \in [Keys -> Intent]
           /\ intents'[worker[w].key].status = status
           /\ intents'[worker[w].key].id = intents[worker[w].key].id
           /\ \A k \in Keys \ {worker[w].key} : intents'[k] = intents[k]
<1>1. worker[w].key \in Keys /\ intents \in [Keys -> Intent]
  BY DEF TypeInv, TypeOK, Keyed
<1>2. /\ intents'[worker[w].key] = [intents[worker[w].key] EXCEPT !.status = status]
      /\ \A k \in Keys \ {worker[w].key} : intents'[k] = intents[k]
  BY <1>1 DEF Update
<1>3. [intents[worker[w].key] EXCEPT !.status = status] \in Intent
  BY <1>1 DEF Intent
<1>4. intents' \in [Keys -> Intent]
  BY <1>1, <1>3 DEF Update
<1>5. QED
  BY <1>1, <1>2, <1>4 DEF Intent

\* The two ways a placement ends but for the update to ORDER_PLACED.
LEMMA EndStep ==
    ASSUME TypeInv, NEW w \in Workers, worker[w].pc \in Holding,
           Close(w, "ORDER_FAILED") \/ Abandon(w)
    PROVE  /\ worker' \in [Workers -> Worker] /\ Priced' /\ Keyed'
           /\ intents' \in [Keys -> Intent] /\ abandoned' \subseteq Keys
<1>1. worker[w].key \in Keys /\ worker[w].pc # "idle"
  BY DEF TypeInv, Keyed, Holding
<1>2. Finish(w)
  BY DEF Close, Abandon
<1>3. intents' \in [Keys -> Intent]
  BY UpdateMoves DEF Close, Abandon, TypeInv, TypeOK, Statuses
<1>4. abandoned' \subseteq Keys
  BY <1>1 DEF Close, Abandon, TypeInv, TypeOK
<1>5. QED
  BY <1>1, <1>2, <1>3, <1>4, FinishStep

LEMMA TypeInit == Init => TypeInv
<1> SUFFICES ASSUME Init PROVE TypeInv
  OBVIOUS
<1>1. worker \in [Workers -> Worker] /\ \A w \in Workers : worker[w].pc = "idle"
  BY IdleType DEF Init, Idle
<1>2. Priced /\ Keyed
  BY <1>1 DEF Priced, Keyed, Holding
<1>3. intents \in [Keys -> Intent]
  BY SignalOrderAssumption DEF Init, NoIntent, Intent, Statuses, OrderIds
<1>4. throttle \in Throttle
  BY DEF Init, Throttle
<1>5. sent \in [Prices \X (0..MaxBucket) -> Nat] /\ orders \in [Keys -> Nat]
  BY DEF Init
<1>6. evals \in 0..MaxEvals /\ bucket \in 0..MaxBucket /\ lastMsg \in 0..MaxEvals
  BY SignalOrderAssumption DEF Init
<1>7. TypeOK
  BY <1>1, <1>3, <1>4, <1>5, <1>6 DEF Init, TypeOK
<1>8. QED
  BY <1>2, <1>7 DEF TypeInv

\* One evaluation's steps.
LEMMA TypeWorker ==
    ASSUME TypeInv, NEW w \in Workers, Evaluate(w) \/ Continue(w)
    PROVE  TypeInv'
<1> USE DEF TypeOK
<1>0. TypeOK /\ worker[w] \in Worker /\ worker[w].key \in Keys \cup {NoKey}
  BY DEF TypeInv, Worker
<1>1. CASE Evaluate(w)
  <2>1. PICK price \in Prices :
           worker' = [worker EXCEPT ![w] = [Idle EXCEPT !.pc = "check", !.price = price]]
    BY <1>1 DEF Evaluate
  <2>2. [Idle EXCEPT !.pc = "check", !.price = price] \in Worker
    BY IdleType DEF Worker, Pcs
  <2>3. /\ [Idle EXCEPT !.pc = "check", !.price = price].pc = "check"
        /\ [Idle EXCEPT !.pc = "check", !.price = price].price = price
    BY DEF Idle
  <2>4. /\ worker' \in [Workers -> Worker]
        /\ worker'[w].pc = "check" /\ worker'[w].price \in Prices
        /\ \A v \in Workers \ {w} : worker'[v] = worker[v]
    BY <1>0, <2>1, <2>2, <2>3
  <2>5. Priced' /\ Keyed'
    BY <2>4, WorkerStep DEF Holding
  <2>6. evals' \in 0..MaxEvals
    <3>1. evals \in 0..MaxEvals /\ evals < MaxEvals /\ evals' = evals + 1
      BY <1>0, <1>1 DEF Evaluate
    <3>2. QED BY <3>1, SignalOrderAssumption
  <2>7. QED BY <1>0, <1>1, <2>4, <2>5, <2>6 DEF Evaluate, TypeInv
<1>2. CASE CheckAlertLock(w)
  <2>1. worker' \in [Workers -> Worker] /\ Priced' /\ Keyed'
    BY <1>2, IdleStep, GotoStep DEF CheckAlertLock, At, Pcs, Holding
  <2>2. QED BY <1>0, <1>2, <2>1 DEF CheckAlertLock, TypeInv
<1>3. CASE SetAlertLock(w)
  <2>1. worker' \in [Workers -> Worker] /\ Priced' /\ Keyed'
    BY <1>3, GotoStep DEF SetAlertLock, At, Pcs, Holding
  <2>2. alertLock' \subseteq Procs
    BY <1>0, <1>3, SignalOrderAssumption DEF SetAlertLock
  <2>3. QED BY <1>0, <1>3, <2>1, <2>2 DEF SetAlertLock, TypeInv
<1>4. CASE CheckDedup(w)
  <2>1. worker[w].price \in Prices
    BY <1>4 DEF CheckDedup, At, TypeInv, Priced
  <2>2. worker' \in [Workers -> Worker]
    <3>1. worker' = [v \in Workers |-> worker'[v]]
      BY <1>0, <1>4 DEF CheckDedup
    <3>2. \A v \in Workers : worker'[v] \in Worker
      BY <1>0, <1>4, DedupMoves
    <3>3. QED BY <3>1, <3>2
  <2>3. Priced' /\ Keyed'
    BY <1>4, <2>1, <2>2, DedupMoves, WorkerStep DEF Holding, Emissions
  <2>4. dedup' \subseteq Prices \X (0..MaxBucket)
    BY <1>0, <1>4, <2>1 DEF CheckDedup
  <2>5. QED BY <1>0, <1>4, <2>2, <2>3, <2>4 DEF CheckDedup, TypeInv
<1>5. CASE SendAlert(w) \/ PersistAlert(w)
  <2>1. worker[w].price \in Prices
    BY <1>5 DEF SendAlert, PersistAlert, At, TypeInv, Priced
  <2>2. PICK sid \in 0..MaxEvals : Alerted(w, sid)
    <3>1. lastMsg \in 0..MaxEvals /\ (lastMsg < MaxEvals => lastMsg + 1 \in 0..MaxEvals)
      BY <1>0, SignalOrderAssumption
    <3>2. QED BY <1>5, <3>1, SignalOrderAssumption DEF SendAlert, PersistAlert, NewRow
  <2>3. worker' \in [Workers -> Worker]
    <3>1. worker' = [v \in Workers |-> worker'[v]]
      BY <1>0, <2>2 DEF Alerted
    <3>2. \A v \in Workers : worker'[v] \in Worker
      BY <1>0, <2>2, AlertedMoves
    <3>3. QED BY <3>1, <3>2
  <2>4. Priced' /\ Keyed'
    BY <2>1, <2>2, <2>3, AlertedMoves, WorkerStep DEF Holding
  <2>5. lastMsg' \in 0..MaxEvals /\ sentIds' \subseteq 1..lastMsg'
    <3>1. \/ lastMsg < MaxEvals /\ lastMsg' = lastMsg + 1
          \/ lastMsg' = lastMsg
      BY <1>5 DEF SendAlert, PersistAlert, NewRow
    <3>2. \/ sentIds' = sentIds
          \/ lastMsg' = lastMsg + 1 /\ sentIds' = sentIds \cup {lastMsg'}
      BY <1>5 DEF SendAlert, PersistAlert, NewRow
    <3>3. lastMsg \in Nat /\ lastMsg <= MaxEvals /\ MaxEvals \in Nat /\ sentIds \subseteq 1..lastMsg
      BY <1>0, SignalOrderAssumption
    <3>4. lastMsg' \in 0..MaxEvals /\ (lastMsg' = lastMsg \/ lastMsg' = lastMsg + 1)
      BY <3>1, <3>3
    <3>5. 1..lastMsg \subseteq 1..lastMsg' /\ (lastMsg' = lastMsg + 1 => lastMsg' \in 1..lastMsg')
      BY <3>3, <3>4
    <3>6. QED BY <3>2, <3>3, <3>4, <3>5
  <2>6. sent' \in [Prices \X (0..MaxBucket) -> Nat]
    <3>1. <<worker[w].price, worker[w].bucket>> \in Prices \X (0..MaxBucket)
      BY <1>0, <2>1 DEF Worker
    <3>2. sent' \in {sent, [sent EXCEPT ![<<worker[w].price, worker[w].bucket>>] = @ + 1]}
      BY <1>5 DEF SendAlert, PersistAlert
    <3>3. QED BY <1>0, <3>1, <3>2
  <2>7. QED BY <1>0, <1>5, <2>3, <2>4, <2>5, <2>6 DEF SendAlert, PersistAlert, TypeInv
<1>6. CASE CreateIntent(w)
  <2> DEFINE key == IdempotencyKey(worker[w].sid, worker[w].price)
             r == [worker[w] EXCEPT !.pc = "guard", !.key = key]
             row(status) == [NoIntent EXCEPT !.status = status, !.bucket = bucket]
  <2>1. key \in Keys /\ worker[w].pc = "intent" /\ worker[w].price \in Prices
    BY <1>0, <1>6, KeyType DEF CreateIntent, At, TypeInv, Priced, Worker
  <2>2. ASSUME worker' = [worker EXCEPT ![w].pc = "guard", ![w].key = key]
        PROVE  worker' \in [Workers -> Worker] /\ Priced' /\ Keyed'
    <3>1. r \in Worker /\ r.pc = "guard" /\ r.price = worker[w].price /\ r.key = key
      BY <1>0, <2>1 DEF Worker, Pcs
    <3>2. /\ worker' \in [Workers -> Worker] /\ worker'[w] = r
          /\ \A v \in Workers \ {w} : worker'[v] = worker[v]
      BY <1>0, <2>2, <3>1
    <3>3. worker'[w].price \in Prices /\ worker'[w].key \in Keys
      BY <2>1, <3>1, <3>2
    <3> HIDE DEF key, r
    <3>4. QED BY <3>2, <3>3, WorkerStep
  <2>3. ASSUME Finish(w)
        PROVE  worker' \in [Workers -> Worker] /\ Priced' /\ Keyed'
    BY <2>1, <2>3, FinishStep
  <2>4. worker' \in [Workers -> Worker] /\ Priced' /\ Keyed'
    BY <1>6, <2>2, <2>3 DEF CreateIntent
  <2>5. intents' \in [Keys -> Intent]
    <3>1. row("PENDING") \in Intent /\ row("BLOCKED_LIVE_TRADING") \in Intent
      BY <1>0 DEF NoIntent, Intent, Statuses, OrderIds
    <3>2. \/ intents' = [intents EXCEPT ![key] = row("PENDING")]
          \/ intents' = [intents EXCEPT ![key] = row("BLOCKED_LIVE_TRADING")]
          \/ intents' = intents
      BY <1>6 DEF CreateIntent
    <3>3. QED BY <1>0, <2>1, <3>1, <3>2
  <2>6. QED BY <1>0, <1>6, <2>4, <2>5 DEF CreateIntent, TypeInv
<1>7. CASE Guard(w)
  <2>1. \/ Goto(w, "claim") /\ UNCHANGED <<intents, abandoned>>
        \/ Close(w, "ORDER_FAILED") \/ Abandon(w)
    BY <1>7 DEF Guard
  <2>2. /\ worker' \in [Workers -> Worker] /\ Priced' /\ Keyed'
        /\ intents' \in [Keys -> Intent] /\ abandoned' \subseteq Keys
    BY <1>0, <1>7, <2>1, GotoStep, EndStep DEF Guard, At, Pcs, Holding
  <2>3. QED BY <1>0, <1>7, <2>2 DEF Guard, TypeInv
<1>8. CASE ClaimSlot(w)
  <2>1. \/ Goto(w, "place") /\ UNCHANGED <<intents, abandoned>>
        \/ Close(w, "ORDER_FAILED") \/ Abandon(w)
    BY <1>8 DEF ClaimSlot
  <2>2. /\ worker' \in [Workers -> Worker] /\ Priced' /\ Keyed'
        /\ intents' \in [Keys -> Intent] /\ abandoned' \subseteq Keys
    BY <1>0, <1>8, <2>1, GotoStep, EndStep DEF ClaimSlot, At, Pcs, Holding
  <2>3. slot' \subseteq Procs
    BY <1>0, <1>8, SignalOrderAssumption DEF ClaimSlot
  <2>4. QED BY <1>0, <1>8, <2>2, <2>3 DEF ClaimSlot, TypeInv
<1>9. CASE Place(w)
  <2>0. worker[w].pc = "place" /\ worker[w].price \in Prices /\ worker[w].key \in Keys
    BY <1>9 DEF Place, At, TypeInv, Priced, Keyed, Holding
  <2>1. ASSUME Goto(w, "release")
        PROVE  worker' \in [Workers -> Worker] /\ Priced' /\ Keyed'
    BY <2>0, <2>1, GotoStep DEF Pcs, Holding
  <2>2. ASSUME NEW id \in OrderIds, Answered(w, id)
        PROVE  worker' \in [Workers -> Worker] /\ Priced' /\ Keyed'
    <3>1. worker' = [v \in Workers |-> worker'[v]]
      BY <1>0, <2>2 DEF Answered
    <3>2. \A v \in Workers : worker'[v] \in Worker
      BY <1>0, <2>2, AnsweredMoves
    <3>3. worker' \in [Workers -> Worker]
      BY <3>1, <3>2
    <3>4. QED BY <2>0, <2>2, <3>3, AnsweredMoves, WorkerStep
  <2>3. Goto(w, "release") \/ \E id \in OrderIds : Answered(w, id)
    BY <1>9 DEF Place, OrderIds
  <2>4. worker' \in [Workers -> Worker] /\ Priced' /\ Keyed'
    BY <2>1, <2>2, <2>3
  <2>5. orders' \in {orders, [orders EXCEPT ![worker[w].key] = @ + 1]}
    BY <1>9 DEF Place, Answered
  <2>6. orders' \in [Keys -> Nat]
    BY <1>0, <2>0, <2>5
  <2>7. QED BY <1>0, <1>9, <2>4, <2>6 DEF Place, TypeInv
<1>10. CASE Placed(w)
  <2>0. worker[w].pc = "protect" /\ worker[w].key \in Keys /\ worker[w].id \in OrderIds
    BY <1>0, <1>10 DEF Placed, At, TypeInv, Keyed, Holding, Worker
  <2>1. ASSUME Close(w, "ORDER_FAILED") \/ Abandon(w)
        PROVE  /\ worker' \in [Workers -> Worker] /\ Priced' /\ Keyed'
               /\ intents' \in [Keys -> Intent] /\ abandoned' \subseteq Keys
    BY <2>0, <2>1, EndStep DEF Holding
  <2>2. ASSUME intents' = [intents EXCEPT ![worker[w].key].status = "ORDER_PLACED",
                                          ![worker[w].key].id = worker[w].id],
               Finish(w), UNCHANGED abandoned
        PROVE  /\ worker' \in [Workers -> Worker] /\ Priced' /\ Keyed'
               /\ intents' \in [Keys -> Intent] /\ abandoned' \subseteq Keys
    <3>1. [intents[worker[w].key] EXCEPT !.status = "ORDER_PLACED",
                                         !.id = worker[w].id] \in Intent
      BY <1>0, <2>0 DEF Intent, Statuses
    <3>2. intents' \in [Keys -> Intent]
      BY <1>0, <2>0, <2>2, <3>1
    <3>3. QED BY <1>0, <2>0, <2>2, <3>2, FinishStep
  <2>3. /\ worker' \in [Workers -> Worker] /\ Priced' /\ Keyed'
        /\ intents' \in [Keys -> Intent] /\ abandoned' \subseteq Keys
    BY <1>10, <2>1, <2>2 DEF Placed
  <2>4. slot' \subseteq Procs
    BY <1>0, <1>10 DEF Placed
  <2>5. QED BY <1>0, <1>10, <2>3, <2>4 DEF Placed, TypeInv
<1>11. CASE Release(w)
  <2>1. /\ worker' \in [Workers -> Worker] /\ Priced' /\ Keyed'
        /\ intents' \in [Keys -> Intent] /\ abandoned' \subseteq Keys
    BY <1>11, EndStep DEF Release, At, Holding
  <2>2. QED BY <1>0, <1>11, <2>1 DEF Release, TypeInv
<1>12. CASE Record(w)
  <2>1. worker' \in [Workers -> Worker] /\ Priced' /\ Keyed'
    BY <1>12, IdleStep DEF Record
  <2>2. throttle' \in Throttle
    <3>1. worker[w].price \in Prices \cup {0}
      BY <1>0 DEF Worker
    <3>2. throttle' \in {throttle, [price |-> worker[w].price, fresh |-> TRUE]}
      BY <1>12 DEF Record
    <3>3. [price |-> worker[w].price, fresh |-> TRUE] \in Throttle
      BY <3>1 DEF Throttle
    <3>4. throttle \in Throttle
      BY <1>0
    <3>5. QED BY <3>2, <3>3, <3>4
  <2>3. QED BY <1>0, <1>12, <2>1, <2>2 DEF Record, TypeInv
<1>13. QED
  BY <1>1, <1>2, <1>3, <1>4, <1>5, <1>6, <1>7, <1>8, <1>9, <1>10, <1>11, <1>12 DEF Continue

\* Time, the operator and the rest of the system.
LEMMA TypeOthers ==
    ASSUME TypeInv,
           \/ \E w \in Workers : Refuse(w)
           \/ CoolDown \/ NextBucket \/ Toggle \/ SyncOrder \/ Reconcile \/ UNCHANGED vars
    PROVE  TypeInv'
<1> USE DEF TypeOK
<1>0. TypeOK /\ Priced /\ Keyed
  BY DEF TypeInv
<1>1. worker' = worker
  BY DEF Refuse, CoolDown, NextBucket, Toggle, SyncOrder, Reconcile, vars
<1>2. Priced' /\ Keyed'
  BY <1>0, <1>1 DEF Priced, Keyed
<1>3. CASE \E w \in Workers : Refuse(w)
  BY <1>0, <1>2, <1>3 DEF Refuse, TypeInv
<1>4. CASE CoolDown
  <2>1. throttle' \in Throttle
    BY <1>0, <1>4 DEF CoolDown, Throttle
  <2>2. QED BY <1>0, <1>2, <1>4, <2>1 DEF CoolDown, TypeInv
<1>5. CASE NextBucket
  <2>1. bucket' \in 0..MaxBucket
    BY <1>0, <1>5, SignalOrderAssumption DEF NextBucket
  <2>2. QED BY <1>0, <1>2, <1>5, <2>1 DEF NextBucket, TypeInv
<1>6. CASE Toggle \/ SyncOrder
  BY <1>0, <1>2, <1>6 DEF Toggle, SyncOrder, TypeInv
<1>7. CASE Reconcile
  <2>1. \A k \in Keys : [intents[k] EXCEPT !.status = "ORDER_FAILED"] \in Intent
    BY <1>0 DEF Intent, Statuses
  <2>2. PICK k \in Keys : intents' = [intents EXCEPT ![k].status = "ORDER_FAILED"]
    BY <1>7 DEF Reconcile
  <2>3. intents' \in [Keys -> Intent]
    BY <1>0, <2>1, <2>2
  <2>4. QED BY <1>0, <1>2, <1>7, <2>3 DEF Reconcile, TypeInv
<1>8. CASE UNCHANGED vars
  BY <1>0, <1>2, <1>8 DEF vars, TypeInv
<1>9. QED
  BY <1>3, <1>4, <1>5, <1>6, <1>7, <1>8

LEMMA TypeCrash ==
    ASSUME TypeInv, NEW p \in Procs, Crash(p)
    PROVE  TypeInv'
<1>0. TypeOK /\ Priced /\ Keyed
  BY DEF TypeInv
<1>1. \A w \in Workers : worker'[w] \in {Idle, worker[w]}
  BY <1>0 DEF Crash, TypeOK
<1>2. worker' \in [Workers -> Worker]
  BY <1>0, IdleType DEF Crash, TypeOK
<1>3. Idle.pc = "idle"
  BY DEF Idle
<1>4. Priced' /\ Keyed'
  BY <1>0, <1>1, <1>3 DEF Priced, Keyed, Holding
<1>5. abandoned' \subseteq Keys
  BY <1>0 DEF Crash, TypeOK, Keyed
<1>6. QED
  BY <1>0, <1>2, <1>4, <1>5 DEF Crash, TypeOK, TypeInv

LEMMA TypeInvariant == Spec => []TypeInv
<1>1. TypeInv /\ [Next]_vars => TypeInv'
  BY TypeWorker, TypeOthers, TypeCrash DEF Next, Exhausted
<1>2. QED
  BY <1>1, TypeInit, PTL DEF Spec

\* The statuses an intent takes are the five of its column, a message's id is one
\* that was written, and every counter stays within its bound.
THEOREM TypeCorrect == Spec => []TypeOK
<1>1. TypeInv => TypeOK
  BY DEF TypeInv
<1>2. QED
  BY <1>1, TypeInvariant, PTL

-----------------------------------------------------------------------------
(* What the steps of one evaluation do, for all the theorems below: those that *)
(* hold no intent, the one that takes it, and those that hold it.              *)

\* The intent that CreateIntent looks for, or inserts.
OwnKey(w) == IdempotencyKey(worker[w].sid, worker[w].price)

LEMMA FreeSteps ==
    ASSUME TypeInv, NEW w \in Workers,
           \/ Evaluate(w) \/ CheckAlertLock(w) \/ SetAlertLock(w) \/ CheckDedup(w)
           \/ SendAlert(w) \/ PersistAlert(w) \/ Record(w)
    PROVE  /\ worker[w].pc \notin Holding /\ worker'[w].pc \notin Holding
           /\ \A v \in Workers \ {w} : worker'[v] = worker[v]
           /\ UNCHANGED <<slot, intents, orders, abandoned>>
<1>0. TypeOK /\ worker[w] \in Worker
  BY DEF TypeInv, TypeOK
<1>1. worker[w].pc \notin Holding /\ UNCHANGED <<slot, intents, orders, abandoned>>
  BY DEF Evaluate, CheckAlertLock, SetAlertLock, CheckDedup, SendAlert, PersistAlert, Record,
         At, Holding
<1>2. /\ worker'[w].pc \in {"check", "idle", "lock", "dedup", "intent", "send", "persist"}
      /\ \A v \in Workers \ {w} : worker'[v] = worker[v]
  <2>1. CASE Evaluate(w)
    BY <1>0, <2>1 DEF Evaluate, TypeOK, Idle
  <2>2. CASE CheckAlertLock(w) \/ SetAlertLock(w)
    <3>1. \/ worker' = [worker EXCEPT ![w] = Idle]
          \/ \E pc \in {"lock", "dedup"} : Goto(w, pc)
      BY <2>2 DEF CheckAlertLock, SetAlertLock
    <3>2. CASE worker' = [worker EXCEPT ![w] = Idle]
      BY <1>0, <3>2 DEF TypeOK, Idle
    <3>3. CASE \E pc \in {"lock", "dedup"} : Goto(w, pc)
      BY <3>3, GotoMoves DEF Pcs
    <3>4. QED BY <3>1, <3>2, <3>3
  <2>3. CASE CheckDedup(w)
    BY <2>3, DedupMoves DEF Emissions
  <2>4. CASE SendAlert(w) \/ PersistAlert(w)
    <3>1. lastMsg \in 0..MaxEvals /\ (lastMsg < MaxEvals => lastMsg + 1 \in 0..MaxEvals)
      BY <1>0, SignalOrderAssumption DEF TypeOK
    <3>2. \E sid \in 0..MaxEvals : Alerted(w, sid)
      BY <2>4, <3>1, SignalOrderAssumption DEF SendAlert, PersistAlert, NewRow
    <3>3. QED BY <3>2, AlertedMoves
  <2>5. CASE Record(w)
    BY <1>0, <2>5 DEF Record, TypeOK, Idle
  <2>6. QED BY <2>1, <2>2, <2>3, <2>4, <2>5
<1>3. QED
  BY <1>1, <1>2 DEF Holding

LEMMA TakingStep ==
    ASSUME TypeInv, NEW w \in Workers, CreateIntent(w)
    PROVE  /\ worker[w].pc = "intent" /\ OwnKey(w) \in Keys
           /\ UNCHANGED <<slot, orders, abandoned>>
           /\ \A v \in Workers \ {w} : worker'[v] = worker[v]
           /\ \A k \in Keys \ {OwnKey(w)} : intents'[k] = intents[k]
           /\ \/ worker'[w].pc = "record" /\ intents' = intents
              \/ /\ intents[OwnKey(w)].status = "absent" /\ intents'[OwnKey(w)].id = "none"
                 /\ \/ /\ worker'[w].pc = "record"
                       /\ intents'[OwnKey(w)].status = "BLOCKED_LIVE_TRADING"
                    \/ /\ worker'[w].pc = "guard" /\ worker'[w].key = OwnKey(w)
                       /\ intents'[OwnKey(w)].status = "PENDING"
<1> DEFINE key == OwnKey(w)
           row(status) == [NoIntent EXCEPT !.status = status, !.bucket = bucket]
<1>0. TypeOK /\ worker[w] \in Worker /\ worker[w].pc = "intent" /\ worker[w].price \in Prices
  BY DEF TypeInv, TypeOK, CreateIntent, At, Priced
<1>1. key \in Keys
  BY <1>0, KeyType DEF Worker, OwnKey
<1>2. UNCHANGED <<slot, orders, abandoned>>
  BY DEF CreateIntent
<1>3. \A status : row(status).status = status /\ row(status).id = "none"
  BY DEF NoIntent
<1>4. \/ Finish(w) /\ intents' = intents
      \/ /\ intents[key].status = "absent" /\ Finish(w)
         /\ intents' = [intents EXCEPT ![key] = row("BLOCKED_LIVE_TRADING")]
      \/ /\ intents[key].status = "absent"
         /\ worker' = [worker EXCEPT ![w].pc = "guard", ![w].key = key]
         /\ intents' = [intents EXCEPT ![key] = row("PENDING")]
  BY DEF CreateIntent, OwnKey
<1> HIDE DEF key, row
<1>5. \A k \in Keys \ {key} : intents'[k] = intents[k]
  BY <1>0, <1>1, <1>4 DEF TypeOK
<1>6. CASE Finish(w) /\ intents' = intents
  BY <1>0, <1>1, <1>2, <1>5, <1>6, FinishMoves DEF key
<1>7. CASE /\ intents[key].status = "absent" /\ Finish(w)
           /\ intents' = [intents EXCEPT ![key] = row("BLOCKED_LIVE_TRADING")]
  <2>1. intents'[key] = row("BLOCKED_LIVE_TRADING")
    BY <1>0, <1>1, <1>7 DEF TypeOK
  <2>2. QED BY <1>0, <1>1, <1>2, <1>3, <1>5, <1>7, <2>1, FinishMoves DEF key
<1>8. CASE /\ intents[key].status = "absent"
           /\ worker' = [worker EXCEPT ![w].pc = "guard", ![w].key = key]
           /\ intents' = [intents EXCEPT ![key] = row("PENDING")]
  <2>1. intents'[key] = row("PENDING")
    BY <1>0, <1>1, <1>8 DEF TypeOK
  <2>2. /\ worker'[w] = [worker[w] EXCEPT !.pc = "guard", !.key = key]
        /\ \A v \in Workers \ {w} : worker'[v] = worker[v]
    BY <1>0, <1>8 DEF TypeOK
  <2>3. worker'[w].pc = "guard" /\ worker'[w].key = key
    BY <1>0, <2>2 DEF Worker
  <2>4. /\ intents[key].status = "absent"
        /\ intents'[key].id = "none" /\ intents'[key].status = "PENDING"
    BY <1>3, <1>8, <2>1
  <2>5. QED BY <1>0, <1>1, <1>2, <1>5, <2>2, <2>3, <2>4 DEF key
<1>9. QED
  BY <1>4, <1>6, <1>7, <1>8

\* A placement goes on with its intent as it is, or is over: by an update of the
\* intent, or by an exception.
GoesOn(w) == /\ worker'[w].pc \in Holding /\ worker'[w].key = worker[w].key
             /\ UNCHANGED <<intents, abandoned>>
IsUpdated(w) == /\ worker'[w].pc = "record" /\ UNCHANGED <<orders, abandoned>>
                /\ intents'[worker[w].key].status \in {"ORDER_PLACED", "ORDER_FAILED"}
IsAbandoned(w) == /\ worker'[w].pc = "record" /\ UNCHANGED <<orders, intents>>
                  /\ abandoned' = abandoned \cup {worker[w].key}

LEMMA EndMoves ==
    ASSUME TypeInv, NEW w \in Workers, worker[w].pc \in Holding, orders' = orders,
           Close(w, "ORDER_FAILED") \/ Abandon(w)
    PROVE  /\ IsUpdated(w) \/ IsAbandoned(w)
           /\ \A v \in Workers \ {w} : worker'[v] = worker[v]
           /\ \A k \in Keys \ {worker[w].key} : intents'[k] = intents[k]
BY FinishMoves, UpdateMoves DEF Close, Abandon, IsUpdated, IsAbandoned, Statuses

LEMMA HoldingSteps ==
    ASSUME TypeInv, NEW w \in Workers,
           Guard(w) \/ ClaimSlot(w) \/ Place(w) \/ Placed(w) \/ Release(w)
    PROVE  /\ worker[w].pc \in Holding /\ worker[w].key \in Keys
           /\ GoesOn(w) \/ IsUpdated(w) \/ IsAbandoned(w)
           /\ \A v \in Workers \ {w} : worker'[v] = worker[v]
           /\ \A k \in Keys \ {worker[w].key} : intents'[k] = intents[k] /\ orders'[k] = orders[k]
<1>0. TypeOK
  BY DEF TypeInv
<1>1. worker[w].pc \in Holding /\ worker[w].key \in Keys
  BY DEF Guard, ClaimSlot, Place, Placed, Release, At, Holding, TypeInv, Keyed
<1>2. CASE orders' = orders /\ (Close(w, "ORDER_FAILED") \/ Abandon(w))
  BY <1>1, <1>2, EndMoves
<1>3. CASE /\ \E pc \in {"claim", "place", "release"} : Goto(w, pc)
           /\ UNCHANGED <<intents, abandoned>>
           /\ orders' \in {orders, [orders EXCEPT ![worker[w].key] = @ + 1]}
  <2>1. /\ worker'[w].pc \in Holding /\ worker'[w].key = worker[w].key
        /\ \A v \in Workers \ {w} : worker'[v] = worker[v]
    BY <1>3, GotoMoves DEF Pcs, Holding
  <2>2. \A k \in Keys \ {worker[w].key} : orders'[k] = orders[k]
    BY <1>0, <1>3 DEF TypeOK
  <2>3. QED BY <1>1, <1>3, <2>1, <2>2 DEF GoesOn
<1>4. CASE UNCHANGED <<intents, abandoned>> /\ \E id \in OrderIds : Answered(w, id)
  <2>1. /\ worker'[w].pc \in Holding /\ worker'[w].key = worker[w].key
        /\ \A v \in Workers \ {w} : worker'[v] = worker[v]
    BY <1>4, AnsweredMoves DEF Holding
  <2>2. \A k \in Keys \ {worker[w].key} : orders'[k] = orders[k]
    BY <1>0, <1>4 DEF Answered, TypeOK
  <2>3. QED BY <1>1, <1>4, <2>1, <2>2 DEF GoesOn
<1>5. CASE /\ intents' = [intents EXCEPT ![worker[w].key].status = "ORDER_PLACED",
                                         ![worker[w].key].id = worker[w].id]
           /\ Finish(w) /\ UNCHANGED <<orders, abandoned>>
  <2>1. /\ intents'[worker[w].key].status = "ORDER_PLACED"
        /\ \A k \in Keys \ {worker[w].key} : intents'[k] = intents[k]
    BY <1>0, <1>1, <1>5 DEF TypeOK, Intent
  <2>2. QED BY <1>1, <1>5, <2>1, FinishMoves DEF IsUpdated
<1>6. CASE Guard(w) \/ ClaimSlot(w) \/ Release(w)
  BY <1>2, <1>3, <1>6 DEF Guard, ClaimSlot, Release
<1>7. CASE Place(w)
  BY <1>3, <1>4, <1>7 DEF Place, OrderIds
<1>8. CASE Placed(w)
  BY <1>2, <1>5, <1>8 DEF Placed
<1>9. QED
  BY <1>6, <1>7, <1>8

LEMMA OneMoves ==
    ASSUME TypeInv, NEW w \in Workers, Evaluate(w) \/ Continue(w)
    PROVE  \A v \in Workers \ {w} : worker'[v] = worker[v]
BY FreeSteps, TakingStep, HoldingSteps DEF Continue

-----------------------------------------------------------------------------
(* One order per intent.  The insert of the intent hands its key to one worker, *)
(* for good: no other worker takes a key whose intent exists, whatever becomes  *)
(* of its status, and the worker that has it passes Place once.                 *)

\* Before the order, and between the order and the update of the intent.
BeforeOrder == {"guard", "claim", "place"}

IntentTaken     == \A w \in Workers :
                      worker[w].pc \in Holding =>
                          intents[worker[w].key].status \notin {"absent", "ORDER_PLACED"}
NoIntentNoOrder == \A k \in Keys : intents[k].status = "absent" => orders[k] = 0
NotYetPlaced    == \A w \in Workers :
                      worker[w].pc \in BeforeOrder => orders[worker[w].key] = 0
HasPlaced       == \A w \in Workers :
                      worker[w].pc = "protect" =>
                          orders[worker[w].key] = IF worker[w].id = "exchange" THEN 1 ELSE 0

OrderParts == /\ IntentTaken /\ NoIntentNoOrder /\ NotYetPlaced /\ HasPlaced
              /\ OneWorkerPerIntent /\ OneOrderPerIntent /\ OrderIdIsTrue
OrderInv == TypeInv /\ OrderParts

LEMMA OrderInit == Init => OrderParts
<1> SUFFICES ASSUME Init PROVE OrderParts
  OBVIOUS
<1>1. \A w \in Workers : worker[w].pc = "idle"
  BY DEF Init, Idle
<1>2. \A k \in Keys : orders[k] = 0 /\ intents[k].status = "absent" /\ intents[k].id = "none"
  BY DEF Init, NoIntent
<1>3. QED
  BY <1>1, <1>2 DEF OrderParts, IntentTaken, NoIntentNoOrder, NotYetPlaced, HasPlaced, Holding,
     BeforeOrder, OneWorkerPerIntent, OneOrderPerIntent, OrderIdIsTrue

\* What an intent's status and id claim of its order.
Truthful(intent, n) ==
    /\ intent.id = "exchange" => n = 1
    /\ intent.status = "ORDER_PLACED" /\ intent.id # "exchange" => n = 0

\* A step that places no order and creates no intent, in which no worker takes a
\* key or goes back before its order, and whatever an intent claims is true.
LEMMA OrderFrame ==
    ASSUME OrderInv, TypeInv', orders' = orders,
           \A k \in Keys :
               /\ intents'[k].status = "absent" <=> intents[k].status = "absent"
               /\ intents'[k] = intents[k] \/ Truthful(intents'[k], orders[k]),
           \A w \in Workers :
               /\ worker'[w].pc \in Holding =>
                      /\ worker[w].pc \in Holding /\ worker'[w].key = worker[w].key
                      /\ \/ intents'[worker[w].key] = intents[worker[w].key]
                         \/ intents'[worker[w].key].status = "ORDER_FAILED"
               /\ worker'[w].pc \in BeforeOrder => worker[w].pc \in BeforeOrder
               /\ worker'[w].pc = "protect" =>
                      worker[w].pc = "protect" /\ worker'[w].id = worker[w].id
    PROVE  OrderInv'
<1>0. TypeInv /\ OrderParts /\ BeforeOrder \subseteq Holding /\ "protect" \in Holding
  BY DEF OrderInv, BeforeOrder, Holding
<1>1. \A w \in Workers : worker'[w].pc \in Holding => worker[w].key \in Keys
  BY <1>0 DEF TypeInv, Keyed
<1>2. IntentTaken'
  BY <1>0, <1>1 DEF OrderParts, IntentTaken
<1>3. NoIntentNoOrder' /\ OneOrderPerIntent'
  BY <1>0 DEF OrderParts, NoIntentNoOrder, OneOrderPerIntent
<1>4. OrderIdIsTrue'
  BY <1>0 DEF OrderParts, OrderIdIsTrue, Truthful
<1>5. NotYetPlaced' /\ HasPlaced'
  BY <1>0 DEF OrderParts, NotYetPlaced, HasPlaced
<1>6. OneWorkerPerIntent'
  BY <1>0 DEF OrderParts, OneWorkerPerIntent
<1>7. QED
  BY <1>2, <1>3, <1>4, <1>5, <1>6 DEF OrderInv, OrderParts

\* The two steps that are more than that.
LEMMA OrderCreateIntent ==
    ASSUME OrderInv, TypeInv', NEW w \in Workers, CreateIntent(w)
    PROVE  OrderInv'
<1> DEFINE key == OwnKey(w)
<1>0. /\ TypeInv /\ OrderParts /\ BeforeOrder \subseteq Holding /\ "protect" \in Holding
      /\ key \in Keys
  BY TakingStep DEF OrderInv, BeforeOrder, Holding
<1>1. /\ worker[w].pc = "intent" /\ orders' = orders
      /\ \A v \in Workers \ {w} : worker'[v] = worker[v]
      /\ \A k \in Keys \ {key} : intents'[k] = intents[k]
  BY <1>0, TakingStep
<1> HIDE DEF key
<1>2. CASE worker'[w].pc = "record" /\ intents' = intents
  BY <1>1, <1>2, OrderFrame DEF Holding, BeforeOrder
<1>3. CASE /\ intents[key].status = "absent" /\ intents'[key].id = "none"
           /\ intents'[key].status = "BLOCKED_LIVE_TRADING" /\ worker'[w].pc = "record"
  <2>1. \A v \in Workers : worker'[v].pc \in Holding => v # w /\ worker'[v] = worker[v]
    BY <1>1, <1>3 DEF Holding
  <2>2. IntentTaken'
    BY <1>0, <1>1, <1>3, <2>1 DEF OrderParts, IntentTaken, TypeInv, Keyed
  <2>3. NoIntentNoOrder' /\ OneOrderPerIntent'
    BY <1>0, <1>1, <1>3 DEF OrderParts, NoIntentNoOrder, OneOrderPerIntent
  <2>4. NotYetPlaced' /\ HasPlaced' /\ OneWorkerPerIntent'
    BY <1>0, <1>1, <2>1 DEF OrderParts, NotYetPlaced, HasPlaced, OneWorkerPerIntent
  <2>5. OrderIdIsTrue'
    BY <1>0, <1>1, <1>3 DEF OrderParts, OrderIdIsTrue
  <2>6. QED BY <2>2, <2>3, <2>4, <2>5 DEF OrderInv, OrderParts
<1>4. CASE /\ intents[key].status = "absent" /\ intents'[key].id = "none"
           /\ intents'[key].status = "PENDING"
           /\ worker'[w].pc = "guard" /\ worker'[w].key = key
  <2>1. \A v \in Workers \ {w} : worker[v].pc \in Holding => worker[v].key # key
    BY <1>0, <1>4 DEF OrderParts, IntentTaken
  <2>2. orders[key] = 0
    BY <1>0, <1>4 DEF OrderParts, NoIntentNoOrder
  <2>3. IntentTaken'
    BY <1>0, <1>1, <1>4, <2>1 DEF OrderParts, IntentTaken, TypeInv, Keyed
  <2>4. NoIntentNoOrder' /\ OneOrderPerIntent'
    BY <1>0, <1>1, <1>4 DEF OrderParts, NoIntentNoOrder, OneOrderPerIntent
  <2>5. NotYetPlaced' /\ HasPlaced'
    BY <1>0, <1>1, <1>4, <2>2 DEF OrderParts, NotYetPlaced, HasPlaced
  <2>6. OneWorkerPerIntent'
    BY <1>0, <1>1, <1>4, <2>1 DEF OrderParts, OneWorkerPerIntent
  <2>7. OrderIdIsTrue'
    BY <1>0, <1>1, <1>4 DEF OrderParts, OrderIdIsTrue
  <2>8. QED BY <2>3, <2>4, <2>5, <2>6, <2>7 DEF OrderInv, OrderParts
<1>5. QED
  BY <1>0, <1>2, <1>3, <1>4, TakingStep DEF key

LEMMA OrderPlace ==
    ASSUME OrderInv, TypeInv', NEW w \in Workers, Place(w)
    PROVE  OrderInv'
<1> DEFINE key == worker[w].key
<1>0. /\ TypeInv /\ TypeOK /\ OrderParts
      /\ BeforeOrder \subseteq Holding /\ "protect" \in Holding
  BY DEF OrderInv, TypeInv, BeforeOrder, Holding
<1>1. worker[w].pc = "place" /\ key \in Keys /\ intents' = intents
  BY <1>0 DEF Place, At, TypeInv, Keyed, Holding
<1>2. orders[key] = 0 /\ intents[key].status \notin {"absent", "ORDER_PLACED"}
  BY <1>0, <1>1 DEF OrderParts, NotYetPlaced, IntentTaken, BeforeOrder, Holding
<1>3. \A v \in Workers \ {w} : worker[v].pc \in Holding => worker[v].key # key
  BY <1>0, <1>1 DEF OrderParts, OneWorkerPerIntent, Holding
<1>4. /\ worker'[w].pc \in {"protect", "release"} /\ worker'[w].key = key
      /\ \A v \in Workers \ {w} : worker'[v] = worker[v]
      /\ \A k \in Keys \ {key} : orders'[k] = orders[k]
      /\ orders'[key] \in {0, 1}
      /\ worker'[w].pc = "protect" =>
            orders'[key] = IF worker'[w].id = "exchange" THEN 1 ELSE 0
  <2>1. CASE /\ Goto(w, "release")
             /\ orders' \in {orders, [orders EXCEPT ![key] = @ + 1]}
    <3>1. /\ worker'[w].pc = "release" /\ worker'[w].key = key
          /\ \A v \in Workers \ {w} : worker'[v] = worker[v]
      BY <1>0, <2>1, GotoMoves DEF Pcs
    <3>2. /\ orders'[key] \in {0, 1}
          /\ \A k \in Keys \ {key} : orders'[k] = orders[k]
      BY <1>0, <1>1, <1>2, <2>1 DEF TypeOK
    <3>3. QED BY <3>1, <3>2
  <2>2. ASSUME NEW id \in OrderIds, Answered(w, id)
        PROVE  /\ worker'[w].pc = "protect" /\ worker'[w].key = key
               /\ \A v \in Workers \ {w} : worker'[v] = worker[v]
               /\ \A k \in Keys \ {key} : orders'[k] = orders[k]
               /\ orders'[key] = IF worker'[w].id = "exchange" THEN 1 ELSE 0
    <3>1. /\ worker'[w].pc = "protect" /\ worker'[w].key = key /\ worker'[w].id = id
          /\ \A v \in Workers \ {w} : worker'[v] = worker[v]
      BY <1>0, <2>2, AnsweredMoves
    <3>2. /\ orders'[key] = IF id = "exchange" THEN 1 ELSE 0
          /\ \A k \in Keys \ {key} : orders'[k] = orders[k]
      BY <1>0, <1>1, <1>2, <2>2 DEF Answered, TypeOK
    <3>3. QED BY <3>1, <3>2
  <2>3. \/ \E id \in OrderIds : Answered(w, id)
        \/ Goto(w, "release") /\ orders' \in {orders, [orders EXCEPT ![key] = @ + 1]}
    BY DEF Place, OrderIds
  <2>4. QED BY <2>1, <2>2, <2>3
<1> HIDE DEF key
<1>5. \A v \in Workers \ {w} :
          worker'[v].pc \in Holding => worker[v].key # key /\ worker[v].key \in Keys
  BY <1>0, <1>3, <1>4 DEF TypeInv, Keyed
<1>6. IntentTaken' /\ NoIntentNoOrder'
  BY <1>0, <1>1, <1>2, <1>4 DEF OrderParts, IntentTaken, NoIntentNoOrder
<1>7. NotYetPlaced'
  BY <1>0, <1>4, <1>5 DEF OrderParts, NotYetPlaced, BeforeOrder
<1>8. HasPlaced'
  BY <1>0, <1>4, <1>5 DEF OrderParts, HasPlaced
<1>9. OneWorkerPerIntent'
  BY <1>0, <1>3, <1>4 DEF OrderParts, OneWorkerPerIntent
<1>10. OneOrderPerIntent' /\ OrderIdIsTrue'
  BY <1>0, <1>1, <1>2, <1>4 DEF OrderParts, OneOrderPerIntent, OrderIdIsTrue
<1>11. QED
  BY <1>6, <1>7, <1>8, <1>9, <1>10 DEF OrderInv, OrderParts

\* The end of a placement: whatever its intent says after it is true.
LEMMA OrderEnd ==
    ASSUME OrderInv, TypeInv', NEW w \in Workers, worker[w].pc \in Holding, orders' = orders,
           \/ Close(w, "ORDER_FAILED") \/ Abandon(w)
           \/ /\ intents' = [intents EXCEPT ![worker[w].key].status = "ORDER_PLACED",
                                            ![worker[w].key].id = worker[w].id]
              /\ Finish(w) /\ worker[w].pc = "protect"
    PROVE  OrderInv'
<1> DEFINE key == worker[w].key
<1>0. /\ TypeInv /\ TypeOK /\ OrderParts /\ key \in Keys
      /\ intents[key].status # "absent" /\ Truthful(intents[key], orders[key])
  BY DEF OrderInv, TypeInv, Keyed, OrderParts, IntentTaken, OrderIdIsTrue, Truthful
<1>1. worker'[w].pc = "record" /\ \A v \in Workers \ {w} : worker'[v] = worker[v]
  BY <1>0, FinishMoves DEF Close, Abandon
<1>2. /\ \A k \in Keys \ {key} : intents'[k] = intents[k]
      /\ \/ intents'[key] = intents[key]
         \/ intents'[key].status # "absent" /\ Truthful(intents'[key], orders[key])
  <2>1. CASE Close(w, "ORDER_FAILED")
    <3>1. /\ intents'[key].status = "ORDER_FAILED" /\ intents'[key].id = intents[key].id
          /\ \A k \in Keys \ {key} : intents'[k] = intents[k]
      BY <1>0, <2>1, UpdateMoves DEF Close, Statuses
    <3>2. QED BY <1>0, <3>1 DEF Truthful
  <2>2. CASE Abandon(w)
    BY <2>2 DEF Abandon
  <2>3. CASE /\ intents' = [intents EXCEPT ![key].status = "ORDER_PLACED",
                                           ![key].id = worker[w].id]
             /\ worker[w].pc = "protect"
    <3>1. /\ intents'[key].status = "ORDER_PLACED" /\ intents'[key].id = worker[w].id
          /\ \A k \in Keys \ {key} : intents'[k] = intents[k]
      BY <1>0, <2>3 DEF TypeOK, Intent
    <3>2. orders[key] = IF worker[w].id = "exchange" THEN 1 ELSE 0
      BY <1>0, <2>3 DEF OrderParts, HasPlaced
    <3>3. QED BY <3>1, <3>2 DEF Truthful
  <2>4. QED BY <2>1, <2>2, <2>3
<1>3. \A v \in Workers \ {w} : worker[v].pc \in Holding =>
          worker[v].key # key /\ worker[v].key \in Keys
  BY <1>0 DEF OrderParts, OneWorkerPerIntent, TypeInv, Keyed
<1> HIDE DEF key
<1>4. \A k \in Keys :
          /\ intents'[k].status = "absent" <=> intents[k].status = "absent"
          /\ intents'[k] = intents[k] \/ Truthful(intents'[k], orders[k])
  BY <1>0, <1>2
<1>5. \A v \in Workers :
          /\ worker'[v].pc \in Holding =>
                 /\ worker[v].pc \in Holding /\ worker'[v].key = worker[v].key
                 /\ intents'[worker[v].key] = intents[worker[v].key]
          /\ worker'[v].pc \in BeforeOrder => worker[v].pc \in BeforeOrder
          /\ worker'[v].pc = "protect" =>
                 worker[v].pc = "protect" /\ worker'[v].id = worker[v].id
  <2> SUFFICES ASSUME NEW v \in Workers
               PROVE  /\ worker'[v].pc \in Holding =>
                             /\ worker[v].pc \in Holding /\ worker'[v].key = worker[v].key
                             /\ intents'[worker[v].key] = intents[worker[v].key]
                      /\ worker'[v].pc \in BeforeOrder => worker[v].pc \in BeforeOrder
                      /\ worker'[v].pc = "protect" =>
                             worker[v].pc = "protect" /\ worker'[v].id = worker[v].id
    OBVIOUS
  <2>1. CASE v = w
    BY <1>1, <2>1 DEF Holding, BeforeOrder
  <2>2. CASE v # w
    BY <1>1, <1>2, <1>3, <2>2
  <2>3. QED BY <2>1, <2>2
<1>6. QED
  BY <1>4, <1>5, OrderFrame

LEMMA OrderWorker ==
    ASSUME OrderInv, TypeInv', NEW w \in Workers, Evaluate(w) \/ Continue(w)
    PROVE  OrderInv'
<1>0. TypeInv
  BY DEF OrderInv
<1>1. CASE \/ Evaluate(w) \/ CheckAlertLock(w) \/ SetAlertLock(w) \/ CheckDedup(w)
           \/ SendAlert(w) \/ PersistAlert(w) \/ Record(w)
  <2>1. /\ worker'[w].pc \notin Holding /\ UNCHANGED <<intents, orders>>
        /\ \A v \in Workers \ {w} : worker'[v] = worker[v]
    BY <1>0, <1>1, FreeSteps
  <2>2. QED BY <2>1, OrderFrame DEF Holding, BeforeOrder
<1>2. CASE CreateIntent(w)
  BY <1>2, OrderCreateIntent
<1>3. CASE Place(w)
  BY <1>3, OrderPlace
<1>4. ASSUME NEW pc \in {"claim", "place"}, Goto(w, pc), UNCHANGED <<intents, orders>>,
             worker[w].pc \in BeforeOrder
      PROVE  OrderInv'
  <2>1. /\ worker'[w].pc = pc /\ worker'[w].key = worker[w].key
        /\ \A v \in Workers \ {w} : worker'[v] = worker[v]
    BY <1>0, <1>4, GotoMoves DEF Pcs
  <2>2. QED BY <1>4, <2>1, OrderFrame DEF Holding, BeforeOrder
<1>5. CASE Guard(w) \/ ClaimSlot(w) \/ Placed(w) \/ Release(w)
  <2>1. worker[w].pc \in Holding /\ orders' = orders
    BY <1>5 DEF Guard, ClaimSlot, Placed, Release, At, Holding
  <2>2. CASE Guard(w) \/ ClaimSlot(w)
    <3>1. \/ \E pc \in {"claim", "place"} : Goto(w, pc) /\ UNCHANGED intents
          \/ Close(w, "ORDER_FAILED") \/ Abandon(w)
      BY <2>2 DEF Guard, ClaimSlot
    <3>2. worker[w].pc \in BeforeOrder
      BY <2>2 DEF Guard, ClaimSlot, At, BeforeOrder
    <3>3. CASE \E pc \in {"claim", "place"} : Goto(w, pc) /\ UNCHANGED intents
      BY <1>4, <2>1, <3>2, <3>3
    <3>4. CASE Close(w, "ORDER_FAILED") \/ Abandon(w)
      BY <2>1, <3>4, OrderEnd
    <3>5. QED BY <3>1, <3>3, <3>4
  <2>3. CASE Placed(w)
    BY <2>1, <2>3, OrderEnd DEF Placed, At
  <2>4. CASE Release(w)
    BY <2>1, <2>4, OrderEnd DEF Release
  <2>5. QED BY <1>5, <2>2, <2>3, <2>4
<1>6. QED
  BY <1>1, <1>2, <1>3, <1>5 DEF Continue

LEMMA OrderOthers ==
    ASSUME OrderInv, TypeInv',
           \/ \E w \in Workers : Refuse(w)
           \/ \E p \in Procs : Crash(p)
           \/ CoolDown \/ NextBucket \/ Toggle \/ SyncOrder \/ Reconcile \/ UNCHANGED vars
    PROVE  OrderInv'
<1>0. TypeOK /\ OrderParts
  BY DEF OrderInv, TypeInv
<1>1. CASE \E p \in Procs : Crash(p)
  <2>1. \A w \in Workers : worker'[w] \in {Idle, worker[w]}
    BY <1>0, <1>1 DEF Crash, TypeOK
  <2>2. UNCHANGED <<intents, orders>>
    BY <1>1 DEF Crash
  <2>3. Idle.pc = "idle"
    BY DEF Idle
  <2>4. QED BY <2>1, <2>2, <2>3, OrderFrame DEF Holding, BeforeOrder
<1>2. CASE Reconcile
  <2>1. UNCHANGED <<worker, orders>>
    BY <1>2 DEF Reconcile
  <2>2. PICK k \in Keys : /\ intents[k].status \in {"PENDING", "ORDER_PLACED"}
                          /\ intents' = [intents EXCEPT ![k].status = "ORDER_FAILED"]
    BY <1>2 DEF Reconcile
  <2>3. /\ intents'[k].status = "ORDER_FAILED" /\ intents'[k].id = intents[k].id
        /\ \A j \in Keys \ {k} : intents'[j] = intents[j]
    BY <1>0, <2>2 DEF TypeOK, Intent
  <2>4. Truthful(intents'[k], orders[k])
    BY <1>0, <2>3 DEF OrderParts, OrderIdIsTrue, Truthful
  <2>5. \A w \in Workers : worker[w].pc \in Holding =>
            \/ intents'[worker[w].key] = intents[worker[w].key]
            \/ intents'[worker[w].key].status = "ORDER_FAILED"
    BY <2>3 DEF OrderInv, TypeInv, Keyed
  <2>6. QED BY <2>1, <2>2, <2>3, <2>4, <2>5, OrderFrame
<1>3. CASE \/ \E w \in Workers : Refuse(w)
           \/ CoolDown \/ NextBucket \/ Toggle \/ SyncOrder \/ UNCHANGED vars
  <2>1. UNCHANGED <<worker, intents, orders>>
    BY <1>3 DEF Refuse, CoolDown, NextBucket, Toggle, SyncOrder,
           vars
  <2>2. QED BY <2>1, OrderFrame
<1>4. QED
  BY <1>1, <1>2, <1>3

LEMMA OrderInvariant == Spec => []OrderInv
<1>1. Init /\ TypeInv => OrderInv
  BY OrderInit DEF OrderInv
<1>2. OrderInv /\ TypeInv' /\ [Next]_vars => OrderInv'
  BY OrderWorker, OrderOthers DEF Next, Exhausted
<1>3. QED
  BY <1>1, <1>2, TypeInvariant, PTL DEF Spec

\* One idempotency key never has two orders at the exchange, whatever processes
\* evaluate at once, die or are restarted, and however intents are reconciled.
THEOREM AtMostOneOrder == Spec => []OneOrderPerIntent
<1>1. OrderInv => OneOrderPerIntent
  BY DEF OrderInv, OrderParts
<1>2. QED
  BY <1>1, OrderInvariant, PTL

\* The insert under the unique key hands an intent to one worker.
THEOREM AtMostOneWorker == Spec => []OneWorkerPerIntent
<1>1. OrderInv => OneWorkerPerIntent
  BY DEF OrderInv, OrderParts
<1>2. QED
  BY <1>1, OrderInvariant, PTL

\* An order id of the exchange's in an intent means that its order is there, and an
\* intent placed without one (the dry run of an entry that met live trading turned
\* off after its guard, an answer without an id) has none: also after exceptions
\* between the order and the commit, and after reconciliation.
THEOREM OrderIdsAreTrue == Spec => []OrderIdIsTrue
<1>1. OrderInv => OrderIdIsTrue
  BY DEF OrderInv, OrderParts
<1>2. QED
  BY <1>1, OrderInvariant, PTL

-----------------------------------------------------------------------------
(* One alert a bucket.  The row of dedup_events_week5 is what counts: the      *)
(* evaluation that wrote it is the only one to send, and sends once.  The      *)
(* alert lock plays no part.                                                   *)

Alert(w) == <<worker[w].price, worker[w].bucket>>

UnrecordedIsUnsent == \A a \in Prices \X (0..MaxBucket) : a \notin dedup => sent[a] = 0
SenderIsFirst      == \A w \in Workers :
                         worker[w].pc = "send" => Alert(w) \in dedup /\ sent[Alert(w)] = 0
OneSender          == \A v, w \in Workers :
                         v # w /\ worker[v].pc = "send" /\ worker[w].pc = "send"
                             => Alert(v) # Alert(w)

AlertParts == UnrecordedIsUnsent /\ SenderIsFirst /\ OneSender /\ AlertOnce
AlertInv == TypeInv /\ AlertParts

LEMMA AlertInit == Init => AlertParts
<1> SUFFICES ASSUME Init PROVE AlertParts
  OBVIOUS
<1>1. \A w \in Workers : worker[w].pc = "idle"
  BY DEF Init, Idle
<1>2. QED
  BY <1>1 DEF Init, AlertParts, UnrecordedIsUnsent, SenderIsFirst, OneSender, AlertOnce

\* A step that sends nothing, and after which nobody is new at "send".
LEMMA AlertFrame ==
    ASSUME AlertParts, dedup \subseteq dedup', sent' = sent,
           \A w \in Workers : worker'[w].pc = "send" => worker'[w] = worker[w]
    PROVE  AlertParts'
BY DEF AlertParts, UnrecordedIsUnsent, SenderIsFirst, OneSender, AlertOnce, Alert

LEMMA AlertCheckDedup ==
    ASSUME AlertInv, NEW w \in Workers, CheckDedup(w)
    PROVE  AlertParts'
<1> DEFINE key == <<worker[w].price, bucket>>
<1>0. TypeInv /\ TypeOK /\ AlertParts /\ worker[w].pc = "dedup"
  BY DEF AlertInv, TypeInv, CheckDedup, At
<1>1. /\ dedup' = dedup \cup {key} /\ sent' = sent
      /\ \A v \in Workers \ {w} : worker'[v] = worker[v]
      /\ worker'[w].price = worker[w].price /\ worker'[w].bucket = bucket
      /\ worker'[w].pc = "send" => key \notin dedup
  <2>1. dedup' = dedup \cup {key} /\ sent' = sent
    BY DEF CheckDedup
  <2>2. QED BY <1>0, <2>1, DedupMoves
<1>2. key \in Prices \X (0..MaxBucket)
  BY <1>0 DEF TypeInv, Priced, TypeOK
<1>3. CASE worker'[w].pc # "send"
  BY <1>0, <1>1, <1>3, AlertFrame
<1>4. CASE worker'[w].pc = "send"
  <2>1. key \notin dedup
    BY <1>1, <1>4
  <2>2. Alert(w)' = key /\ sent[key] = 0
    BY <1>0, <1>1, <1>2, <2>1 DEF Alert, AlertParts, UnrecordedIsUnsent
  <2>3. \A v \in Workers \ {w} : Alert(v)' = Alert(v)
    BY <1>1 DEF Alert
  <2>4. UnrecordedIsUnsent' /\ AlertOnce'
    BY <1>0, <1>1 DEF AlertParts, UnrecordedIsUnsent, AlertOnce
  <2>5. SenderIsFirst'
    BY <1>0, <1>1, <2>2, <2>3 DEF AlertParts, SenderIsFirst
  <2>6. OneSender'
    BY <1>0, <1>1, <2>1, <2>2, <2>3 DEF AlertParts, OneSender, SenderIsFirst
  <2>7. QED BY <2>4, <2>5, <2>6 DEF AlertParts
<1>5. QED
  BY <1>3, <1>4

LEMMA AlertSend ==
    ASSUME AlertInv, NEW w \in Workers, SendAlert(w)
    PROVE  AlertParts'
<1>0. /\ TypeInv /\ TypeOK /\ AlertParts /\ worker[w] \in Worker /\ worker[w].pc = "send"
      /\ worker[w].price \in Prices
  BY DEF AlertInv, TypeInv, TypeOK, SendAlert, At, Priced
<1>1. worker'[w].pc = "intent" /\ \A v \in Workers \ {w} : worker'[v] = worker[v]
  <2>1. lastMsg \in 0..MaxEvals /\ (lastMsg < MaxEvals => lastMsg + 1 \in 0..MaxEvals)
    BY <1>0, SignalOrderAssumption DEF TypeOK
  <2>2. \E sid \in 0..MaxEvals : Alerted(w, sid)
    BY <2>1, SignalOrderAssumption DEF SendAlert, NewRow
  <2>3. QED BY <1>0, <2>2, AlertedMoves
<1>3. dedup' = dedup /\ sent' \in {sent, [sent EXCEPT ![Alert(w)] = @ + 1]}
  BY DEF SendAlert, Alert
<1>4. Alert(w) \in dedup /\ sent[Alert(w)] = 0
  BY <1>0 DEF AlertParts, SenderIsFirst
<1>5. CASE sent' = sent
  BY <1>0, <1>1, <1>3, <1>5, AlertFrame
<1>6. CASE sent' = [sent EXCEPT ![Alert(w)] = @ + 1]
  <2>1. Alert(w) \in Prices \X (0..MaxBucket)
    BY <1>0 DEF Alert, Worker
  <2>2. /\ sent'[Alert(w)] = 1
        /\ \A a \in (Prices \X (0..MaxBucket)) \ {Alert(w)} : sent'[a] = sent[a]
        /\ DOMAIN sent' = Prices \X (0..MaxBucket) /\ DOMAIN sent = DOMAIN sent'
    BY <1>0, <1>4, <1>6, <2>1 DEF TypeOK
  <2>3. \A v \in Workers \ {w} :
            /\ Alert(v)' = Alert(v)
            /\ worker[v].pc = "send" => /\ Alert(v) # Alert(w)
                                        /\ Alert(v) \in dedup /\ sent[Alert(v)] = 0
    BY <1>0, <1>1 DEF Alert, AlertParts, OneSender, SenderIsFirst
  <2>4. UnrecordedIsUnsent'
    BY <1>0, <1>3, <1>4, <2>2 DEF AlertParts, UnrecordedIsUnsent
  <2>5. AlertOnce'
    BY <1>0, <2>2 DEF AlertParts, AlertOnce
  <2>6. SenderIsFirst'
    BY <1>0, <1>1, <1>3, <2>2, <2>3 DEF SenderIsFirst, TypeOK
  <2>7. OneSender'
    BY <1>0, <1>1, <2>3 DEF AlertParts, OneSender
  <2>8. QED BY <2>4, <2>5, <2>6, <2>7 DEF AlertParts
<1>7. QED
  BY <1>3, <1>5, <1>6

\* Only CheckDedup leads to where an alert is sent or withheld.
LEMMA OtherPcs ==
    ASSUME TypeInv, NEW w \in Workers, Evaluate(w) \/ Continue(w), ~CheckDedup(w)
    PROVE  worker'[w].pc \notin {"send", "persist"}
<1>0. TypeOK
  BY DEF TypeInv
<1>1. CASE Evaluate(w) \/ Record(w)
  <2>1. CASE Evaluate(w)
    BY <1>0, <2>1 DEF Evaluate, TypeOK, Idle
  <2>2. CASE Record(w)
    BY <1>0, <2>2 DEF Record, TypeOK, Idle
  <2>3. QED BY <1>1, <2>1, <2>2
<1>2. CASE CheckAlertLock(w) \/ SetAlertLock(w)
  <2>1. \/ worker' = [worker EXCEPT ![w] = Idle]
        \/ \E pc \in {"lock", "dedup"} : Goto(w, pc)
    BY <1>2 DEF CheckAlertLock, SetAlertLock
  <2>2. CASE worker' = [worker EXCEPT ![w] = Idle]
    BY <1>0, <2>2 DEF TypeOK, Idle
  <2>3. CASE \E pc \in {"lock", "dedup"} : Goto(w, pc)
    BY <2>3, GotoMoves DEF Pcs
  <2>4. QED BY <2>1, <2>2, <2>3
<1>3. CASE SendAlert(w) \/ PersistAlert(w)
  <2>1. lastMsg \in 0..MaxEvals /\ (lastMsg < MaxEvals => lastMsg + 1 \in 0..MaxEvals)
    BY <1>0, SignalOrderAssumption DEF TypeOK
  <2>2. \E sid \in 0..MaxEvals : Alerted(w, sid)
    BY <1>3, <2>1, SignalOrderAssumption DEF SendAlert, PersistAlert, NewRow
  <2>3. QED BY <2>2, AlertedMoves
<1>4. CASE CreateIntent(w)
  <2>1. worker'[w].pc \in {"record", "guard"}
    BY <1>4, TakingStep
  <2>2. QED BY <2>1
<1>5. CASE Guard(w) \/ ClaimSlot(w) \/ Place(w) \/ Placed(w) \/ Release(w)
  <2>1. GoesOn(w) \/ IsUpdated(w) \/ IsAbandoned(w)
    BY <1>5, HoldingSteps
  <2>2. QED BY <2>1 DEF GoesOn, IsUpdated, IsAbandoned, Holding
<1>6. QED
  BY <1>1, <1>2, <1>3, <1>4, <1>5 DEF Continue

LEMMA AlertOtherSteps ==
    ASSUME AlertInv, NEW w \in Workers, Evaluate(w) \/ Continue(w),
           ~CheckDedup(w), ~SendAlert(w)
    PROVE  AlertParts'
<1>0. TypeInv /\ AlertParts
  BY DEF AlertInv
<1>1. UNCHANGED <<dedup, sent>>
  <2>1. \/ Evaluate(w) \/ CheckAlertLock(w) \/ SetAlertLock(w) \/ PersistAlert(w)
        \/ CreateIntent(w) \/ Guard(w) \/ ClaimSlot(w) \/ Place(w) \/ Placed(w)
        \/ Release(w) \/ Record(w)
    BY DEF Continue
  <2>2. QED
    BY <2>1 DEF Evaluate, CheckAlertLock, SetAlertLock, PersistAlert, CreateIntent, Guard,
       ClaimSlot, Place, Placed, Release, Record
<1>2. worker'[w].pc # "send" /\ \A v \in Workers \ {w} : worker'[v] = worker[v]
  BY <1>0, OneMoves, OtherPcs
<1>3. QED
  BY <1>0, <1>1, <1>2, AlertFrame

LEMMA AlertOthers ==
    ASSUME AlertInv,
           \/ \E w \in Workers : Refuse(w)
           \/ \E p \in Procs : Crash(p)
           \/ CoolDown \/ NextBucket \/ Toggle \/ SyncOrder \/ Reconcile \/ UNCHANGED vars
    PROVE  AlertParts'
<1>0. TypeOK /\ AlertParts
  BY DEF AlertInv, TypeInv
<1>1. UNCHANGED <<dedup, sent>>
  BY DEF Refuse, Crash, CoolDown, NextBucket, Toggle, SyncOrder,
         Reconcile, vars
<1>2. \A w \in Workers : worker'[w].pc = "send" => worker'[w] = worker[w]
  <2>1. CASE \E p \in Procs : Crash(p)
    BY <1>0, <2>1 DEF Crash, TypeOK, Idle
  <2>2. CASE worker' = worker
    BY <2>2
  <2>3. QED
    BY <2>1, <2>2 DEF Refuse, CoolDown, NextBucket, Toggle,
       SyncOrder, Reconcile, vars
<1>3. QED
  BY <1>0, <1>1, <1>2, AlertFrame

\* The alert for a price is sent once in a bucket, by however many evaluations in
\* however many processes, and whatever becomes of their in-memory locks.
THEOREM AlertsOnce == Spec => []AlertOnce
<1>1. Init => AlertParts
  BY AlertInit
<1>2. TypeInv /\ AlertParts /\ [Next]_vars => AlertParts'
  <2> SUFFICES ASSUME TypeInv, AlertParts, [Next]_vars PROVE AlertParts'
    OBVIOUS
  <2>1. AlertInv
    BY DEF AlertInv
  <2>2. CASE \E w \in Workers : Evaluate(w) \/ Continue(w)
    BY <2>1, <2>2, AlertCheckDedup, AlertSend, AlertOtherSteps
  <2>3. QED BY <2>1, <2>2, AlertOthers DEF Next, Exhausted
<1>3. AlertParts => AlertOnce
  BY DEF AlertParts
<1>4. QED
  BY <1>1, <1>2, <1>3, TypeInvariant, PTL DEF Spec

-----------------------------------------------------------------------------
(* One placement per process, where none outlasts its slot: whoever is placing *)
(* has its process's slot in the map, and a slot in the map lets nobody in.    *)

Placing == {"place", "protect", "release"}

PlacerHasSlot == \A w \in Workers : worker[w].pc \in Placing => ProcOf[w] \in slot
OnePlacer == \A v, w \in Workers :
                 worker[v].pc \in Placing /\ worker[w].pc \in Placing
                 /\ ProcOf[v] = ProcOf[w] => v = w

SlotParts == PlacerHasSlot /\ OnePlacer

LEMMA SlotFrame ==
    ASSUME SlotParts, slot \subseteq slot',
           \A w \in Workers : worker'[w].pc \in Placing => worker[w].pc \in Placing
    PROVE  SlotParts'
BY DEF SlotParts, PlacerHasSlot, OnePlacer

\* A placement that is over may pop the slot of its process: nobody else has it.
LEMMA SlotLeft ==
    ASSUME SlotParts, NEW w \in Workers, worker[w].pc \in Placing, worker'[w].pc \notin Placing,
           slot \ {ProcOf[w]} \subseteq slot',
           \A v \in Workers \ {w} : worker'[v] = worker[v]
    PROVE  SlotParts'
<1>1. \A v \in Workers \ {w} : worker'[v].pc \in Placing => ProcOf[v] # ProcOf[w]
  BY DEF SlotParts, OnePlacer
<1>2. QED
  BY <1>1 DEF SlotParts, PlacerHasSlot, OnePlacer

LEMMA SlotWorker ==
    ASSUME TypeInv, SlotParts, "slow" \notin Faults,
           NEW w \in Workers, Evaluate(w) \/ Continue(w)
    PROVE  SlotParts'
<1>0. \A v \in Workers \ {w} : worker'[v] = worker[v]
  BY OneMoves
<1>1. CASE \/ Evaluate(w) \/ CheckAlertLock(w) \/ SetAlertLock(w) \/ CheckDedup(w)
           \/ SendAlert(w) \/ PersistAlert(w) \/ Record(w)
  <2>1. worker'[w].pc \notin Holding /\ slot' = slot
    BY <1>1, FreeSteps
  <2>2. QED BY <1>0, <2>1, SlotFrame DEF Placing, Holding
<1>2. CASE CreateIntent(w)
  <2>1. worker'[w].pc \in {"record", "guard"} /\ slot' = slot
    BY <1>2, TakingStep
  <2>2. QED BY <1>0, <2>1, SlotFrame DEF Placing
<1>3. CASE Guard(w)
  <2>1. slot' = slot /\ (Goto(w, "claim") \/ Finish(w))
    BY <1>3 DEF Guard, Close, Abandon
  <2>2. worker'[w].pc \in {"claim", "record"}
    BY <2>1, GotoMoves, FinishMoves DEF Pcs
  <2>3. QED BY <1>0, <2>1, <2>2, SlotFrame DEF Placing
<1>4. CASE ClaimSlot(w)
  <2>1. CASE slot' = slot /\ Finish(w)
    <3>1. worker'[w].pc = "record"
      BY <2>1, FinishMoves
    <3>2. QED BY <1>0, <2>1, <3>1, SlotFrame DEF Placing
  <2>2. CASE /\ ProcOf[w] \in slot => InPlacement(ProcOf[w]) = {}
             /\ slot' = slot \cup {ProcOf[w]} /\ Goto(w, "place")
    <3>1. worker'[w].pc = "place"
      BY <2>2, GotoMoves DEF Pcs
    <3>2. \A v \in Workers \ {w} : worker'[v].pc \in Placing => ProcOf[v] # ProcOf[w]
      BY <1>0, <2>2 DEF SlotParts, PlacerHasSlot, InPlacement, Placing
    <3>3. PlacerHasSlot' /\ OnePlacer'
      BY <1>0, <2>2, <3>1, <3>2 DEF SlotParts, PlacerHasSlot, OnePlacer
    <3>4. QED BY <3>3 DEF SlotParts
  <2>3. QED BY <1>4, <2>1, <2>2 DEF ClaimSlot, Close, Abandon
<1>5. CASE Place(w)
  <2>1. worker[w].pc \in Placing /\ slot' = slot
    BY <1>5 DEF Place, At, Placing
  <2>2. QED BY <1>0, <2>1, SlotFrame
<1>6. CASE Placed(w) \/ Release(w)
  <2>1. worker[w].pc \in Placing /\ Finish(w) /\ slot \ {ProcOf[w]} \subseteq slot'
    BY <1>6 DEF Placed, Release, At, Close, Abandon, Placing
  <2>2. worker'[w].pc \notin Placing
    BY <2>1, FinishMoves DEF Placing
  <2>3. QED BY <1>0, <2>1, <2>2, SlotLeft
<1>7. QED
  BY <1>1, <1>2, <1>3, <1>4, <1>5, <1>6 DEF Continue

LEMMA SlotOthers ==
    ASSUME TypeInv, SlotParts,
           \/ \E w \in Workers : Refuse(w)
           \/ \E p \in Procs : Crash(p)
           \/ CoolDown \/ NextBucket \/ Toggle \/ SyncOrder \/ Reconcile \/ UNCHANGED vars
    PROVE  SlotParts'
<1>1. CASE UNCHANGED <<worker, slot>>
  BY <1>1, SlotFrame
<1>2. ASSUME NEW p \in Procs, Crash(p)
      PROVE  SlotParts'
  <2>1. \A w \in Workers : worker'[w].pc \in Placing => worker'[w] = worker[w] /\ ProcOf[w] # p
    BY <1>2 DEF Crash, Idle, Placing
  <2>2. slot' = slot \ {p}
    BY <1>2 DEF Crash
  <2>3. QED BY <2>1, <2>2 DEF SlotParts, PlacerHasSlot, OnePlacer
<1>3. QED
  BY <1>1, <1>2 DEF Refuse, CoolDown, NextBucket, Toggle, SyncOrder,
     Reconcile, vars

\* In one process no two placements overlap, so that the cap check of the second
\* reads what the first has done, provided that none outlasts the slot.
THEOREM NoOverlap ==
    ASSUME "slow" \notin Faults
    PROVE  Spec => []OnePlacementPerProcess
<1>1. Init => SlotParts
  BY DEF Init, Idle, SlotParts, PlacerHasSlot, OnePlacer, Placing
<1>2. TypeInv /\ SlotParts /\ [Next]_vars => SlotParts'
  BY SlotWorker, SlotOthers DEF Next, Exhausted
<1>3. SlotParts => OnePlacementPerProcess
  <2> SUFFICES ASSUME SlotParts, NEW v \in Workers, NEW w \in Workers,
                      v # w, ProcOf[v] = ProcOf[w],
                      {v, w} \cap InPlacement(ProcOf[v]) = {v, w}
               PROVE  FALSE
    BY DEF OnePlacementPerProcess
  <2>1. v \in InPlacement(ProcOf[v]) /\ w \in InPlacement(ProcOf[v])
    OBVIOUS
  <2>2. QED BY <2>1 DEF InPlacement, SlotParts, OnePlacer, Placing
<1>4. QED
  BY <1>1, <1>2, <1>3, TypeInvariant, PTL DEF Spec

-----------------------------------------------------------------------------
(* No intent is forgotten: a PENDING one is held, or its evaluation died or     *)
(* was ended by an exception.                                                   *)

\* A step after which no more intents are pending, and whoever lets go of one has
\* given it another status or is put down as having abandoned it.
LEMMA PendingFrame ==
    ASSUME PendingIsHandled, abandoned \subseteq abandoned',
           \A k \in Keys : intents'[k].status = "PENDING" => intents[k].status = "PENDING",
           \A w \in Workers : worker[w].pc \in Holding =>
               \/ worker'[w].pc \in Holding /\ worker'[w].key = worker[w].key
               \/ intents'[worker[w].key].status # "PENDING"
               \/ worker[w].key \in abandoned'
    PROVE  PendingIsHandled'
BY DEF PendingIsHandled, Held

LEMMA PendingWorker ==
    ASSUME TypeInv, PendingIsHandled, NEW w \in Workers, Evaluate(w) \/ Continue(w)
    PROVE  PendingIsHandled'
<1>0. \A v \in Workers \ {w} : worker'[v] = worker[v]
  BY OneMoves
<1>1. CASE \/ Evaluate(w) \/ CheckAlertLock(w) \/ SetAlertLock(w) \/ CheckDedup(w)
           \/ SendAlert(w) \/ PersistAlert(w) \/ Record(w)
  <2>1. worker[w].pc \notin Holding /\ UNCHANGED <<intents, abandoned>>
    BY <1>1, FreeSteps
  <2>2. QED BY <1>0, <2>1, PendingFrame
<1>2. CASE CreateIntent(w)
  <2> DEFINE key == OwnKey(w)
  <2>1. /\ worker[w].pc \notin Holding /\ abandoned' = abandoned
        /\ \A k \in Keys \ {key} : intents'[k] = intents[k]
    BY <1>2, TakingStep DEF Holding
  <2>2. CASE intents' = intents
    BY <1>0, <2>1, <2>2, PendingFrame
  <2>3. CASE intents'[key].status = "BLOCKED_LIVE_TRADING"
    <3>1. \A k \in Keys : intents'[k].status = "PENDING" => intents[k].status = "PENDING"
      BY <2>1, <2>3
    <3>2. QED BY <1>0, <2>1, <3>1, PendingFrame
  <2>4. CASE worker'[w].pc = "guard" /\ worker'[w].key = key
    BY <1>0, <2>1, <2>4 DEF PendingIsHandled, Held, Holding
  <2>5. QED BY <1>2, <2>2, <2>3, <2>4, TakingStep
<1>3. CASE Guard(w) \/ ClaimSlot(w) \/ Place(w) \/ Placed(w) \/ Release(w)
  <2>1. /\ worker[w].pc \in Holding /\ worker[w].key \in Keys
        /\ GoesOn(w) \/ IsUpdated(w) \/ IsAbandoned(w)
        /\ \A k \in Keys \ {worker[w].key} : intents'[k] = intents[k]
    BY <1>3, HoldingSteps
  <2>2. CASE GoesOn(w)
    BY <1>0, <2>1, <2>2, PendingFrame DEF GoesOn
  <2>3. CASE IsUpdated(w)
    BY <1>0, <2>1, <2>3, PendingFrame DEF IsUpdated
  <2>4. CASE IsAbandoned(w)
    BY <1>0, <2>1, <2>4, PendingFrame DEF IsAbandoned
  <2>5. QED BY <2>1, <2>2, <2>3, <2>4
<1>4. QED
  BY <1>1, <1>2, <1>3 DEF Continue

LEMMA PendingOthers ==
    ASSUME TypeInv, PendingIsHandled,
           \/ \E w \in Workers : Refuse(w)
           \/ \E p \in Procs : Crash(p)
           \/ CoolDown \/ NextBucket \/ Toggle \/ SyncOrder \/ Reconcile \/ UNCHANGED vars
    PROVE  PendingIsHandled'
<1>0. TypeOK
  BY DEF TypeInv
<1>1. CASE \E p \in Procs : Crash(p)
  <2>1. PICK p \in Procs : Crash(p)
    BY <1>1
  <2>2. intents' = intents /\ abandoned \subseteq abandoned'
    BY <2>1 DEF Crash
  <2>3. \A w \in Workers : worker[w].pc \in Holding =>
            \/ worker'[w].pc \in Holding /\ worker'[w].key = worker[w].key
            \/ worker[w].key \in abandoned'
    BY <2>1 DEF Crash
  <2>4. QED BY <2>2, <2>3, PendingFrame
<1>2. CASE Reconcile
  <2>1. PICK k \in Keys : intents' = [intents EXCEPT ![k].status = "ORDER_FAILED"]
    BY <1>2 DEF Reconcile
  <2>2. intents'[k].status = "ORDER_FAILED" /\ \A j \in Keys \ {k} : intents'[j] = intents[j]
    BY <1>0, <2>1 DEF TypeOK, Intent
  <2>3. UNCHANGED <<worker, abandoned>>
    BY <1>2 DEF Reconcile
  <2>4. QED BY <2>2, <2>3, PendingFrame
<1>3. CASE UNCHANGED <<worker, intents, abandoned>>
  BY <1>3, PendingFrame
<1>4. QED
  BY <1>1, <1>2, <1>3 DEF Refuse, CoolDown, NextBucket, Toggle,
     SyncOrder, vars

\* An intent that is PENDING is one that some evaluation holds, or one whose
\* evaluation died or went through the handler of unexpected errors, which rolls
\* back and leaves it so: every other way through the placement gives it a final
\* status.
THEOREM NoIntentForgotten == Spec => []PendingIsHandled
<1>1. Init => PendingIsHandled
  BY DEF Init, PendingIsHandled, NoIntent
<1>2. TypeInv /\ PendingIsHandled /\ [Next]_vars => PendingIsHandled'
  BY PendingWorker, PendingOthers DEF Next, Exhausted
<1>3. QED
  BY <1>1, <1>2, TypeInvariant, PTL DEF Spec

-----------------------------------------------------------------------------
(* An intent is worked on once: whatever became of its evaluation, the insert   *)
(* under the unique key finds it there, and nobody gets it any more.            *)

\* What no step does to an intent that exists and is not held.
LeftAlone(k) ==
    intents[k].status # "absent" /\ ~Held(k) =>
        /\ ~Held(k)' /\ orders'[k] = orders[k]
        /\ intents'[k] \in {intents[k], [intents[k] EXCEPT !.status = "ORDER_FAILED"]}

LEMMA OnceWorker ==
    ASSUME TypeInv, NEW w \in Workers, Evaluate(w) \/ Continue(w), NEW k \in Keys
    PROVE  LeftAlone(k)
<1> SUFFICES ASSUME intents[k].status # "absent", ~Held(k)
             PROVE  ~Held(k)' /\ orders'[k] = orders[k] /\ intents'[k] = intents[k]
  BY DEF LeftAlone
<1>0. /\ \A v \in Workers \ {w} : worker'[v] = worker[v]
      /\ \A v \in Workers : worker[v].pc \in Holding => worker[v].key # k
  BY OneMoves DEF Held
<1>1. CASE \/ Evaluate(w) \/ CheckAlertLock(w) \/ SetAlertLock(w) \/ CheckDedup(w)
           \/ SendAlert(w) \/ PersistAlert(w) \/ Record(w)
  <2>1. worker'[w].pc \notin Holding /\ UNCHANGED <<intents, orders>>
    BY <1>1, FreeSteps
  <2>2. QED BY <1>0, <2>1 DEF Held
<1>2. CASE CreateIntent(w)
  <2>1. CASE worker'[w].pc = "record" /\ intents' = intents
    <3>1. orders' = orders
      BY <1>2, TakingStep
    <3>2. QED BY <1>0, <2>1, <3>1 DEF Held, Holding
  <2>2. CASE intents[OwnKey(w)].status = "absent"
    <3>1. k # OwnKey(w)
      BY <2>2
    <3>2. intents'[k] = intents[k] /\ orders' = orders
      BY <1>2, <3>1, TakingStep
    <3>3. worker'[w].pc = "record" \/ worker'[w].key = OwnKey(w)
      BY <1>2, TakingStep
    <3>4. QED BY <1>0, <3>1, <3>2, <3>3 DEF Held, Holding
  <2>3. QED BY <1>2, <2>1, <2>2, TakingStep
<1>3. CASE Guard(w) \/ ClaimSlot(w) \/ Place(w) \/ Placed(w) \/ Release(w)
  <2>1. k # worker[w].key
    BY <1>0, <1>3, HoldingSteps
  <2>2. intents'[k] = intents[k] /\ orders'[k] = orders[k]
    BY <1>3, <2>1, HoldingSteps
  <2>3. worker'[w].pc \in Holding => worker'[w].key = worker[w].key
    BY <1>3, HoldingSteps DEF GoesOn, IsUpdated, IsAbandoned, Holding
  <2>4. QED BY <1>0, <2>1, <2>2, <2>3 DEF Held
<1>4. QED
  BY <1>1, <1>2, <1>3 DEF Continue

LEMMA OnceOthers ==
    ASSUME TypeInv, NEW k \in Keys,
           \/ \E w \in Workers : Refuse(w)
           \/ \E p \in Procs : Crash(p)
           \/ CoolDown \/ NextBucket \/ Toggle \/ SyncOrder \/ Reconcile
    PROVE  LeftAlone(k)
<1>0. TypeOK
  BY DEF TypeInv
<1>1. CASE \E p \in Procs : Crash(p)
  <2>1. /\ UNCHANGED <<intents, orders>>
        /\ \A w \in Workers : worker'[w].pc \in Holding => worker'[w] = worker[w]
    BY <1>1 DEF Crash, Idle, Holding
  <2>2. QED BY <2>1 DEF LeftAlone, Held
<1>2. CASE Reconcile
  <2>1. PICK j \in Keys : intents' = [intents EXCEPT ![j].status = "ORDER_FAILED"]
    BY <1>2 DEF Reconcile
  <2>2. intents'[k] \in {intents[k], [intents[k] EXCEPT !.status = "ORDER_FAILED"]}
    BY <1>0, <2>1 DEF TypeOK
  <2>3. UNCHANGED <<worker, orders>>
    BY <1>2 DEF Reconcile
  <2>4. QED BY <2>2, <2>3 DEF LeftAlone, Held
<1>3. CASE UNCHANGED <<worker, intents, orders>>
  BY <1>3 DEF LeftAlone, Held
<1>4. QED
  BY <1>1, <1>2, <1>3 DEF Refuse, CoolDown, NextBucket, Toggle,
     SyncOrder

\* When the evaluation of an intent is over, by an answer, an error, an exception
\* or a restart, no step of anybody takes the intent up again or orders for it, and
\* none but reconciliation's ORDER_FAILED changes it.
THEOREM WorkedOnOnce == Spec => HandledOnce
<1>1. TypeInv /\ [Next]_vars => [\A k \in Keys : LeftAlone(k)]_vars
  BY OnceWorker, OnceOthers DEF Next, Exhausted
<1>2. QED
  BY <1>1, TypeInvariant, PTL DEF Spec, HandledOnce, LeftAlone

-----------------------------------------------------------------------------
(* No silent order: where every alert gets sent, no order goes out before its  *)
(* own.  A key made from an alert's id names a row that was sent; one made     *)
(* from the price, which an evaluation told "deduped" uses, has its alert sent *)
(* already or with the evaluation that recorded the dedup row first.           *)

\* No alert fails, none is withheld because the guardrails (or live trading that is
\* off) refuse the trade, and no process dies between the dedup row and the sending.
Heard == Faults \cap {"telegram", "criteria", "toggle", "crash"} = {}

Alone == \A v, w \in Workers : v = w

\* Its alert was sent in some bucket, or another evaluation is at it.
Told(price) == \E b \in 0..MaxBucket : sent[<<price, b>>] > 0
Sending(price) == \E w \in Workers : worker[w].pc = "send" /\ worker[w].price = price

Announced(k) == IF k.by = "signal" THEN k.n \in sentIds
                ELSE Told(k.n) \/ (~Alone /\ Sending(k.n))

RowsAreSent == 1..lastMsg \subseteq sentIds
NoIdYet == \A w \in Workers :
    worker[w].pc \in {"check", "lock", "dedup", "send"} => worker[w].sid = 0
RecordedIsSent == \A a \in dedup :
    sent[a] > 0 \/ \E w \in Workers : worker[w].pc = "send" /\ Alert(w) = a
KeyIsAnnounced == \A w \in Workers :
    /\ worker[w].pc = "intent" =>
          Announced(IdempotencyKey(worker[w].sid, worker[w].price))
    /\ worker[w].pc \in Holding => Announced(worker[w].key)
OrderIsAnnounced == \A k \in Keys : orders[k] > 0 => Announced(k)

\* No alert is, or will be, written without being sent.
NothingWithheld == live /\ \A w \in Workers : worker[w].pc # "persist"

ToldParts == RowsAreSent /\ NoIdYet /\ RecordedIsSent /\ KeyIsAnnounced /\ OrderIsAnnounced
ToldInv == TypeInv /\ ToldParts

LEMMA AlertsGoOut == ASSUME Heard PROVE Spec => []NothingWithheld
<1>1. Init => NothingWithheld
  BY DEF Init, Idle, NothingWithheld
<1>2. TypeInv /\ NothingWithheld /\ [Next]_vars => NothingWithheld'
  <2> SUFFICES ASSUME TypeInv, NothingWithheld, [Next]_vars
               PROVE  NothingWithheld'
    OBVIOUS
  <2>1. CASE \E w \in Workers : Evaluate(w) \/ Continue(w)
    <3>1. PICK w \in Workers : Evaluate(w) \/ Continue(w)
      BY <2>1
    <3>2. live' = live
      BY <3>1 DEF Evaluate, Continue, CheckAlertLock, SetAlertLock, CheckDedup, SendAlert,
         PersistAlert, CreateIntent, Guard, ClaimSlot, Place, Placed, Release, Record
    <3>3. worker'[w].pc # "persist"
      <4>1. CASE CheckDedup(w)
        <5>1. worker'[w].pc = "intent" \/ worker'[w].pc \in Emissions
          BY <4>1, DedupMoves
        <5>2. QED BY <5>1 DEF Emissions, NothingWithheld, Heard
      <4>2. CASE ~CheckDedup(w)
        BY <3>1, <4>2, OtherPcs
      <4>3. QED BY <4>1, <4>2
    <3>4. QED BY <3>1, <3>2, <3>3, OneMoves DEF NothingWithheld
  <2>2. CASE ~(\E w \in Workers : Evaluate(w) \/ Continue(w))
    <3>1. UNCHANGED <<worker, live>>
      BY <2>2 DEF Next, Refuse, Crash, CoolDown, NextBucket, Toggle,
         SyncOrder, Reconcile, Exhausted, vars, Heard
    <3>2. QED BY <3>1 DEF NothingWithheld
  <2>3. QED BY <2>1, <2>2
<1>3. QED
  BY <1>1, <1>2, TypeInvariant, PTL DEF Spec

LEMMA ToldInit == Init => ToldParts
<1> SUFFICES ASSUME Init PROVE ToldParts
  OBVIOUS
<1>1. \A w \in Workers : worker[w].pc = "idle"
  BY DEF Init, Idle
<1>2. 1..lastMsg = {} /\ dedup = {} /\ \A k \in Keys : orders[k] = 0
  BY DEF Init
<1>3. QED
  BY <1>1, <1>2 DEF ToldParts, RowsAreSent, NoIdYet, RecordedIsSent, KeyIsAnnounced,
     OrderIsAnnounced, Holding

\* What was sent stays sent, and whoever leaves "send" has sent.
Remembered ==
    /\ sentIds \subseteq sentIds'
    /\ \A a \in Prices \X (0..MaxBucket) : sent[a] > 0 => sent'[a] > 0
    /\ \A w \in Workers : worker[w].pc = "send" =>
          worker'[w] = worker[w] \/ sent'[Alert(w)] > 0

LEMMA StaysAnnounced ==
    ASSUME TypeInv, Remembered, NEW k \in Keys, Announced(k)
    PROVE  Announced(k)'
<1>1. CASE k.by = "signal"
  BY <1>1 DEF Announced, Remembered
<1>2. CASE k.by # "signal"
  <2>1. k.n \in Prices
    BY <1>2 DEF Keys, SignalKeys, ContentKeys
  <2>2. CASE Told(k.n)
    <3>1. Told(k.n)'
      BY <2>1, <2>2 DEF Told, Remembered
    <3>2. QED BY <1>2, <3>1 DEF Announced
  <2>3. CASE ~Alone /\ Sending(k.n)
    <3>1. PICK w \in Workers : worker[w].pc = "send" /\ worker[w].price = k.n
      BY <2>3 DEF Sending
    <3>2. CASE worker'[w] = worker[w]
      <4>1. Sending(k.n)'
        BY <3>1, <3>2 DEF Sending
      <4>2. ~Alone'
        BY <2>3 DEF Alone
      <4>3. QED BY <1>2, <4>1, <4>2 DEF Announced
    <3>3. CASE sent'[Alert(w)] > 0
      <4>1. worker[w].bucket \in 0..MaxBucket
        BY DEF TypeInv, TypeOK, Worker
      <4>2. Told(k.n)'
        BY <3>1, <3>3, <4>1 DEF Told, Alert
      <4>3. QED BY <1>2, <4>2 DEF Announced
    <3>4. QED BY <3>1, <3>2, <3>3 DEF Remembered
  <2>4. QED BY <1>2, <2>2, <2>3 DEF Announced
<1>3. QED
  BY <1>1, <1>2

\* A step that adds no order but an announced one, takes no id and no key but an
\* announced one, and writes no row and no dedup entry but of an alert sent.
LEMMA ToldFrame ==
    ASSUME ToldInv, TypeInv', Remembered, RowsAreSent', RecordedIsSent',
           \A w \in Workers : \/ worker'[w].pc \notin {"check", "lock", "dedup", "send"}
                              \/ worker'[w].sid = 0,
           \A w \in Workers : worker'[w].pc = "intent" =>
              \/ worker'[w] = worker[w]
              \/ Announced(IdempotencyKey(worker[w].sid, worker[w].price))',
           \A w \in Workers : worker'[w].pc \in Holding =>
              \/ worker[w].pc \in Holding /\ worker'[w].key = worker[w].key
              \/ worker'[w].key \in Keys /\ Announced(worker'[w].key),
           \A k \in Keys : orders'[k] > 0 => orders[k] > 0 \/ Announced(k)
    PROVE  ToldParts'
<1>0. TypeInv /\ ToldParts
  BY DEF ToldInv
<1>1. \A k \in Keys : Announced(k) => Announced(k)'
  BY <1>0, StaysAnnounced
<1>2. OrderIsAnnounced'
  BY <1>0, <1>1 DEF ToldParts, OrderIsAnnounced
<1>3. NoIdYet'
  BY DEF NoIdYet
<1>4. ASSUME NEW w \in Workers, (worker[w].pc \in Holding)'
      PROVE  Announced(worker[w].key)'
  <2>1. worker'[w].key \in Keys /\ Announced(worker'[w].key)
    <3>1. CASE worker[w].pc \in Holding /\ worker'[w].key = worker[w].key
      BY <1>0, <3>1 DEF ToldParts, KeyIsAnnounced, TypeInv, Keyed
    <3>2. QED BY <1>4, <3>1
  <2>2. QED BY <2>1, <1>1 DEF Announced, Told, Sending, Alone
<1>5. ASSUME NEW w \in Workers, (worker[w].pc = "intent")'
      PROVE  Announced(IdempotencyKey(worker[w].sid, worker[w].price))'
  <2> DEFINE key == IdempotencyKey(worker[w].sid, worker[w].price)
  <2>1. CASE worker'[w] = worker[w]
    <3>1. key' = key
      BY <2>1 DEF IdempotencyKey
    <3>2. worker[w].price \in Prices /\ worker[w].sid \in 0..MaxEvals
      BY <1>0, <1>5, <2>1 DEF TypeInv, TypeOK, Priced, Worker
    <3>3. key \in Keys /\ Announced(key)
      BY <1>0, <1>5, <2>1, <3>2, KeyType DEF ToldParts, KeyIsAnnounced
    <3>4. QED BY <3>1, <3>3, <1>1 DEF Announced, Told, Sending, Alone
  <2>2. QED BY <1>5, <2>1
<1>6. QED
  BY <1>2, <1>3, <1>4, <1>5 DEF ToldParts, KeyIsAnnounced

LEMMA ToldSend ==
    ASSUME Heard, ToldInv, TypeInv', NEW w \in Workers, SendAlert(w)
    PROVE  ToldParts'
<1>0. /\ TypeInv /\ TypeOK /\ ToldParts /\ worker[w] \in Worker /\ worker[w].pc = "send"
      /\ worker[w].price \in Prices /\ worker[w].sid = 0
  BY DEF ToldInv, TypeInv, TypeOK, SendAlert, At, Priced, ToldParts, NoIdYet
<1>1. /\ sent' = [sent EXCEPT ![Alert(w)] = @ + 1]
      /\ \E sid \in 0..MaxEvals :
            /\ Alerted(w, sid)
            /\ \/ sid = lastMsg + 1 /\ lastMsg' = sid /\ sentIds' = sentIds \cup {sid}
               \/ sid = lastMsg /\ UNCHANGED <<lastMsg, sentIds>>
  <2>1. lastMsg \in Nat /\ lastMsg <= MaxEvals /\ MaxEvals \in Nat
    BY <1>0, SignalOrderAssumption DEF TypeOK
  <2>2. CASE /\ lastMsg < MaxEvals /\ lastMsg' = lastMsg + 1
             /\ sentIds' = sentIds \cup {lastMsg'}
             /\ sent' = [sent EXCEPT ![<<worker[w].price, worker[w].bucket>>] = @ + 1]
             /\ Alerted(w, lastMsg')
    <3>1. lastMsg + 1 \in 0..MaxEvals
      BY <2>1, <2>2
    <3>2. QED BY <2>2, <3>1 DEF Alert
  <2>3. CASE /\ sent' = [sent EXCEPT ![<<worker[w].price, worker[w].bucket>>] = @ + 1]
             /\ UNCHANGED <<lastMsg, sentIds>>
             /\ Alerted(w, lastMsg)
    <3>1. lastMsg \in 0..MaxEvals
      BY <2>1
    <3>2. sent' = [sent EXCEPT ![Alert(w)] = @ + 1]
      BY <2>3 DEF Alert
    <3>3. QED BY <2>3, <3>1, <3>2
  <2>4. QED BY <2>2, <2>3 DEF SendAlert, NewRow, Heard
<1>2. PICK sid \in 0..MaxEvals :
            /\ Alerted(w, sid)
            /\ \/ sid = lastMsg + 1 /\ lastMsg' = sid /\ sentIds' = sentIds \cup {sid}
               \/ sid = lastMsg /\ UNCHANGED <<lastMsg, sentIds>>
  BY <1>1
<1>3. /\ worker'[w].pc = "intent" /\ worker'[w].sid = sid
      /\ worker'[w].price = worker[w].price
      /\ \A v \in Workers \ {w} : worker'[v] = worker[v]
  BY <1>0, <1>2, AlertedMoves
<1>4. Alert(w) \in Prices \X (0..MaxBucket)
  BY <1>0 DEF Alert, Worker
<1>5. /\ sent'[Alert(w)] > 0
      /\ \A a \in Prices \X (0..MaxBucket) : sent[a] > 0 => sent'[a] > 0
  BY <1>0, <1>1, <1>4 DEF TypeOK
<1>6. Remembered
  BY <1>2, <1>3, <1>5 DEF Remembered
<1>7. RowsAreSent' /\ (sid # 0 => sid \in sentIds')
  <2>1. 1..lastMsg \subseteq sentIds /\ lastMsg \in Nat
    BY <1>0, SignalOrderAssumption DEF ToldParts, RowsAreSent, TypeOK
  <2>2. CASE sid = lastMsg + 1 /\ lastMsg' = sid /\ sentIds' = sentIds \cup {sid}
    <3>1. 1..(lastMsg + 1) = 1..lastMsg \cup {lastMsg + 1}
      BY <2>1
    <3>2. QED BY <2>1, <2>2, <3>1 DEF RowsAreSent
  <2>3. CASE sid = lastMsg /\ UNCHANGED <<lastMsg, sentIds>>
    BY <2>1, <2>3 DEF RowsAreSent
  <2>4. QED BY <1>2, <2>2, <2>3
<1>8. RecordedIsSent'
  <2> SUFFICES ASSUME NEW a \in dedup
               PROVE  \/ sent'[a] > 0
                      \/ \E v \in Workers : worker'[v].pc = "send" /\ Alert(v)' = a
    BY DEF RecordedIsSent, SendAlert
  <2>1. a \in Prices \X (0..MaxBucket)
    BY <1>0 DEF TypeOK
  <2>2. CASE sent[a] > 0
    BY <1>5, <2>1, <2>2
  <2>3. CASE \E v \in Workers : worker[v].pc = "send" /\ Alert(v) = a
    BY <1>3, <1>5, <2>3 DEF Alert
  <2>4. QED BY <1>0, <2>2, <2>3 DEF ToldParts, RecordedIsSent
<1>9. Announced(IdempotencyKey(worker[w].sid, worker[w].price))'
  <2>1. CASE sid = 0
    <3>1. Told(worker[w].price)'
      BY <1>0, <1>3, <1>5 DEF Told, Alert, Worker
    <3>2. QED BY <1>3, <2>1, <3>1 DEF Announced, IdempotencyKey
  <2>2. CASE sid # 0
    BY <1>3, <1>7, <2>2 DEF Announced, IdempotencyKey
  <2>3. QED BY <2>1, <2>2
<1>10. orders' = orders
  BY DEF SendAlert
<1>11. \A v \in Workers :
         /\ worker'[v].pc \notin {"check", "lock", "dedup", "send"} \/ worker'[v].sid = 0
         /\ worker'[v].pc = "intent" =>
               worker'[v] = worker[v] \/ Announced(IdempotencyKey(worker[v].sid, worker[v].price))'
         /\ worker'[v].pc \in Holding =>
               worker[v].pc \in Holding /\ worker'[v].key = worker[v].key
  <2> SUFFICES ASSUME NEW v \in Workers
               PROVE  /\ worker'[v].pc \notin {"check", "lock", "dedup", "send"}
                            \/ worker'[v].sid = 0
                      /\ worker'[v].pc = "intent" =>
                            \/ worker'[v] = worker[v]
                            \/ Announced(IdempotencyKey(worker[v].sid, worker[v].price))'
                      /\ worker'[v].pc \in Holding =>
                            worker[v].pc \in Holding /\ worker'[v].key = worker[v].key
    OBVIOUS
  <2>1. CASE v = w
    BY <1>3, <1>9, <2>1 DEF Holding
  <2>2. CASE v # w
    BY <1>0, <1>3, <2>2 DEF ToldParts, NoIdYet
  <2>3. QED BY <2>1, <2>2
<1>12. QED
  BY <1>6, <1>7, <1>8, <1>10, <1>11, ToldFrame

LEMMA ToldCheckDedup ==
    ASSUME Heard, ToldInv, TypeInv', NothingWithheld, NEW w \in Workers, CheckDedup(w)
    PROVE  ToldParts'
<1> DEFINE key == <<worker[w].price, bucket>>
<1>0. /\ TypeInv /\ TypeOK /\ ToldParts /\ worker[w].pc = "dedup"
      /\ worker[w].sid = 0
  BY DEF ToldInv, TypeInv, TypeOK, CheckDedup, At, ToldParts, NoIdYet
<1>1. /\ dedup' = dedup \cup {key} /\ UNCHANGED <<sent, sentIds, lastMsg, orders>>
      /\ worker'[w].pc = (IF key \in dedup THEN "intent" ELSE "send")
      /\ worker'[w].sid = 0
      /\ worker'[w].price = worker[w].price /\ worker'[w].bucket = bucket
      /\ \A v \in Workers \ {w} : worker'[v] = worker[v]
  <2>1. Emissions = {"send"}
    BY DEF Emissions, NothingWithheld, Heard
  <2>2. /\ worker'[w].pc = (IF key \in dedup THEN "intent" ELSE "send")
        /\ worker'[w].sid = worker[w].sid
        /\ worker'[w].price = worker[w].price /\ worker'[w].bucket = bucket
        /\ \A v \in Workers \ {w} : worker'[v] = worker[v]
    BY <1>0, <2>1, DedupMoves
  <2>3. dedup' = dedup \cup {key} /\ UNCHANGED <<sent, sentIds, lastMsg, orders>>
    BY DEF CheckDedup
  <2>4. QED BY <1>0, <2>2, <2>3
<1>2. Remembered
  BY <1>0, <1>1 DEF Remembered
<1>3. RowsAreSent'
  BY <1>0, <1>1 DEF ToldParts, RowsAreSent
<1>4. RecordedIsSent'
  <2> SUFFICES ASSUME NEW a \in dedup'
               PROVE  \/ sent[a] > 0
                      \/ \E v \in Workers : worker'[v].pc = "send" /\ Alert(v)' = a
    BY <1>1 DEF RecordedIsSent
  <2>1. CASE a \in dedup
    <3>1. \/ sent[a] > 0
          \/ \E v \in Workers \ {w} : worker[v].pc = "send" /\ Alert(v) = a
      BY <1>0, <2>1 DEF ToldParts, RecordedIsSent
    <3>2. QED BY <1>1, <3>1 DEF Alert
  <2>2. CASE a = key /\ key \notin dedup
    BY <1>1, <2>2 DEF Alert
  <2>3. QED BY <1>1, <2>1, <2>2
<1>5. worker'[w].pc = "intent" =>
         Announced(IdempotencyKey(worker[w].sid, worker[w].price))'
  <2> SUFFICES ASSUME worker'[w].pc = "intent"
               PROVE  Announced(IdempotencyKey(worker[w].sid, worker[w].price))'
    OBVIOUS
  <2>1. \/ sent[key] > 0
        \/ \E v \in Workers : worker[v].pc = "send" /\ Alert(v) = key
    BY <1>0, <1>1 DEF ToldParts, RecordedIsSent
  <2>2. CASE sent[key] > 0
    <3>1. Told(worker[w].price)'
      BY <1>0, <1>1, <2>2 DEF Told, TypeOK
    <3>2. QED BY <1>1, <3>1 DEF Announced, IdempotencyKey
  <2>3. CASE \E v \in Workers : worker[v].pc = "send" /\ Alert(v) = key
    <3>1. PICK v \in Workers : worker[v].pc = "send" /\ Alert(v) = key
      BY <2>3
    <3>2. v # w /\ worker'[v] = worker[v] /\ worker[v].price = worker[w].price
      BY <1>0, <1>1, <3>1 DEF Alert
    <3>3. Sending(worker[w].price)' /\ ~Alone'
      BY <1>1, <3>1, <3>2 DEF Sending, Alone
    <3>4. QED BY <1>1, <3>3 DEF Announced, IdempotencyKey
  <2>4. QED BY <2>1, <2>2, <2>3
<1>6. \A v \in Workers :
         /\ worker'[v].pc \notin {"check", "lock", "dedup", "send"} \/ worker'[v].sid = 0
         /\ worker'[v].pc = "intent" =>
               worker'[v] = worker[v] \/ Announced(IdempotencyKey(worker[v].sid, worker[v].price))'
         /\ worker'[v].pc \in Holding =>
               worker[v].pc \in Holding /\ worker'[v].key = worker[v].key
  <2> SUFFICES ASSUME NEW v \in Workers
               PROVE  /\ worker'[v].pc \notin {"check", "lock", "dedup", "send"}
                            \/ worker'[v].sid = 0
                      /\ worker'[v].pc = "intent" =>
                            \/ worker'[v] = worker[v]
                            \/ Announced(IdempotencyKey(worker[v].sid, worker[v].price))'
                      /\ worker'[v].pc \in Holding =>
                            worker[v].pc \in Holding /\ worker'[v].key = worker[v].key
    OBVIOUS
  <2>1. CASE v = w
    BY <1>1, <1>5, <2>1 DEF Holding
  <2>2. CASE v # w
    BY <1>0, <1>1, <2>2 DEF ToldParts, NoIdYet
  <2>3. QED BY <2>1, <2>2
<1>7. QED
  BY <1>1, <1>2, <1>3, <1>4, <1>6, ToldFrame

\* A step of w, to or from neither "send" nor "intent" but as said.
LEMMA ToldMove ==
    ASSUME ToldInv, TypeInv', NEW w \in Workers,
           UNCHANGED <<dedup, sent, sentIds, lastMsg>>, worker[w].pc # "send",
           \A v \in Workers \ {w} : worker'[v] = worker[v],
           worker'[w].pc \notin {"send", "intent"},
           worker'[w].pc \in {"check", "lock", "dedup"} => worker'[w].sid = 0,
           worker'[w].pc \in Holding =>
              \/ worker[w].pc \in Holding /\ worker'[w].key = worker[w].key
              \/ worker'[w].key \in Keys /\ Announced(worker'[w].key),
           \A k \in Keys : orders'[k] > 0 => orders[k] > 0 \/ Announced(k)
    PROVE  ToldParts'
<1>0. TypeOK /\ ToldParts
  BY DEF ToldInv, TypeInv
<1>1. Remembered
  BY <1>0 DEF Remembered
<1>2. RowsAreSent'
  BY <1>0 DEF ToldParts, RowsAreSent
<1>3. RecordedIsSent'
  <2> SUFFICES ASSUME NEW a \in dedup
               PROVE  \/ sent[a] > 0
                      \/ \E v \in Workers : worker'[v].pc = "send" /\ Alert(v)' = a
    BY DEF RecordedIsSent
  <2>1. \/ sent[a] > 0
        \/ \E v \in Workers \ {w} : worker[v].pc = "send" /\ Alert(v) = a
    BY <1>0 DEF ToldParts, RecordedIsSent
  <2>2. QED BY <2>1 DEF Alert
<1>4. \A v \in Workers :
         /\ worker'[v].pc \notin {"check", "lock", "dedup", "send"} \/ worker'[v].sid = 0
         /\ worker'[v].pc = "intent" => worker'[v] = worker[v]
         /\ worker'[v].pc \in Holding =>
               \/ worker[v].pc \in Holding /\ worker'[v].key = worker[v].key
               \/ worker'[v].key \in Keys /\ Announced(worker'[v].key)
  <2> SUFFICES ASSUME NEW v \in Workers
               PROVE  /\ worker'[v].pc \notin {"check", "lock", "dedup", "send"}
                            \/ worker'[v].sid = 0
                      /\ worker'[v].pc = "intent" => worker'[v] = worker[v]
                      /\ worker'[v].pc \in Holding =>
                            \/ worker[v].pc \in Holding /\ worker'[v].key = worker[v].key
                            \/ worker'[v].key \in Keys /\ Announced(worker'[v].key)
    OBVIOUS
  <2>1. CASE v = w
    BY <2>1
  <2>2. CASE v # w
    BY <1>0, <2>2 DEF ToldParts, NoIdYet
  <2>3. QED BY <2>1, <2>2
<1>5. QED
  BY <1>1, <1>2, <1>3, <1>4, ToldFrame

LEMMA ToldWorker ==
    ASSUME ToldInv, TypeInv', NEW w \in Workers,
           \/ Evaluate(w) \/ CheckAlertLock(w) \/ SetAlertLock(w) \/ CreateIntent(w)
           \/ Guard(w) \/ ClaimSlot(w) \/ Place(w) \/ Placed(w) \/ Release(w) \/ Record(w)
    PROVE  ToldParts'
<1>0. /\ TypeInv /\ TypeOK /\ ToldParts /\ worker[w] \in Worker
      /\ \A v \in Workers \ {w} : worker'[v] = worker[v]
  BY OneMoves DEF ToldInv, TypeInv, TypeOK, Continue
<1>1. UNCHANGED <<dedup, sent, sentIds, lastMsg>>
  BY DEF Evaluate, CheckAlertLock, SetAlertLock, CreateIntent, Guard, ClaimSlot, Place,
         Placed, Release, Record
<1>2. CASE Evaluate(w) \/ CheckAlertLock(w) \/ SetAlertLock(w) \/ Record(w)
  <2>1. worker[w].pc \in {"idle", "check", "lock", "record"} /\ orders' = orders
    BY <1>2 DEF Evaluate, CheckAlertLock, SetAlertLock, Record, At
  <2>2. /\ worker'[w].pc \in {"idle", "check", "lock", "dedup"}
        /\ worker'[w].sid = 0
    <3>1. CASE Evaluate(w)
      BY <1>0, <3>1 DEF Evaluate, TypeOK, Idle
    <3>2. CASE CheckAlertLock(w) \/ SetAlertLock(w)
      <4>1. worker[w].sid = 0
        BY <1>0, <3>2 DEF CheckAlertLock, SetAlertLock, At, ToldParts, NoIdYet
      <4>2. \/ worker' = [worker EXCEPT ![w] = Idle]
            \/ \E pc \in {"lock", "dedup"} : Goto(w, pc)
        BY <3>2 DEF CheckAlertLock, SetAlertLock
      <4>3. CASE worker' = [worker EXCEPT ![w] = Idle]
        BY <1>0, <4>3 DEF TypeOK, Idle
      <4>4. CASE \E pc \in {"lock", "dedup"} : Goto(w, pc)
        BY <1>0, <4>1, <4>4, GotoMoves DEF Pcs
      <4>5. QED BY <4>2, <4>3, <4>4
    <3>3. CASE Record(w)
      BY <1>0, <3>3 DEF Record, TypeOK, Idle
    <3>4. QED BY <1>2, <3>1, <3>2, <3>3
  <2>3. QED BY <1>0, <1>1, <2>1, <2>2, ToldMove DEF Holding
<1>3. CASE CreateIntent(w)
  <2>1. /\ worker[w].pc = "intent" /\ OwnKey(w) \in Keys /\ orders' = orders
        /\ \/ worker'[w].pc = "record"
           \/ worker'[w].pc = "guard" /\ worker'[w].key = OwnKey(w)
    BY <1>0, <1>3, TakingStep
  <2>2. Announced(OwnKey(w))
    BY <1>0, <2>1 DEF ToldParts, KeyIsAnnounced, OwnKey
  <2>3. QED BY <1>0, <1>1, <2>1, <2>2, ToldMove DEF Holding
<1>4. CASE Guard(w) \/ ClaimSlot(w) \/ Place(w) \/ Placed(w) \/ Release(w)
  <2>1. /\ worker[w].pc \in Holding /\ worker[w].key \in Keys
        /\ GoesOn(w) \/ IsUpdated(w) \/ IsAbandoned(w)
        /\ \A k \in Keys \ {worker[w].key} : orders'[k] = orders[k]
    BY <1>0, <1>4, HoldingSteps
  <2>2. /\ worker'[w].pc \in Holding \cup {"record"}
        /\ worker'[w].pc \in Holding => worker'[w].key = worker[w].key
    BY <2>1 DEF GoesOn, IsUpdated, IsAbandoned, Holding
  <2>3. Announced(worker[w].key)
    BY <1>0, <2>1 DEF ToldParts, KeyIsAnnounced
  <2>4. \A k \in Keys : orders'[k] > 0 => orders[k] > 0 \/ Announced(k)
    BY <2>1, <2>3
  <2>5. QED BY <1>0, <1>1, <2>1, <2>2, <2>4, ToldMove DEF Holding
<1>5. QED
  BY <1>2, <1>3, <1>4

LEMMA ToldOthers ==
    ASSUME Heard, ToldInv, TypeInv',
           \/ \E w \in Workers : Refuse(w)
           \/ \E p \in Procs : Crash(p)
           \/ CoolDown \/ NextBucket \/ Toggle \/ SyncOrder \/ Reconcile \/ UNCHANGED vars
    PROVE  ToldParts'
<1>1. UNCHANGED <<worker, dedup, sent, sentIds, lastMsg, orders>>
  BY DEF Refuse, Crash, CoolDown, NextBucket, Toggle, SyncOrder,
         Reconcile, vars, Heard
<1>2. \A k : Announced(k)' <=> Announced(k)
  BY <1>1 DEF Announced, Told, Sending, Alone
<1>3. \A w \in Workers : Alert(w)' = Alert(w)
  BY <1>1 DEF Alert
<1>4. \A w \in Workers : IdempotencyKey(worker[w].sid, worker[w].price)'
                            = IdempotencyKey(worker[w].sid, worker[w].price)
  BY <1>1 DEF IdempotencyKey
<1>5. ToldParts
  BY DEF ToldInv
<1>6. RowsAreSent' /\ NoIdYet'
  BY <1>1, <1>5 DEF ToldParts, RowsAreSent, NoIdYet
<1>7. RecordedIsSent'
  BY <1>1, <1>3, <1>5 DEF ToldParts, RecordedIsSent
<1>8. OrderIsAnnounced'
  BY <1>1, <1>2, <1>5 DEF ToldParts, OrderIsAnnounced
<1>9. KeyIsAnnounced'
  <2> SUFFICES ASSUME NEW w \in Workers
               PROVE  /\ worker[w].pc = "intent" =>
                            Announced(IdempotencyKey(worker[w].sid, worker[w].price))'
                      /\ worker[w].pc \in Holding => Announced(worker[w].key)'
    BY <1>1 DEF KeyIsAnnounced
  <2>1. /\ worker[w].pc = "intent" =>
              Announced(IdempotencyKey(worker[w].sid, worker[w].price))
        /\ worker[w].pc \in Holding => Announced(worker[w].key)
    BY <1>5 DEF ToldParts, KeyIsAnnounced
  <2>2. QED BY <1>1, <2>1 DEF Announced, Told, Sending, Alone, IdempotencyKey
<1>10. QED
  BY <1>6, <1>7, <1>8, <1>9 DEF ToldParts

LEMMA ToldInvariant == ASSUME Heard PROVE Spec => []ToldParts
<1>1. Init => ToldParts
  BY ToldInit
<1>2. TypeInv /\ TypeInv' /\ NothingWithheld /\ ToldParts /\ [Next]_vars => ToldParts'
  <2> SUFFICES ASSUME TypeInv, TypeInv', NothingWithheld, ToldParts, [Next]_vars
               PROVE  ToldParts'
    OBVIOUS
  <2>1. ToldInv
    BY DEF ToldInv
  <2>2. CASE \E w \in Workers : Evaluate(w) \/ Continue(w)
    <3>1. \A w \in Workers : ~PersistAlert(w)
      BY DEF PersistAlert, At, NothingWithheld
    <3>2. QED BY <2>1, <2>2, <3>1, ToldSend, ToldCheckDedup, ToldWorker DEF Continue
  <2>3. QED BY <2>1, <2>2, ToldOthers DEF Next, Exhausted
<1>3. QED
  BY <1>1, <1>2, TypeInvariant, AlertsGoOut, PTL DEF Spec

\* Where every alert that is due gets sent, an order at the exchange is one whose
\* alert was sent, or, of a second evaluation at the same price, is being sent: a
\* lost row, a stalled evaluation, a refused or lost order or an exception do not
\* change that, nor does any number of processes and buckets.
THEOREM NoSilentOrder == ASSUME Heard PROVE Spec => []OrderIsAnnounced
<1>1. ToldParts => OrderIsAnnounced
  BY DEF ToldParts
<1>2. QED
  BY <1>1, ToldInvariant, PTL

\* With one evaluation at a time (one process, no cycle left behind by a timeout)
\* the policy of signal_order_policy.py holds as it is worded: only after.
THEOREM AlertBeforeOrder == ASSUME Heard, Alone PROVE Spec => []OrderHasAlert
<1>1. OrderIsAnnounced => OrderHasAlert
  BY DEF OrderIsAnnounced, OrderHasAlert, Announced, Told
<1>2. QED
  BY <1>1, NoSilentOrder, PTL

===============================================================================
