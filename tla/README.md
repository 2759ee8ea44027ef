# Verification of the trading core

TLA+ models of the parts of this repository that place and protect real orders:
the signal monitor, the order intents, the stop-loss and take-profit orders of a
filled entry, the synchronisation that cancels what a fill leaves behind, and the
locks that keep two processes from doing the same thing at once. TLC checks the
models on small instances; TLAPS proves the safety properties of all five
components for every instance. `PROJECT.json` maps every definition to the
lines it models. Below, `services/` is `src/backend/app/services/`.

## 1. The system

A deployment (`src/docker-compose.yml`) runs two backend processes, `backend-aws`
and `backend-aws-canary`, over one PostgreSQL database and one Crypto.com account.
Each process has an event loop with background services and a thread pool for its
HTTP routes.

| part | state it keeps | operations | hard because |
|---|---|---|---|
| signal-monitor loop (`signal_monitor.py` `start`, `stop`, `routes_control.py`, `factory.py`) | `is_running`, `_task`, a status file, advisory lock 123456 | start, stop, cycle, timeout, restart | two processes, untracked tasks, threads that hang, a lock on a connection |
| signal evaluation (`_check_signal_for_coin_sync`) | throttle row, in-memory alert lock, dedup row, message row | throttle, alert, intent, guard | runs in two processes and beside its own abandoned predecessor |
| order intents (`signal_order_orchestrator.py`, `order_intent_reconciliation.py`) | `order_intents`, unique on the key | create, update, reconcile | crash between intent, order and update |
| order placement (`_place_order_from_signal`) | in-memory slot per symbol and side | claim, place, release | cap checks read rows that are written later |
| entry protection (`_create_protection_after_entry_fill`, `_create_sl_tp_impl`, `tp_sl_order_creator.py`, `sl_tp_protection.py`) | the SL/TP orders at the exchange and their rows | poll, create, retry, recover, flatten | each step acts on the exchange and on the database and either may fail |
| half-protected healer (`sl_tp_checker.py`) | none of its own | cancel the SL, recreate both | races the sync and the operator |
| creation lock (`sl_tp_protection.py`, `_create_sl_tp_for_filled_order`) | session-level advisory lock | try, look, create, release | pooled connections, a key that differs between processes |
| sync (`exchange_sync.py` `sync_open_orders`, `sync_order_history`) | `exchange_orders`, the objects of two sessions | snapshot, resolve, upsert, reconcile, sweep, history, cancel siblings | two loops, snapshots and objects that are stale when written, answers that mislead, commits that fail |
| switches (`trading_guardrails.py`, `live_trading_gate.py`, `system_core_trade_guards.py`) | toggle, kill switch, caps, breaker | allow or refuse an order | thrown at any moment |
| notifications (`fill_tracker.py`, `telegram_event_dedup.py`) | SQLite and PostgreSQL rows | should notify, record | check and record are two steps |
| ghost protection, positions, expected take-profit, trade outcomes | derived | computations | decimals over a long history |
| governance, agents, Jarvis | tasks, approvals, leader rows | lifecycle, approval, recovery | restarts, several approvers |
| market data, portfolio cache, routes, frontend, scripts | caches, views | | |

They interact so: the monitor's cycle takes the cluster lock and evaluates each
coin in a thread (`MonitorLock`). The evaluation throttles the signal, sends the
alert once across processes, creates an intent whose unique key decides who may
place the order, and places it (`SignalOrder`). A filled order is protected before
the placement returns, by creating a stop-loss and a take-profit, and closed at
market if that fails (`EntryProtection`). Later the healer looks for lots with
only a stop-loss, the reconciliation expires intents, and the two sync loops
follow the legs: when one fills, whichever loop sees it first cancels the other
(`LegSync`). An entry found without protection by the history, the hourly check
or a route is given one under the creation lock (`CreationLock`).

What makes each part correct: at most one cycle, and a lock that never leaks; at
most one alert per price and bucket, at most one order per intent, order ids that
tell the truth, no intent forgotten or taken up twice; never a naked entry, never two live legs of
one role, never a row that says an order is gone while it rests; no leg cancelled before
one of its position has filled, and none left after; a table that ends up telling
what became of each leg; one creation of protection per parent. For the parts not
modelled yet: one notification per fill increment; a task's status follows its
transitions.

## 2. Modules

| module | models | composes |
|---|---|---|
| `ProtectionLegs` | the calls that look up, place and cancel protection legs, as sets of outcomes on exchange and rows | used by `EntryProtection` |
| `EntryProtection` | the fill-time thread, the healer, and `_create_sl_tp_impl` run by either | `ProtectionLegs`, refines `EntryPromise` |
| `EntryPromise` | the abstract specification of the thread | |
| `SignalOrder` | one signal from throttle to order, several workers and processes | `MCSignalOrder` instantiates it |
| `MonitorLock` | loops, their starting and stopping, and the advisory lock | `MCMonitorLock` instantiates it |
| `LegSync` | the two sync loops over the legs of one symbol | refines `OcoPromise`; `MCLegSync` instantiates it |
| `OcoPromise` | the abstract specification of legs that stand or fall together | |
| `CreationLock` | the lock under which an unprotected entry is given its legs | `MCCreationLock` instantiates it |
| `EntryProtection_proofs` | theorems about the thread before any healing | extends `EntryProtection` |
| `EntryHealing_proofs` | theorems about thread and healer together | extends `EntryProtection_proofs` |
| `EntrySwitches_proofs` | theorems about the thread and the operator's switches | extends `EntryHealing_proofs` |
| `SignalOrder_proofs`, `MonitorLock_proofs`, `LegSync_proofs`, `CreationLock_proofs` | theorems and proofs | extend their modules |

**ProtectionLegs.** A leg has the state the exchange holds (`exch`) and the state
its row says (`row`); the code decides on rows and acts on the exchange, and the
difference is where it fails. A call is the set of pairs (new legs, answer) it can
have, selected by `Faults`. Quantities are equal and prices are left out.

**EntryProtection.** `fill` is the thread, with its control point, attempt count,
last result and outcome; `impl[c]` is the activation of the creation routine that
the thread or the healer runs, one action per call to the exchange, so that the
sync, the operator and the other caller come between. `Read` chooses the path
(nothing to do, native OCO, dual), `CancelBeforeTP`, `TakeProfit`,
`CancelAfterTP`, `TakeProfitAgain`, `StopLoss` are the dual path and `EnsureOco`,
`CancelForOco`, `PlaceNativeOco` the OCO. `Judge`, `Flatten`, `GapCancel`,
`GapJudge` are what the thread does with a result. The fill path passes
`skip_gate=True` and takes no creation lock, and neither does the model. The
market close obeys the kill switch, as the broker client does; single protective
orders do not, and the native OCO obeys toggle and kill switch both, because the
code asks the guardrails without `is_protective_order`.

**SignalOrder.** A worker is one evaluation, its control point the next effect
that others can see. `Refuse` is an evaluation that the throttle stops, with its
one effect on others: it drops its process's alert lock. The key of an intent
is the alert's message id or, without one, the content. What the guardrails refuse,
and with live trading off that is every entry, is written to the monitor and not
sent (`PersistAlert`), and its row gives an id like any other. The guard asks again
(`Guard`); when live trading is switched off after it, the broker client answers
FILLED under an id of its own, and where the process may not call the exchange it
answers without an error and without an id (`Place`). Both answers make the intent
ORDER_PLACED (`Placed`), so that the status does not say whether there is an order;
the intent's order id does (`OrderIdIsTrue`). A query or commit of the session may
raise wherever the evaluation holds an intent (`Abandon`, the handler at
`signal_monitor.py:4847`): the session is rolled back and the intent stays as it is,
PENDING, even when its order rests at the exchange. `abandoned` is a history
variable with the keys of such evaluations, and of those a crash ended: they are
the only PENDING intents nobody is at work on (`PendingIsHandled`), and nobody takes
them up again (`HandledOnce`).
Two workers of one process stand for a cycle whose timeout abandoned
its thread and the successor (`MonitorLock` shows this is possible: the
lock comes free while the thread runs on).

**MonitorLock.** A loop's `tracked` says whether `self._task` is its task: boot
creates tracked loops, the routes untracked ones that `stop()` cannot cancel. The
lock belongs to a connection, closed at the end of the cycle, dropped by the
server, or lost with its process. `file` is the status file, as far as it is fresh.

**LegSync.** Both loops run in threads of their own, each with its own SQLAlchemy
session. `session[t][l]` is the object of a row in the session of `t`: what the row
was when it was read, and what it is to be. Sessions do not autoflush and read
committed rows; `Commit` writes only the attributes that changed and expires the
objects, `Rollback` drops them. So a value read before the other loop's commit can
be written after it, and an attribute nobody touched is not. `OpenOrders` is
`sync_open_orders`: the snapshot, the rows missing from it (`ResolveMissing`,
`ApplyResolved`), the rows in it (`UpsertOpen`), the misclassified
(`BeginReconcile`, `Recheck`, `Repair`), the sweep, the final commit.
`OrderHistory` is `sync_order_history`. `Cancelling(t)` is
`_cancel_oco_sibling` with its soft check, its call and its row, and
`_cancel_remaining_sl_tp` where it answers False; either loop enters it, and
`call[t].back` is where the loop then goes on. Pairs are linked in three ways
(`kind`): a list of the exchange, which ends the sibling itself; an `oco_group_id`
of the bot; the parent alone. `OcoPromise` says what all that is for, on the
exchange's legs only: no cancellation without a fill in the group, and no leg that
stays for ever after one.

**CreationLock.** A session takes a connection of its process's pool at a statement
and hands it back at each commit, and the lock stays with the connection: the next
session to get that connection takes the lock again, because PostgreSQL's
session-level locks are re-entrant. The key is `hash()` of a string, so that the
locks of two processes never meet (`Locked` looks only at connections of one pool).

## 3. Runs

| run | instance | shows |
|---|---|---|
| `entry_fill` | no healer, 2 attempts, OCO on and off, spot and margin, ten faults; 51,554 states | what the thread's results claim is so; a spot entry under native OCO never ends naked; no leg is doubled; it implements `EntryPromise`; it ends |
| `entry_heal` | one healer pass; dying take-profits, refused cancellations; 163,569 states | the healer hands a stop-loss back; no naked entry; no doubled leg |
| `entry_switches` | toggle, kill switch, margin flips, unsaved rows; 1,294 states | the thread still ends covered, closed or with the operator called |
| `entry_gap` | refusals on margin | **violated**: see findings |
| `entry_stopped` | toggle and kill switch only | **violated**: see findings |
| `signal_order` | 3 workers, 2 processes, 2 evaluations, 2 buckets, eleven faults; 1.21 million states | one alert, one order per intent, true order ids; a PENDING intent is being worked on, or was abandoned by a crash or an exception; no intent is taken up twice |
| `signal_silent_order` | two prices, alerts may fail | **violated**: see findings |
| `monitor_lock` | 2 processes, 2 loops, 1 coin, four faults, with and without cycle timeout; 112,304 states | one cycle, no leak, the lock comes free, a stop is heeded |
| `monitor_restart` | crashes | **violated**: see findings |
| `leg_sync` | one position's pair, linked in each of the three ways; one fault among a blind answer, a lost cancellation, a failed commit; 816,354 states | it implements `OcoPromise`, liveness included; a FILLED row is true; the table ends up right |
| `leg_fallback` | two positions of a symbol, one without its take-profit; no faults | **violated**: see findings |
| `creation_lock` | two processes with a caller and two connections each | **violated**: see findings |

Bounds. `MaxAttempts = 2` has a first, a repeated and a last attempt; the code's
default is larger, and every further attempt starts from states the second has.
`MaxLegs = 24` is above any number of legs two attempts, a recovery and a pass can
place; it cuts nothing off. One healer pass meets every
state the thread leaves behind; more passes repeat it. Three workers give the two
kinds of race, in one process and across two; two evaluations and two buckets a
duplicate in the same bucket and one in the next, and an intent old enough to be
reconciled. `Prices = {1}` without price gate makes the evaluations compete for
one key; `signal_silent_order` has two prices and the gate. Two loops are enough
for a boot loop beside a route's, or for two processes; one coin is enough to hang.
The two workers of a process are symmetric, and the run with that symmetry has no
liveness property.

In `leg_sync` the pair of one position is enough for every order of two fills,
two snapshots, two histories and their cancellations; the loops go round without
bound, and one fault at a time is met by all that follows it. `FilledRowIsTrue` and
the cancellation of siblings are proved for every number of positions and faults
(section 5). `PositionPromise` holds of one position and not of two: that is
`leg_fallback`. In `creation_lock` two connections per pool let a session return to
its connection, or not.

Faults an instance leaves out are not claimed. Known limits, each found by adding the
fault to the run: `OneLegPerRole` fails when a placement's answer is lost or its row
is not saved (the next attempt places again), when the toggle is off while a
take-profit dies (a cancellation is answered without asking the exchange), and under
native OCO with a margin flip or a cancelled row that cannot be marked;
`ClaimedStopIsLive` fails with refusals and a margin flip, or when a cancelled row
cannot be marked; `HealKeepsStop` fails with refusals, or with a margin flip under
native OCO; a stop-loss rejected at once (`deadSL`) is never noticed. These are listed
as hazards. In `SignalOrder`, three things are true of the code and no property denies
them: ORDER_PLACED is said of a dry run too; an intent that an exception or a lost
answer left PENDING or ORDER_FAILED may have its order at the exchange; and
reconciliation turns a PENDING intent of that kind into ORDER_FAILED, since without an
order id it finds no row for it. A commit that raises is taken as one that was not
applied. The theorems of section 5 say for which faults each property does hold, and
these limits are why they assume that much.

Deadlock is checked in every run but `creation_lock`, whose callers are done in the
end: `Settled` and `Exhausted` are the ends a system may come to. `MonitorLock` and
`LegSync` always have a step.

Fairness. The thread of `EntryProtection` is one synchronous function all of whose
calls answer, time out or raise: `WF(FillThread)`, and likewise a healer's pass
once begun; nothing obliges the exchange, the sync or the operator. A loop of
`MonitorLock` is a task of an event loop, and a coin that does not hang is a thread
that ends: `WF(Continue(l))`; no fairness on starts, stops or faults. With the
default `MONITOR_CYCLE_TIMEOUT=0` a hung coin holds the lock for ever: the
liveness properties are stated for a positive timeout, and without one they fail.
`LegSync` assumes that each loop goes on (`WF(OpenOrders)`, `WF(OrderHistory)`): its
steps are calls with timeouts in a thread that an interval timer starts again; no
fairness on fills, ends or faults. `SignalOrder` and `CreationLock` have safety only
and assume no fairness.

## 4. Findings

- `entry_gap` / `HardInvariant`. On margin, a missing take-profit makes the thread
  cancel the live stop-loss and create both again. If the new stop-loss is refused
  the thread ends: naked, not flattened, and reporting that the SL is live.
- `entry_stopped` / `NeverStripped`. The kill switch thrown between the fill and
  the native OCO blocks the OCO, and the emergency close too.
  `trading_guardrails.py:266` promises that no switch strips an open position.
- `signal_silent_order` / `OrderHasAlert`. An order is placed when its alert was
  not sent, was taken for a duplicate, or was only persisted;
  `signal_order_policy.py:9` says alert first.
- `monitor_restart` / `StartIsHeeded`. A process restarted soon after its last
  status write believes its loop runs and starts none.
- `leg_fallback` / `CancelStaysInPosition`. A filled leg without an active sibling
  makes `_cancel_remaining_sl_tp` take the legs of the other role anywhere on the
  symbol and side: the fill of one position strips another.
  `exchange_sync.py:4575` says that the same side ensures the correct position.
- `creation_lock` / `OnePairPerEntry`. The lock key is salted per process, so that
  the primary and the canary both create protection for one entry;
  `exchange_sync.py:3584` calls the lock cross-process. Within one process the same
  happens after a commit of the creation has handed the locked connection to the
  next caller.

## 5. Proofs

Checked by TLAPS, for every value of the constants under the modules' named
assumptions (`EntryProtectionAssumption`, `SignalOrderAssumption`,
`MonitorLockAssumption`, `LegSyncAssumption`), which say no more than what kind of
values the constants are and, in `LegSync`, that a position has one leg of a role.
Further assumptions are in the theorem's own `ASSUME`.

`SignalOrder_proofs`. `TypeCorrect`: `TypeOK` is not inductive, because the key an
evaluation computes is one of `Keys` only if its price is one that a signal fired at;
`TypeInv` adds that (`Priced`, `Keyed`). `AtMostOneOrder`, `AtMostOneWorker`,
`OrderIdsAreTrue`: the invariant `OrderInv` says that whoever holds a key has its
intent in the table, not yet placed (`IntentTaken`), so that the insert refuses
everybody else for good; that an order is placed only for an intent
(`NoIntentNoOrder`), none before the holder's `place` (`NotYetPlaced`), and after it
one if the answer carries an id of the exchange's and none if not (`HasPlaced`). Most
actions are dispatched by one frame lemma (`OrderFrame`); the insert and the placement
are proved on their own. Crashes and reconciliations need no case of their own in the
argument: they never make an intent absent. `AlertsOnce` rests on the dedup row,
whatever becomes of the in-memory locks; `NoOverlap`, for placements that do not
outlast the slot (`"slow" \notin Faults`), on the slot.

`NoIntentForgotten` follows each path of a placement to the status it leaves: what
ends an evaluation without one is a crash or the handler of exceptions, and
`abandoned` has then taken the key. `WorkedOnOnce` is the step-wise counterpart, the
action property `HandledOnce`, which needs no invariant beyond the types: of an intent
that is in the table and that nobody holds, no step makes a held one, orders for it,
or changes more than reconciliation does (`LeftAlone`).

`NoSilentOrder` and `AlertBeforeOrder` are the other side of the finding
`signal_silent_order`. They assume `Heard`: no alert fails to be sent or is only
written to the monitor, for the guardrails or for live trading being off, and no
process dies between the dedup row and the sending. Then live trading is on and nobody
stands at `persist` (`NothingWithheld`), and `ToldParts` is inductive: ids are those
of rows really sent (`RowsAreSent`), a dedup row is of an alert that was sent or whose
evaluation stands at `send` (`RecordedIsSent`), and whoever has an id or a key has it
of such an alert (`KeyIsAnnounced`). So an order's alert was sent, or another
evaluation is just sending it: an evaluation told "deduped" does not wait for the one
that is at it. With one evaluation at a time (`Alone`) that case is gone, and
`OrderHasAlert` holds.

`MonitorLock_proofs`. `LockNeverLeaks` and `OnlyOneCycle`: `LockInv` says that the
server grants the lock once (`OneGrant`), to a cycle under way (`LockIsOfCycle`),
and that a cycle whose connection lives has it (`CycleHolds`). The last conjunct is
what a timeout, a cancellation or a crash could break. `StartHeededUntilCrash` is
the other side of the finding `monitor_restart`: a process that says its loop runs,
in memory or in its status file, has a loop that is under way (`FlagIsTrue`), and one
that is down has left nothing (`DownIsClean`); every step but a crash keeps both, so
that a start which is turned away is a duplicate.

`LegSync_proofs`. FILLED travels from the exchange through answers, histories and
the objects of the sessions into rows, and from rows into cancellations; `IInv` says
that each station is true (`StoreTrue`, `AnswerTrue`, `HistoryTrue`, `CallsTrue`),
which the rows alone could not sustain: a commit writes what an object held.
`TypeCorrect` and `FilledRowsAreTrue` follow, and `SymbolPromise`: with all legs of
the symbol as one group, every step of the loops is a step of `OcoPromise` or
stutters. Per position this is false, and `SiblingsStayInPosition` says that the
fallback alone is to blame: whatever `_cancel_oco_sibling` cancels, some leg of that
position has filled (`OnSiblings`: what a thread is about to cancel there is a
sibling of the leg it is called for). `OnePositionPromise` and `OnePositionCancels`
say what else it takes: where all legs protect one entry (`OnePosition`), as in
`leg_sync`, the position is the symbol, and the promise is kept with the fallback.

`CreationLock_proofs`, for any finite number of callers. Each placement uses up a
caller's right to one (`LegsBounded`: the legs there are and the callers who may still
place one are no more than the callers), although a caller commits, looks again
and goes on between its orders; `TypeCorrect` has the bound in `live`, and
`OneCallerOnePair` reads `OnePairPerEntry` off it for a caller that nobody joins.
`OneHolder`: two connections of a process never hold the key at once; what lets two
callers in together is not the database. `LeavesProtected`: whoever comes to release
the lock leaves both legs behind (`NotMissingRests`: what a caller no longer misses
rests at the exchange), whatever the others did meanwhile.

`EntryProtection_proofs`, for every number of attempts. `TypeCorrect` needs that ids
in a routine's hands are legs of the history (`TypeInv`). `CancelledGone`: unless the
toggle is thrown, a CANCELLED row is of an order off the exchange, for any other
fault and any number of passes of the healer. The other theorems assume `Honest`, that none of the faults
happens that let a row and the exchange drift apart (`Misleading`: a lost answer, an
unsaved or unmarked row, a stop-loss rejected after it was accepted, a leg that dies
later, a margin flip, the toggle), and `MaxHeals = 0`, the time of the thread;
refusals, take-profits that are rejected at once, failed cancellations and closes,
raised calls, the lag of the wallet and the kill switch remain. Then `Guarded` is
inductive: rows are true and of each role one leg is live (`LegsSound`; on the
OCO path both legs or none), the routine's activation agrees with the legs
(`RoutineSound`: a list is placed where no leg is, the dual path knows the live
stop-loss, a confirmed stop-loss is a live one), a thread that looks for the missing
take-profit has a stop-loss and is not on the OCO path (`GapSound`), and the routine
runs only while the thread waits for it (`Threading`). `ClaimIsLive`,
`GapIsCovered`, `OneOfEach` and `SpotCovered` are read off it. `KeepsPromise` is the
refinement of `EntryPromise`: with `Unsettled` (the lot of a thread still at work is
not closed), every step maps to a step of the promise or stutters.
With a healer the legs change under the thread's routine, which `Guarded` does
not follow, and `Honest` is more than each single property needs. The next two
modules take the properties one by one, each with the faults it survives.

`EntryHealing_proofs`, for every number of attempts and of passes. Its first
part says fault by fault what a call does to the legs. `Paths` is what all four
proofs share: who is where. The margin mode is fixed where it matters
(`Steady`), the routine runs only for a thread or healer that waits for it
(`Bound`), and the healer takes up a lot only when the thread is over (`Turns`).

- `SpotNeverNaked` (`PathKept`: no margin flip under native OCO; no healer).
  A spot lot has both legs of a list or none, and the thread flattens on none: no
  other fault of the model, the misleading ones included, makes it end naked.
- `HealedIsHard`, `HealerGivesBack` (`Obeyed`: no placement refused, blocked or
  rejected after the fact, no query that raises, no cancelled row left unmarked,
  and no switch thrown where native lists are placed). The healer, and the recovery
  of a missing take-profit, cancel the one stop-loss there is. `Indebted` follows the
  debt: as long as a stop-loss was placed and none rests, some activation stands
  where its next steps place one (`Owed`), and whoever reports a stop-loss or ends
  covered knows of one that was placed (`Knows`, `SLFound`). `HardInvariant` is not
  inductive without the debt, since nothing in the state of a finished thread says
  that the healer has its stop-loss in hand. `entry_gap` shows why refusals are
  excluded.
- `NeverTwoOfARole` (`Saved`: accepted orders are answered and recorded, the toggle
  stays on, and under native OCO neither margin flips nor unmarked rows). `Tidy`: an
  order that rests has an active row, and no role has two of them. A placement asks
  for the active row first, except for the list, which is placed when none is active;
  that the healer's passage to it has cleared them is `Clears`.

`EntrySwitches_proofs`, for the thread without the healer. `SwitchesAreSafe`
(`Smooth`: no placement refused, blocked, lost or rejected) has every switch thrown
between any two calls, margin flips under native OCO included, and every
failure of queries, commits, cancellations and closes: the instance of
`entry_switches` and more. `Flawless` says that an attempt then starts from no legs
(`Fresh`), confirms both or neither, and never enters the recovery.
`ToggleStripsNothing` is the promise of `trading_guardrails.py:266` with the kill
switch and a refused close left out: turning live trading off strips nothing. The
run `entry_stopped` shows what the kill switch adds.

That these assumptions are not empty is what the runs show: `entry_heal` is an instance
of `Obeyed` and of `Saved`, `entry_fill` of `PathKept` and of `Saved`, `entry_switches` of
`Smooth`, `leg_sync` of `OnePosition`.

Model-checked only: the liveness properties (`ThreadEnds`, `LockComesFree`,
`StopEndsLoops`, `TableSettles`, and the liveness half of `PositionPromise`; fairness
is out of the prover's reach). Every invariant and every action property of a passing
run is stated by a theorem, under the assumptions named above; of the properties that
a run shows violated, the theorems say where they hold.

## 6. Not modelled

In `EntryProtection`: protection orders that trigger, partial fills and unequal
quantities, dry-run, a thread that dies with its process, placeholder ids of
unresolved OCO children, the second stop type of create-oco, and an upgrade branch
(`exchange_sync.py` 4378-4465) no path reaches. In `SignalOrder`: the SELL
block, the 5-second duplicate check of the message table, exceptions of
the dedup check, `force_next_signal`, and the individual caps of the guardrails
(one nondeterministic answer). In `MonitorLock`: the thread-safety of `cancel()`
called from a pool thread.

In `LegSync`: legs the exchange rejects and the legs that replace them; a second leg
of a role; an empty snapshot (other orders of the account stay open, and the guards
against an empty answer are never met); paging and windows of the history, an order
missing from one page being one that a later cycle finds; the toggle itself (with live
trading off the client answers a cancellation CANCELLED without asking the exchange,
`crypto_com_trade.py` 4902-4904: one of the ways it is `"lost"`, and the row is marked
all the same); the rows of EXPIRED and REJECTED orders, which say CANCELLED here,
whereas `_cancel_oco_sibling` leaves a fill whose only sibling is one of them to the
fallback: with one position it finds nothing there, with two it is `leg_fallback`; the
history's `wait_for`, which abandons a thread and closes its session; the limit of the
sweep; partial fills; notifications; balances; the import of entries and the creation
it starts.

In `CreationLock`: failures; a caller's second attempt; an entry that has one leg
already; two entries whose 31-bit keys collide; the order in which a pool hands out
connections (any free one) and its recycling after an hour.

Components without a module are in `PROJECT.json` with the reason. They fall into
three groups: state machines that are planned below; computations over decimals
(positions, portfolio, indicators, expected take-profit), which have little control
and whose data TLC cannot enumerate; and views, parsing, scripts and the frontend,
which change no state of their own.

## 7. Plan

1. `Governance`: `services/governance_service.py`, `governance_executor.py` and their
   routes. A task's row is updated and held until the request commits, so that two
   executions of one task run one after the other, the second from `completed`; a
   step that restarts the process rolls the transaction back with the commands run;
   two approvals each miss the other's. Promises: one executor at a time, never left
   in `applying`, completed means run, every request ends.
2. `FillNotify`: `should_notify_fill` and `record_fill` by two pollers, with
   `telegram_event_dedup`; promise: an increment is notified once.
3. The caps of `trading_guardrails` against rows that lag, composed with the slot
   of `SignalOrder`.
4. The leader of the Jarvis scheduler; the retry circuit.
5. `EntryProtection`: placeholder ids of OCO children as a fault, and the second stop
   type of create-oco. `LegSync`: rejected legs and their replacement, and with two
   legs of a role the order in which siblings are looked at.
6. Proofs: `ClaimedStopIsLive`, `GapHasStop` and `PromiseKept`, which are proved under
   `Honest`, each under the faults it survives, as section 5 does for the others, and
   with the healer.
