------------------------------ MODULE LegSync ------------------------------
(***************************************************************************)
(* The two loops of ExchangeSyncService over the protective legs of one    *)
(* symbol: sync_open_orders and sync_order_history run in threads of their *)
(* own, each with its own database session, and either may find a fill and *)
(* cancel the legs that stood against it.  Creation of legs is             *)
(* EntryProtection; here the legs are there, and fill, end or get          *)
(* cancelled.  Other orders of the account stay open throughout, so that a *)
(* verified snapshot is never empty of ids (see the README).               *)
(*                                                                         *)
(* Sessions do not flush by themselves and read committed rows; an object, *)
(* once read, keeps its values until the session's next commit or          *)
(* rollback, and a commit writes the attributes that changed.              *)
(*                                                                         *)
(* Faults an instance may allow, each use of one counted:                  *)
(*   "blind"    an order's detail is missing, or wrongly CANCELLED         *)
(*   "lost"     a cancellation fails, works without an answer, or, with    *)
(*              live trading off, is answered and never gets there         *)
(*   "rollback" a commit fails                                             *)
(***************************************************************************)
EXTENDS Naturals

CONSTANTS
    Legs,        \* the protective orders of the symbol, all on one side
    Positions,   \* the entries they protect
    PosOf(_),    \* parent_order_id
    RoleOf(_),   \* order_role: "sl" or "tp", one leg of each to a position
    Kinds,       \* how pairs may be linked, see kind
    Faults,      \* the faults this instance allows
    MaxFaults    \* bound on their uses

ASSUME LegSyncAssumption ==
    /\ \A l \in Legs : PosOf(l) \in Positions /\ RoleOf(l) \in {"sl", "tp"}
    /\ \A l, m \in Legs : PosOf(l) = PosOf(m) /\ RoleOf(l) = RoleOf(m) => l = m
    /\ Kinds \subseteq {"native", "pair", "loose"}
    /\ MaxFaults \in Nat

Threads == {"open", "history"}
NoLeg == "no leg"

VARIABLES
    kind,       \* per position: a list of the exchange ("native"), an oco_group_id
                \* of the bot ("pair"), or the parent alone ("loose")
    ex,         \* the legs at the exchange
    row,        \* exchange_orders, as committed
    session,    \* the objects each thread's session holds
    pc, todo,   \* where each thread is, and the legs its loop has yet to visit
    snap,       \* the legs among the open orders last fetched
    answer,     \* what the exchange said of the leg at hand
    call,       \* each thread's cancellation of what a fill leaves behind
    exhausted,  \* _protection_reconcile_exhausted
    faults      \* uses of faults so far

vars == <<kind, ex, row, session, pc, todo, snap, answer, call, exhausted,
          faults>>

Row == [st : {"ACTIVE", "FILLED", "CANCELLED"}, cum : BOOLEAN]
Unread == [st |-> "unread", cum |-> FALSE]
Object == [was : Row \cup {Unread}, now : Row \cup {Unread}]
Absent == [was |-> Unread, now |-> Unread]

\* leg: whose fill it is; left: the legs still to cancel; back: where the thread
\* goes on; recent: the row's time of the fill is of the last hour.
Call == [leg : Legs \cup {NoLeg}, left : SUBSET Legs,
         back : {"none", "missing", "reconcile", "sweep", "history"},
         recent : BOOLEAN]
NoCall == [leg |-> NoLeg, left |-> {}, back |-> "none", recent |-> FALSE]

Pcs == {"idle", "missing", "apply", "upsert", "reconcile", "repair", "sweep",
        "history", "siblings", "soft", "cancel", "mark", "fallback", "remaining"}

TypeOK ==
    /\ kind \in [Positions -> Kinds]
    /\ ex \in [Legs -> {"live", "filled", "ended", "cancelled"}]
    /\ row \in [Legs -> Row]
    /\ session \in [Threads -> [Legs -> Object]]
    /\ pc \in [Threads -> Pcs]
    /\ todo \in [Threads -> SUBSET Legs]
    /\ snap \subseteq Legs
    /\ answer \in [leg : Legs \cup {NoLeg},
                   says : {"ACTIVE", "FILLED", "CANCELLED", "nothing"}]
    /\ call \in [Threads -> Call]
    /\ exhausted \subseteq Legs
    /\ faults \in 0..MaxFaults

NoAnswer == [leg |-> NoLeg, says |-> "nothing"]

Init ==
    /\ kind \in [Positions -> Kinds]
    /\ ex = [l \in Legs |-> "live"]
    /\ row = [l \in Legs |-> [st |-> "ACTIVE", cum |-> FALSE]]
    /\ session = [t \in Threads |-> [l \in Legs |-> Absent]]
    /\ pc = [t \in Threads |-> "idle"]
    /\ todo = [t \in Threads |-> {}]
    /\ snap = {} /\ answer = NoAnswer
    /\ call = [t \in Threads |-> NoCall]
    /\ exhausted = {} /\ faults = 0

Use(f) == f \in Faults /\ faults < MaxFaults /\ faults' = faults + 1

\* The other leg of the position, if there is one (_find_oco_siblings).
Siblings(l) == {m \in Legs : PosOf(m) = PosOf(l) /\ m # l}

\* The stop-loss is a STOP_LIMIT; the take-profit of a native pair a plain LIMIT.
IsTrigger(l) == ~(kind[PosOf(l)] = "native" /\ RoleOf(l) = "tp")

ActiveRows == {l \in Legs : row[l].st = "ACTIVE"}

-----------------------------------------------------------------------------
(* Sessions.                                                               *)

\* An object not yet read is read from the committed row.
Read(t, l) == IF session[t][l] = Absent THEN [was |-> row[l], now |-> row[l]]
              ELSE session[t][l]

Seen(t, l) == Read(t, l).now

Loaded(t, S) == [l \in Legs |-> IF l \in S THEN Read(t, l) ELSE session[t][l]]

Load(t, S) == session' = [session EXCEPT ![t] = Loaded(t, S)]

\* Mutation of Written: the session's rows are written as they are.
MutWritesAll(s) == [l \in Legs |-> s[l].now]

\* commit(): the attributes of s that changed are written, and all is expired.
Written(s) ==
    [l \in Legs |->
        [st  |-> IF s[l].now.st # s[l].was.st THEN s[l].now.st ELSE row[l].st,
         cum |-> IF s[l].now.cum # s[l].was.cum THEN s[l].now.cum ELSE row[l].cum]]

Expire(t) == session' = [session EXCEPT ![t] = [l \in Legs |-> Absent]]

Commit(t, s) == row' = Written(s) /\ Expire(t)

\* A commit that fails is caught, and what was pending is dropped.
Rollback(t) == Use("rollback") /\ Expire(t) /\ UNCHANGED row

CommitOrNot(t, s) == (Commit(t, s) /\ UNCHANGED faults) \/ Rollback(t)

\* t's session with the status of l set to st, and its filled quantity to cum.
With(t, l, st, cum) ==
    [session[t] EXCEPT ![l] = [was |-> Read(t, l).was, now |-> [st |-> st, cum |-> cum]]]

Goto(t, p) == pc' = [pc EXCEPT ![t] = p]
Visit(t, p, S) == Goto(t, p) /\ todo' = [todo EXCEPT ![t] = S]
Visited(t, l) == todo' = [todo EXCEPT ![t] = @ \ {l}]

\* Cancel what the fill of l leaves behind, beginning at p.
Start(t, l, p, back, recent) ==
    /\ Goto(t, p)
    /\ call' = [call EXCEPT ![t] = [leg |-> l, left |-> {}, back |-> back,
                                    recent |-> recent]]

Return(t) == Goto(t, call[t].back) /\ call' = [call EXCEPT ![t] = NoCall]

-----------------------------------------------------------------------------
(* The exchange.                                                           *)

\* When a leg of a native pair fills the exchange ends the other.
Fill(l) ==
    /\ ex[l] = "live"
    /\ ex' = [m \in Legs |->
                 IF m = l THEN "filled"
                 ELSE IF kind[PosOf(l)] = "native" /\ m \in Siblings(l) /\ ex[m] = "live"
                      THEN "ended" ELSE ex[m]]
    /\ UNCHANGED <<kind, row, session, pc, todo, snap, answer, call, exhausted, faults>>

\* It expires, or the user cancels it.
End(l) ==
    /\ ex[l] = "live"
    /\ ex' = [ex EXCEPT ![l] = "ended"]
    /\ UNCHANGED <<kind, row, session, pc, todo, snap, answer, call, exhausted, faults>>

-----------------------------------------------------------------------------
(* sync_open_orders.                                                       *)

\* The snapshot, and the active rows that are not in it.
FetchOpenOrders ==
    /\ pc["open"] = "idle"
    /\ snap' = {l \in Legs : ex[l] = "live"}
    /\ Visit("open", "missing", ActiveRows \ snap')
    /\ UNCHANGED <<kind, ex, row, session, answer, call, exhausted, faults>>

\* Mutation of Truth: an order that is gone has been filled.
MutGoneIsFilled(l) == IF ex[l] = "live" THEN "ACTIVE" ELSE "FILLED"

\* What get-order-detail and the histories say; "ACTIVE" is any open state.
Truth(l) == IF ex[l] = "live" THEN "ACTIVE"
            ELSE IF ex[l] = "filled" THEN "FILLED" ELSE "CANCELLED"

Ask(l, misleading) ==
    \/ answer' = [leg |-> l, says |-> Truth(l)] /\ UNCHANGED faults
    \/ /\ Use("blind")
       /\ \E a \in misleading : answer' = [leg |-> l, says |-> a]

\* db.refresh(order), then _resolve_order_status_from_exchange.
ResolveMissing(l) ==
    /\ pc["open"] = "missing" /\ l \in todo["open"]
    /\ Visited("open", l)
    /\ session' = [session EXCEPT !["open"][l] = [was |-> row[l], now |-> row[l]]]
    /\ IF row[l].st = "FILLED"
       THEN UNCHANGED <<pc, answer, faults>>
       ELSE Ask(l, {"CANCELLED", "nothing"}) /\ Goto("open", "apply")
    /\ UNCHANGED <<kind, ex, row, snap, call, exhausted>>

\* _apply_protection_fill_from_resolve: the event of the fill commits what the
\* session holds, then the siblings are cancelled.  The row's time is now, until
\* the history puts back that of the fill.
ApplyFill(l, back) ==
    /\ CommitOrNot("open", With("open", l, "FILLED", TRUE))
    /\ \E recent \in BOOLEAN : Start("open", l, "siblings", back, recent)

\* Mutation of ApplyResolved: only a fill changes a protective order's row.
MutCancelledIgnored ==
    /\ pc["open"] = "apply"
    /\ IF answer.says = "FILLED" THEN ApplyFill(answer.leg, "missing")
       ELSE Goto("open", "missing") /\ UNCHANGED <<row, session, faults, call>>
    /\ answer' = NoAnswer
    /\ UNCHANGED <<kind, ex, todo, snap, exhausted>>

\* A protective order is not cancelled for want of an answer.  (A rejected leg is
\* counted among the cancelled; the legs that replace it are not here.)
ApplyResolved ==
    /\ pc["open"] = "apply"
    /\ LET l == answer.leg IN
       CASE answer.says = "FILLED" -> ApplyFill(l, "missing")
         [] answer.says = "CANCELLED" ->
              /\ IF Seen("open", l).st = "CANCELLED" THEN UNCHANGED <<row, session, faults>>
                 ELSE CommitOrNot("open",
                          With("open", l, "CANCELLED", Seen("open", l).cum))
              /\ Goto("open", "missing") /\ UNCHANGED call
         [] OTHER -> Goto("open", "missing") /\ UNCHANGED <<row, session, faults, call>>
    /\ answer' = NoAnswer
    /\ UNCHANGED <<kind, ex, todo, snap, exhausted>>

BeginUpsert ==
    /\ pc["open"] = "missing" /\ todo["open"] = {}
    /\ Visit("open", "upsert", snap)
    /\ UNCHANGED <<kind, ex, row, session, snap, answer, call, exhausted, faults>>

\* The row takes the snapshot's status and filled quantity, whatever it says.
UpsertOpen(l) ==
    /\ pc["open"] = "upsert" /\ l \in todo["open"]
    /\ Visited("open", l)
    /\ session' = [session EXCEPT !["open"] = With("open", l, "ACTIVE", FALSE)]
    /\ UNCHANGED <<kind, ex, row, pc, snap, answer, call, exhausted, faults>>

\* _reconcile_misclassified_protection_fills: committed rows CANCELLED, nothing filled.
BeginReconcile ==
    /\ pc["open"] = "upsert" /\ todo["open"] = {}
    /\ LET S == {l \in Legs : row[l].st = "CANCELLED" /\ ~row[l].cum}
       IN Load("open", S) /\ Visit("open", "reconcile", S \ exhausted)
    /\ UNCHANGED <<kind, ex, row, snap, answer, call, exhausted, faults>>

Recheck(l) ==
    /\ pc["open"] = "reconcile" /\ l \in todo["open"]
    /\ Visited("open", l)
    /\ Ask(l, {"nothing"}) /\ Goto("open", "repair")
    /\ UNCHANGED <<kind, ex, row, session, snap, call, exhausted>>

Repair ==
    /\ pc["open"] = "repair"
    /\ LET l == answer.leg IN
       /\ IF answer.says # "FILLED"
          THEN Goto("open", "reconcile") /\ UNCHANGED <<row, session, faults, call>>
          ELSE IF Seen("open", l).st = "FILLED"
          THEN /\ session' = [session EXCEPT !["open"] = With("open", l, "FILLED", TRUE)]
               /\ Goto("open", "reconcile") /\ UNCHANGED <<row, faults, call>>
          ELSE ApplyFill(l, "reconcile")
       /\ exhausted' = IF answer.says = "CANCELLED" THEN exhausted \cup {l} ELSE exhausted
    /\ answer' = NoAnswer
    /\ UNCHANGED <<kind, ex, todo, snap>>

\* _sweep_orphaned_oco_siblings: committed rows still active.
BeginSweep ==
    /\ pc["open"] = "reconcile" /\ todo["open"] = {}
    /\ Load("open", ActiveRows) /\ Visit("open", "sweep", ActiveRows)
    /\ UNCHANGED <<kind, ex, row, snap, answer, call, exhausted, faults>>

\* Mutation of SweepOrphan: a sibling that is no longer active will do.
MutSweepAnyEnd(l) ==
    /\ pc["open"] = "sweep" /\ l \in todo["open"]
    /\ Visited("open", l)
    /\ LET read == IF l \in snap THEN Siblings(l) \cup {l} ELSE {}
           gone == {f \in read \ {l} : Seen("open", f).st # "ACTIVE"}
       IN /\ Load("open", read)
          /\ IF gone # {} /\ Seen("open", l).st # "FILLED"
             THEN \E f \in gone : Start("open", f, "siblings", "sweep", FALSE)
             ELSE UNCHANGED <<pc, call>>
    /\ UNCHANGED <<kind, ex, row, snap, answer, exhausted, faults>>

\* An order of the snapshot beside a sibling that filled.
SweepOrphan(l) ==
    /\ pc["open"] = "sweep" /\ l \in todo["open"]
    /\ Visited("open", l)
    /\ LET read == IF l \in snap THEN Siblings(l) \cup {l} ELSE {}
           filled == {f \in read \ {l} : Seen("open", f).st = "FILLED"}
       IN /\ Load("open", read)
          /\ IF filled # {} /\ Seen("open", l).st # "FILLED"
             THEN \E f \in filled : Start("open", f, "siblings", "sweep", FALSE)
             ELSE UNCHANGED <<pc, call>>
    /\ UNCHANGED <<kind, ex, row, snap, answer, exhausted, faults>>

FinishOpenOrders ==
    /\ pc["open"] = "sweep" /\ todo["open"] = {}
    /\ CommitOrNot("open", session["open"])
    /\ Goto("open", "idle") /\ snap' = {}
    /\ UNCHANGED <<kind, ex, todo, answer, call, exhausted>>

-----------------------------------------------------------------------------
(* sync_order_history.                                                     *)

FetchHistory ==
    /\ pc["history"] = "idle"
    /\ Visit("history", "history", {l \in Legs : ex[l] = "filled"})
    /\ UNCHANGED <<kind, ex, row, session, snap, answer, call, exhausted, faults>>

\* The row is filled; the event of a notification, when there is one, commits.
\* Where the table knew of the fill, and it is an old one, that is all.
TakeFill(l) ==
    /\ pc["history"] = "history" /\ l \in todo["history"]
    /\ Visited("history", l)
    /\ LET s == With("history", l, "FILLED", TRUE)
       IN \/ CommitOrNot("history", s)
          \/ session' = [session EXCEPT !["history"] = s] /\ UNCHANGED <<row, faults>>
    /\ \E recent \in BOOLEAN :
          IF Seen("history", l).st = "FILLED" /\ ~recent THEN UNCHANGED <<pc, call>>
          ELSE Start("history", l,
                     IF kind[PosOf(l)] = "loose" THEN "fallback" ELSE "siblings",
                     "history", recent)
    /\ UNCHANGED <<kind, ex, snap, answer, exhausted>>

FinishHistory ==
    /\ pc["history"] = "history" /\ todo["history"] = {}
    /\ CommitOrNot("history", session["history"])
    /\ Goto("history", "idle")
    /\ UNCHANGED <<kind, ex, todo, snap, answer, call, exhausted>>

-----------------------------------------------------------------------------
(* _cancel_oco_sibling, and _cancel_remaining_sl_tp where it answers False. *)

Fallback(t) == IF call[t].back = "sweep" THEN Return(t)
               ELSE Goto(t, "fallback") /\ UNCHANGED call

CancelSibling(t) ==
    /\ pc[t] = "siblings"
    /\ LET S == Siblings(call[t].leg)
           In(st) == {s \in S : Seen(t, s).st = st}
       IN /\ Load(t, S \cup {call[t].leg})
          /\ IF In("FILLED") # {} THEN Return(t)
             ELSE IF In("ACTIVE") # {}
             THEN /\ \E s \in In("ACTIVE") : call' = [call EXCEPT ![t].left = {s}]
                  /\ Goto(t, IF kind[PosOf(call[t].leg)] = "native" THEN "soft" ELSE "cancel")
             ELSE IF In("CANCELLED") # {} THEN Return(t)
             ELSE Fallback(t)
    /\ UNCHANGED <<kind, ex, row, todo, snap, answer, exhausted, faults>>

MarkCancelled(t, S) ==
    [l \in Legs |-> IF l \in S
                    THEN [was |-> Read(t, l).was,
                          now |-> [Read(t, l).now EXCEPT !.st = "CANCELLED"]]
                    ELSE session[t][l]]

\* Of a native pair the sibling has most often gone by itself: get-order-detail.
SoftCheck(t) ==
    /\ pc[t] = "soft"
    /\ LET gone == Commit(t, MarkCancelled(t, call[t].left)) /\ Return(t)
           there == Goto(t, "cancel") /\ UNCHANGED <<row, session, call>>
       IN \/ /\ IF \E s \in call[t].left : Truth(s) = "CANCELLED" THEN gone ELSE there
             /\ UNCHANGED faults
          \/ Use("blind") /\ gone
    /\ UNCHANGED <<kind, ex, todo, snap, answer, exhausted>>

\* The call to the exchange.  Of an order that is not open it says so in words
\* that _cancel_result_indicates_already_gone knows, or in others.
CancelAtExchange(t) ==
    /\ pc[t] = "cancel"
    /\ \E s \in call[t].left :
          \/ /\ ex[s] = "live"
             /\ \/ /\ ex' = [ex EXCEPT ![s] = "cancelled"]
                   /\ Goto(t, "mark") /\ UNCHANGED <<call, faults>>
                \/ /\ Use("lost") /\ ex' \in {ex, [ex EXCEPT ![s] = "cancelled"]}
                   /\ Fallback(t)
                \/ /\ Use("lost") /\ Goto(t, "mark") /\ UNCHANGED <<ex, call>>
          \/ /\ ex[s] # "live" /\ UNCHANGED <<ex, faults>>
             /\ Fallback(t) \/ (Goto(t, "mark") /\ UNCHANGED call)
    /\ UNCHANGED <<kind, row, session, todo, snap, answer, exhausted>>

MarkSibling(t) ==
    /\ pc[t] = "mark"
    /\ Commit(t, MarkCancelled(t, call[t].left)) /\ Return(t)
    /\ UNCHANGED <<kind, ex, todo, snap, answer, exhausted, faults>>

\* Committed active rows of the other role's trigger type: the entry's, and
\* where it has none, any of the symbol.
Remaining(l) ==
    LET Targets == {m \in ActiveRows : RoleOf(m) # RoleOf(l) /\ IsTrigger(m)}
        Own == {m \in Targets : PosOf(m) = PosOf(l)}
    IN IF Own # {} THEN Own ELSE Targets

\* Nothing, where the order type passed is not a trigger's: the history may call
\* the order of a trigger that fired a LIMIT.  What an old fill left behind is
\* cancelled in the table only.
FindRemaining(t) ==
    /\ pc[t] = "fallback"
    /\ LET S == Remaining(call[t].leg)
           nothing == Return(t) /\ UNCHANGED <<row, session>>
       IN IF S = {} \/ ~IsTrigger(call[t].leg) THEN nothing
          ELSE \/ t = "history" /\ nothing
               \/ /\ ~call[t].recent
                  /\ Commit(t, MarkCancelled(t, S)) /\ Return(t)
               \/ /\ call[t].recent
                  /\ Load(t, S) /\ Goto(t, "remaining")
                  /\ call' = [call EXCEPT ![t].left = S] /\ UNCHANGED row
    /\ UNCHANGED <<kind, ex, todo, snap, answer, exhausted, faults>>

CancelRemaining(t, s) ==
    /\ pc[t] = "remaining" /\ s \in call[t].left
    /\ call' = [call EXCEPT ![t].left = @ \ {s}]
    /\ IF ex[s] = "live"
       THEN \/ /\ ex' = [ex EXCEPT ![s] = "cancelled"]
               /\ session' = [session EXCEPT ![t] = MarkCancelled(t, {s})]
               /\ UNCHANGED faults
            \/ /\ Use("lost") /\ ex' \in {ex, [ex EXCEPT ![s] = "cancelled"]}
               /\ UNCHANGED session
       ELSE UNCHANGED <<ex, session, faults>>
    /\ UNCHANGED <<kind, row, pc, todo, snap, answer, exhausted>>

FinishRemaining(t) ==
    /\ pc[t] = "remaining" /\ call[t].left = {}
    /\ Commit(t, session[t]) /\ Return(t)
    /\ UNCHANGED <<kind, ex, todo, snap, answer, exhausted, faults>>

-----------------------------------------------------------------------------

Cancelling(t) ==
    \/ CancelSibling(t) \/ SoftCheck(t) \/ CancelAtExchange(t) \/ MarkSibling(t)
    \/ FindRemaining(t) \/ (\E s \in Legs : CancelRemaining(t, s)) \/ FinishRemaining(t)

OpenOrders ==
    \/ FetchOpenOrders \/ ApplyResolved \/ BeginUpsert \/ BeginReconcile \/ Repair
    \/ BeginSweep \/ FinishOpenOrders \/ Cancelling("open")
    \/ \E l \in Legs : \/ ResolveMissing(l) \/ UpsertOpen(l) \/ Recheck(l)
                       \/ SweepOrphan(l)

OrderHistory ==
    \/ FetchHistory \/ FinishHistory \/ Cancelling("history")
    \/ \E l \in Legs : TakeFill(l)

Environment ==
    \E l \in Legs : Fill(l) \/ End(l)

Next == OpenOrders \/ OrderHistory \/ Environment

\* Each loop goes round and round.
Spec == /\ Init /\ [][Next]_vars
        /\ WF_vars(OpenOrders) /\ WF_vars(OrderHistory)

-----------------------------------------------------------------------------

Position == INSTANCE OcoPromise WITH Group <- PosOf, leg <- ex

\* The exchange's legs of a position fare as OcoPromise says.
PositionPromise == Position!Spec

\* The same of every single cancellation: a leg is cancelled only for a fill in
\* its own position.
CancelStaysInPosition ==
    [][\A l \in Legs : ex[l] = "live" /\ ex'[l] = "cancelled" => Position!Decided(l)]_ex

\* A row that says FILLED is of a leg that filled.
FilledRowIsTrue == \A l \in Legs : row[l].st = "FILLED" => ex[l] = "filled"

\* A leg leaves the book of the exchange once: from some time on the table says
\* of each that did how it went, whatever snapshots and answers of before were
\* still to be applied.
TableSettles ==
    <>[](\A l \in Legs : /\ ex[l] = "filled" => row[l].st = "FILLED"
                         /\ ex[l] \in {"ended", "cancelled"} => row[l].st = "CANCELLED")
=============================================================================
