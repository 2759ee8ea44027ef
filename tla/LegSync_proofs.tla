--------------------------- MODULE LegSync_proofs ---------------------------
(* Whatever is fetched, lost or rolled back, and for any number of positions: *)
(* a row that says FILLED is true, and a leg is cancelled only after a leg of *)
(* the symbol has filled.                                                     *)
EXTENDS LegSync, TLAPS

-----------------------------------------------------------------------------
(* The inductive invariant.  FILLED travels from the exchange's answers and   *)
(* history through the sessions' objects into the rows, and from those into   *)
(* the calls that cancel: each station must be true for the next to be.       *)

ExStates == {"live", "filled", "ended", "cancelled"}
Statuses == {"ACTIVE", "FILLED", "CANCELLED"}

\* The objects s of one session, and the rows r, against the exchange e.
ObjectsTrue(s, e) ==
    /\ s \in [Legs -> Object]
    /\ \A l \in Legs : s[l] # Absent => /\ s[l] \in [was : Row, now : Row]
                                        /\ s[l].now.st = "FILLED" => e[l] = "filled"

RowsTrue(r, e) ==
    /\ r \in [Legs -> Row]
    /\ \A l \in Legs : r[l].st = "FILLED" => e[l] = "filled"

StoreTrue ==
    /\ ex \in [Legs -> ExStates]
    /\ RowsTrue(row, ex)
    /\ session \in [Threads -> [Legs -> Object]]
    /\ \A t \in Threads : ObjectsTrue(session[t], ex)

CallPcs == {"siblings", "soft", "cancel", "mark", "fallback", "remaining"}

\* A thread that cancels does so for a leg that has filled, and knows its way back.
CallsTrue ==
    /\ call \in [Threads -> Call]
    /\ \A t \in Threads : pc[t] \in CallPcs =>
          call[t].leg \in Legs /\ ex[call[t].leg] = "filled" /\ call[t].back # "none"

AnswerTrue ==
    /\ answer \in [leg : Legs \cup {NoLeg},
                   says : {"ACTIVE", "FILLED", "CANCELLED", "nothing"}]
    /\ answer.says # "nothing" => answer.leg \in Legs
    /\ answer.says = "FILLED" => ex[answer.leg] = "filled"

HistoryTrue == \A l \in todo["history"] : ex[l] = "filled"

Placed ==
    /\ kind \in [Positions -> Kinds]
    /\ pc \in [Threads -> Pcs]
    /\ todo \in [Threads -> SUBSET Legs]
    /\ snap \subseteq Legs /\ exhausted \subseteq Legs
    /\ faults \in 0..MaxFaults

IInv == Placed /\ StoreTrue /\ CallsTrue /\ AnswerTrue /\ HistoryTrue

-----------------------------------------------------------------------------
(* Sessions.                                                                  *)

\* An object has been read, or is read now, from a true row.
LEMMA ReadTrue ==
    ASSUME IInv, NEW t \in Threads, NEW l \in Legs
    PROVE  /\ Read(t, l) \in [was : Row, now : Row]
           /\ Read(t, l).now.st = "FILLED" => ex[l] = "filled"
           /\ Seen(t, l) = Read(t, l).now
<1>1. RowsTrue(row, ex) /\ ObjectsTrue(session[t], ex)
  BY DEF IInv, StoreTrue
<1>2. CASE session[t][l] = Absent
  <2>1. Read(t, l) = [was |-> row[l], now |-> row[l]]
    BY <1>2 DEF Read
  <2>2. row[l] \in Row /\ (row[l].st = "FILLED" => ex[l] = "filled")
    BY <1>1 DEF RowsTrue
  <2>3. QED BY <2>1, <2>2 DEF Seen
<1>3. CASE session[t][l] # Absent
  BY <1>1, <1>3 DEF Read, Seen, ObjectsTrue
<1>4. QED
  BY <1>2, <1>3

\* A session in which each object is of before, or a true one.
LEMMA ObjectsFrom ==
    ASSUME IInv, NEW t \in Threads, NEW s, s = [l \in Legs |-> s[l]],
           \A l \in Legs : \/ s[l] = session[t][l]
                           \/ /\ s[l] \in [was : Row, now : Row]
                              /\ s[l].now.st = "FILLED" => ex[l] = "filled"
    PROVE  ObjectsTrue(s, ex)
<1>1. ObjectsTrue(session[t], ex)
  BY DEF IInv, StoreTrue
<1>2. [was : Row, now : Row] \subseteq Object
  BY DEF Object
<1>3. QED
  BY <1>1, <1>2 DEF ObjectsTrue

LEMMA LoadedTrue ==
    ASSUME IInv, NEW t \in Threads, NEW S
    PROVE  ObjectsTrue(Loaded(t, S), ex)
<1>1. \A l \in Legs : Loaded(t, S)[l] \in {Read(t, l), session[t][l]}
  BY DEF Loaded
<1>2. Loaded(t, S) = [l \in Legs |-> Loaded(t, S)[l]]
  BY DEF Loaded
<1>3. QED
  BY <1>1, <1>2, ReadTrue, ObjectsFrom

LEMMA WithTrue ==
    ASSUME IInv, NEW t \in Threads, NEW l \in Legs, NEW st \in Statuses,
           NEW cum \in BOOLEAN, st = "FILLED" => ex[l] = "filled"
    PROVE  ObjectsTrue(With(t, l, st, cum), ex)
<1> DEFINE o == [was |-> Read(t, l).was, now |-> [st |-> st, cum |-> cum]]
<1>1. session \in [Threads -> [Legs -> Object]]
  BY DEF IInv, StoreTrue
<1>2. With(t, l, st, cum) = [session[t] EXCEPT ![l] = o]
  BY <1>1 DEF With
<1>3. o \in [was : Row, now : Row] /\ o.now.st = st
  BY ReadTrue DEF Row, Statuses
<1> HIDE DEF o
<1>4. \A m \in Legs : With(t, l, st, cum)[m] = IF m = l THEN o ELSE session[t][m]
  BY <1>1, <1>2
<1>5. With(t, l, st, cum) = [m \in Legs |-> With(t, l, st, cum)[m]]
  BY <1>1, <1>2
<1>6. QED
  BY <1>3, <1>4, <1>5, ObjectsFrom

LEMMA MarkTrue ==
    ASSUME IInv, NEW t \in Threads, NEW S
    PROVE  ObjectsTrue(MarkCancelled(t, S), ex)
<1> DEFINE o(l) == [was |-> Read(t, l).was,
                    now |-> [Read(t, l).now EXCEPT !.st = "CANCELLED"]]
<1>1. \A l \in Legs : MarkCancelled(t, S)[l] \in {o(l), session[t][l]}
  BY DEF MarkCancelled
<1>2. \A l \in Legs : o(l) \in [was : Row, now : Row] /\ o(l).now.st = "CANCELLED"
  BY ReadTrue DEF Row
<1>3. MarkCancelled(t, S) = [l \in Legs |-> MarkCancelled(t, S)[l]]
  BY DEF MarkCancelled
<1> HIDE DEF o
<1>4. QED
  BY <1>1, <1>2, <1>3, ObjectsFrom

-----------------------------------------------------------------------------
(* Steps of the store, while the exchange stands still.                       *)

\* One session changes to s.
LEMMA SessionStep ==
    ASSUME IInv, NEW t \in Threads, NEW s, ObjectsTrue(s, ex),
           session' = [session EXCEPT ![t] = s], UNCHANGED <<ex, row>>
    PROVE  StoreTrue'
<1>1. StoreTrue /\ s \in [Legs -> Object]
  BY DEF IInv, ObjectsTrue
<1>2. session' \in [Threads -> [Legs -> Object]]
  BY <1>1 DEF StoreTrue
<1>3. \A u \in Threads : ObjectsTrue(session'[u], ex)
  BY <1>1 DEF StoreTrue
<1>4. QED
  BY <1>1, <1>2, <1>3 DEF StoreTrue, RowsTrue, ObjectsTrue

LEMMA ExpireStep ==
    ASSUME IInv, NEW t \in Threads, Expire(t), UNCHANGED <<ex, row>>
    PROVE  StoreTrue'
<1> DEFINE s == [l \in Legs |-> Absent]
<1>1. ObjectsTrue(s, ex)
  BY DEF ObjectsTrue, Absent, Unread, Object
<1>2. session' = [session EXCEPT ![t] = s]
  BY DEF Expire
<1> HIDE DEF s
<1>3. QED
  BY <1>1, <1>2, SessionStep

\* What a commit writes was read or set, and is true.
LEMMA WrittenTrue ==
    ASSUME IInv, NEW s, ObjectsTrue(s, ex)
    PROVE  RowsTrue(Written(s), ex)
<1>1. RowsTrue(row, ex)
  BY DEF IInv, StoreTrue
<1>2. SUFFICES ASSUME NEW l \in Legs
               PROVE  /\ Written(s)[l] \in Row
                      /\ Written(s)[l].st = "FILLED" => ex[l] = "filled"
  BY DEF RowsTrue, Written
<1>3. row[l] \in Row /\ (row[l].st = "FILLED" => ex[l] = "filled")
  BY <1>1 DEF RowsTrue
<1>4. Written(s)[l] =
        [st  |-> IF s[l].now.st # s[l].was.st THEN s[l].now.st ELSE row[l].st,
         cum |-> IF s[l].now.cum # s[l].was.cum THEN s[l].now.cum ELSE row[l].cum]
  BY DEF Written
<1>5. CASE s[l] = Absent
  <2>1. s[l].now.st = s[l].was.st /\ s[l].now.cum = s[l].was.cum
    BY <1>5 DEF Absent
  <2>2. QED BY <1>3, <1>4, <2>1 DEF Row
<1>6. CASE s[l] # Absent
  <2>1. s[l] \in [was : Row, now : Row] /\ (s[l].now.st = "FILLED" => ex[l] = "filled")
    BY <1>6 DEF ObjectsTrue
  <2>2. s[l].now \in Row
    BY <2>1
  <2>3. QED BY <1>3, <1>4, <2>1, <2>2 DEF Row
<1>7. QED
  BY <1>5, <1>6

LEMMA CommitStep ==
    ASSUME IInv, NEW t \in Threads, NEW s, ObjectsTrue(s, ex), Commit(t, s), ex' = ex
    PROVE  StoreTrue'
<1> DEFINE n == [l \in Legs |-> Absent]
<1>1. StoreTrue
  BY DEF IInv
<1>2. RowsTrue(row', ex)
  BY WrittenTrue DEF Commit
<1>3. ObjectsTrue(n, ex)
  BY DEF ObjectsTrue, Absent, Unread, Object
<1>4. session' = [session EXCEPT ![t] = n]
  BY DEF Commit, Expire
<1> HIDE DEF n
<1>5. session' \in [Threads -> [Legs -> Object]]
  BY <1>1, <1>3, <1>4 DEF StoreTrue, ObjectsTrue
<1>6. \A u \in Threads : ObjectsTrue(session'[u], ex)
  BY <1>1, <1>3, <1>4 DEF StoreTrue
<1>7. QED
  BY <1>1, <1>2, <1>5, <1>6 DEF StoreTrue, RowsTrue, ObjectsTrue

LEMMA UseStep ==
    ASSUME IInv, NEW f, Use(f)
    PROVE  faults' \in 0..MaxFaults
<1>1. faults \in 0..MaxFaults /\ faults < MaxFaults /\ faults' = faults + 1
  BY DEF IInv, Placed, Use
<1>2. QED
  BY <1>1, LegSyncAssumption DEF LegSyncAssumption

LEMMA CommitOrNotStep ==
    ASSUME IInv, NEW t \in Threads, NEW s, ObjectsTrue(s, ex), CommitOrNot(t, s), ex' = ex
    PROVE  StoreTrue' /\ faults' \in 0..MaxFaults
<1>1. CASE Commit(t, s) /\ UNCHANGED faults
  <2>1. StoreTrue'
    BY <1>1, CommitStep
  <2>2. QED BY <1>1, <2>1 DEF IInv, Placed
<1>2. CASE Rollback(t)
  <2>1. StoreTrue'
    BY <1>2, ExpireStep DEF Rollback
  <2>2. faults' \in 0..MaxFaults
    BY <1>2, UseStep DEF Rollback
  <2>3. QED BY <2>1, <2>2
<1>3. QED
  BY <1>1, <1>2 DEF CommitOrNot

\* What has filled stays so: the store is as true after a step of the exchange.
LEMMA ExchangeStep ==
    ASSUME IInv, ex' \in [Legs -> ExStates],
           \A l \in Legs : ex[l] = "filled" => ex'[l] = "filled"
    PROVE  /\ UNCHANGED <<row, session>> => StoreTrue'
           /\ \A s : ObjectsTrue(s, ex) => ObjectsTrue(s, ex')
           /\ UNCHANGED answer => AnswerTrue'
           /\ UNCHANGED todo => HistoryTrue'
           /\ UNCHANGED <<pc, call>> => CallsTrue'
<1>1. \A s : ObjectsTrue(s, ex) => ObjectsTrue(s, ex')
  BY DEF ObjectsTrue
<1>2. UNCHANGED <<row, session>> => StoreTrue'
  BY <1>1 DEF IInv, StoreTrue, RowsTrue
<1>3. UNCHANGED answer => AnswerTrue'
  BY DEF IInv, AnswerTrue
<1>4. UNCHANGED todo => HistoryTrue'
  BY DEF IInv, HistoryTrue, Placed, Threads
<1>5. UNCHANGED <<pc, call>> => CallsTrue'
  BY DEF IInv, CallsTrue
<1>6. QED
  BY <1>1, <1>2, <1>3, <1>4, <1>5

-----------------------------------------------------------------------------
(* Steps of the threads.                                                      *)

\* The exchange loses no fill in a step.
FillsKept == \A l \in Legs : ex[l] = "filled" => ex'[l] = "filled"

\* A thread goes to p, its call becoming c.
LEMMA CallStep ==
    ASSUME IInv, FillsKept, NEW t \in Threads, NEW p \in Pcs, NEW c \in Call,
           Goto(t, p), call' = [call EXCEPT ![t] = c],
           p \in CallPcs => c.leg \in Legs /\ ex[c.leg] = "filled" /\ c.back # "none"
    PROVE  pc' \in [Threads -> Pcs] /\ CallsTrue'
<1>1. pc \in [Threads -> Pcs] /\ CallsTrue
  BY DEF IInv, Placed
<1>2. \A u \in Threads : /\ pc'[u] = IF u = t THEN p ELSE pc[u]
                         /\ call'[u] = IF u = t THEN c ELSE call[u]
  BY <1>1 DEF Goto, CallsTrue
<1>3. pc' \in [Threads -> Pcs] /\ call' \in [Threads -> Call]
  BY <1>1 DEF Goto, CallsTrue
<1>4. QED
  BY <1>1, <1>2, <1>3 DEF CallsTrue, FillsKept

\* A thread goes on, within its call or without one.
LEMMA GotoStep ==
    ASSUME IInv, FillsKept, NEW t \in Threads, NEW p \in Pcs, Goto(t, p), UNCHANGED call,
           p \in CallPcs => pc[t] \in CallPcs
    PROVE  pc' \in [Threads -> Pcs] /\ CallsTrue'
<1>1. call[t] \in Call /\ call' = [call EXCEPT ![t] = call[t]]
  BY DEF IInv, CallsTrue
<1>2. p \in CallPcs =>
        call[t].leg \in Legs /\ ex[call[t].leg] = "filled" /\ call[t].back # "none"
  BY DEF IInv, CallsTrue
<1>3. QED
  BY <1>1, <1>2, CallStep

LEMMA StartStep ==
    ASSUME IInv, FillsKept, NEW t \in Threads, NEW l \in Legs, ex[l] = "filled",
           NEW p \in {"siblings", "fallback"},
           NEW back \in {"missing", "reconcile", "sweep", "history"}, NEW recent \in BOOLEAN,
           Start(t, l, p, back, recent)
    PROVE  pc' \in [Threads -> Pcs] /\ CallsTrue'
<1> DEFINE c == [leg |-> l, left |-> {}, back |-> back, recent |-> recent]
<1>1. c \in Call /\ c.leg = l /\ c.back = back
  BY DEF Call
<1>2. Goto(t, p) /\ call' = [call EXCEPT ![t] = c]
  BY DEF Start
<1>3. p \in Pcs
  BY DEF Pcs
<1> HIDE DEF c
<1>4. QED
  BY <1>1, <1>2, <1>3, CallStep

LEMMA ReturnStep ==
    ASSUME IInv, FillsKept, NEW t \in Threads, pc[t] \in CallPcs, Return(t)
    PROVE  pc' \in [Threads -> Pcs] /\ CallsTrue'
<1>1. call[t].back \in {"missing", "reconcile", "sweep", "history"}
  BY DEF IInv, CallsTrue, Call
<1>2. call[t].back \in Pcs /\ call[t].back \notin CallPcs
  BY <1>1 DEF Pcs, CallPcs
<1>3. NoCall \in Call
  BY DEF NoCall, Call
<1>4. Goto(t, call[t].back) /\ call' = [call EXCEPT ![t] = NoCall]
  BY DEF Return
<1>5. QED
  BY <1>2, <1>3, <1>4, CallStep

\* Of a call only what is left to cancel changes.
LEMMA LeftStep ==
    ASSUME IInv, FillsKept, NEW t \in Threads, pc[t] \in CallPcs, NEW p \in CallPcs,
           Goto(t, p), NEW S \in SUBSET Legs, call' = [call EXCEPT ![t].left = S]
    PROVE  pc' \in [Threads -> Pcs] /\ CallsTrue'
<1> DEFINE c == [call[t] EXCEPT !.left = S]
<1>1. call \in [Threads -> Call] /\ call[t] \in Call
  BY DEF IInv, CallsTrue
<1>2. c \in Call /\ c.leg = call[t].leg /\ c.back = call[t].back
  BY <1>1 DEF Call
<1>3. call' = [call EXCEPT ![t] = c]
  BY <1>1
<1>4. p \in Pcs
  BY DEF Pcs, CallPcs
<1>5. c.leg \in Legs /\ ex[c.leg] = "filled" /\ c.back # "none"
  BY <1>2 DEF IInv, CallsTrue
<1> HIDE DEF c
<1>6. QED
  BY <1>2, <1>3, <1>4, <1>5, CallStep

\* The rest of a step in which only one thread moves and the exchange stands still.
LEMMA StandStill ==
    ASSUME IInv, ex' = ex
    PROVE  /\ FillsKept
           /\ UNCHANGED <<row, session>> => StoreTrue'
           /\ UNCHANGED answer => AnswerTrue'
           /\ UNCHANGED todo => HistoryTrue'
           /\ UNCHANGED <<pc, call>> => CallsTrue'
<1>1. FillsKept /\ ex' \in [Legs -> ExStates]
  BY DEF FillsKept, IInv, StoreTrue
<1>2. QED
  BY <1>1, ExchangeStep DEF FillsKept

LEMMA VisitStep ==
    ASSUME IInv, NEW p \in Pcs \ CallPcs, NEW S \in SUBSET Legs, Visit("open", p, S),
           UNCHANGED <<call, ex>>
    PROVE  /\ pc' \in [Threads -> Pcs] /\ CallsTrue'
           /\ todo' \in [Threads -> SUBSET Legs] /\ HistoryTrue'
<1>1. Goto("open", p) /\ todo' = [todo EXCEPT !["open"] = S] /\ FillsKept
  BY StandStill DEF Visit
<1>2. todo \in [Threads -> SUBSET Legs] /\ "open" \in Threads /\ "history" \in Threads
  BY DEF IInv, Placed, Threads
<1>3. todo' \in [Threads -> SUBSET Legs] /\ todo'["history"] = todo["history"]
  BY <1>1, <1>2
<1>4. pc' \in [Threads -> Pcs] /\ CallsTrue'
  BY <1>1, <1>2, GotoStep
<1>5. QED
  BY <1>3, <1>4 DEF HistoryTrue, IInv

LEMMA VisitedStep ==
    ASSUME IInv, NEW t \in Threads, NEW l \in Legs, Visited(t, l), UNCHANGED ex
    PROVE  todo' \in [Threads -> SUBSET Legs] /\ HistoryTrue'
<1>1. todo \in [Threads -> SUBSET Legs] /\ "history" \in Threads
  BY DEF IInv, Placed, Threads
<1>2. todo' \in [Threads -> SUBSET Legs] /\ todo'["history"] \subseteq todo["history"]
  BY <1>1 DEF Visited
<1>3. QED
  BY <1>2 DEF HistoryTrue, IInv

-----------------------------------------------------------------------------
(* The invariant holds at first, and after every step.                        *)

LEMMA InvInit == Init => IInv
<1> SUFFICES ASSUME Init PROVE IInv
  OBVIOUS
<1>1. Placed
  BY LegSyncAssumption DEF LegSyncAssumption, Init, Placed, Pcs
<1>2. \A t \in Threads : session[t] = [l \in Legs |-> Absent]
  BY DEF Init
<1>3. StoreTrue
  <2>1. Absent \in Object
    BY DEF Absent, Unread, Object
  <2>2. session \in [Threads -> [Legs -> Object]]
    BY <2>1 DEF Init
  <2>3. \A t \in Threads : ObjectsTrue(session[t], ex)
    BY <1>2, <2>1 DEF ObjectsTrue
  <2>4. RowsTrue(row, ex) /\ ex \in [Legs -> ExStates]
    BY DEF Init, RowsTrue, Row, ExStates
  <2>5. QED BY <2>2, <2>3, <2>4 DEF StoreTrue
<1>4. CallsTrue
  BY DEF Init, CallsTrue, CallPcs, NoCall, Call
<1>5. AnswerTrue /\ HistoryTrue
  BY DEF Init, AnswerTrue, NoAnswer, HistoryTrue, Threads
<1>6. QED
  BY <1>1, <1>3, <1>4, <1>5 DEF IInv

\* What the exchange does by itself.
LEMMA EnvironmentStep == IInv /\ Environment => IInv'
<1> SUFFICES ASSUME IInv, Environment PROVE IInv'
  OBVIOUS
<1>1. PICK l \in Legs : Fill(l) \/ End(l)
  BY DEF Environment
<1>2. ex \in [Legs -> ExStates]
  BY DEF IInv, StoreTrue
<1>3. ex' \in [Legs -> ExStates] /\ \A m \in Legs : ex[m] = "filled" => ex'[m] = "filled"
  BY <1>1, <1>2 DEF Fill, End, ExStates
<1>4. UNCHANGED <<kind, row, session, pc, todo, snap, answer, call, exhausted, faults>>
  BY <1>1 DEF Fill, End
<1>5. Placed'
  BY <1>4 DEF IInv, Placed
<1>6. QED
  BY <1>3, <1>4, <1>5, ExchangeStep DEF IInv

\* The answer of the exchange about l, and the walk on to p.
LEMMA AskStep ==
    ASSUME IInv, NEW l \in Legs, NEW M \in SUBSET {"CANCELLED", "nothing"}, Ask(l, M),
           NEW p \in {"apply", "repair"}, Goto("open", p), UNCHANGED <<call, ex>>
    PROVE  /\ pc' \in [Threads -> Pcs] /\ CallsTrue'
           /\ AnswerTrue' /\ faults' \in 0..MaxFaults
<1>1. pc' \in [Threads -> Pcs] /\ CallsTrue'
  BY StandStill, GotoStep DEF Threads, Pcs, CallPcs
<1>2. CASE answer' = [leg |-> l, says |-> Truth(l)] /\ UNCHANGED faults
  <2>1. Truth(l) \in {"ACTIVE", "FILLED", "CANCELLED"} /\ (Truth(l) = "FILLED" => ex[l] = "filled")
    BY DEF Truth
  <2>2. AnswerTrue'
    BY <1>2, <2>1 DEF AnswerTrue
  <2>3. QED BY <1>1, <1>2, <2>2 DEF IInv, Placed
<1>3. CASE Use("blind") /\ \E a \in M : answer' = [leg |-> l, says |-> a]
  <2>1. PICK a \in M : answer' = [leg |-> l, says |-> a]
    BY <1>3
  <2>2. AnswerTrue'
    BY <2>1 DEF AnswerTrue
  <2>3. faults' \in 0..MaxFaults
    BY <1>3, UseStep
  <2>4. QED BY <1>1, <2>2, <2>3
<1>4. QED
  BY <1>2, <1>3 DEF Ask

\* A fill found by sync_open_orders.
LEMMA ApplyFillStep ==
    ASSUME IInv, NEW l \in Legs, ex[l] = "filled", NEW back \in {"missing", "reconcile"},
           ApplyFill(l, back), UNCHANGED ex
    PROVE  /\ pc' \in [Threads -> Pcs] /\ CallsTrue'
           /\ StoreTrue' /\ faults' \in 0..MaxFaults
<1>1. "open" \in Threads
  BY DEF Threads
<1>2. ObjectsTrue(With("open", l, "FILLED", TRUE), ex)
  BY <1>1, WithTrue DEF Statuses
<1>3. StoreTrue' /\ faults' \in 0..MaxFaults
  BY <1>1, <1>2, CommitOrNotStep DEF ApplyFill
<1>4. PICK recent \in BOOLEAN : Start("open", l, "siblings", back, recent)
  BY DEF ApplyFill
<1>5. pc' \in [Threads -> Pcs] /\ CallsTrue'
  BY <1>1, <1>4, StandStill, StartStep
<1>6. QED
  BY <1>3, <1>5

\* The steps of sync_open_orders of its own.
LEMMA OpenStep ==
    ASSUME IInv,
           \/ FetchOpenOrders \/ ApplyResolved \/ BeginUpsert \/ BeginReconcile \/ Repair
           \/ BeginSweep \/ FinishOpenOrders
           \/ \E l \in Legs : \/ ResolveMissing(l) \/ UpsertOpen(l) \/ Recheck(l)
                              \/ SweepOrphan(l)
    PROVE  IInv'
<1>0. "open" \in Threads /\ ActiveRows \in SUBSET Legs
  BY DEF Threads, ActiveRows
<1>1. CASE FetchOpenOrders
  <2>1. snap' \subseteq Legs /\ (ActiveRows \ snap') \in SUBSET Legs
    BY <1>0, <1>1 DEF FetchOpenOrders
  <2>2. /\ pc' \in [Threads -> Pcs] /\ CallsTrue'
        /\ todo' \in [Threads -> SUBSET Legs] /\ HistoryTrue'
    BY <1>1, <2>1, VisitStep DEF FetchOpenOrders, Pcs, CallPcs
  <2>3. StoreTrue' /\ AnswerTrue'
    BY <1>1, StandStill DEF FetchOpenOrders
  <2>4. Placed'
    BY <1>1, <2>1, <2>2 DEF FetchOpenOrders, IInv, Placed
  <2>5. QED BY <2>2, <2>3, <2>4 DEF IInv
<1>2. CASE \E l \in Legs : ResolveMissing(l)
  <2>1. PICK l \in Legs : ResolveMissing(l)
    BY <1>2
  <2>2. todo' \in [Threads -> SUBSET Legs] /\ HistoryTrue'
    BY <1>0, <2>1, VisitedStep DEF ResolveMissing
  <2>3. StoreTrue'
    <3> DEFINE s == [session["open"] EXCEPT ![l] = [was |-> row[l], now |-> row[l]]]
    <3>1. session["open"] \in [Legs -> Object] /\ RowsTrue(row, ex)
      BY <1>0 DEF IInv, StoreTrue
    <3>2. /\ s = [m \in Legs |-> s[m]]
          /\ \A m \in Legs : s[m] = IF m = l THEN [was |-> row[l], now |-> row[l]]
                                             ELSE session["open"][m]
      BY <3>1
    <3>3. session' = [session EXCEPT !["open"] = s]
      BY <2>1 DEF ResolveMissing
    <3>4. row[l] \in Row /\ (row[l].st = "FILLED" => ex[l] = "filled")
      BY <3>1 DEF RowsTrue
    <3> HIDE DEF s
    <3>5. ObjectsTrue(s, ex)
      BY <1>0, <3>2, <3>4, ObjectsFrom
    <3>6. QED BY <1>0, <2>1, <3>3, <3>5, SessionStep DEF ResolveMissing
  <2>4. CASE row[l].st = "FILLED"
    <3>1. UNCHANGED <<pc, call, answer, faults, ex>>
      BY <2>1, <2>4 DEF ResolveMissing
    <3>2. CallsTrue' /\ AnswerTrue'
      BY <3>1, StandStill
    <3>3. Placed'
      BY <2>1, <2>2, <3>1 DEF ResolveMissing, IInv, Placed
    <3>4. QED BY <2>2, <2>3, <3>2, <3>3 DEF IInv
  <2>5. CASE row[l].st # "FILLED"
    <3>1. /\ pc' \in [Threads -> Pcs] /\ CallsTrue'
          /\ AnswerTrue' /\ faults' \in 0..MaxFaults
      BY <2>1, <2>5, AskStep DEF ResolveMissing
    <3>2. Placed'
      BY <2>1, <2>2, <3>1 DEF ResolveMissing, IInv, Placed
    <3>3. QED BY <2>2, <2>3, <3>1, <3>2 DEF IInv
  <2>6. QED BY <2>4, <2>5
<1>3. CASE ApplyResolved
  <2>1. AnswerTrue' /\ HistoryTrue' /\ FillsKept
    <3>1. AnswerTrue'
      BY <1>3 DEF ApplyResolved, AnswerTrue, NoAnswer
    <3>2. QED BY <1>3, <3>1, StandStill DEF ApplyResolved
  <2>2. SUFFICES /\ pc' \in [Threads -> Pcs] /\ CallsTrue'
                 /\ StoreTrue' /\ faults' \in 0..MaxFaults
    <3>1. Placed'
      BY <1>3, <2>2 DEF ApplyResolved, IInv, Placed
    <3>2. QED BY <2>1, <2>2, <3>1 DEF IInv
  <2>3. CASE answer.says = "FILLED"
    <3>1. answer.leg \in Legs /\ ex[answer.leg] = "filled"
      BY <2>3 DEF IInv, AnswerTrue
    <3>2. ApplyFill(answer.leg, "missing") /\ UNCHANGED ex
      BY <1>3, <2>3 DEF ApplyResolved
    <3>3. QED BY <3>1, <3>2, ApplyFillStep
  <2>4. CASE answer.says # "FILLED"
    <3>1. Goto("open", "missing") /\ UNCHANGED <<call, ex>>
      BY <1>3, <2>4 DEF ApplyResolved
    <3>2. pc' \in [Threads -> Pcs] /\ CallsTrue'
      BY <1>0, <2>1, <3>1, GotoStep DEF Pcs, CallPcs
    <3>3. CASE UNCHANGED <<row, session, faults>>
      BY <3>1, <3>2, <3>3, StandStill DEF IInv, Placed
    <3>4. CASE ~UNCHANGED <<row, session, faults>>
      <4> DEFINE l == answer.leg
      <4>1. answer.says = "CANCELLED"
        BY <1>3, <2>4, <3>4 DEF ApplyResolved
      <4>2. CommitOrNot("open", With("open", l, "CANCELLED", Seen("open", l).cum))
        BY <1>3, <2>4, <3>4, <4>1 DEF ApplyResolved
      <4>3. l \in Legs
        BY <4>1 DEF IInv, AnswerTrue
      <4>4. Seen("open", l).cum \in BOOLEAN
        BY <1>0, <4>3, ReadTrue DEF Row
      <4> HIDE DEF l
      <4>5. ObjectsTrue(With("open", l, "CANCELLED", Seen("open", l).cum), ex)
        BY <1>0, <4>3, <4>4, WithTrue DEF Statuses
      <4>6. QED BY <1>0, <3>1, <3>2, <4>2, <4>5, CommitOrNotStep
    <3>5. QED BY <3>3, <3>4
  <2>5. QED BY <2>3, <2>4
<1>4. CASE BeginUpsert
  <2>1. /\ pc' \in [Threads -> Pcs] /\ CallsTrue'
        /\ todo' \in [Threads -> SUBSET Legs] /\ HistoryTrue'
    BY <1>4, VisitStep DEF BeginUpsert, Pcs, CallPcs, IInv, Placed
  <2>2. StoreTrue' /\ AnswerTrue'
    BY <1>4, StandStill DEF BeginUpsert
  <2>3. Placed'
    BY <1>4, <2>1 DEF BeginUpsert, IInv, Placed
  <2>4. QED BY <2>1, <2>2, <2>3 DEF IInv
<1>5. CASE \E l \in Legs : UpsertOpen(l)
  <2>1. PICK l \in Legs : UpsertOpen(l)
    BY <1>5
  <2>2. todo' \in [Threads -> SUBSET Legs] /\ HistoryTrue'
    BY <1>0, <2>1, VisitedStep DEF UpsertOpen
  <2>3. ObjectsTrue(With("open", l, "ACTIVE", FALSE), ex)
    BY <1>0, WithTrue DEF Statuses
  <2>4. StoreTrue'
    BY <1>0, <2>1, <2>3, SessionStep DEF UpsertOpen
  <2>5. CallsTrue' /\ AnswerTrue'
    BY <2>1, StandStill DEF UpsertOpen
  <2>6. Placed'
    BY <2>1, <2>2 DEF UpsertOpen, IInv, Placed
  <2>7. QED BY <2>2, <2>4, <2>5, <2>6 DEF IInv
<1>6. CASE BeginReconcile
  <2>1. PICK S \in SUBSET Legs : Load("open", S) /\ Visit("open", "reconcile", S \ exhausted)
    BY <1>6 DEF BeginReconcile
  <2>2. /\ pc' \in [Threads -> Pcs] /\ CallsTrue'
        /\ todo' \in [Threads -> SUBSET Legs] /\ HistoryTrue'
    BY <1>6, <2>1, VisitStep DEF BeginReconcile, Pcs, CallPcs
  <2>3. StoreTrue' /\ AnswerTrue'
    BY <1>0, <1>6, <2>1, LoadedTrue, SessionStep, StandStill DEF BeginReconcile, Load
  <2>4. Placed'
    BY <1>6, <2>2 DEF BeginReconcile, IInv, Placed
  <2>5. QED BY <2>2, <2>3, <2>4 DEF IInv
<1>7. CASE \E l \in Legs : Recheck(l)
  <2>1. PICK l \in Legs : Recheck(l)
    BY <1>7
  <2>2. todo' \in [Threads -> SUBSET Legs] /\ HistoryTrue'
    BY <1>0, <2>1, VisitedStep DEF Recheck
  <2>3. /\ pc' \in [Threads -> Pcs] /\ CallsTrue'
        /\ AnswerTrue' /\ faults' \in 0..MaxFaults
    BY <2>1, AskStep DEF Recheck
  <2>4. StoreTrue'
    BY <2>1, StandStill DEF Recheck
  <2>5. Placed'
    BY <2>1, <2>2, <2>3 DEF Recheck, IInv, Placed
  <2>6. QED BY <2>2, <2>3, <2>4, <2>5 DEF IInv
<1>8. CASE Repair
  <2>1. AnswerTrue' /\ HistoryTrue' /\ FillsKept
    <3>1. AnswerTrue'
      BY <1>8 DEF Repair, AnswerTrue, NoAnswer
    <3>2. QED BY <1>8, <3>1, StandStill DEF Repair
  <2>2. exhausted' \subseteq Legs
    <3>1. answer.says = "CANCELLED" => answer.leg \in Legs
      BY DEF IInv, AnswerTrue
    <3>2. exhausted \subseteq Legs
      BY DEF IInv, Placed
    <3>3. QED BY <1>8, <3>1, <3>2 DEF Repair
  <2>3. SUFFICES /\ pc' \in [Threads -> Pcs] /\ CallsTrue'
                 /\ StoreTrue' /\ faults' \in 0..MaxFaults
    <3>1. Placed'
      BY <1>8, <2>2, <2>3 DEF Repair, IInv, Placed
    <3>2. QED BY <2>1, <2>3, <3>1 DEF IInv
  <2>4. CASE Goto("open", "reconcile") /\ UNCHANGED <<row, session, faults, call>>
    <3>1. pc' \in [Threads -> Pcs] /\ CallsTrue'
      BY <1>0, <2>1, <2>4, GotoStep DEF Pcs, CallPcs
    <3>2. QED BY <1>8, <2>4, <3>1, StandStill DEF Repair, IInv, Placed
  <2>5. CASE /\ answer.says = "FILLED"
             /\ ~(Goto("open", "reconcile") /\ UNCHANGED <<row, session, faults, call>>)
    <3>1. answer.leg \in Legs /\ ex[answer.leg] = "filled" /\ UNCHANGED ex
      BY <1>8, <2>5 DEF IInv, AnswerTrue, Repair
    <3>2. CASE Seen("open", answer.leg).st = "FILLED"
      <4>1. /\ session' = [session EXCEPT !["open"] = With("open", answer.leg, "FILLED", TRUE)]
            /\ Goto("open", "reconcile") /\ UNCHANGED <<row, faults, call>>
        BY <1>8, <2>5, <3>2 DEF Repair
      <4>2. ObjectsTrue(With("open", answer.leg, "FILLED", TRUE), ex)
        BY <1>0, <3>1, WithTrue DEF Statuses
      <4>3. StoreTrue'
        BY <1>0, <3>1, <4>1, <4>2, SessionStep
      <4>4. pc' \in [Threads -> Pcs] /\ CallsTrue'
        BY <1>0, <2>1, <4>1, GotoStep DEF Pcs, CallPcs
      <4>5. QED BY <4>1, <4>3, <4>4 DEF IInv, Placed
    <3>3. CASE Seen("open", answer.leg).st # "FILLED"
      <4>1. ApplyFill(answer.leg, "reconcile")
        BY <1>8, <2>5, <3>3 DEF Repair
      <4>2. QED BY <3>1, <4>1, ApplyFillStep
    <3>4. QED BY <3>2, <3>3
  <2>6. QED BY <1>8, <2>4, <2>5 DEF Repair
<1>9. CASE BeginSweep
  <2>1. /\ pc' \in [Threads -> Pcs] /\ CallsTrue'
        /\ todo' \in [Threads -> SUBSET Legs] /\ HistoryTrue'
    BY <1>0, <1>9, VisitStep DEF BeginSweep, Pcs, CallPcs
  <2>2. StoreTrue' /\ AnswerTrue'
    BY <1>0, <1>9, LoadedTrue, SessionStep, StandStill DEF BeginSweep, Load
  <2>3. Placed'
    BY <1>9, <2>1 DEF BeginSweep, IInv, Placed
  <2>4. QED BY <2>1, <2>2, <2>3 DEF IInv
<1>10. CASE \E l \in Legs : SweepOrphan(l)
  <2>1. PICK l \in Legs : SweepOrphan(l)
    BY <1>10
  <2>2. todo' \in [Threads -> SUBSET Legs] /\ HistoryTrue'
    BY <1>0, <2>1, VisitedStep DEF SweepOrphan
  <2>3. PICK S : Load("open", S)
    BY <2>1 DEF SweepOrphan
  <2>4. StoreTrue' /\ AnswerTrue' /\ FillsKept
    BY <1>0, <2>1, <2>3, LoadedTrue, SessionStep, StandStill DEF SweepOrphan, Load
  <2>5. pc' \in [Threads -> Pcs] /\ CallsTrue'
    <3>1. CASE UNCHANGED <<pc, call>>
      BY <2>1, <3>1, StandStill DEF SweepOrphan, IInv, Placed
    <3>2. CASE \E f \in Legs : /\ Seen("open", f).st = "FILLED"
                               /\ Start("open", f, "siblings", "sweep", FALSE)
      <4>1. PICK f \in Legs : /\ Seen("open", f).st = "FILLED"
                              /\ Start("open", f, "siblings", "sweep", FALSE)
        BY <3>2
      <4>2. ex[f] = "filled"
        BY <1>0, <4>1, ReadTrue
      <4>3. QED BY <1>0, <2>4, <4>1, <4>2, StartStep
    <3>3. QED BY <2>1, <3>1, <3>2 DEF SweepOrphan, Siblings
  <2>6. Placed'
    BY <2>1, <2>2, <2>5 DEF SweepOrphan, IInv, Placed
  <2>7. QED BY <2>2, <2>4, <2>5, <2>6 DEF IInv
<1>11. CASE FinishOpenOrders
  <2>1. ObjectsTrue(session["open"], ex)
    BY <1>0 DEF IInv, StoreTrue
  <2>2. StoreTrue' /\ faults' \in 0..MaxFaults
    BY <1>0, <1>11, <2>1, CommitOrNotStep DEF FinishOpenOrders
  <2>3. AnswerTrue' /\ HistoryTrue' /\ FillsKept
    BY <1>11, StandStill DEF FinishOpenOrders
  <2>4. pc' \in [Threads -> Pcs] /\ CallsTrue'
    BY <1>0, <1>11, <2>3, GotoStep DEF FinishOpenOrders, Pcs, CallPcs
  <2>5. Placed'
    BY <1>11, <2>2, <2>4 DEF FinishOpenOrders, IInv, Placed
  <2>6. QED BY <2>2, <2>3, <2>4, <2>5 DEF IInv
<1>12. QED
  BY <1>1, <1>2, <1>3, <1>4, <1>5, <1>6, <1>7, <1>8, <1>9, <1>10, <1>11

\* The steps of sync_order_history of its own.
LEMMA HistoryStep ==
    ASSUME IInv, FetchHistory \/ FinishHistory \/ \E l \in Legs : TakeFill(l)
    PROVE  IInv'
<1>0. "history" \in Threads /\ todo \in [Threads -> SUBSET Legs]
  BY DEF Threads, IInv, Placed
<1>1. CASE FetchHistory
  <2>1. todo' = [todo EXCEPT !["history"] = {l \in Legs : ex[l] = "filled"}]
    BY <1>1 DEF FetchHistory, Visit
  <2>2. todo' \in [Threads -> SUBSET Legs] /\ todo'["history"] = {l \in Legs : ex[l] = "filled"}
    BY <1>0, <2>1
  <2>3. HistoryTrue'
    BY <1>1, <2>2 DEF HistoryTrue, FetchHistory
  <2>4. StoreTrue' /\ AnswerTrue' /\ FillsKept
    BY <1>1, StandStill DEF FetchHistory
  <2>5. pc' \in [Threads -> Pcs] /\ CallsTrue'
    BY <1>0, <1>1, <2>4, GotoStep DEF FetchHistory, Visit, Pcs, CallPcs
  <2>6. Placed'
    BY <1>1, <2>2, <2>5 DEF FetchHistory, IInv, Placed
  <2>7. QED BY <2>3, <2>4, <2>5, <2>6 DEF IInv
<1>2. CASE FinishHistory
  <2>1. ObjectsTrue(session["history"], ex)
    BY <1>0 DEF IInv, StoreTrue
  <2>2. StoreTrue' /\ faults' \in 0..MaxFaults
    BY <1>0, <1>2, <2>1, CommitOrNotStep DEF FinishHistory
  <2>3. AnswerTrue' /\ HistoryTrue' /\ FillsKept
    BY <1>2, StandStill DEF FinishHistory
  <2>4. pc' \in [Threads -> Pcs] /\ CallsTrue'
    BY <1>0, <1>2, <2>3, GotoStep DEF FinishHistory, Pcs, CallPcs
  <2>5. Placed'
    BY <1>2, <2>2, <2>4 DEF FinishHistory, IInv, Placed
  <2>6. QED BY <2>2, <2>3, <2>4, <2>5 DEF IInv
<1>3. CASE \E l \in Legs : TakeFill(l)
  <2>1. PICK l \in Legs : TakeFill(l)
    BY <1>3
  <2>2. ex[l] = "filled" /\ UNCHANGED ex
    BY <2>1 DEF TakeFill, IInv, HistoryTrue
  <2>3. todo' \in [Threads -> SUBSET Legs] /\ HistoryTrue'
    BY <1>0, <2>1, VisitedStep DEF TakeFill
  <2>4. AnswerTrue' /\ FillsKept
    BY <2>1, StandStill DEF TakeFill
  <2>5. StoreTrue' /\ faults' \in 0..MaxFaults
    <3> DEFINE s == With("history", l, "FILLED", TRUE)
    <3>1. ObjectsTrue(s, ex)
      BY <1>0, <2>2, WithTrue DEF Statuses
    <3>2. \/ CommitOrNot("history", s)
          \/ session' = [session EXCEPT !["history"] = s] /\ UNCHANGED <<row, faults>>
      BY <2>1 DEF TakeFill
    <3> HIDE DEF s
    <3>3. CASE CommitOrNot("history", s)
      BY <1>0, <2>2, <3>1, <3>3, CommitOrNotStep
    <3>4. CASE session' = [session EXCEPT !["history"] = s] /\ UNCHANGED <<row, faults>>
      BY <1>0, <2>2, <3>1, <3>4, SessionStep DEF IInv, Placed
    <3>5. QED BY <3>2, <3>3, <3>4
  <2>6. pc' \in [Threads -> Pcs] /\ CallsTrue'
    <3>1. CASE UNCHANGED <<pc, call>>
      BY <2>2, <3>1, StandStill DEF IInv, Placed
    <3>2. CASE \E recent \in BOOLEAN, p \in {"siblings", "fallback"} :
                  Start("history", l, p, "history", recent)
      BY <1>0, <2>2, <2>4, <3>2, StartStep
    <3>3. QED BY <2>1, <3>1, <3>2 DEF TakeFill
  <2>7. Placed'
    BY <2>1, <2>3, <2>5, <2>6 DEF TakeFill, IInv, Placed
  <2>8. QED BY <2>3, <2>4, <2>5, <2>6, <2>7 DEF IInv
<1>4. QED
  BY <1>1, <1>2, <1>3

\* Giving up on a sibling, or falling back on what remains.
LEMMA FallbackStep ==
    ASSUME IInv, FillsKept, NEW t \in Threads, pc[t] \in CallPcs, Fallback(t)
    PROVE  pc' \in [Threads -> Pcs] /\ CallsTrue'
<1>1. CASE Return(t)
  BY <1>1, ReturnStep
<1>2. CASE Goto(t, "fallback") /\ UNCHANGED call
  BY <1>2, GotoStep DEF Pcs, CallPcs
<1>3. QED
  BY <1>1, <1>2 DEF Fallback

\* What changes at the exchange when s is cancelled, or is not.
LEMMA ExCancelled ==
    ASSUME IInv, NEW s \in Legs, ex[s] = "live", ex' \in {ex, [ex EXCEPT ![s] = "cancelled"]}
    PROVE  ex' \in [Legs -> ExStates] /\ FillsKept
<1>1. ex \in [Legs -> ExStates]
  BY DEF IInv, StoreTrue
<1>2. QED
  BY <1>1 DEF ExStates, FillsKept

\* The steps of the cancellations, of either thread.
LEMMA CancellingStep ==
    ASSUME IInv, NEW t \in Threads, Cancelling(t)
    PROVE  IInv'
<1>0. call[t] \in Call /\ call[t].left \in SUBSET Legs
  BY DEF IInv, CallsTrue, Call
<1>1. CASE CancelSibling(t)
  <2>1. pc[t] \in CallPcs
    BY <1>1 DEF CancelSibling, CallPcs
  <2>2. PICK S : Load(t, S)
    BY <1>1 DEF CancelSibling
  <2>3. StoreTrue' /\ AnswerTrue' /\ HistoryTrue' /\ FillsKept
    BY <1>1, <2>2, LoadedTrue, SessionStep, StandStill DEF CancelSibling, Load
  <2>4. pc' \in [Threads -> Pcs] /\ CallsTrue'
    <3>1. CASE Return(t)
      BY <2>1, <2>3, <3>1, ReturnStep
    <3>2. CASE Fallback(t)
      BY <2>1, <2>3, <3>2, FallbackStep
    <3>3. CASE \E s \in Legs, p \in {"soft", "cancel"} :
                  call' = [call EXCEPT ![t].left = {s}] /\ Goto(t, p)
      <4>1. PICK s \in Legs, p \in {"soft", "cancel"} :
              call' = [call EXCEPT ![t].left = {s}] /\ Goto(t, p)
        BY <3>3
      <4>2. p \in CallPcs /\ {s} \in SUBSET Legs
        BY DEF CallPcs
      <4>3. QED BY <2>1, <2>3, <4>1, <4>2, LeftStep
    <3>4. QED BY <1>1, <3>1, <3>2, <3>3 DEF CancelSibling, Siblings
  <2>5. Placed'
    BY <1>1, <2>4 DEF CancelSibling, IInv, Placed
  <2>6. QED BY <2>3, <2>4, <2>5 DEF IInv
<1>2. CASE SoftCheck(t)
  <2>1. pc[t] \in CallPcs /\ UNCHANGED ex
    BY <1>2 DEF SoftCheck, CallPcs
  <2>2. AnswerTrue' /\ HistoryTrue' /\ FillsKept
    BY <1>2, StandStill DEF SoftCheck
  <2>3. ObjectsTrue(MarkCancelled(t, call[t].left), ex)
    BY MarkTrue
  <2>4. faults' \in 0..MaxFaults
    BY <1>2, UseStep DEF SoftCheck, IInv, Placed
  <2>5. StoreTrue' /\ pc' \in [Threads -> Pcs] /\ CallsTrue'
    <3>1. CASE Commit(t, MarkCancelled(t, call[t].left)) /\ Return(t)
      BY <2>1, <2>2, <2>3, <3>1, CommitStep, ReturnStep
    <3>2. CASE Goto(t, "cancel") /\ UNCHANGED <<row, session, call>>
      BY <2>1, <2>2, <3>2, StandStill, GotoStep DEF Pcs, CallPcs
    <3>3. QED BY <1>2, <3>1, <3>2 DEF SoftCheck
  <2>6. Placed'
    BY <1>2, <2>4, <2>5 DEF SoftCheck, IInv, Placed
  <2>7. QED BY <2>2, <2>5, <2>6 DEF IInv
<1>3. CASE CancelAtExchange(t)
  <2>1. pc[t] \in CallPcs
    BY <1>3 DEF CancelAtExchange, CallPcs
  <2>2. PICK s \in call[t].left :
          \/ /\ ex[s] = "live" /\ ex' \in {ex, [ex EXCEPT ![s] = "cancelled"]}
          \/ UNCHANGED ex
    BY <1>3 DEF CancelAtExchange
  <2>3. ex' \in [Legs -> ExStates] /\ FillsKept
    <3>1. CASE UNCHANGED ex
      BY <3>1 DEF FillsKept, IInv, StoreTrue
    <3>2. CASE ex[s] = "live" /\ ex' \in {ex, [ex EXCEPT ![s] = "cancelled"]}
      BY <1>0, <3>2, ExCancelled
    <3>3. QED BY <2>2, <3>1, <3>2
  <2>4. StoreTrue' /\ AnswerTrue' /\ HistoryTrue'
    BY <1>3, <2>3, ExchangeStep DEF CancelAtExchange, FillsKept
  <2>5. faults' \in 0..MaxFaults
    BY <1>3, UseStep DEF CancelAtExchange, IInv, Placed
  <2>6. pc' \in [Threads -> Pcs] /\ CallsTrue'
    <3>1. CASE Fallback(t)
      BY <2>1, <2>3, <3>1, FallbackStep
    <3>2. CASE Goto(t, "mark") /\ UNCHANGED call
      BY <2>1, <2>3, <3>2, GotoStep DEF Pcs, CallPcs
    <3>3. QED BY <1>3, <3>1, <3>2 DEF CancelAtExchange
  <2>7. Placed'
    BY <1>3, <2>5, <2>6 DEF CancelAtExchange, IInv, Placed
  <2>8. QED BY <2>4, <2>6, <2>7 DEF IInv
<1>4. CASE MarkSibling(t)
  <2>1. pc[t] \in CallPcs /\ UNCHANGED ex
    BY <1>4 DEF MarkSibling, CallPcs
  <2>2. AnswerTrue' /\ HistoryTrue' /\ FillsKept
    BY <1>4, StandStill DEF MarkSibling
  <2>3. StoreTrue' /\ pc' \in [Threads -> Pcs] /\ CallsTrue'
    BY <1>4, <2>1, <2>2, MarkTrue, CommitStep, ReturnStep DEF MarkSibling
  <2>4. Placed'
    BY <1>4, <2>3 DEF MarkSibling, IInv, Placed
  <2>5. QED BY <2>2, <2>3, <2>4 DEF IInv
<1>5. CASE FindRemaining(t)
  <2>1. pc[t] \in CallPcs /\ UNCHANGED ex
    BY <1>5 DEF FindRemaining, CallPcs
  <2>2. AnswerTrue' /\ HistoryTrue' /\ FillsKept
    BY <1>5, StandStill DEF FindRemaining
  <2>3. Remaining(call[t].leg) \in SUBSET Legs
    BY DEF Remaining, ActiveRows
  <2>4. StoreTrue' /\ pc' \in [Threads -> Pcs] /\ CallsTrue'
    <3>1. CASE Return(t) /\ UNCHANGED <<row, session>>
      BY <2>1, <2>2, <3>1, StandStill, ReturnStep
    <3>2. CASE Commit(t, MarkCancelled(t, Remaining(call[t].leg))) /\ Return(t)
      BY <2>1, <2>2, <3>2, MarkTrue, CommitStep, ReturnStep
    <3>3. CASE /\ Load(t, Remaining(call[t].leg)) /\ Goto(t, "remaining")
               /\ call' = [call EXCEPT ![t].left = Remaining(call[t].leg)] /\ UNCHANGED row
      <4>1. StoreTrue'
        BY <2>1, <3>3, LoadedTrue, SessionStep DEF Load
      <4>2. pc' \in [Threads -> Pcs] /\ CallsTrue'
        BY <2>1, <2>2, <2>3, <3>3, LeftStep DEF CallPcs
      <4>3. QED BY <4>1, <4>2
    <3>4. QED BY <1>5, <3>1, <3>2, <3>3 DEF FindRemaining
  <2>5. Placed'
    BY <1>5, <2>4 DEF FindRemaining, IInv, Placed
  <2>6. QED BY <2>2, <2>4, <2>5 DEF IInv
<1>6. CASE \E s \in Legs : CancelRemaining(t, s)
  <2>1. PICK s \in Legs : CancelRemaining(t, s)
    BY <1>6
  <2>2. pc[t] \in CallPcs /\ pc[t] \in Pcs /\ Goto(t, pc[t])
    BY <2>1 DEF CancelRemaining, CallPcs, Goto, IInv, Placed, Pcs
  <2>3. ex' \in [Legs -> ExStates] /\ FillsKept
    <3>1. CASE UNCHANGED ex
      BY <3>1 DEF FillsKept, IInv, StoreTrue
    <3>2. CASE ex[s] = "live" /\ ex' \in {ex, [ex EXCEPT ![s] = "cancelled"]}
      BY <3>2, ExCancelled
    <3>3. QED BY <2>1, <3>1, <3>2 DEF CancelRemaining
  <2>4. AnswerTrue' /\ HistoryTrue'
    BY <2>1, <2>3, ExchangeStep DEF CancelRemaining, FillsKept
  <2>5. StoreTrue'
    <3>1. CASE UNCHANGED session
      BY <2>1, <2>3, <3>1, ExchangeStep DEF CancelRemaining, FillsKept
    <3>2. CASE session' = [session EXCEPT ![t] = MarkCancelled(t, {s})]
      <4>1. \A u \in Threads : ObjectsTrue(session[u], ex)
        BY DEF IInv, StoreTrue
      <4>2. ObjectsTrue(MarkCancelled(t, {s}), ex)
        BY MarkTrue
      <4>3. session \in [Threads -> [Legs -> Object]] /\ RowsTrue(row, ex)
        BY DEF IInv, StoreTrue
      <4>4. session' \in [Threads -> [Legs -> Object]]
        BY <3>2, <4>2, <4>3 DEF ObjectsTrue
      <4>5. \A u \in Threads : ObjectsTrue(session'[u], ex)
        BY <3>2, <4>1, <4>2, <4>3
      <4>6. \A u \in Threads : ObjectsTrue(session'[u], ex')
        BY <2>3, <4>5, ExchangeStep DEF FillsKept
      <4>7. RowsTrue(row', ex')
        BY <2>1, <2>3, <4>3 DEF RowsTrue, FillsKept, CancelRemaining
      <4>8. QED BY <2>3, <4>4, <4>6, <4>7 DEF StoreTrue
    <3>3. QED BY <2>1, <3>1, <3>2 DEF CancelRemaining
  <2>6. faults' \in 0..MaxFaults
    BY <2>1, UseStep DEF CancelRemaining, IInv, Placed
  <2>7. pc' \in [Threads -> Pcs] /\ CallsTrue'
    <3>1. call' = [call EXCEPT ![t].left = call[t].left \ {s}]
      BY <2>1 DEF CancelRemaining
    <3>2. QED BY <1>0, <2>2, <2>3, <3>1, LeftStep
  <2>8. Placed'
    BY <2>1, <2>6, <2>7 DEF CancelRemaining, IInv, Placed
  <2>9. QED BY <2>4, <2>5, <2>7, <2>8 DEF IInv
<1>7. CASE FinishRemaining(t)
  <2>1. pc[t] \in CallPcs /\ UNCHANGED ex
    BY <1>7 DEF FinishRemaining, CallPcs
  <2>2. AnswerTrue' /\ HistoryTrue' /\ FillsKept
    BY <1>7, StandStill DEF FinishRemaining
  <2>3. ObjectsTrue(session[t], ex)
    BY DEF IInv, StoreTrue
  <2>4. StoreTrue' /\ pc' \in [Threads -> Pcs] /\ CallsTrue'
    BY <1>7, <2>1, <2>2, <2>3, CommitStep, ReturnStep DEF FinishRemaining
  <2>5. Placed'
    BY <1>7, <2>4 DEF FinishRemaining, IInv, Placed
  <2>6. QED BY <2>2, <2>4, <2>5 DEF IInv
<1>8. QED
  BY <1>1, <1>2, <1>3, <1>4, <1>5, <1>6, <1>7 DEF Cancelling

LEMMA InvNext == IInv /\ [Next]_vars => IInv'
<1> SUFFICES ASSUME IInv, [Next]_vars PROVE IInv'
  OBVIOUS
<1>1. "open" \in Threads /\ "history" \in Threads
  BY DEF Threads
<1>2. CASE OpenOrders
  BY <1>1, <1>2, OpenStep, CancellingStep DEF OpenOrders
<1>3. CASE OrderHistory
  BY <1>1, <1>3, HistoryStep, CancellingStep DEF OrderHistory
<1>4. CASE Environment
  BY <1>4, EnvironmentStep
<1>5. CASE UNCHANGED vars
  BY <1>5 DEF vars, IInv, Placed, StoreTrue, RowsTrue, ObjectsTrue, CallsTrue, AnswerTrue,
         HistoryTrue
<1>6. QED
  BY <1>2, <1>3, <1>4, <1>5 DEF Next

LEMMA Invariant == Spec => []IInv
<1>1. QED
  BY InvInit, InvNext, PTL DEF Spec

-----------------------------------------------------------------------------
(* What follows.                                                              *)

\* Every state of the two loops is well typed.
THEOREM TypeCorrect == Spec => []TypeOK
<1>1. Statuses = {"ACTIVE", "FILLED", "CANCELLED"}
  BY DEF Statuses
<1>2. IInv => TypeOK
  BY DEF IInv, Placed, StoreTrue, RowsTrue, CallsTrue, AnswerTrue, TypeOK, ExStates
<1>3. QED
  BY <1>2, Invariant, PTL

\* However the loops interleave, and whatever is misreported, lost or rolled back,
\* exchange_orders calls no leg FILLED that has not filled: the sibling of a leg
\* is never cancelled, nor a profit booked, for a fill that was none.
THEOREM FilledRowsAreTrue == Spec => []FilledRowIsTrue
<1>1. IInv => FilledRowIsTrue
  BY DEF IInv, StoreTrue, RowsTrue, FilledRowIsTrue
<1>2. QED
  BY <1>1, Invariant, PTL

\* The promise with all the legs of the symbol as one group.
TheSymbol(l) == "the symbol"
Symbol == INSTANCE OcoPromise WITH Group <- TheSymbol, leg <- ex

LEMMA SymbolCancel ==
    ASSUME IInv, NEW t \in Threads, pc[t] \in CallPcs, NEW s \in Legs, ex[s] = "live",
           ex' \in {ex, [ex EXCEPT ![s] = "cancelled"]}
    PROVE  [Symbol!Next]_ex
<1>1. call[t].leg \in Legs /\ ex[call[t].leg] = "filled"
  BY DEF IInv, CallsTrue
<1>2. Symbol!Decided(s)
  BY <1>1 DEF Symbol!Decided, TheSymbol
<1>3. QED
  BY <1>2 DEF Symbol!Next, Symbol!Cancel, Symbol!Becomes

LEMMA SymbolStep == IInv /\ [Next]_vars => [Symbol!Next]_ex
<1> SUFFICES ASSUME IInv, [Next]_vars PROVE [Symbol!Next]_ex
  OBVIOUS
<1>1. CASE Environment
  <2>1. PICK l \in Legs : Fill(l) \/ End(l)
    BY <1>1 DEF Environment
  <2>2. CASE Fill(l)
    <3> DEFINE S == {m \in Legs : kind[PosOf(l)] = "native" /\ m \in Siblings(l) /\ ex[m] = "live"}
    <3>1. S \in SUBSET {g \in Legs : TheSymbol(g) = TheSymbol(l) /\ g # l /\ ex[g] = "live"}
      BY DEF TheSymbol, Siblings
    <3>2. ex' = [g \in Legs |-> IF g = l THEN "filled" ELSE IF g \in S THEN "ended" ELSE ex[g]]
      BY <2>2 DEF Fill
    <3> HIDE DEF S
    <3>3. Symbol!Fill(l)
      BY <2>2, <3>1, <3>2 DEF Fill, Symbol!Fill
    <3>4. QED BY <3>3 DEF Symbol!Next
  <2>3. CASE End(l)
    BY <2>3 DEF End, Symbol!Next, Symbol!End, Symbol!Becomes
  <2>4. QED BY <2>1, <2>2, <2>3
<1>2. CASE \E t \in Threads : CancelAtExchange(t)
  <2>1. PICK t \in Threads : CancelAtExchange(t)
    BY <1>2
  <2>2. pc[t] \in CallPcs /\ call[t].left \in SUBSET Legs
    BY <2>1 DEF CancelAtExchange, CallPcs, IInv, CallsTrue, Call
  <2>3. PICK s \in call[t].left :
          \/ ex[s] = "live" /\ ex' \in {ex, [ex EXCEPT ![s] = "cancelled"]}
          \/ UNCHANGED ex
    BY <2>1 DEF CancelAtExchange
  <2>4. QED BY <2>2, <2>3, SymbolCancel
<1>3. CASE \E t \in Threads, s \in Legs : CancelRemaining(t, s)
  <2>1. PICK t \in Threads, s \in Legs : CancelRemaining(t, s)
    BY <1>3
  <2>2. pc[t] \in CallPcs
    BY <2>1 DEF CancelRemaining, CallPcs
  <2>3. \/ ex[s] = "live" /\ ex' \in {ex, [ex EXCEPT ![s] = "cancelled"]}
        \/ UNCHANGED ex
    BY <2>1 DEF CancelRemaining
  <2>4. QED BY <2>2, <2>3, SymbolCancel
<1>4. CASE /\ ~Environment
           /\ ~\E t \in Threads : CancelAtExchange(t)
           /\ ~\E t \in Threads, s \in Legs : CancelRemaining(t, s)
  <2>1. UNCHANGED ex
    BY <1>4 DEF Next, OpenOrders, OrderHistory, Cancelling, Threads, vars, FetchOpenOrders,
           ApplyResolved, BeginUpsert, BeginReconcile, Repair, BeginSweep, FinishOpenOrders,
           ResolveMissing, UpsertOpen, Recheck, SweepOrphan, FetchHistory, FinishHistory,
           TakeFill, CancelSibling, SoftCheck, MarkSibling, FindRemaining, FinishRemaining
  <2>2. QED BY <2>1
<1>5. QED
  BY <1>1, <1>2, <1>3, <1>4

\* The loops cancel no leg of a symbol of which nothing has filled: they take the
\* steps of OcoPromise over the legs of the symbol.  (That a cancellation stays in
\* the position of the fill fails: CancelStaysInPosition.)
THEOREM SymbolPromise == Spec => Symbol!Steps
<1>1. Init => Symbol!Init
  BY DEF Init, Symbol!Init
<1>2. QED
  BY <1>1, SymbolStep, Invariant, PTL DEF Spec, Symbol!Steps

-----------------------------------------------------------------------------
(* Where a cancellation leaves its position.                                  *)

\* What _cancel_oco_sibling is about to cancel is of the position of the fill.
OnSiblings == \A t \in Threads :
    pc[t] \in {"soft", "cancel", "mark"} => call[t].left \subseteq Siblings(call[t].leg)

\* A thread t has moved to p, out of those three places or within them.
LEMMA SiblingsStep ==
    ASSUME IInv, OnSiblings, NEW t \in Threads, NEW p, Goto(t, p),
           \A u \in Threads \ {t} : call'[u] = call[u],
           p \in {"soft", "cancel", "mark"} =>
              \/ call'[t].left \subseteq Siblings(call'[t].leg)
              \/ pc[t] \in {"soft", "cancel", "mark"} /\ call'[t] = call[t]
    PROVE  OnSiblings'
<1>1. pc \in [Threads -> Pcs]
  BY DEF IInv, Placed
<1>2. \A u \in Threads : pc'[u] = IF u = t THEN p ELSE pc[u]
  BY <1>1 DEF Goto
<1>3. \A l \in Legs : Siblings(l)' = Siblings(l)
  BY DEF Siblings
<1>4. QED
  BY <1>2, <1>3 DEF OnSiblings, Siblings

\* A call for some fill starts.
Starts(t) == \E recent \in BOOLEAN :
    \E l, p, back : p \in {"siblings", "fallback"} /\ Start(t, l, p, back, recent)

\* The same of a call that starts, or that comes to an end.
LEMMA SiblingsLeft ==
    ASSUME IInv, OnSiblings, NEW t \in Threads,
           \/ UNCHANGED <<pc, call>>
           \/ Return(t)
           \/ \E p \in Pcs \ {"soft", "cancel", "mark"} : Goto(t, p) /\ UNCHANGED call
           \/ Starts(t)
    PROVE  OnSiblings'
<1>1. CASE UNCHANGED <<pc, call>>
  BY <1>1 DEF OnSiblings, Siblings
<1>2. CASE Return(t)
  <2>1. \A u \in Threads \ {t} : call'[u] = call[u]
    BY <1>2 DEF Return, IInv, CallsTrue
  <2>2. call'[t].left \subseteq Siblings(call'[t].leg)
    BY <1>2 DEF Return, NoCall, IInv, CallsTrue
  <2>3. QED BY <1>2, <2>1, <2>2, SiblingsStep DEF Return
<1>3. CASE \E p \in Pcs \ {"soft", "cancel", "mark"} : Goto(t, p) /\ UNCHANGED call
  BY <1>3, SiblingsStep
<1>4. CASE Starts(t)
  <2>1. PICK recent \in BOOLEAN : \E l, p, back :
          p \in {"siblings", "fallback"} /\ Start(t, l, p, back, recent)
    BY <1>4 DEF Starts
  <2>2. PICK l, p, back :
          p \in {"siblings", "fallback"} /\ Start(t, l, p, back, recent)
    BY <2>1
  <2>3. Goto(t, p) /\ \A u \in Threads \ {t} : call'[u] = call[u]
    BY <2>2 DEF Start, IInv, CallsTrue
  <2>4. p \notin {"soft", "cancel", "mark"}
    BY <2>2
  <2>5. QED BY <2>3, <2>4, SiblingsStep
<1>5. QED
  BY <1>1, <1>2, <1>3, <1>4

LEMMA SiblingsNext == IInv /\ OnSiblings /\ [Next]_vars => OnSiblings'
<1> SUFFICES ASSUME IInv, OnSiblings, [Next]_vars PROVE OnSiblings'
  OBVIOUS
<1>0. "open" \in Threads /\ "history" \in Threads
  BY DEF Threads
<1>1. CASE Environment \/ UNCHANGED vars \/ \E l \in Legs : UpsertOpen(l)
  BY <1>0, <1>1, SiblingsLeft DEF Environment, Fill, End, vars, UpsertOpen
<1>2. CASE \/ FetchOpenOrders \/ BeginUpsert \/ BeginReconcile \/ BeginSweep
           \/ FinishOpenOrders \/ \E l \in Legs : ResolveMissing(l) \/ Recheck(l)
  BY <1>0, <1>2, SiblingsLeft DEF FetchOpenOrders, BeginUpsert, BeginReconcile, BeginSweep,
     FinishOpenOrders, ResolveMissing, Recheck, Visit, Pcs
<1>3. CASE ApplyResolved
  <2>1. CASE Goto("open", "missing") /\ UNCHANGED call
    BY <1>0, <2>1, SiblingsLeft DEF Pcs
  <2>2. CASE ApplyFill(answer.leg, "missing")
    BY <1>0, <2>2, SiblingsLeft DEF ApplyFill, Starts
  <2>3. QED BY <1>3, <2>1, <2>2 DEF ApplyResolved
<1>4. CASE Repair
  <2>1. CASE Goto("open", "reconcile") /\ UNCHANGED call
    BY <1>0, <2>1, SiblingsLeft DEF Pcs
  <2>2. CASE ApplyFill(answer.leg, "reconcile")
    BY <1>0, <2>2, SiblingsLeft DEF ApplyFill, Starts
  <2>3. QED BY <1>4, <2>1, <2>2 DEF Repair
<1>5. CASE \E l \in Legs : SweepOrphan(l)
  <2>1. \/ UNCHANGED <<pc, call>>
        \/ \E recent \in BOOLEAN, f \in Legs : Start("open", f, "siblings", "sweep", recent)
    BY <1>5 DEF SweepOrphan, Siblings
  <2>2. UNCHANGED <<pc, call>> \/ Starts("open")
    BY <2>1 DEF Starts
  <2>3. QED BY <1>0, <2>2, SiblingsLeft
<1>6. CASE FetchHistory \/ FinishHistory \/ \E l \in Legs : TakeFill(l)
  <2>1. CASE FetchHistory \/ FinishHistory
    BY <1>0, <2>1, SiblingsLeft DEF FetchHistory, FinishHistory, Visit, Pcs
  <2>2. CASE \E l \in Legs : TakeFill(l)
    <3>1. UNCHANGED <<pc, call>> \/ Starts("history")
      BY <2>2 DEF TakeFill, Starts
    <3>2. QED BY <1>0, <3>1, SiblingsLeft
  <2>3. QED BY <1>6, <2>1, <2>2
<1>7. CASE \E t \in Threads : Cancelling(t)
  <2>1. PICK t \in Threads : Cancelling(t)
    BY <1>7
  <2>2. call \in [Threads -> Call]
    BY DEF IInv, CallsTrue
  <2>3. CASE CancelSibling(t)
    <3>1. CASE Return(t) \/ Fallback(t)
      BY <3>1, SiblingsLeft DEF Fallback, Pcs
    <3>2. CASE \E s \in Siblings(call[t].leg), p \in {"soft", "cancel"} :
                  call' = [call EXCEPT ![t].left = {s}] /\ Goto(t, p)
      <4>1. PICK s \in Siblings(call[t].leg), p \in {"soft", "cancel"} :
              call' = [call EXCEPT ![t].left = {s}] /\ Goto(t, p)
        BY <3>2
      <4>2. /\ call'[t].left = {s} /\ call'[t].leg = call[t].leg
            /\ \A u \in Threads \ {t} : call'[u] = call[u]
        BY <2>2, <4>1 DEF Call
      <4>3. QED BY <4>1, <4>2, SiblingsStep
    <3>3. QED BY <2>3, <3>1, <3>2 DEF CancelSibling
  <2>4. CASE SoftCheck(t)
    <3>1. CASE Return(t)
      BY <3>1, SiblingsLeft
    <3>2. CASE Goto(t, "cancel") /\ UNCHANGED call
      BY <2>4, <3>2, SiblingsStep DEF SoftCheck
    <3>3. QED BY <2>4, <3>1, <3>2 DEF SoftCheck
  <2>5. CASE CancelAtExchange(t)
    <3>1. CASE Fallback(t)
      BY <3>1, SiblingsLeft DEF Fallback, Pcs
    <3>2. CASE Goto(t, "mark") /\ UNCHANGED call
      BY <2>5, <3>2, SiblingsStep DEF CancelAtExchange
    <3>3. QED BY <2>5, <3>1, <3>2 DEF CancelAtExchange
  <2>6. CASE MarkSibling(t) \/ FinishRemaining(t)
    BY <2>6, SiblingsLeft DEF MarkSibling, FinishRemaining
  <2>7. CASE FindRemaining(t)
    <3>1. CASE Return(t)
      BY <3>1, SiblingsLeft
    <3>2. CASE /\ Goto(t, "remaining")
               /\ call' = [call EXCEPT ![t].left = Remaining(call[t].leg)]
      BY <2>2, <3>2, SiblingsStep
    <3>3. QED BY <2>7, <3>1, <3>2 DEF FindRemaining
  <2>8. CASE \E s \in Legs : CancelRemaining(t, s)
    <3>1. PICK s \in Legs : CancelRemaining(t, s)
      BY <2>8
    <3>2. pc[t] = "remaining" /\ Goto(t, "remaining")
      BY <3>1 DEF CancelRemaining, Goto, IInv, Placed
    <3>3. \A u \in Threads \ {t} : call'[u] = call[u]
      BY <2>2, <3>1 DEF CancelRemaining
    <3>4. QED BY <3>2, <3>3, SiblingsStep
  <2>9. QED BY <2>1, <2>3, <2>4, <2>5, <2>6, <2>7, <2>8 DEF Cancelling
<1>8. QED
  BY <1>0, <1>1, <1>2, <1>3, <1>4, <1>5, <1>6, <1>7 DEF Next, OpenOrders, OrderHistory

\* _cancel_oco_sibling, which looks for a leg by its position, cancels none for a
\* fill elsewhere: only _cancel_remaining_sl_tp can.
THEOREM SiblingsStayInPosition ==
    Spec => [][\A t \in Threads, l \in Legs :
                  CancelAtExchange(t) /\ ex'[l] # ex[l] => Position!Decided(l)]_vars
<1> DEFINE A == \A t \in Threads, l \in Legs :
                  CancelAtExchange(t) /\ ex'[l] # ex[l] => Position!Decided(l)
<1>1. Init => OnSiblings
  BY DEF Init, OnSiblings
<1>2. ASSUME IInv, OnSiblings,
             NEW t \in Threads, NEW l \in Legs, CancelAtExchange(t), ex'[l] # ex[l]
      PROVE  Position!Decided(l)
  <2>1. pc[t] = "cancel"
    BY <1>2 DEF CancelAtExchange
  <2>2. l \in call[t].left
    BY <1>2 DEF CancelAtExchange, IInv, StoreTrue
  <2>3. call[t].leg \in Legs /\ ex[call[t].leg] = "filled" /\ l \in Siblings(call[t].leg)
    BY <1>2, <2>1, <2>2 DEF IInv, CallsTrue, CallPcs, OnSiblings
  <2>4. QED BY <2>3 DEF Position!Decided, Siblings
<1>3. IInv /\ OnSiblings => A
  BY <1>2
<1> HIDE DEF A
<1>4. Spec => [][A]_vars
  BY <1>1, <1>3, SiblingsNext, Invariant, PTL DEF Spec
<1>5. QED
  BY <1>4 DEF A
-----------------------------------------------------------------------------
(* A symbol with one position.                                                *)

\* Every leg of the symbol protects the same entry.
OnePosition == \A l, m \in Legs : PosOf(l) = PosOf(m)

LEMMA PositionStep == OnePosition /\ IInv /\ [Next]_vars => [Position!Next]_ex
<1> SUFFICES ASSUME OnePosition, IInv, [Next]_vars PROVE [Position!Next]_ex
  OBVIOUS
<1>1. CASE UNCHANGED ex
  BY <1>1
<1>2. CASE Symbol!Next
  <2>1. PICK l \in Legs : Symbol!Fill(l) \/ Symbol!End(l) \/ Symbol!Cancel(l)
    BY <1>2 DEF Symbol!Next
  <2>2. CASE Symbol!Fill(l)
    <3>1. {g \in Legs : TheSymbol(g) = TheSymbol(l) /\ g # l /\ ex[g] = "live"}
            = {g \in Legs : PosOf(g) = PosOf(l) /\ g # l /\ ex[g] = "live"}
      BY DEF OnePosition, TheSymbol
    <3>2. Position!Fill(l)
      BY <2>2, <3>1 DEF Symbol!Fill, Position!Fill
    <3>3. QED BY <3>2 DEF Position!Next
  <2>3. CASE Symbol!End(l)
    BY <2>3 DEF Symbol!End, Symbol!Becomes, Position!Next, Position!End, Position!Becomes
  <2>4. CASE Symbol!Cancel(l)
    <3>1. Position!Decided(l)
      BY <2>4 DEF OnePosition, Symbol!Cancel, Symbol!Decided, Position!Decided
    <3>2. QED BY <2>4, <3>1 DEF Symbol!Cancel, Symbol!Becomes, Position!Next,
                 Position!Cancel, Position!Becomes
  <2>5. QED BY <2>1, <2>2, <2>3, <2>4
<1>3. QED
  BY <1>1, <1>2, SymbolStep

\* Where the symbol has one open position the loops keep the promise for that
\* position, _cancel_remaining_sl_tp included: every step of theirs is one that
\* OcoPromise allows, or leaves the exchange alone.
THEOREM OnePositionPromise == ASSUME OnePosition PROVE Spec => Position!Steps
<1>1. Init => Position!Init
  BY DEF Init, Position!Init
<1>2. IInv /\ [Next]_vars => [Position!Next]_ex
  BY PositionStep
<1>3. QED
  BY <1>1, <1>2, Invariant, PTL DEF Spec, Position!Steps

\* In particular no leg is cancelled that a fill of its own position does not call
\* for: it takes a second position of the symbol to have one cancelled for another's.
THEOREM OnePositionCancels == ASSUME OnePosition PROVE Spec => CancelStaysInPosition
<1> DEFINE A == \A l \in Legs : ex[l] = "live" /\ ex'[l] = "cancelled" => Position!Decided(l)
<1>1. IInv /\ [Next]_vars => [A]_ex
  <2> SUFFICES ASSUME IInv, [Next]_vars, NEW l \in Legs, ex[l] = "live", ex'[l] = "cancelled"
               PROVE  Position!Decided(l)
    OBVIOUS
  <2>1. Position!Next
    BY PositionStep
  <2>2. PICK m \in Legs : Position!Fill(m) \/ Position!End(m) \/ Position!Cancel(m)
    BY <2>1 DEF Position!Next
  <2>3. ~Position!Fill(m)
    BY DEF Position!Fill
  <2>4. ex \in [Legs -> ExStates]
    BY DEF IInv, StoreTrue
  <2>5. l = m /\ Position!Cancel(m)
    BY <2>2, <2>3, <2>4 DEF Position!End, Position!Cancel, Position!Becomes
  <2>6. QED BY <2>5 DEF Position!Cancel
<1> HIDE DEF A
<1>2. Spec => [][A]_ex
  BY <1>1, Invariant, PTL DEF Spec
<1>3. QED
  BY <1>2 DEF A, CancelStaysInPosition
=============================================================================
