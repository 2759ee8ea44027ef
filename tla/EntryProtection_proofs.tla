------------------------ MODULE EntryProtection_proofs ------------------------
(* The protection of a filled entry, for any number of attempts, any bound on *)
(* the orders placed and every margin mode and OCO flag: the types and the    *)
(* licence to re-place a leg under any fault but the live-trading toggle, and *)
(* the stop-loss guarantees under the faults that leave the database's rows   *)
(* true.                                                                      *)
EXTENDS EntryProtection, FiniteSetTheorems, SequenceTheorems, TLAPS

-----------------------------------------------------------------------------
(* The lookups.                                                              *)

\* The least of a set of numbers is one of them: among the intervals 1..k that
\* its members span, inclusion has a minimal one.
LEMMA MinInSet ==
    ASSUME NEW S \in SUBSET Nat, S # {}
    PROVE  Min(S) \in S
<1> DEFINE F == {1..k : k \in S}
<1>1. F \subseteq FiniteSubsetsOf(Nat) /\ F # {}
  <2>1. \A k \in S : 1..k \subseteq Nat /\ IsFiniteSet(1..k)
    BY FS_Interval
  <2>2. QED BY <2>1 DEF FiniteSubsetsOf
<1>2. PICK X \in F : \A Y \in F : <<Y, X>> \notin StrictSubsetOrdering(Nat)
  <2> HIDE DEF F
  <2>1. QED BY <1>1, FS_StrictSubsetOrderingWellFounded, WFMin, Zenon
<1>3. PICK x \in S : X = 1..x
  OBVIOUS
<1>4. \A y \in S : x =< y
  <2> SUFFICES ASSUME NEW y \in S, ~(x =< y) PROVE FALSE
    OBVIOUS
  <2>1. 1..y \in F /\ 1..y \subseteq Nat /\ 1..x \subseteq Nat
    OBVIOUS
  <2>2. 1..y \subseteq 1..x /\ x \in 1..x /\ x \notin 1..y
    OBVIOUS
  <2>3. <<1..y, 1..x>> \in StrictSubsetOrdering(Nat)
    BY <2>1, <2>2 DEF StrictSubsetOrdering
  <2>4. QED BY <1>2, <1>3, <2>1, <2>3
<1>5. QED BY <1>4 DEF Min

LEMMA ActiveLegFound ==
    ASSUME NEW L \in Seq(Leg), NEW role
    PROVE  /\ ActiveLeg(L, role) \in Nat
           /\ ActiveRows(L, role) # {} => ActiveLeg(L, role) \in ActiveRows(L, role)
           /\ ActiveLeg(L, role) = 0 <=> ActiveRows(L, role) = {}
<1>1. ActiveRows(L, role) \subseteq 1..Len(L) /\ 1..Len(L) \subseteq Nat \ {0}
  BY DEF ActiveRows
<1>2. CASE ActiveRows(L, role) = {}
  BY <1>2 DEF ActiveLeg
<1>3. CASE ActiveRows(L, role) # {}
  <2>1. Min(ActiveRows(L, role)) \in ActiveRows(L, role)
    BY <1>1, <1>3, MinInSet
  <2>2. QED BY <1>1, <1>3, <2>1 DEF ActiveLeg
<1>4. QED BY <1>2, <1>3

-----------------------------------------------------------------------------
(* What the calls do to the legs, whatever fails.                            *)

\* No row is marked CANCELLED for an order that still rests on the exchange.
Gone(L) == \A i \in DOMAIN L : L[i].row = "cancelled" => L[i].exch # "live"

\* The rows say what the exchange holds, and it holds one leg of each role.
RowsTrue(L) == \A i \in DOMAIN L : L[i].row = "active" <=> L[i].exch = "live"
OneEach(L) == \A role \in Roles : \A i, j \in LiveLegs(L, role) : i = j

\* The faults that let a row and the exchange, or a decision and the call it
\* leads to, drift apart.
Misleading == {"lost", "unsaved", "unmarked", "deadSL", "drop", "margin", "toggle"}
Honest == Faults \cap Misleading = {}

LEMMA LegAppended ==
    ASSUME NEW L \in Seq(Leg), NEW leg \in Leg
    PROVE  /\ Append(L, leg) \in Seq(Leg)
           /\ Len(Append(L, leg)) = Len(L) + 1
           /\ Gone(L) /\ leg.row # "cancelled" => Gone(Append(L, leg))
           /\ RowsTrue(L) /\ (leg.row = "active" <=> leg.exch = "live")
                 => RowsTrue(Append(L, leg))
           /\ \A role : LiveLegs(Append(L, leg), role) =
                 IF leg.role = role /\ leg.exch = "live"
                 THEN LiveLegs(L, role) \cup {Len(L) + 1} ELSE LiveLegs(L, role)
<1> DEFINE M == Append(L, leg)
<1>1. /\ M \in Seq(Leg) /\ Len(M) = Len(L) + 1
      /\ DOMAIN M = (DOMAIN L) \cup {Len(L) + 1} /\ Len(L) + 1 \notin DOMAIN L
      /\ \A i \in DOMAIN L : M[i] = L[i]
      /\ M[Len(L) + 1] = leg
  OBVIOUS
<1> HIDE DEF M
<1>2. Gone(L) /\ leg.row # "cancelled" => Gone(M)
  BY <1>1 DEF Gone
<1>3. RowsTrue(L) /\ (leg.row = "active" <=> leg.exch = "live") => RowsTrue(M)
  BY <1>1 DEF RowsTrue
<1>4. \A role : LiveLegs(M, role) = IF leg.role = role /\ leg.exch = "live"
                                      THEN LiveLegs(L, role) \cup {Len(L) + 1}
                                      ELSE LiveLegs(L, role)
  BY <1>1 DEF LiveLegs
<1>5. QED BY <1>1, <1>2, <1>3, <1>4 DEF M

LEMMA LegChanged ==
    ASSUME NEW L \in Seq(Leg), NEW i, NEW leg, i \in DOMAIN L => leg \in Leg
    PROVE  /\ [L EXCEPT ![i] = leg] \in Seq(Leg)
           /\ Len([L EXCEPT ![i] = leg]) = Len(L)
           /\ DOMAIN [L EXCEPT ![i] = leg] = DOMAIN L
           /\ \A j \in DOMAIN L : [L EXCEPT ![i] = leg][j] = IF j = i THEN leg ELSE L[j]
<1>1. Len(L) \in Nat /\ DOMAIN L = 1..Len(L) /\ L \in [1..Len(L) -> Leg]
  BY LenProperties
<1>2. CASE i \in DOMAIN L
  BY <1>1, <1>2, ExceptSeq
<1>3. CASE i \notin DOMAIN L
  <2>1. [L EXCEPT ![i] = leg] = L
    BY <1>1, <1>3, Zenon
  <2>2. QED BY <1>3, <2>1
<1>4. QED BY <1>2, <1>3

\* A cancellation: the leg it names is off the exchange, is marked or both.
LEMMA CancelOutcome ==
    ASSUME NEW L \in Seq(Leg), NEW i, NEW on \in BOOLEAN, NEW o \in CancelLeg(L, i, on)
    PROVE  /\ o.legs \in Seq(Leg) /\ Len(o.legs) = Len(L) /\ o.ok \in BOOLEAN
           /\ on /\ Gone(L) => Gone(o.legs)
           /\ ~o.ok => o.legs = L
<1> DEFINE off == IF on THEN [L EXCEPT ![i].exch = IF @ = "live" THEN "cancelled" ELSE @] ELSE L
<1>1. /\ off \in Seq(Leg) /\ Len(off) = Len(L) /\ DOMAIN off = DOMAIN L
      /\ \A j \in DOMAIN L : j # i \/ ~on => off[j] = L[j]
      /\ on /\ i \in DOMAIN L => off[i].row = L[i].row /\ off[i].exch # "live"
  <2> DEFINE leg == [L[i] EXCEPT !.exch = IF @ = "live" THEN "cancelled" ELSE @]
  <2>1. i \in DOMAIN L => leg \in Leg /\ leg.row = L[i].row /\ leg.exch # "live"
    <3>1. i \in DOMAIN L => L[i] \in Leg
      OBVIOUS
    <3>2. QED BY <3>1 DEF Leg, ExchStates
  <2>2. off = IF on THEN [L EXCEPT ![i] = leg] ELSE L
    OBVIOUS
  <2> HIDE DEF leg, off
  <2>3. CASE on
    BY <2>1, <2>2, <2>3, LegChanged
  <2>4. CASE ~on
    BY <2>2, <2>4
  <2>5. QED BY <2>3, <2>4
<1> DEFINE marked == [off EXCEPT ![i].row = "cancelled"]
<1>2. /\ marked \in Seq(Leg) /\ Len(marked) = Len(L) /\ DOMAIN marked = DOMAIN L
      /\ \A j \in DOMAIN L : j # i => marked[j] = off[j]
      /\ i \in DOMAIN L => marked[i].exch = off[i].exch
  <2> HIDE DEF off
  <2> DEFINE leg == [off[i] EXCEPT !.row = "cancelled"]
  <2>1. i \in DOMAIN L => leg \in Leg /\ leg.exch = off[i].exch
    <3>1. i \in DOMAIN L => off[i] \in Leg
      BY <1>1
    <3>2. QED BY <3>1 DEF Leg, RowStates
  <2>2. marked = [off EXCEPT ![i] = leg]
    OBVIOUS
  <2> HIDE DEF leg, marked
  <2>3. QED BY <1>1, <2>1, <2>2, LegChanged
<1>3. on /\ Gone(L) => Gone(off) /\ Gone(marked)
  <2> HIDE DEF off, marked
  <2>1. QED BY <1>1, <1>2 DEF Gone
<1>4. o \in {[legs |-> marked, ok |-> TRUE], [legs |-> off, ok |-> TRUE],
             [legs |-> L, ok |-> FALSE]}
  BY Zenon DEF CancelLeg, Kinds
<1> HIDE DEF off, marked
<1>5. CASE o = [legs |-> marked, ok |-> TRUE]
  BY <1>2, <1>3, <1>5
<1>6. CASE o = [legs |-> off, ok |-> TRUE]
  BY <1>1, <1>3, <1>6
<1>7. CASE o = [legs |-> L, ok |-> FALSE]
  BY <1>7
<1>8. QED BY <1>4, <1>5, <1>6, <1>7

-----------------------------------------------------------------------------
(* Placing a leg.                                                            *)

LEMMA AnswerTypes ==
    /\ \A id \in Nat : Placed(id) \in Answer /\ Placed(id).id = id /\ Placed(id).err = "none"
    /\ \A e \in Errors : Failed(e) \in Answer /\ ~Confirmed(Failed(e))
    /\ Nothing \in Answer /\ ~Confirmed(Nothing)
    /\ Refusals \subseteq Errors
BY DEF Placed, Failed, Nothing, Answer, Confirmed, Errors, Refusals, Kinds

LEMMA PlaceLegOutcome ==
    ASSUME NEW L \in Seq(Leg), NEW role \in Roles, NEW o \in PlaceLeg(L, role)
    PROVE  /\ o.legs \in Seq(Leg) /\ Len(o.legs) <= Len(L) + 1 /\ o.answer \in Answer
           /\ Gone(L) => Gone(o.legs)
           /\ Honest /\ RowsTrue(L) =>
                /\ RowsTrue(o.legs)
                /\ IF Confirmed(o.answer)
                   THEN \A r : LiveLegs(o.legs, r) =
                          IF r = role THEN LiveLegs(L, r) \cup {o.answer.id} ELSE LiveLegs(L, r)
                   ELSE o.legs = L
<1> DEFINE n == Len(L) + 1
           with(row) == Append(L, NewLeg(role, "live", row))
<1>0. Len(L) \in Nat /\ n \in Nat
  OBVIOUS
<1>1. \A row \in {"active", "none"} :
        /\ with(row) \in Seq(Leg) /\ Len(with(row)) = n /\ (Gone(L) => Gone(with(row)))
        /\ RowsTrue(L) /\ row = "active" => RowsTrue(with(row))
        /\ \A r : LiveLegs(with(row), r) = IF r = role THEN LiveLegs(L, r) \cup {n}
                                                       ELSE LiveLegs(L, r)
  <2> TAKE row \in {"active", "none"}
  <2> DEFINE leg == NewLeg(role, "live", row)
  <2>1. leg \in Leg /\ leg.role = role /\ leg.exch = "live" /\ leg.row = row
    BY DEF NewLeg, Leg, ExchStates, RowStates
  <2> HIDE DEF leg
  <2>2. QED BY <2>1, LegAppended DEF leg
<1>2. \/ o = [legs |-> with("active"), answer |-> Placed(n)]
      \/ ~Honest /\ o = [legs |-> with("none"), answer |-> Placed(n)]
      \/ ~Honest /\ o = [legs |-> with("none"), answer |-> Failed("refused")]
      \/ \E e \in Refusals : o = [legs |-> L, answer |-> Failed(e)]
  <2> HIDE DEF with, n
  <2>1. "unsaved" \in Faults \/ "lost" \in Faults => ~Honest
    BY DEF Honest, Misleading
  <2>2. QED BY <2>1, Zenon DEF PlaceLeg, Kinds, with, n
<1> HIDE DEF with
<1>3. CASE o = [legs |-> with("active"), answer |-> Placed(n)]
  BY <1>0, <1>1, <1>3, AnswerTypes DEF Confirmed
<1>4. CASE ~Honest /\ o = [legs |-> with("none"), answer |-> Placed(n)]
  BY <1>0, <1>1, <1>4, AnswerTypes
<1>5. CASE ~Honest /\ o = [legs |-> with("none"), answer |-> Failed("refused")]
  BY <1>0, <1>1, <1>5, AnswerTypes DEF Errors
<1>6. CASE \E e \in Refusals : o = [legs |-> L, answer |-> Failed(e)]
  BY <1>0, <1>6, AnswerTypes
<1>7. QED BY <1>2, <1>3, <1>4, <1>5, <1>6

\* A leg placed where none of its role was live keeps one of each.
LEMMA PlaceLegSingle ==
    ASSUME NEW L \in Seq(Leg), NEW role \in Roles, NEW o \in PlaceLeg(L, role),
           Honest, RowsTrue(L), OneEach(L), LiveLegs(L, role) = {}
    PROVE  /\ OneEach(o.legs)
           /\ \A r \in Roles \ {role} : LiveLegs(o.legs, r) = LiveLegs(L, r)
           /\ Confirmed(o.answer) => o.answer.id \in LiveLegs(o.legs, role)
<1>1. CASE Confirmed(o.answer)
  <2>1. \A r : LiveLegs(o.legs, r) = IF r = role THEN LiveLegs(L, r) \cup {o.answer.id}
                                                 ELSE LiveLegs(L, r)
    BY <1>1, PlaceLegOutcome
  <2>2. LiveLegs(o.legs, role) = {o.answer.id}
    BY <2>1
  <2>3. \A r \in Roles \ {role} : LiveLegs(o.legs, r) = LiveLegs(L, r)
    BY <2>1
  <2>4. QED BY <2>2, <2>3 DEF OneEach
<1>2. CASE ~Confirmed(o.answer)
  <2>1. o.legs = L
    BY <1>2, PlaceLegOutcome
  <2>2. QED BY <1>2, <2>1
<1>3. QED BY <1>1, <1>2

\* Where the rows are true, the leg found active is the live one.
LEMMA ActiveIsLive ==
    ASSUME NEW L \in Seq(Leg), NEW role, RowsTrue(L)
    PROVE  /\ ActiveRows(L, role) = LiveLegs(L, role)
           /\ IF IsLive(L, role) THEN ActiveLeg(L, role) \in LiveLegs(L, role)
                                 ELSE ActiveLeg(L, role) = 0
           /\ 0 \notin LiveLegs(L, role)
<1>1. ActiveRows(L, role) = LiveLegs(L, role)
  BY DEF RowsTrue, ActiveRows, LiveLegs
<1>2. DOMAIN L = 1..Len(L) /\ 0 \notin 1..Len(L)
  OBVIOUS
<1>3. QED BY <1>1, <1>2, ActiveLegFound DEF IsLive, LiveLegs

LEMMA StopLossOutcome ==
    ASSUME NEW L \in Seq(Leg), NEW o \in PlaceStopLoss(L)
    PROVE  /\ o.legs \in Seq(Leg) /\ Len(o.legs) <= Len(L) + 1 /\ o.answer \in Answer
           /\ Gone(L) => Gone(o.legs)
           /\ Honest /\ RowsTrue(L) /\ OneEach(L) =>
                /\ RowsTrue(o.legs) /\ OneEach(o.legs)
                /\ LiveLegs(o.legs, "TP") = LiveLegs(L, "TP")
                /\ Confirmed(o.answer) => o.answer.id \in LiveLegs(o.legs, "SL")
<1> DEFINE row == ActiveLeg(L, "SL")
           leg == NewLeg("SL", "rejected", "active")
           dead == Append(L, leg)
<1>1. row \in Nat /\ Len(L) \in Nat /\ "SL" \in Roles
  BY ActiveLegFound DEF Roles
<1>2. dead \in Seq(Leg) /\ Len(dead) = Len(L) + 1 /\ (Gone(L) => Gone(dead))
  <2>1. leg \in Leg /\ leg.row # "cancelled"
    BY DEF NewLeg, Leg, Roles, ExchStates, RowStates
  <2> HIDE DEF leg
  <2>2. QED BY <2>1, LegAppended
<1>3. \/ row # 0 /\ o = [legs |-> L, answer |-> Placed(row)]
      \/ \E e \in Refusals : o = [legs |-> L, answer |-> Failed(e)]
      \/ row = 0 /\ o \in PlaceLeg(L, "SL")
      \/ ~Honest /\ o = [legs |-> dead, answer |-> Placed(Len(L) + 1)]
  <2>1. "deadSL" \in Faults => ~Honest
    BY DEF Honest, Misleading
  <2> HIDE DEF row
  <2>2. QED BY <2>1, Zenon DEF PlaceStopLoss, Kinds, row
<1> HIDE DEF dead
<1>4. CASE row # 0 /\ o = [legs |-> L, answer |-> Placed(row)]
  BY <1>1, <1>4, AnswerTypes, ActiveIsLive
<1>5. CASE \E e \in Refusals : o = [legs |-> L, answer |-> Failed(e)]
  BY <1>1, <1>5, AnswerTypes
<1>6. CASE row = 0 /\ o \in PlaceLeg(L, "SL")
  <2>1. RowsTrue(L) => LiveLegs(L, "SL") = {}
    BY <1>6, ActiveIsLive DEF IsLive
  <2> HIDE DEF row
  <2>2. QED BY <1>1, <1>6, <2>1, PlaceLegOutcome, PlaceLegSingle DEF Roles
<1>7. CASE ~Honest /\ o = [legs |-> dead, answer |-> Placed(Len(L) + 1)]
  BY <1>1, <1>2, <1>7, AnswerTypes
<1>8. QED BY <1>3, <1>4, <1>5, <1>6, <1>7

LEMMA TakeProfitOutcome ==
    ASSUME NEW L \in Seq(Leg), NEW o \in PlaceTakeProfit(L)
    PROVE  /\ o.legs \in Seq(Leg) /\ Len(o.legs) <= Len(L) + 2 /\ o.answer \in Answer
           /\ Gone(L) => Gone(o.legs)
           /\ Honest /\ RowsTrue(L) /\ OneEach(L) =>
                /\ RowsTrue(o.legs) /\ OneEach(o.legs)
                /\ LiveLegs(o.legs, "SL") = LiveLegs(L, "SL")
<1> DEFINE row == ActiveLeg(L, "TP")
           leg == NewLeg("TP", "rejected", "rejected")
           dead(M) == Append(M, leg)
<1>1. row \in Nat /\ Len(L) \in Nat /\ "TP" \in Roles
  BY ActiveLegFound DEF Roles
<1>2. \A M \in Seq(Leg) : /\ dead(M) \in Seq(Leg) /\ Len(dead(M)) = Len(M) + 1
                          /\ Gone(M) => Gone(dead(M))
                          /\ RowsTrue(M) => RowsTrue(dead(M))
                          /\ \A r : LiveLegs(dead(M), r) = LiveLegs(M, r)
  <2>1. leg \in Leg /\ leg.row = "rejected" /\ leg.exch = "rejected"
    BY DEF NewLeg, Leg, Roles, ExchStates, RowStates
  <2> HIDE DEF leg
  <2> TAKE M \in Seq(Leg)
  <2>2. QED BY <2>1, LegAppended
<1>3. \/ row # 0 /\ o = [legs |-> L, answer |-> Placed(row)]
      \/ row = 0 /\ o \in PlaceLeg(L, "TP")
      \/ o = [legs |-> dead(L), answer |-> Failed("refused")]
      \/ o = [legs |-> dead(dead(L)), answer |-> Failed("refused")]
      \/ row = 0 /\ o \in PlaceLeg(dead(L), "TP")
  <2> HIDE DEF row
  <2>1. QED BY Zenon DEF PlaceTakeProfit, Kinds, row
<1> HIDE DEF dead
<1>4. RowsTrue(L) /\ row = 0 => LiveLegs(L, "TP") = {}
  BY ActiveIsLive DEF IsLive
<1> HIDE DEF row
<1>5. CASE row # 0 /\ o = [legs |-> L, answer |-> Placed(row)]
  BY <1>1, <1>5, AnswerTypes
<1>6. CASE row = 0 /\ o \in PlaceLeg(L, "TP")
  BY <1>1, <1>4, <1>6, PlaceLegOutcome, PlaceLegSingle DEF Roles
<1>7. CASE o = [legs |-> dead(L), answer |-> Failed("refused")]
  BY <1>1, <1>2, <1>7, AnswerTypes DEF OneEach, Errors
<1>8. CASE o = [legs |-> dead(dead(L)), answer |-> Failed("refused")]
  BY <1>1, <1>2, <1>8, AnswerTypes DEF OneEach, Errors
<1>9. CASE row = 0 /\ o \in PlaceLeg(dead(L), "TP")
  <2>1. /\ dead(L) \in Seq(Leg) /\ Len(dead(L)) = Len(L) + 1
        /\ Gone(L) => Gone(dead(L))
        /\ RowsTrue(L) => RowsTrue(dead(L))
        /\ \A r : LiveLegs(dead(L), r) = LiveLegs(L, r)
    BY <1>2
  <2>2. RowsTrue(L) /\ OneEach(L) => OneEach(dead(L))
    BY <2>1 DEF OneEach
  <2>3. QED BY <1>1, <1>4, <1>9, <2>1, <2>2, PlaceLegOutcome, PlaceLegSingle DEF Roles
<1>10. QED BY <1>3, <1>5, <1>6, <1>7, <1>8, <1>9

LEMMA OcoPlaced ==
    ASSUME NEW L \in Seq(Leg), NEW allowed \in BOOLEAN, NEW o \in PlaceOco(L, allowed)
    PROVE  /\ o.legs \in Seq(Leg) /\ Len(o.legs) <= Len(L) + 2 /\ o.answer \in OcoAnswer
           /\ Gone(L) => Gone(o.legs)
           /\ Honest /\ RowsTrue(L) /\ ~IsLive(L, "SL") /\ ~IsLive(L, "TP") =>
                /\ RowsTrue(o.legs) /\ OneEach(o.legs)
                /\ IsLive(o.legs, "SL") <=> IsLive(o.legs, "TP")
                /\ Confirmed(o.answer.sl) <=> Confirmed(o.answer.tp)
                /\ Confirmed(o.answer.sl) => o.answer.sl.id \in LiveLegs(o.legs, "SL")
                /\ ~o.answer.already
<1> DEFINE sl == ActiveLeg(L, "SL")
           tp == ActiveLeg(L, "TP")
           n == Len(L)
           pair(row) == L \o <<NewLeg("SL", "live", row), NewLeg("TP", "live", row)>>
           created == [already |-> FALSE, sl |-> Placed(n + 1), tp |-> Placed(n + 2)]
           both == [already |-> TRUE, sl |-> Placed(sl), tp |-> Placed(tp)]
<1>1. sl \in Nat /\ tp \in Nat /\ n \in Nat
  BY ActiveLegFound
<1>2. \A row \in {"active", "none"} :
        /\ pair(row) \in Seq(Leg) /\ Len(pair(row)) = n + 2 /\ (Gone(L) => Gone(pair(row)))
        /\ RowsTrue(L) /\ row = "active" => RowsTrue(pair(row))
        /\ LiveLegs(pair(row), "SL") = LiveLegs(L, "SL") \cup {n + 1}
        /\ LiveLegs(pair(row), "TP") = LiveLegs(L, "TP") \cup {n + 2}
  <2> TAKE row \in {"active", "none"}
  <2> DEFINE a == NewLeg("SL", "live", row)
             b == NewLeg("TP", "live", row)
             M == Append(L, a)
  <2>1. /\ a \in Leg /\ a.role = "SL" /\ a.exch = "live" /\ a.row = row
        /\ b \in Leg /\ b.role = "TP" /\ b.exch = "live" /\ b.row = row
    BY DEF NewLeg, Leg, Roles, ExchStates, RowStates
  <2>2. pair(row) = Append(M, b)
    <3> HIDE DEF a, b
    <3>1. L \o <<a, b>> = Append(Append(L, a), b)
      BY <2>1
    <3>2. QED BY <3>1 DEF a, b
  <2> HIDE DEF a, b
  <2>3. /\ M \in Seq(Leg) /\ Len(M) = n + 1 /\ (Gone(L) => Gone(M))
        /\ RowsTrue(L) /\ row = "active" => RowsTrue(M)
        /\ LiveLegs(M, "SL") = LiveLegs(L, "SL") \cup {n + 1}
        /\ LiveLegs(M, "TP") = LiveLegs(L, "TP")
    BY <2>1, LegAppended
  <2> HIDE DEF M
  <2>4. /\ Append(M, b) \in Seq(Leg) /\ Len(Append(M, b)) = n + 1 + 1
        /\ Gone(M) => Gone(Append(M, b))
        /\ RowsTrue(M) /\ row = "active" => RowsTrue(Append(M, b))
        /\ LiveLegs(Append(M, b), "SL") = LiveLegs(M, "SL")
        /\ LiveLegs(Append(M, b), "TP") = LiveLegs(M, "TP") \cup {n + 1 + 1}
    BY <2>1, <2>3, LegAppended
  <2>5. n + 1 + 1 = n + 2
    BY <1>1
  <2> HIDE DEF pair
  <2>6. QED BY <2>2, <2>3, <2>4, <2>5
<1>3. \/ sl # 0 /\ tp # 0 /\ o = [legs |-> L, answer |-> both]
      \/ o = [legs |-> L, answer |-> OcoFailed("blocked")]
      \/ o = [legs |-> pair("active"), answer |-> created]
      \/ ~Honest /\ o = [legs |-> pair("none"), answer |-> created]
      \/ ~Honest /\ o = [legs |-> pair("none"), answer |-> OcoFailed("refused")]
      \/ \E e \in Refusals : o = [legs |-> L, answer |-> OcoFailed(e)]
  <2>1. "unsaved" \in Faults \/ "lost" \in Faults => ~Honest
    BY DEF Honest, Misleading
  <2> HIDE DEF sl, tp
  <2>2. QED BY <2>1, Zenon DEF PlaceOco, Kinds, sl, tp
<1>4. both \in OcoAnswer /\ created \in OcoAnswer
  BY <1>1, AnswerTypes DEF OcoAnswer
<1>5. \A e \in Errors : /\ OcoFailed(e) \in OcoAnswer /\ ~OcoFailed(e).already
                         /\ ~Confirmed(OcoFailed(e).sl) /\ ~Confirmed(OcoFailed(e).tp)
  BY AnswerTypes DEF OcoFailed, OcoAnswer
<1>6. /\ ~created.already /\ created.sl.id = n + 1
      /\ Confirmed(created.sl) /\ Confirmed(created.tp)
  BY <1>1, AnswerTypes DEF Confirmed
<1> HIDE DEF pair, created, both
<1>7. CASE sl # 0 /\ tp # 0 /\ o = [legs |-> L, answer |-> both]
  BY <1>1, <1>4, <1>7, ActiveIsLive
<1>8. CASE \E e \in Errors : o = [legs |-> L, answer |-> OcoFailed(e)]
  BY <1>1, <1>5, <1>8 DEF OneEach, IsLive, Roles
<1>9. CASE o = [legs |-> pair("active"), answer |-> created]
  <2> DEFINE M == pair("active")
  <2>1. o.legs = M /\ o.answer = created
    BY <1>9
  <2>2. /\ M \in Seq(Leg) /\ Len(M) = n + 2 /\ (Gone(L) => Gone(M))
        /\ RowsTrue(L) => RowsTrue(M)
        /\ LiveLegs(M, "SL") = LiveLegs(L, "SL") \cup {n + 1}
        /\ LiveLegs(M, "TP") = LiveLegs(L, "TP") \cup {n + 2}
    BY <1>2
  <2> HIDE DEF M
  <2>3. CASE LiveLegs(L, "SL") = {} /\ LiveLegs(L, "TP") = {}
    <3>1. LiveLegs(M, "SL") = {n + 1} /\ LiveLegs(M, "TP") = {n + 2}
      BY <2>2, <2>3
    <3>2. OneEach(M) /\ IsLive(M, "SL") /\ IsLive(M, "TP")
      BY <3>1 DEF OneEach, Roles, IsLive
    <3>3. QED BY <1>4, <1>6, <2>1, <2>2, <3>1, <3>2
  <2>4. CASE LiveLegs(L, "SL") # {} \/ LiveLegs(L, "TP") # {}
    BY <1>4, <2>1, <2>2, <2>4 DEF IsLive
  <2>5. QED BY <2>3, <2>4
<1>10. CASE ~Honest /\ o = [legs |-> pair("none"), answer |-> created]
  BY <1>1, <1>2, <1>4, <1>10
<1>11. CASE ~Honest /\ o = [legs |-> pair("none"), answer |-> OcoFailed("refused")]
  BY <1>1, <1>2, <1>5, <1>11 DEF Errors
<1>12. QED
  BY <1>3, <1>7, <1>8, <1>9, <1>10, <1>11, AnswerTypes DEF Errors

\* Under the same conditions a cancellation only takes its own leg away.
LEMMA CancelSingle ==
    ASSUME NEW L \in Seq(Leg), NEW i, NEW on, on = TRUE, NEW o \in CancelLeg(L, i, on),
           Honest, RowsTrue(L), OneEach(L)
    PROVE  /\ RowsTrue(o.legs) /\ OneEach(o.legs)
           /\ o.ok => LiveLegs(o.legs, "SL") = LiveLegs(L, "SL") \ {i}
<1> DEFINE off == [L EXCEPT ![i].exch = IF @ = "live" THEN "cancelled" ELSE @]
           M == [off EXCEPT ![i].row = "cancelled"]
<1>1. /\ DOMAIN M = DOMAIN L
      /\ \A j \in DOMAIN L : j # i => M[j] = L[j]
      /\ i \in DOMAIN L => M[i].row = "cancelled" /\ M[i].exch # "live"
  <2> DEFINE leg == [L[i] EXCEPT !.exch = IF @ = "live" THEN "cancelled" ELSE @, !.row = "cancelled"]
  <2>1. i \in DOMAIN L => leg \in Leg /\ leg.row = "cancelled" /\ leg.exch # "live"
    <3>1. i \in DOMAIN L => L[i] \in Leg
      OBVIOUS
    <3>2. QED BY <3>1 DEF Leg, ExchStates, RowStates
  <2>2. M = [L EXCEPT ![i] = leg]
    OBVIOUS
  <2> HIDE DEF leg, M
  <2>3. QED BY <2>1, <2>2, LegChanged
<1>2. o = [legs |-> M, ok |-> TRUE] \/ o = [legs |-> L, ok |-> FALSE]
  <2>1. "unmarked" \notin Faults
    BY DEF Honest, Misleading
  <2>2. QED BY <2>1, Zenon DEF CancelLeg, Kinds
<1> HIDE DEF M
<1>3. CASE o = [legs |-> M, ok |-> TRUE]
  <2>1. RowsTrue(M)
    BY <1>1 DEF RowsTrue
  <2>2. \A role : LiveLegs(M, role) = LiveLegs(L, role) \ {i}
    BY <1>1 DEF LiveLegs
  <2>3. QED BY <1>3, <2>1, <2>2 DEF OneEach
<1>4. CASE o = [legs |-> L, ok |-> FALSE]
  BY <1>4
<1>5. QED BY <1>2, <1>3, <1>4

-----------------------------------------------------------------------------
(* Type correctness.  That the attempts stay within their number rests on    *)
(* the thread only going back for another below it.                          *)

Counted == /\ fill.pc \in {"poll", "start"} => fill.attempt = 0
           /\ fill.pc = "attempt" => fill.attempt < MaxAttempts

TypeInv == TypeOK /\ Counted

\* What every step keeps of the legs.
LegsKept == /\ legs' \in Seq(Leg) /\ Len(legs') <= MaxLegs
            /\ live /\ Gone(legs) => Gone(legs')

LEMMA TypeFacts ==
    ASSUME TypeInv
    PROVE  /\ legs \in Seq(Leg) /\ Len(legs) \in Nat /\ Len(legs) <= MaxLegs
           /\ oco \in BOOLEAN /\ margin \in BOOLEAN /\ live \in BOOLEAN
           /\ killed \in BOOLEAN /\ breaker \in BOOLEAN
           /\ \A c \in Callers : impl[c] \in Activation
BY DEF TypeInv, TypeOK

LEMMA ResultTypes ==
    /\ Idle \in Activation /\ NoResult \in Result /\ Raised \in Result
    /\ \A status \in Statuses, sl \in Answer, tp \in Answer : Reply(status, sl, tp) \in Result
    /\ \A act \in Activation, result \in Result :
         [act EXCEPT !.pc = "back", !.result = result] \in Activation
<1>1. NoResult \in Result /\ Raised \in Result
  BY AnswerTypes DEF NoResult, Raised, Result, Statuses
<1>2. Idle \in Activation
  BY <1>1, AnswerTypes DEF Idle, Activation, ImplPcs
<1>3. \A status \in Statuses, sl \in Answer, tp \in Answer : Reply(status, sl, tp) \in Result
  BY DEF Reply, Result
<1>4. \A act \in Activation, result \in Result :
         [act EXCEPT !.pc = "back", !.result = result] \in Activation
  BY DEF Activation, ImplPcs
<1>5. QED BY <1>1, <1>2, <1>3, <1>4

\* An assignment of the creation routine to its own activation.
LEMMA StepType ==
    ASSUME TypeInv, NEW c \in Callers, NEW act \in Activation, Step(c, act)
    PROVE  impl' \in [Callers -> Activation] /\ impl'[c] = act
BY DEF TypeInv, TypeOK, Step

LEMMA ReturnType ==
    ASSUME TypeInv, NEW c \in Callers, NEW result \in Result
    PROVE  Return(c, result) \in Activation
BY TypeFacts, ResultTypes DEF Return

LEMMA OcoReturnType ==
    ASSUME TypeInv, NEW c \in Callers, NEW answer \in OcoAnswer
    PROVE  OcoReturn(c, answer) \in Activation
<1> DEFINE a == impl[c]
           given(leg, was) == IF was = 0 THEN leg ELSE [id |-> was, err |-> "none"]
<1>1. a \in Activation /\ a.sl \in Nat /\ a.tp \in Nat
  BY TypeFacts DEF Activation
<1>2. answer.sl \in Answer /\ answer.tp \in Answer /\ {"", "already_protected"} \subseteq Statuses
  BY DEF OcoAnswer, Statuses
<1>3. \A leg \in Answer, was \in Nat : given(leg, was) \in Answer
  BY DEF Answer, Errors
<1> HIDE DEF given
<1>4. \/ OcoReply(a, answer) = Reply("already_protected", answer.sl, answer.tp)
      \/ OcoReply(a, answer) = Reply("", answer.sl, answer.tp)
      \/ OcoReply(a, answer) = Reply("", given(answer.sl, a.sl), given(answer.tp, a.tp))
  BY DEF OcoReply, given
<1>5. OcoReply(a, answer) \in Result
  BY <1>1, <1>2, <1>3, <1>4, ResultTypes
<1>6. Reply(IF answer.already THEN "already_protected" ELSE "", answer.sl, answer.tp) \in Result
  BY <1>2, ResultTypes
<1>7. QED BY <1>5, <1>6, ReturnType DEF OcoReturn

\* One step of the creation routine, whoever called it.
LEMMA CreateType ==
    ASSUME TypeInv, NEW c \in Callers, Create(c)
    PROVE  /\ impl' \in [Callers -> Activation] /\ LegsKept
           /\ UNCHANGED <<env, position, breaker, fill, heal>>
<1> DEFINE a == impl[c]
<1>0. /\ a \in Activation /\ a.sl \in Nat /\ a.tp \in Nat /\ a.margin \in BOOLEAN
      /\ a.tpAnswer \in Answer /\ legs \in Seq(Leg) /\ Len(legs) \in Nat /\ Len(legs) <= MaxLegs
      /\ margin \in BOOLEAN /\ live \in BOOLEAN /\ killed \in BOOLEAN
  BY TypeFacts DEF Activation
<1>1. CASE Read(c)
  <2> DEFINE sl == ActiveLeg(legs, "SL")
             tp == ActiveLeg(legs, "TP")
  <2>1. sl \in Nat /\ tp \in Nat
    BY <1>0, ActiveLegFound
  <2>2. Placed(sl) \in Answer /\ Placed(tp) \in Answer
    BY <2>1, AnswerTypes
  <2>3. Return(c, Reply("already_protected", Placed(sl), Placed(tp))) \in Activation
    BY <2>2, ResultTypes, ReturnType DEF Statuses
  <2>4. Return(c, Raised) \in Activation
    BY ResultTypes, ReturnType
  <2>5. \A pc \in ImplPcs, answer \in Answer :
          [a EXCEPT !.margin = margin, !.sl = sl, !.tp = tp, !.pc = pc, !.tpAnswer = answer]
            \in Activation
    BY <1>0, <2>1 DEF Activation
  <2>6. PICK act \in Activation : Step(c, act)
    <3> DEFINE act == [a EXCEPT !.margin = margin, !.sl = sl, !.tp = tp]
               path == CASE tp # 0 -> "sl"
                         [] tp = 0 /\ sl # 0 /\ (margin => HasRejected(legs, "TP")) -> "preCancel"
                         [] OTHER -> "tp"
    <3>1. path \in ImplPcs
      BY DEF ImplPcs
    <3>2. [act EXCEPT !.pc = "oco"] \in Activation
      BY <1>0, <2>1 DEF Activation, ImplPcs
    <3> HIDE DEF path
    <3>3. \A answer \in Answer : [act EXCEPT !.pc = path, !.tpAnswer = answer] \in Activation
      BY <2>5, <3>1
    <3>4. (IF tp # 0 THEN Placed(tp) ELSE Nothing) \in Answer
      BY <2>2, AnswerTypes
    <3>5. [act EXCEPT !.pc = path, !.tpAnswer = IF tp # 0 THEN Placed(tp) ELSE Nothing]
             \in Activation
      BY <3>3, <3>4
    <3> HIDE DEF act, sl, tp
    <3>6. QED BY <1>1, <2>3, <2>4, <3>2, <3>5, Zenon DEF Read, act, path, sl, tp
  <2>7. legs' = legs
    BY <1>1 DEF Read
  <2>8. QED BY <1>0, <2>6, <2>7, StepType DEF Step, LegsKept
<1>2. CASE EnsureOco(c)
  <2> DEFINE sl == IF a.sl # 0 THEN a.sl ELSE ActiveLeg(legs, "SL")
             tp == IF a.tp # 0 THEN a.tp ELSE ActiveLeg(legs, "TP")
  <2>1. sl \in Nat /\ tp \in Nat
    BY <1>0, ActiveLegFound
  <2>2. [already |-> TRUE, sl |-> Placed(sl), tp |-> Placed(tp)] \in OcoAnswer
    BY <2>1, AnswerTypes DEF OcoAnswer
  <2>3. OcoReturn(c, [already |-> TRUE, sl |-> Placed(sl), tp |-> Placed(tp)]) \in Activation
    BY <2>2, OcoReturnType
  <2>4. [a EXCEPT !.pc = IF sl = 0 /\ tp = 0 THEN "ocoPlace" ELSE "ocoCancel",
                  !.todo = {sl, tp} \ {0}] \in Activation
    BY <1>0, <2>1 DEF Activation, ImplPcs
  <2>5. PICK act \in Activation : Step(c, act)
    <3> HIDE DEF sl, tp
    <3>1. QED BY <1>2, <2>3, <2>4, Zenon DEF EnsureOco, sl, tp
  <2>6. legs' = legs
    BY <1>2 DEF EnsureOco
  <2>7. QED BY <1>0, <2>5, <2>6, StepType DEF Step, LegsKept
<1>3. CASE CancelForOco(c)
  <2>1. PICK i \in a.todo : \E o \in CancelLeg(legs, i, live) :
           /\ legs' = o.legs
           /\ IF o.ok THEN Step(c, [a EXCEPT !.pc = "ocoPlace", !.todo = {}])
                      ELSE Step(c, OcoReturn(c, OcoFailed("not_cancelled")))
    BY <1>3 DEF CancelForOco
  <2>2. [a EXCEPT !.pc = "ocoPlace", !.todo = {}] \in Activation
    BY <1>0 DEF Activation, ImplPcs
  <2>3. OcoFailed("not_cancelled") \in OcoAnswer
    BY AnswerTypes DEF OcoFailed, OcoAnswer, Errors
  <2>4. LegsKept
    BY <1>0, <2>1, CancelOutcome DEF LegsKept
  <2>5. PICK act \in Activation : Step(c, act)
    BY <2>1, <2>2, <2>3, OcoReturnType
  <2>6. QED BY <2>4, <2>5, StepType DEF Step
<1>4. CASE PlaceNativeOco(c)
  <2>1. PICK o \in PlaceOco(legs, live /\ ~killed) : legs' = o.legs /\ Step(c, OcoReturn(c, o.answer))
    BY <1>4 DEF PlaceNativeOco
  <2>2. Len(legs) + 2 <= MaxLegs
    BY <1>4 DEF PlaceNativeOco, Room
  <2>3. (live /\ ~killed) \in BOOLEAN
    BY Zenon
  <2>4. o.answer \in OcoAnswer /\ o.legs \in Seq(Leg) /\ Len(o.legs) <= Len(legs) + 2
        /\ (Gone(legs) => Gone(o.legs))
    BY <1>0, <2>3, OcoPlaced
  <2>5. LegsKept
    BY <1>0, <2>1, <2>2, <2>4, EntryProtectionAssumption DEF LegsKept
  <2>6. QED BY <2>1, <2>4, <2>5, OcoReturnType, StepType DEF Step
<1>5. CASE CancelBeforeTP(c)
  <2>1. PICK o \in CancelLeg(legs, a.sl, live) :
           /\ legs' = o.legs
           /\ Step(c, IF o.ok THEN [a EXCEPT !.pc = "tp", !.sl = 0]
                      ELSE IF a.margin THEN [a EXCEPT !.pc = "tp"]
                      ELSE [a EXCEPT !.pc = "sl", !.skipTp = TRUE])
    BY <1>5 DEF CancelBeforeTP
  <2>2. /\ [a EXCEPT !.pc = "tp", !.sl = 0] \in Activation
        /\ [a EXCEPT !.pc = "tp"] \in Activation
        /\ [a EXCEPT !.pc = "sl", !.skipTp = TRUE] \in Activation
    BY <1>0 DEF Activation, ImplPcs
  <2>3. LegsKept
    BY <1>0, <2>1, CancelOutcome DEF LegsKept
  <2>4. PICK act \in Activation : Step(c, act)
    BY <2>1, <2>2
  <2>5. QED BY <2>3, <2>4, StepType DEF Step
<1>6. CASE TakeProfit(c) \/ TakeProfitAgain(c)
  <2>1. PICK o \in PlaceTakeProfit(legs) :
           /\ legs' = o.legs
           /\ \E pc \in ImplPcs : Step(c, [a EXCEPT !.pc = pc, !.tpAnswer = o.answer,
                                                    !.tpNew = Confirmed(o.answer)])
    <3>1. {"sl", "tpCancel"} \subseteq ImplPcs
      BY DEF ImplPcs
    <3>2. QED BY <1>6, <3>1, Zenon DEF TakeProfit, TakeProfitAgain
  <2>2. Len(legs) + 3 <= MaxLegs
    BY <1>6 DEF TakeProfit, TakeProfitAgain, Room
  <2>3. o.answer \in Answer /\ o.legs \in Seq(Leg) /\ Len(o.legs) <= Len(legs) + 2
        /\ (Gone(legs) => Gone(o.legs))
    BY <1>0, TakeProfitOutcome
  <2>4. LegsKept
    BY <1>0, <2>1, <2>2, <2>3, EntryProtectionAssumption DEF LegsKept
  <2>5. Confirmed(o.answer) \in BOOLEAN
    BY DEF Confirmed
  <2>6. \A pc \in ImplPcs, b \in BOOLEAN :
          [a EXCEPT !.pc = pc, !.tpAnswer = o.answer, !.tpNew = b] \in Activation
    BY <1>0, <2>3 DEF Activation
  <2>7. PICK act \in Activation : Step(c, act)
    BY <2>1, <2>5, <2>6, Zenon
  <2>8. QED BY <2>4, <2>7, StepType DEF Step
<1>7. CASE CancelAfterTP(c)
  <2>1. PICK o \in CancelLeg(legs, a.sl, live) :
           /\ legs' = o.legs
           /\ Step(c, IF o.ok THEN [a EXCEPT !.pc = "tpAgain", !.sl = 0]
                              ELSE [a EXCEPT !.pc = "sl"])
    BY <1>7 DEF CancelAfterTP
  <2>2. /\ [a EXCEPT !.pc = "tpAgain", !.sl = 0] \in Activation
        /\ [a EXCEPT !.pc = "sl"] \in Activation
    BY <1>0 DEF Activation, ImplPcs
  <2>3. LegsKept
    BY <1>0, <2>1, CancelOutcome DEF LegsKept
  <2>4. PICK act \in Activation : Step(c, act)
    BY <2>1, <2>2
  <2>5. QED BY <2>3, <2>4, StepType DEF Step
<1>8. CASE StopLoss(c)
  <2> DEFINE status(sl) == IF sl # 0 /\ (a.tp # 0 \/ a.skipTp) /\ ~a.tpNew
                           THEN "already_protected" ELSE ""
  <2>1. \A sl : status(sl) \in Statuses
    BY DEF Statuses
  <2> HIDE DEF status
  <2>2. \/ /\ a.sl # 0 /\ legs' = legs
           /\ Step(c, Return(c, Reply(status(a.sl), Placed(a.sl), a.tpAnswer)))
        \/ /\ a.sl = 0 /\ Len(legs) + 1 <= MaxLegs
           /\ \E o \in PlaceStopLoss(legs) :
                /\ legs' = o.legs
                /\ Step(c, Return(c, Reply("", o.answer, a.tpAnswer)))
    BY <1>8, Zenon DEF StopLoss, Room, status
  <2>3. CASE a.sl # 0 /\ legs' = legs
             /\ Step(c, Return(c, Reply(status(a.sl), Placed(a.sl), a.tpAnswer)))
    <3>1. Return(c, Reply(status(a.sl), Placed(a.sl), a.tpAnswer)) \in Activation
      BY <1>0, <2>1, AnswerTypes, ResultTypes, ReturnType
    <3>2. QED BY <1>0, <2>3, <3>1, StepType DEF Step, LegsKept
  <2>4. CASE /\ a.sl = 0 /\ Len(legs) + 1 <= MaxLegs
             /\ \E o \in PlaceStopLoss(legs) :
                  /\ legs' = o.legs
                  /\ Step(c, Return(c, Reply("", o.answer, a.tpAnswer)))
    <3>1. PICK o \in PlaceStopLoss(legs) :
             legs' = o.legs /\ Step(c, Return(c, Reply("", o.answer, a.tpAnswer)))
      BY <2>4
    <3>2. o.answer \in Answer /\ o.legs \in Seq(Leg) /\ Len(o.legs) <= Len(legs) + 1
          /\ (Gone(legs) => Gone(o.legs))
      BY <1>0, StopLossOutcome
    <3>3. Return(c, Reply("", o.answer, a.tpAnswer)) \in Activation
      BY <1>0, <3>2, ResultTypes, ReturnType DEF Statuses
    <3>4. LegsKept
      <4>1. Len(legs) + 1 <= MaxLegs
        BY <2>4
      <4>2. legs' = o.legs
        BY <3>1
      <4>3. Len(o.legs) \in Nat
        BY <3>2, LenProperties
      <4>4. Len(o.legs) <= MaxLegs
        BY <1>0, <3>2, <4>1, <4>3, EntryProtectionAssumption
      <4>5. QED BY <3>2, <4>2, <4>4 DEF LegsKept
    <3>5. QED BY <3>1, <3>3, <3>4, StepType DEF Step
  <2>5. QED BY <2>2, <2>3, <2>4
<1>9. QED
  BY <1>1, <1>2, <1>3, <1>4, <1>5, <1>6, <1>7, <1>8 DEF Create

LEMMA TypeInit == Init => TypeInv
<1> SUFFICES ASSUME Init PROVE TypeInv
  OBVIOUS
<1>1. <<>> \in Seq(Leg) /\ Len(<<>>) = 0
  BY EmptySeq
<1>2. oco \in BOOLEAN /\ margin \in BOOLEAN
  BY EntryProtectionAssumption DEF Init
<1>3. fill \in [pc : FillPcs, attempt : 0..MaxAttempts, created : Result, outcome : Outcomes]
  <2>1. 0 \in 0..MaxAttempts /\ "poll" \in FillPcs /\ "none" \in Outcomes
    BY EntryProtectionAssumption DEF FillPcs, Outcomes
  <2>2. QED BY <2>1, ResultTypes DEF Init
<1>4. heal \in [pc : {"asleep", "cancel", "waiting"}, passes : 0..MaxHeals, sl : Nat]
  BY EntryProtectionAssumption DEF Init
<1>5. impl \in [Callers -> Activation]
  BY ResultTypes DEF Init
<1>6. Counted
  BY DEF Init, Counted
<1>7. legs \in Seq(Leg) /\ Len(legs) <= MaxLegs
  BY <1>1, EntryProtectionAssumption DEF Init
<1>8. {oco, margin, live, killed, breaker} \subseteq BOOLEAN
  BY <1>2 DEF Init
<1>9. entry \in {"resting", "filled"} /\ position \in {"none", "open", "flat"}
  BY DEF Init
<1>10. QED
  BY <1>3, <1>4, <1>5, <1>6, <1>7, <1>8, <1>9 DEF TypeInv, TypeOK

LEMMA EnterType ==
    ASSUME TypeInv, NEW c \in Callers, NEW pc \in ImplPcs, Enter(c, pc)
    PROVE  /\ impl' \in [Callers -> Activation]
           /\ impl'[c] = [Idle EXCEPT !.pc = pc]
<1>1. [Idle EXCEPT !.pc = pc] \in Activation
  BY ResultTypes DEF Activation
<1>2. QED BY <1>1 DEF TypeInv, TypeOK, Enter

\* The thread's own steps.
FillRecord == [pc : FillPcs, attempt : 0..MaxAttempts, created : Result, outcome : Outcomes]

LEMMA ThreadType ==
    ASSUME TypeInv,
           PollFill \/ StartProtection \/ Attempt \/ Judge \/ Flatten \/ GapCancel \/ GapJudge
    PROVE  /\ fill' \in FillRecord /\ Counted'
           /\ impl' \in [Callers -> Activation] /\ LegsKept
           /\ position' \in {"none", "open", "flat"} /\ breaker' \in BOOLEAN
           /\ UNCHANGED <<env, heal>>
<1>0. /\ fill \in FillRecord /\ fill.attempt \in 0..MaxAttempts /\ Counted
      /\ impl \in [Callers -> Activation] /\ "fill" \in Callers
      /\ position \in {"none", "open", "flat"} /\ breaker \in BOOLEAN
      /\ legs \in Seq(Leg) /\ Len(legs) <= MaxLegs /\ live \in BOOLEAN
      /\ MaxAttempts \in Nat \ {0}
  BY EntryProtectionAssumption DEF TypeInv, TypeOK, FillRecord, Callers
<1>1. CASE PollFill
  <2>1. fill' \in {[fill EXCEPT !.pc = "start"],
                   [fill EXCEPT !.pc = "done", !.outcome = "unconfirmed"]}
    BY <1>1 DEF PollFill, Settle
  <2>2. fill' \in FillRecord /\ Counted'
    BY <1>0, <1>1, <2>1 DEF FillRecord, FillPcs, Outcomes, Counted, PollFill
  <2>3. QED BY <1>0, <1>1, <2>2 DEF PollFill, LegsKept
<1>2. CASE StartProtection
  <2>1. fill' \in {[fill EXCEPT !.pc = "flatten"], [fill EXCEPT !.pc = "attempt"],
                   [fill EXCEPT !.pc = "done", !.outcome = "protected"]}
    BY <1>2 DEF StartProtection, Settle
  <2>2. fill' \in FillRecord /\ fill'.attempt = fill.attempt
        /\ fill'.pc \notin {"poll", "start"}
    BY <1>0, <2>1 DEF FillRecord, FillPcs, Outcomes
  <2>3. fill.attempt = 0
    BY <1>0, <1>2 DEF StartProtection, Counted
  <2>4. Counted'
    BY <1>0, <2>2, <2>3 DEF Counted
  <2>5. QED BY <1>0, <1>2, <2>2, <2>4 DEF StartProtection, LegsKept
<1>3. CASE Attempt
  <2>1. fill.attempt + 1 \in 0..MaxAttempts
    BY <1>0, <1>3 DEF Counted, Attempt
  <2>2. fill' \in FillRecord /\ Counted'
    BY <1>0, <1>3, <2>1 DEF FillRecord, FillPcs, Counted, Attempt
  <2>3. impl' \in [Callers -> Activation]
    BY <1>0, <1>3, EnterType DEF Attempt, CallCreate, ImplPcs
  <2>4. QED BY <1>0, <1>3, <2>2, <2>3 DEF Attempt, LegsKept
<1>4. CASE Judge
  <2> DEFINE r == impl["fill"].result
             next == CASE ~LastAttempt(r) -> "attempt"
                       [] LastAttempt(r) /\ ~ConfirmsSL(r) -> "flatten"
                       [] LastAttempt(r) /\ ConfirmsSL(r) /\ ~ConfirmsTP(r) -> "gap"
                       [] OTHER -> "done"
  <2>1. r \in Result
    BY <1>0 DEF Activation
  <2>2. next \in {"attempt", "flatten", "gap", "done"}
    OBVIOUS
  <2>3. next = "attempt" => fill.attempt # MaxAttempts
    BY DEF LastAttempt
  <2>4. fill' = [fill EXCEPT !.pc = next, !.created = r,
                             !.outcome = IF next = "done" THEN "protected" ELSE fill.outcome]
    BY <1>4 DEF Judge
  <2> HIDE DEF next, r
  <2>5. fill' \in FillRecord /\ fill'.pc = next /\ fill'.attempt = fill.attempt
    BY <1>0, <2>1, <2>2, <2>4 DEF FillRecord, FillPcs, Outcomes
  <2>6. Counted'
    BY <1>0, <2>2, <2>3, <2>5 DEF Counted
  <2>7. impl' \in [Callers -> Activation]
    BY <1>0, <1>4, EnterType DEF Judge, ImplPcs
  <2>8. QED BY <1>0, <1>4, <2>5, <2>6, <2>7 DEF Judge, LegsKept
<1>5. CASE Flatten
  <2>1. fill' \in {[fill EXCEPT !.pc = "done", !.outcome = o] : o \in {"flattened", "close_failed"}}
    BY <1>5 DEF Flatten, Settle
  <2>2. fill' \in FillRecord /\ Counted'
    BY <1>0, <2>1 DEF FillRecord, FillPcs, Outcomes, Counted
  <2>3. breaker' \in BOOLEAN
    BY <1>5, Zenon DEF Flatten
  <2>4. QED BY <1>0, <1>5, <2>2, <2>3 DEF Flatten, LegsKept
<1>6. CASE GapCancel
  <2>1. fill' \in FillRecord /\ Counted'
    BY <1>0, <1>6 DEF FillRecord, FillPcs, Counted, GapCancel
  <2>2. impl' \in [Callers -> Activation]
    BY <1>0, <1>6, EnterType DEF GapCancel, CallCreate, ImplPcs
  <2>3. legs' = legs \/ \E i : \E o \in CancelLeg(legs, i, live) : legs' = o.legs
    BY <1>6, Zenon DEF GapCancel
  <2>4. LegsKept
    BY <1>0, <2>3, CancelOutcome DEF LegsKept
  <2>5. QED BY <1>0, <1>6, <2>1, <2>2, <2>4 DEF GapCancel
<1>7. CASE GapJudge
  <2> DEFINE r == impl["fill"].result
             created == IF r = Raised THEN fill.created ELSE r
             outcome == IF ConfirmsBoth(r) THEN "protected"
                        ELSE IF ConfirmsTP(created) THEN "tp_recovered" ELSE "tp_missing"
  <2>1. created \in Result /\ outcome \in Outcomes
    BY <1>0 DEF Activation, FillRecord, Outcomes
  <2>2. fill' = [fill EXCEPT !.pc = "done", !.created = created, !.outcome = outcome]
    BY <1>7 DEF GapJudge
  <2> HIDE DEF created, outcome
  <2>3. fill' \in FillRecord /\ Counted'
    BY <1>0, <2>1, <2>2 DEF FillRecord, FillPcs, Counted
  <2>4. impl' \in [Callers -> Activation]
    BY <1>0, <1>7, EnterType DEF GapJudge, ImplPcs
  <2>5. QED BY <1>0, <1>7, <2>3, <2>4 DEF GapJudge, LegsKept
<1>8. QED
  BY <1>1, <1>2, <1>3, <1>4, <1>5, <1>6, <1>7

\* The healer's own steps.
HealRecord == [pc : {"asleep", "cancel", "waiting"}, passes : 0..MaxHeals, sl : Nat]

LEMMA HealerType ==
    ASSUME TypeInv, HealStart \/ HealCancel \/ HealEnd
    PROVE  /\ heal' \in HealRecord /\ impl' \in [Callers -> Activation] /\ LegsKept
           /\ UNCHANGED <<env, position, breaker, fill>>
<1>0. /\ heal \in HealRecord /\ impl \in [Callers -> Activation] /\ "heal" \in Callers
      /\ legs \in Seq(Leg) /\ Len(legs) <= MaxLegs /\ live \in BOOLEAN /\ MaxHeals \in Nat
  BY EntryProtectionAssumption DEF TypeInv, TypeOK, HealRecord, Callers
<1>1. CASE HealStart
  <2> DEFINE sl == ActiveLeg(legs, "SL")
             ensure == [Idle EXCEPT !.pc = "oco", !.whole = FALSE, !.sl = sl]
  <2>1. sl \in Nat
    BY <1>0, ActiveLegFound
  <2>2. ensure \in Activation
    BY <2>1, ResultTypes DEF Activation, ImplPcs
  <2>3. heal.passes + 1 \in 0..MaxHeals
    BY <1>0, <1>1 DEF HealStart, HealRecord
  <2> HIDE DEF ensure, sl
  <2>4. \E pc \in {"cancel", "waiting"} : heal' = [pc |-> pc, passes |-> heal.passes + 1, sl |-> sl]
    BY <1>1, Zenon DEF HealStart, sl
  <2>5. impl' = impl \/ impl' = [impl EXCEPT !["heal"] = ensure]
    BY <1>1, Zenon DEF HealStart, ensure, sl
  <2>6. heal' \in HealRecord
    BY <2>1, <2>3, <2>4 DEF HealRecord
  <2>7. impl' \in [Callers -> Activation]
    BY <1>0, <2>2, <2>5
  <2>8. QED BY <1>0, <1>1, <2>6, <2>7 DEF HealStart, LegsKept
<1>2. CASE HealCancel
  <2>1. PICK o \in CancelLeg(legs, heal.sl, live) :
           /\ legs' = o.legs
           /\ IF o.ok
              THEN Enter("heal", "read") /\ heal' = [heal EXCEPT !.pc = "waiting"]
              ELSE UNCHANGED impl /\ heal' = [heal EXCEPT !.pc = "asleep", !.sl = 0]
    BY <1>2 DEF HealCancel
  <2>2. LegsKept
    BY <1>0, <2>1, CancelOutcome DEF LegsKept
  <2>3. impl' \in [Callers -> Activation]
    BY <1>0, <2>1, EnterType DEF ImplPcs
  <2>4. heal' \in {[heal EXCEPT !.pc = "waiting"], [heal EXCEPT !.pc = "asleep", !.sl = 0]}
    BY <2>1
  <2>5. heal' \in HealRecord
    <3>1. [heal EXCEPT !.pc = "waiting"] \in HealRecord
      BY <1>0 DEF HealRecord
    <3>2. [heal EXCEPT !.pc = "asleep", !.sl = 0] \in HealRecord
      BY <1>0 DEF HealRecord
    <3>3. QED BY <2>4, <3>1, <3>2
  <2>6. QED BY <1>2, <2>2, <2>3, <2>5 DEF HealCancel
<1>3. CASE HealEnd
  <2>1. impl' \in [Callers -> Activation]
    BY <1>0, <1>3, EnterType DEF HealEnd, ImplPcs
  <2>2. heal' \in HealRecord
    BY <1>0, <1>3 DEF HealRecord, HealEnd
  <2>3. QED BY <1>0, <1>3, <2>1, <2>2 DEF HealEnd, LegsKept
<1>4. QED BY <1>1, <1>2, <1>3

\* The exchange and the open-orders sync, on one leg.
LEMMA LegEventType ==
    ASSUME TypeInv, DropLeg \/ SyncRow
    PROVE  LegsKept /\ UNCHANGED <<env, position, breaker, fill, heal, impl>>
<1>0. legs \in Seq(Leg) /\ Len(legs) <= MaxLegs
  BY DEF TypeInv, TypeOK
<1>1. CASE DropLeg
  <2>1. PICK i \in LiveLegs(legs, "TP") : legs' = [legs EXCEPT ![i].exch = "rejected"]
    BY <1>1 DEF DropLeg
  <2> DEFINE leg == [legs[i] EXCEPT !.exch = "rejected"]
  <2>2. legs[i] \in Leg
    BY <1>0, <2>1 DEF LiveLegs
  <2>3. leg \in Leg /\ leg.exch = "rejected"
    BY <2>2 DEF Leg, ExchStates
  <2>4. legs' = [legs EXCEPT ![i] = leg]
    BY <2>1
  <2> HIDE DEF leg
  <2>5. QED BY <1>0, <1>1, <2>3, <2>4, LegChanged DEF DropLeg, LegsKept, Gone
<1>2. CASE SyncRow
  <2>1. PICK i \in DOMAIN legs : legs[i].exch # "live" /\ legs' = [legs EXCEPT ![i].row = legs[i].exch]
    BY <1>2 DEF SyncRow
  <2> DEFINE leg == [legs[i] EXCEPT !.row = legs[i].exch]
  <2>2. legs[i] \in Leg
    BY <1>0, <2>1
  <2>3. leg \in Leg /\ leg.exch # "live"
    BY <2>1, <2>2 DEF Leg, ExchStates, RowStates
  <2>4. legs' = [legs EXCEPT ![i] = leg]
    BY <2>1
  <2> HIDE DEF leg
  <2>5. QED BY <1>0, <1>2, <2>3, <2>4, LegChanged DEF SyncRow, LegsKept, Gone
<1>3. QED BY <1>1, <1>2

Switch == FlipMargin \/ SwitchOff \/ EmergencyStop

LEMMA TypeNext == TypeInv /\ [Next]_vars => TypeInv' /\ LegsKept
<1> SUFFICES ASSUME TypeInv, [Next]_vars PROVE TypeInv' /\ LegsKept
  OBVIOUS
<1>0. /\ entry \in {"resting", "filled"} /\ position \in {"none", "open", "flat"}
      /\ legs \in Seq(Leg) /\ Len(legs) <= MaxLegs
      /\ {oco, margin, live, killed, breaker} \subseteq BOOLEAN
      /\ fill \in FillRecord /\ heal \in HealRecord /\ impl \in [Callers -> Activation]
      /\ Counted
  BY DEF TypeInv, TypeOK, FillRecord, HealRecord
<1> DEFINE EnvType == /\ entry' \in {"resting", "filled"}
                      /\ oco' \in BOOLEAN /\ margin' \in BOOLEAN /\ live' \in BOOLEAN
                      /\ killed' \in BOOLEAN
           RestType == /\ position' \in {"none", "open", "flat"} /\ breaker' \in BOOLEAN
                       /\ fill' \in FillRecord /\ Counted' /\ heal' \in HealRecord
                       /\ impl' \in [Callers -> Activation]
<1>1. EnvType /\ RestType /\ LegsKept => TypeInv' /\ LegsKept
  BY DEF TypeInv, TypeOK, FillRecord, HealRecord, LegsKept
<1>2. UNCHANGED env => EnvType
  BY <1>0 DEF env
<1>3. UNCHANGED fill => fill' \in FillRecord /\ Counted'
  BY <1>0 DEF Counted
<1> HIDE DEF EnvType
<1>4. CASE \E c \in Callers : Create(c)
  BY <1>0, <1>1, <1>2, <1>3, <1>4, CreateType
<1>5. CASE PollFill \/ StartProtection \/ Attempt \/ Judge \/ Flatten \/ GapCancel \/ GapJudge
  BY <1>0, <1>1, <1>2, <1>5, ThreadType
<1>6. CASE HealStart \/ HealCancel \/ HealEnd
  BY <1>0, <1>1, <1>2, <1>3, <1>6, HealerType
<1>7. CASE DropLeg \/ SyncRow
  BY <1>0, <1>1, <1>2, <1>3, <1>7, LegEventType
<1>8. CASE FillEntry
  <2>1. EnvType
    BY <1>0, <1>8 DEF FillEntry, EnvType
  <2>2. QED BY <1>0, <1>1, <1>3, <1>8, <2>1 DEF FillEntry, LegsKept
<1>9. CASE Switch
  <2>1. EnvType
    <3>1. CASE FlipMargin
      <4>1. (~margin) \in BOOLEAN
        BY Zenon
      <4>2. QED BY <1>0, <3>1, <4>1 DEF FlipMargin, EnvType
    <3>2. CASE SwitchOff
      BY <1>0, <3>2 DEF SwitchOff, EnvType
    <3>3. CASE EmergencyStop
      BY <1>0, <3>3 DEF EmergencyStop, EnvType
    <3>4. QED BY <1>9, <3>1, <3>2, <3>3 DEF Switch
  <2>2. UNCHANGED <<position, legs, breaker, fill, heal, impl>>
    BY <1>9 DEF Switch, FlipMargin, SwitchOff, EmergencyStop
  <2>3. LegsKept
    BY <1>0, <2>2 DEF LegsKept
  <2>4. QED BY <1>0, <1>1, <1>3, <2>1, <2>2, <2>3
<1>10. CASE UNCHANGED vars
  <2>1. UNCHANGED env /\ UNCHANGED <<position, legs, breaker, fill, heal, impl>>
    BY <1>10 DEF vars, env
  <2>2. QED BY <1>0, <1>1, <1>2, <1>3, <2>1 DEF LegsKept
<1>11. QED
  BY <1>4, <1>5, <1>6, <1>7, <1>8, <1>9, <1>10
     DEF Next, FillThread, Healer, Settled, Switch, Callers

\* Every behaviour of the thread, the healer and the rest is well typed: the
\* attempts stay within their number, the ids within the orders placed.
THEOREM TypeCorrect == Spec => []TypeOK
<1>1. TypeInv => TypeOK
  BY DEF TypeInv
<1>2. TypeInv /\ [Next]_vars => TypeInv'
  BY TypeNext
<1>3. QED BY <1>1, <1>2, TypeInit, PTL DEF Spec

-----------------------------------------------------------------------------
(* The licence to place a leg again.                                         *)

Licensed == TypeInv /\ live /\ Gone(legs)

\* Whatever else fails, as long as nobody switches live trading off a row that
\* says CANCELLED is the row of an order that is off the exchange
\* (cancel_protection_leg_on_exchange, _cancel_sl_for_balance_recovery): any
\* number of retries, recoveries and healer's passes.
THEOREM CancelledGone == ASSUME "toggle" \notin Faults PROVE Spec => []CancelledIsGone
<1>1. Init => Licensed
  <2>1. Init => live /\ Gone(legs)
    BY DEF Init, Gone
  <2>2. QED BY <2>1, TypeInit DEF Licensed
<1>2. Licensed /\ [Next]_vars => Licensed'
  <2> SUFFICES ASSUME Licensed, [Next]_vars PROVE Licensed'
    OBVIOUS
  <2>1. TypeInv' /\ LegsKept
    BY TypeNext DEF Licensed
  <2>2. live'
    <3>1. ~SwitchOff
      BY DEF SwitchOff
    <3>2. UNCHANGED env \/ UNCHANGED live
      <4>1. CASE \E c \in Callers : Create(c)
        BY <4>1, CreateType DEF Licensed
      <4>2. CASE PollFill \/ StartProtection \/ Attempt \/ Judge \/ Flatten \/ GapCancel \/ GapJudge
        BY <4>2, ThreadType DEF Licensed
      <4>3. CASE HealStart \/ HealCancel \/ HealEnd
        BY <4>3, HealerType DEF Licensed
      <4>4. CASE DropLeg \/ SyncRow
        BY <4>4, LegEventType DEF Licensed
      <4>5. CASE FillEntry \/ FlipMargin \/ EmergencyStop
        BY <4>5 DEF FillEntry, FlipMargin, EmergencyStop
      <4>6. CASE UNCHANGED vars
        BY <4>6 DEF vars
      <4>7. QED
        BY <3>1, <4>1, <4>2, <4>3, <4>4, <4>5, <4>6
           DEF Next, FillThread, Healer, Settled, Callers
    <3>3. QED BY <3>2 DEF env, Licensed
  <2>3. Gone(legs)'
    BY <2>1 DEF Licensed, LegsKept, Gone
  <2>4. QED BY <2>1, <2>2, <2>3 DEF Licensed
<1>3. Licensed => CancelledIsGone
  BY DEF Licensed, Gone, CancelledIsGone
<1>4. QED BY <1>1, <1>2, <1>3, PTL DEF Spec

-----------------------------------------------------------------------------
(* The stop-loss guarantees.  With the thread alone on the lot (no healer's   *)
(* pass) and none of the misleading faults, the routine always knows what     *)
(* rests on the exchange: it decides on rows, and the rows are true.          *)

Spot == ~margin /\ oco
DualPcs == {"preCancel", "tp", "tpCancel", "tpAgain", "sl"}

\* One leg of each role at most, and on the native-OCO path both or none.
LegsSound(L) == /\ RowsTrue(L) /\ OneEach(L)
                /\ Spot => (IsLive(L, "SL") <=> IsLive(L, "TP"))

\* A confirmed stop-loss is live; a list is confirmed as a whole.
AnswerSound(L, r) == /\ ConfirmsSL(r) => r.sl.id \in LiveLegs(L, "SL")
                     /\ Spot => (ConfirmsSL(r) <=> ConfirmsTP(r))

\* The routine's activation: a list is placed where no leg is, the dual path
\* holds on to the stop-loss that lives.
RoutineSound(L, a) ==
    /\ a.whole /\ a.pc # "ocoCancel"
    /\ a.pc \in {"oco", "ocoPlace"} =>
         Spot /\ a.sl = 0 /\ a.tp = 0 /\ ~IsLive(L, "SL") /\ ~IsLive(L, "TP")
    /\ a.pc \in DualPcs =>
         ~Spot /\ IF a.sl = 0 THEN ~IsLive(L, "SL") ELSE a.sl \in LiveLegs(L, "SL")
    /\ a.pc = "back" => AnswerSound(L, a.result)

Undisturbed == live /\ heal.pc = "asleep" /\ impl["heal"].pc = "idle"

Threading == impl["fill"].pc # "idle" => fill.pc \in {"waiting", "recovery"}

GapSound == /\ fill.pc = "gap" => IsLive(legs, "SL")
            /\ fill.pc \in {"gap", "recovery"} => ~Spot

Confirmation == \/ fill.pc = "poll" \/ entry = "filled"
                \/ fill.pc = "done" /\ fill.outcome = "unconfirmed"

Guarded == /\ TypeInv /\ Undisturbed
           /\ LegsSound(legs) /\ RoutineSound(legs, impl["fill"])
           /\ Threading /\ GapSound /\ Confirmation /\ SpotInvariant

\* What a guarded state offers the steps below.
LEMMA GuardedFacts ==
    ASSUME Guarded
    PROVE  /\ legs \in Seq(Leg) /\ live = TRUE /\ margin \in BOOLEAN /\ oco \in BOOLEAN
           /\ RowsTrue(legs) /\ OneEach(legs)
           /\ impl["fill"] \in Activation /\ "fill" \in Callers
           /\ RoutineSound(legs, impl["fill"])
BY TypeFacts DEF Guarded, Undisturbed, LegsSound, Callers

LEMMA AnswerReading ==
    /\ ~ConfirmsSL(Raised) /\ ~ConfirmsTP(Raised)
    /\ ~ConfirmsSL(NoResult) /\ ~ConfirmsTP(NoResult)
BY DEF Reply, ConfirmsSL, ConfirmsTP, Raised, NoResult

\* A step of the routine to act over the legs L is sound if these are.
LEMMA SoundStep ==
    ASSUME Guarded, NEW act \in Activation, Step("fill", act),
           LegsSound(legs'), RoutineSound(legs', act)
    PROVE  LegsSound(legs)' /\ RoutineSound(legs, impl["fill"])' /\ UNCHANGED <<margin, oco>>
<1>1. impl'["fill"] = act /\ UNCHANGED <<margin, oco>>
  BY StepType, GuardedFacts DEF Step, env, Guarded
<1>2. QED
  BY <1>1 DEF LegsSound, RoutineSound, AnswerSound, Spot, RowsTrue, OneEach, IsLive, LiveLegs

\* Cancelling the stop-loss the dual path holds on to.
LEMMA CancelHeld ==
    ASSUME Guarded, Honest, NEW o \in CancelLeg(legs, impl["fill"].sl, live),
           impl["fill"].pc \in DualPcs
    PROVE  /\ LegsSound(o.legs)
           /\ o.ok => ~IsLive(o.legs, "SL")
           /\ ~o.ok => o.legs = legs
<1> DEFINE a == impl["fill"]
<1>1. /\ RowsTrue(o.legs) /\ OneEach(o.legs)
      /\ o.ok => LiveLegs(o.legs, "SL") = LiveLegs(legs, "SL") \ {a.sl}
  <2>1. legs \in Seq(Leg) /\ RowsTrue(legs) /\ OneEach(legs) /\ live = TRUE
    BY GuardedFacts
  <2>2. /\ RowsTrue(o.legs) /\ OneEach(o.legs)
        /\ o.ok => LiveLegs(o.legs, "SL") = LiveLegs(legs, "SL") \ {a.sl}
    BY <2>1, CancelSingle
  <2>3. QED BY <2>2
<1>2. ~Spot /\ IF a.sl = 0 THEN ~IsLive(legs, "SL") ELSE a.sl \in LiveLegs(legs, "SL")
  BY GuardedFacts DEF RoutineSound
<1>3. \A i \in LiveLegs(legs, "SL") : i = a.sl
  BY <1>2, GuardedFacts DEF OneEach, Roles, IsLive
<1>4. o.ok => ~IsLive(o.legs, "SL")
  BY <1>1, <1>3 DEF IsLive
<1>5. QED BY <1>1, <1>2, <1>4, GuardedFacts, CancelOutcome DEF LegsSound

LEMMA RoutineStep ==
    ASSUME Guarded, Honest, Create("fill")
    PROVE  LegsSound(legs)' /\ RoutineSound(legs, impl["fill"])' /\ UNCHANGED <<margin, oco>>
<1> DEFINE a == impl["fill"]
<1>0. /\ a \in Activation /\ a.sl \in Nat /\ a.tp \in Nat /\ a.tpAnswer \in Answer
      /\ a.whole /\ legs \in Seq(Leg) /\ RowsTrue(legs) /\ OneEach(legs) /\ LegsSound(legs)
      /\ live = TRUE /\ TypeInv /\ RoutineSound(legs, a) /\ "fill" \in Callers
      /\ margin \in BOOLEAN /\ oco \in BOOLEAN
  BY GuardedFacts DEF Guarded, Activation, RoutineSound
<1>1. CASE Read("fill")
  <2> DEFINE sl == ActiveLeg(legs, "SL")
             tp == ActiveLeg(legs, "TP")
             act == [a EXCEPT !.margin = margin, !.sl = sl, !.tp = tp]
             path == CASE tp # 0 -> "sl"
                       [] tp = 0 /\ sl # 0 /\ (margin => HasRejected(legs, "TP")) -> "preCancel"
                       [] OTHER -> "tp"
             answer == IF tp # 0 THEN Placed(tp) ELSE Nothing
  <2>1. /\ sl \in Nat /\ tp \in Nat
        /\ IF sl = 0 THEN ~IsLive(legs, "SL") ELSE sl \in LiveLegs(legs, "SL")
        /\ tp = 0 <=> ~IsLive(legs, "TP")
    BY <1>0, ActiveLegFound, ActiveIsLive DEF IsLive
  <2>2. path \in {"sl", "preCancel", "tp"}
    OBVIOUS
  <2>3. legs' = legs
    BY <1>1 DEF Read
  <2>4. \/ /\ sl # 0 /\ tp # 0
           /\ Step("fill", Return("fill", Reply("already_protected", Placed(sl), Placed(tp))))
        \/ (sl = 0 \/ tp = 0) /\ Spot /\ Step("fill", [act EXCEPT !.pc = "oco"])
        \/ ~Spot /\ Step("fill", [act EXCEPT !.pc = path, !.tpAnswer = answer])
        \/ Step("fill", Return("fill", Raised))
    <3> HIDE DEF sl, tp, act, path, answer
    <3>1. QED BY <1>1, Zenon DEF Read, sl, tp, act, path, answer, Spot
  <2>5. answer \in Answer
    BY <2>1, AnswerTypes
  <2> HIDE DEF path, answer
  <2>6. CASE /\ sl # 0 /\ tp # 0
             /\ Step("fill", Return("fill", Reply("already_protected", Placed(sl), Placed(tp))))
    <3> DEFINE r == Reply("already_protected", Placed(sl), Placed(tp))
    <3>1. r \in Result /\ ConfirmsSL(r) /\ ConfirmsTP(r) /\ r.sl.id = sl
      <4>1. Placed(sl) \in Answer /\ Placed(tp) \in Answer
        BY <2>1, AnswerTypes
      <4>2. Confirmed(Placed(sl)) /\ Confirmed(Placed(tp)) /\ Placed(sl).id = sl
        BY <2>1, <2>6, AnswerTypes DEF Confirmed
      <4>3. r \in Result
        BY <4>1, ResultTypes DEF Statuses
      <4>4. r.sl = Placed(sl) /\ r.tp = Placed(tp) /\ r.status = "already_protected"
        BY DEF Reply
      <4> HIDE DEF r
      <4>5. QED BY <4>2, <4>3, <4>4 DEF ConfirmsSL, ConfirmsTP
    <3>2. AnswerSound(legs, r)
      BY <2>1, <2>6, <3>1 DEF AnswerSound
    <3> HIDE DEF r, sl, tp
    <3>3. LET b == Return("fill", r) IN
          b \in Activation /\ b.pc = "back" /\ b.result = r /\ b.whole
      BY <1>0, <3>1, ReturnType DEF Return, Activation
    <3>4. RoutineSound(legs, Return("fill", r))
      BY <3>2, <3>3 DEF RoutineSound, DualPcs
    <3>5. QED BY <1>0, <2>3, <2>6, <3>3, <3>4, SoundStep DEF r
  <2>7. CASE (sl = 0 \/ tp = 0) /\ Spot /\ Step("fill", [act EXCEPT !.pc = "oco"])
    <3>1. sl = 0 /\ tp = 0 /\ ~IsLive(legs, "SL") /\ ~IsLive(legs, "TP")
      BY <1>0, <2>1, <2>7 DEF LegsSound, IsLive
    <3> DEFINE b == [act EXCEPT !.pc = "oco"]
    <3>2. b \in Activation /\ b.pc = "oco" /\ b.sl = 0 /\ b.tp = 0 /\ b.whole
      BY <1>0, <2>1, <3>1 DEF Activation, ImplPcs
    <3> HIDE DEF b, act, sl, tp
    <3>3. RoutineSound(legs, b)
      BY <2>7, <3>1, <3>2 DEF RoutineSound, DualPcs
    <3>4. QED BY <1>0, <2>3, <2>7, <3>2, <3>3, SoundStep DEF b
  <2>8. CASE ~Spot /\ Step("fill", [act EXCEPT !.pc = path, !.tpAnswer = answer])
    <3> DEFINE b == [act EXCEPT !.pc = path, !.tpAnswer = answer]
    <3>1. b \in Activation /\ b.pc = path /\ b.sl = sl /\ b.whole
      BY <1>0, <2>1, <2>2, <2>5 DEF Activation, ImplPcs
    <3> HIDE DEF b, act, sl, tp
    <3>2. RoutineSound(legs, b)
      BY <2>1, <2>2, <2>8, <3>1 DEF RoutineSound, DualPcs
    <3>3. QED BY <1>0, <2>3, <2>8, <3>1, <3>2, SoundStep DEF b
  <2>9. CASE Step("fill", Return("fill", Raised))
    <3>1. AnswerSound(legs, Raised)
      BY AnswerReading DEF AnswerSound
    <3>2. LET b == Return("fill", Raised) IN
          b \in Activation /\ b.pc = "back" /\ b.result = Raised /\ b.whole
      BY <1>0, ReturnType, ResultTypes DEF Return, Activation
    <3>3. RoutineSound(legs, Return("fill", Raised))
      BY <3>1, <3>2 DEF RoutineSound, DualPcs
    <3>4. QED BY <1>0, <2>3, <2>9, <3>2, <3>3, SoundStep
  <2>10. QED BY <2>4, <2>6, <2>7, <2>8, <2>9
<1>2. CASE EnsureOco("fill")
  <2>1. a.pc = "oco" /\ a.sl = 0 /\ a.tp = 0 /\ ~IsLive(legs, "SL") /\ ~IsLive(legs, "TP") /\ Spot
    BY <1>0, <1>2 DEF EnsureOco, RoutineSound
  <2>2. ActiveLeg(legs, "SL") = 0 /\ ActiveLeg(legs, "TP") = 0
    BY <1>0, <2>1, ActiveIsLive
  <2> DEFINE b == [a EXCEPT !.pc = "ocoPlace", !.todo = {0, 0} \ {0}]
  <2>3. Step("fill", b) /\ legs' = legs
    BY <1>2, <2>1, <2>2 DEF EnsureOco
  <2>4. b \in Activation /\ b.pc = "ocoPlace" /\ b.sl = 0 /\ b.tp = 0 /\ b.whole
    BY <1>0, <2>1 DEF Activation, ImplPcs
  <2> HIDE DEF b
  <2>5. RoutineSound(legs, b)
    BY <2>1, <2>4 DEF RoutineSound, DualPcs
  <2>6. QED BY <1>0, <2>3, <2>4, <2>5, SoundStep
<1>3. CASE CancelForOco("fill")
  BY <1>0, <1>3 DEF CancelForOco, RoutineSound
<1>4. CASE PlaceNativeOco("fill")
  <2>1. PICK o \in PlaceOco(legs, live /\ ~killed) :
           legs' = o.legs /\ Step("fill", OcoReturn("fill", o.answer))
    BY <1>4 DEF PlaceNativeOco
  <2>2. a.sl = 0 /\ a.tp = 0 /\ ~IsLive(legs, "SL") /\ ~IsLive(legs, "TP") /\ Spot
    BY <1>0, <1>4 DEF PlaceNativeOco, RoutineSound
  <2>3. (live /\ ~killed) \in BOOLEAN
    BY Zenon
  <2>4. /\ RowsTrue(o.legs) /\ OneEach(o.legs) /\ o.answer \in OcoAnswer
        /\ IsLive(o.legs, "SL") <=> IsLive(o.legs, "TP")
        /\ Confirmed(o.answer.sl) <=> Confirmed(o.answer.tp)
        /\ Confirmed(o.answer.sl) => o.answer.sl.id \in LiveLegs(o.legs, "SL")
        /\ ~o.answer.already
    BY <1>0, <2>2, <2>3, OcoPlaced
  <2> DEFINE r == Reply("", o.answer.sl, o.answer.tp)
  <2>5. OcoReturn("fill", o.answer) = Return("fill", r)
    BY <1>0, <2>2, <2>4 DEF OcoReturn, OcoReply
  <2>6. r \in Result /\ AnswerSound(o.legs, r)
    <3>1. o.answer.sl \in Answer /\ o.answer.tp \in Answer /\ "" \in Statuses
      BY <2>4 DEF OcoAnswer, Statuses
    <3>2. r \in Result
      BY <3>1, ResultTypes
    <3>3. r.sl = o.answer.sl /\ r.tp = o.answer.tp /\ r.status = ""
      BY DEF Reply
    <3> HIDE DEF r
    <3>4. QED BY <2>4, <3>2, <3>3 DEF AnswerSound, ConfirmsSL, ConfirmsTP
  <2> HIDE DEF r
  <2>7. LET b == Return("fill", r) IN
        b \in Activation /\ b.pc = "back" /\ b.result = r /\ b.whole
    BY <1>0, <2>6, ReturnType DEF Return, Activation
  <2>8. RoutineSound(o.legs, Return("fill", r))
    BY <2>6, <2>7 DEF RoutineSound, DualPcs
  <2>9. LegsSound(o.legs)
    BY <2>4 DEF LegsSound
  <2>10. QED BY <2>1, <2>5, <2>7, <2>8, <2>9, SoundStep
<1>5. CASE CancelBeforeTP("fill") \/ CancelAfterTP("fill")
  <2>1. PICK o \in CancelLeg(legs, a.sl, live) :
           /\ legs' = o.legs
           /\ \/ o.ok /\ \E pc \in {"tp", "tpAgain"} : Step("fill", [a EXCEPT !.pc = pc, !.sl = 0])
              \/ ~o.ok /\ \E pc \in {"tp", "sl"} : Step("fill", [a EXCEPT !.pc = pc])
              \/ ~o.ok /\ Step("fill", [a EXCEPT !.pc = "sl", !.skipTp = TRUE])
    BY <1>5, Zenon DEF CancelBeforeTP, CancelAfterTP
  <2>2. a.pc \in DualPcs
    BY <1>5 DEF CancelBeforeTP, CancelAfterTP, DualPcs
  <2>3. ~Spot /\ IF a.sl = 0 THEN ~IsLive(legs, "SL") ELSE a.sl \in LiveLegs(legs, "SL")
    BY <1>0, <2>2 DEF RoutineSound
  <2>4. LegsSound(o.legs) /\ (o.ok => ~IsLive(o.legs, "SL")) /\ (~o.ok => o.legs = legs)
    BY <2>2, CancelHeld
  <2>5. CASE o.ok
    <3>1. PICK pc \in {"tp", "tpAgain"} : Step("fill", [a EXCEPT !.pc = pc, !.sl = 0])
      BY <2>1, <2>5
    <3> DEFINE b == [a EXCEPT !.pc = pc, !.sl = 0]
    <3>2. b \in Activation /\ b.pc = pc /\ b.sl = 0 /\ b.whole
      BY <1>0 DEF Activation, ImplPcs
    <3> HIDE DEF b
    <3>3. RoutineSound(o.legs, b)
      BY <2>3, <2>4, <2>5, <3>2 DEF RoutineSound
    <3>4. QED BY <2>1, <2>4, <3>1, <3>2, <3>3, SoundStep DEF b
  <2>6. CASE ~o.ok
    <3>1. PICK b : Step("fill", b) /\ (\/ \E pc \in {"tp", "sl"} : b = [a EXCEPT !.pc = pc]
                                      \/ b = [a EXCEPT !.pc = "sl", !.skipTp = TRUE])
      BY <2>1, <2>6
    <3>2. b \in Activation /\ b.pc \in {"tp", "sl"} /\ b.sl = a.sl /\ b.whole
      BY <1>0, <3>1 DEF Activation, ImplPcs
    <3>3. RoutineSound(o.legs, b)
      BY <2>3, <2>4, <2>6, <3>2 DEF RoutineSound, DualPcs
    <3>4. QED BY <2>1, <2>4, <3>1, <3>2, <3>3, SoundStep
  <2>7. QED BY <2>5, <2>6, <2>4, <2>1
<1>6. CASE TakeProfit("fill") \/ TakeProfitAgain("fill")
  <2>1. PICK o \in PlaceTakeProfit(legs) :
           /\ legs' = o.legs
           /\ \E pc \in {"tpCancel", "sl"} : Step("fill", [a EXCEPT !.pc = pc, !.tpAnswer = o.answer,
                                                          !.tpNew = Confirmed(o.answer)])
    BY <1>6, Zenon DEF TakeProfit, TakeProfitAgain
  <2>2. a.pc \in DualPcs
    BY <1>6 DEF TakeProfit, TakeProfitAgain, DualPcs
  <2>3. ~Spot /\ IF a.sl = 0 THEN ~IsLive(legs, "SL") ELSE a.sl \in LiveLegs(legs, "SL")
    BY <1>0, <2>2 DEF RoutineSound
  <2>4. o.answer \in Answer /\ RowsTrue(o.legs) /\ OneEach(o.legs)
        /\ LiveLegs(o.legs, "SL") = LiveLegs(legs, "SL")
    BY <1>0, TakeProfitOutcome
  <2>5. PICK pc \in {"tpCancel", "sl"} : Step("fill", [a EXCEPT !.pc = pc, !.tpAnswer = o.answer,
                                                    !.tpNew = Confirmed(o.answer)])
    BY <2>1
  <2> DEFINE b == [a EXCEPT !.pc = pc, !.tpAnswer = o.answer, !.tpNew = Confirmed(o.answer)]
  <2>6. Confirmed(o.answer) \in BOOLEAN
    BY DEF Confirmed
  <2>7. b \in Activation /\ b.pc = pc /\ b.sl = a.sl /\ b.whole
    BY <1>0, <2>4, <2>6 DEF Activation, ImplPcs
  <2> HIDE DEF b
  <2>8. RoutineSound(o.legs, b) /\ LegsSound(o.legs)
    BY <2>3, <2>4, <2>7 DEF RoutineSound, LegsSound, DualPcs, IsLive
  <2>9. QED BY <2>1, <2>5, <2>7, <2>8, SoundStep DEF b
<1>7. CASE StopLoss("fill")
  <2>1. \E status \in Statuses :
          \/ /\ a.sl # 0 /\ legs' = legs
             /\ Step("fill", Return("fill", Reply(status, Placed(a.sl), a.tpAnswer)))
          \/ /\ a.sl = 0
             /\ \E o \in PlaceStopLoss(legs) :
                  /\ legs' = o.legs
                  /\ Step("fill", Return("fill", Reply(status, o.answer, a.tpAnswer)))
    <3>1. {"", "already_protected"} \subseteq Statuses
      BY DEF Statuses
    <3>2. QED BY <1>7, <3>1, Zenon DEF StopLoss
  <2>2. ~Spot /\ IF a.sl = 0 THEN ~IsLive(legs, "SL") ELSE a.sl \in LiveLegs(legs, "SL")
    BY <1>0, <1>7 DEF RoutineSound, StopLoss, DualPcs
  <2>3. PICK r \in Result : /\ Step("fill", Return("fill", r)) /\ LegsSound(legs')
                            /\ Confirmed(r.sl) => r.sl.id \in LiveLegs(legs', "SL")
    <3>1. PICK status \in Statuses :
            \/ /\ a.sl # 0 /\ legs' = legs
               /\ Step("fill", Return("fill", Reply(status, Placed(a.sl), a.tpAnswer)))
            \/ /\ a.sl = 0
               /\ \E o \in PlaceStopLoss(legs) :
                    /\ legs' = o.legs
                    /\ Step("fill", Return("fill", Reply(status, o.answer, a.tpAnswer)))
      BY <2>1
    <3>2. CASE a.sl # 0 /\ legs' = legs
               /\ Step("fill", Return("fill", Reply(status, Placed(a.sl), a.tpAnswer)))
      <4> DEFINE r == Reply(status, Placed(a.sl), a.tpAnswer)
      <4>1. r \in Result /\ r.sl.id = a.sl
        <5>1. Placed(a.sl) \in Answer /\ Placed(a.sl).id = a.sl
          BY <1>0, AnswerTypes
        <5>2. r \in Result
          BY <1>0, <5>1, ResultTypes
        <5>3. QED BY <5>1, <5>2 DEF Reply
      <4>2. LegsSound(legs') /\ a.sl \in LiveLegs(legs', "SL")
        BY <1>0, <2>2, <3>2
      <4> HIDE DEF r
      <4>3. QED BY <3>2, <4>1, <4>2 DEF r
    <3>3. CASE /\ a.sl = 0
               /\ \E o \in PlaceStopLoss(legs) :
                    /\ legs' = o.legs
                    /\ Step("fill", Return("fill", Reply(status, o.answer, a.tpAnswer)))
      <4>1. PICK o \in PlaceStopLoss(legs) :
              /\ legs' = o.legs
              /\ Step("fill", Return("fill", Reply(status, o.answer, a.tpAnswer)))
        BY <3>3
      <4>2. /\ o.answer \in Answer /\ RowsTrue(o.legs) /\ OneEach(o.legs)
            /\ Confirmed(o.answer) => o.answer.id \in LiveLegs(o.legs, "SL")
        BY <1>0, StopLossOutcome
      <4> DEFINE r == Reply(status, o.answer, a.tpAnswer)
      <4>3. r \in Result /\ r.sl = o.answer
        <5>1. r \in Result
          BY <1>0, <4>2, ResultTypes
        <5>2. QED BY <5>1 DEF Reply
      <4>4. LegsSound(o.legs)
        BY <2>2, <4>2 DEF LegsSound
      <4> HIDE DEF r
      <4>5. QED BY <4>1, <4>2, <4>3, <4>4 DEF r
    <3>4. QED BY <3>1, <3>2, <3>3
  <2>4. LET b == Return("fill", r) IN
        b \in Activation /\ b.pc = "back" /\ b.result = r /\ b.whole
    BY <1>0, ReturnType DEF Return, Activation
  <2>5. AnswerSound(legs', r)
    BY <2>2, <2>3 DEF AnswerSound, ConfirmsSL
  <2>6. RoutineSound(legs', Return("fill", r))
    BY <2>4, <2>5 DEF RoutineSound, DualPcs
  <2>7. QED BY <2>3, <2>4, <2>6, SoundStep
<1>8. QED
  BY <1>1, <1>2, <1>3, <1>4, <1>5, <1>6, <1>7 DEF Create

\* The thread's own steps: it goes on, or settles, only on what is there.
LEMMA ThreadStep ==
    ASSUME Guarded, Honest,
           PollFill \/ StartProtection \/ Attempt \/ Judge \/ Flatten \/ GapCancel \/ GapJudge
    PROVE  /\ LegsSound(legs)' /\ RoutineSound(legs, impl["fill"])'
           /\ Threading' /\ GapSound' /\ Confirmation' /\ SpotInvariant'
           /\ impl'["heal"] = impl["heal"]
<1> DEFINE a == impl["fill"]
<1>0. /\ a \in Activation /\ legs \in Seq(Leg) /\ RowsTrue(legs) /\ LegsSound(legs)
      /\ RoutineSound(legs, a) /\ Threading /\ GapSound /\ Confirmation /\ SpotInvariant
      /\ TypeInv /\ "fill" \in Callers /\ "heal" \in Callers /\ live = TRUE
      /\ fill \in FillRecord
  BY GuardedFacts DEF Guarded, Callers, TypeInv, TypeOK, FillRecord
<1>1. UNCHANGED <<margin, oco, live, entry, heal>>
  BY <1>0, ThreadType DEF env
<1>2. \A pc \in ImplPcs : Enter("fill", pc) =>
        impl'["fill"] = [Idle EXCEPT !.pc = pc] /\ impl'["heal"] = impl["heal"]
  BY <1>0 DEF Enter, TypeInv, TypeOK
\* The routine begins, ends, or is answered for by the wallet check.
<1>3. /\ \A pc : [Idle EXCEPT !.pc = pc].pc = pc /\ [Idle EXCEPT !.pc = pc].whole
                /\ [Idle EXCEPT !.pc = pc].result = NoResult
      /\ {"idle", "read", "back"} \subseteq ImplPcs
  BY DEF Idle, ImplPcs
<1>4. CallCreate \/ Enter("fill", "idle") =>
        \E pc \in {"idle", "read", "back"} :
          impl'["fill"] = [Idle EXCEPT !.pc = pc] /\ Enter("fill", pc)
  BY <1>2, <1>3 DEF CallCreate
<1>5. CallCreate \/ Enter("fill", "idle") =>
        RoutineSound(legs, impl["fill"])' /\ impl'["heal"] = impl["heal"]
  <2> SUFFICES ASSUME CallCreate \/ Enter("fill", "idle")
               PROVE  RoutineSound(legs, impl["fill"])' /\ impl'["heal"] = impl["heal"]
    OBVIOUS
  <2>1. PICK pc \in {"idle", "read", "back"} :
           impl'["fill"] = [Idle EXCEPT !.pc = pc] /\ Enter("fill", pc)
    BY <1>4
  <2>2. RoutineSound(legs, impl["fill"])'
    BY <1>3, <2>1, AnswerReading DEF RoutineSound, AnswerSound, DualPcs, ConfirmsSL, ConfirmsTP
  <2>3. QED BY <1>2, <1>3, <2>1, <2>2
<1>6. legs' = legs => LegsSound(legs)'
  BY <1>0, <1>1 DEF LegsSound, Spot, RowsTrue, OneEach, IsLive, LiveLegs
<1>7. legs' = legs /\ impl' = impl => RoutineSound(legs, impl["fill"])'
  BY <1>0, <1>1 DEF RoutineSound, AnswerSound, Spot, IsLive, LiveLegs
\* Where nothing was settled and the lot is not gone, its guarantees rest on
\* the legs and the thread's own record.
<1>8. ASSUME fill'.pc \notin {"gap", "recovery", "done"},
             fill'.pc \in {"waiting"} \/ impl'["fill"].pc = "idle",
             fill'.pc = "poll" \/ entry = "filled"
      PROVE  Threading' /\ GapSound' /\ Confirmation' /\ SpotInvariant'
  BY <1>1, <1>8
     DEF Threading, GapSound, Confirmation, SpotInvariant, HardInvariant, ThreadDone
<1>9. fill.pc \notin {"poll", "done"} => entry = "filled"
  BY <1>0 DEF Confirmation
<1>10. fill.pc \notin {"waiting", "recovery"} => a.pc = "idle"
  BY <1>0 DEF Threading
<1>11. CASE PollFill
  <2>1. /\ UNCHANGED <<legs, impl, position>> /\ a.pc = "idle"
        /\ \/ entry = "filled" /\ fill' = [fill EXCEPT !.pc = "start"]
           \/ fill' = [fill EXCEPT !.pc = "done", !.outcome = "unconfirmed"]
    BY <1>10, <1>11 DEF PollFill, Settle
  <2>2. \/ entry = "filled" /\ fill'.pc = "start"
        \/ fill'.pc = "done" /\ fill'.outcome = "unconfirmed"
    BY <1>0, <2>1 DEF FillRecord
  <2>3. CASE entry = "filled" /\ fill'.pc = "start"
    BY <1>6, <1>7, <1>8, <2>1, <2>3
  <2>4. CASE fill'.pc = "done" /\ fill'.outcome = "unconfirmed"
    BY <1>6, <1>7, <2>1, <2>4
       DEF Threading, GapSound, Confirmation, SpotInvariant, HardInvariant, ThreadDone
  <2>5. QED BY <2>2, <2>3, <2>4
<1>12. CASE StartProtection
  <2>1. /\ UNCHANGED <<legs, impl, position>> /\ a.pc = "idle" /\ entry = "filled"
        /\ \/ \E pc \in {"flatten", "attempt"} : fill' = [fill EXCEPT !.pc = pc]
           \/ /\ ActiveLeg(legs, "SL") # 0
              /\ fill' = [fill EXCEPT !.pc = "done", !.outcome = "protected"]
    BY <1>9, <1>10, <1>12, Zenon DEF StartProtection, Settle
  <2>2. \/ fill'.pc \in {"flatten", "attempt"}
        \/ fill'.pc = "done" /\ IsLive(legs, "SL")
    BY <1>0, <2>1, ActiveIsLive DEF FillRecord
  <2>3. CASE fill'.pc \in {"flatten", "attempt"}
    BY <1>6, <1>7, <1>8, <2>1, <2>3
  <2>4. CASE fill'.pc = "done" /\ IsLive(legs, "SL")
    <3>1. IsLive(legs, "SL")'
      BY <2>1, <2>4 DEF IsLive, LiveLegs
    <3>2. QED
      BY <1>1, <1>6, <1>7, <2>1, <2>4, <3>1
         DEF Threading, GapSound, Confirmation, SpotInvariant, HardInvariant
  <2>5. QED BY <2>2, <2>3, <2>4
<1>13. CASE Attempt
  <2>1. fill'.pc = "waiting" /\ UNCHANGED legs /\ CallCreate /\ entry = "filled"
    BY <1>0, <1>9, <1>13 DEF Attempt, FillRecord
  <2>2. QED BY <1>5, <1>6, <1>8, <2>1
<1>14. CASE Judge
  <2> DEFINE r == a.result
             next == CASE ~LastAttempt(r) -> "attempt"
                       [] LastAttempt(r) /\ ~ConfirmsSL(r) -> "flatten"
                       [] LastAttempt(r) /\ ConfirmsSL(r) /\ ~ConfirmsTP(r) -> "gap"
                       [] OTHER -> "done"
  <2>1. /\ UNCHANGED <<legs, position>> /\ Enter("fill", "idle") /\ a.pc = "back"
        /\ fill.pc = "waiting"
        /\ fill' = [fill EXCEPT !.pc = next, !.created = r,
                                !.outcome = IF next = "done" THEN "protected" ELSE fill.outcome]
    BY <1>14 DEF Judge
  <2>2. /\ next \in {"attempt", "flatten", "gap", "done"}
        /\ next = "gap" => ConfirmsSL(r) /\ ~ConfirmsTP(r)
        /\ next = "done" => ConfirmsSL(r)
    OBVIOUS
  <2>3. AnswerSound(legs, r)
    BY <1>0, <2>1 DEF RoutineSound
  <2> HIDE DEF next, r
  <2>4. fill'.pc = next
    BY <1>0, <2>1 DEF FillRecord
  <2>5. impl'["fill"].pc = "idle" /\ entry = "filled"
    BY <1>2, <1>3, <1>9, <2>1
  <2>6. CASE next \in {"attempt", "flatten"}
    BY <1>5, <1>6, <1>8, <2>1, <2>4, <2>5, <2>6
  <2>7. CASE next \in {"gap", "done"}
    <3>1. IsLive(legs, "SL") /\ (next = "gap" => ~Spot)
      BY <2>2, <2>3, <2>7 DEF AnswerSound, IsLive
    <3>2. IsLive(legs, "SL")' /\ (next = "gap" => ~Spot')
      BY <1>1, <2>1, <3>1 DEF IsLive, LiveLegs, Spot
    <3>3. QED
      BY <1>1, <1>5, <1>6, <2>1, <2>4, <2>5, <2>7, <3>2
         DEF Threading, GapSound, Confirmation, SpotInvariant, HardInvariant
  <2>8. QED BY <2>2, <2>6, <2>7
<1>15. CASE Flatten
  <2>1. /\ UNCHANGED <<legs, impl>> /\ a.pc = "idle" /\ entry = "filled"
        /\ \/ position' = "flat" /\ fill' = [fill EXCEPT !.pc = "done", !.outcome = "flattened"]
           \/ fill' = [fill EXCEPT !.pc = "done", !.outcome = "close_failed"]
    BY <1>9, <1>10, <1>15 DEF Flatten, Settle
  <2>2. fill'.pc = "done" /\ (position' = "flat" \/ fill'.outcome = "close_failed")
    BY <1>0, <2>1 DEF FillRecord
  <2>3. QED
    BY <1>1, <1>6, <1>7, <2>1, <2>2
       DEF Threading, GapSound, Confirmation, SpotInvariant, HardInvariant
<1>16. CASE GapCancel
  <2>1. /\ fill.pc = "gap" /\ entry = "filled" /\ CallCreate
        /\ fill'.pc = "recovery"
    BY <1>0, <1>9, <1>16 DEF GapCancel, FillRecord
  <2>2. ~Spot /\ ~Spot'
    BY <1>0, <1>1, <2>1 DEF GapSound, Spot
  <2>3. RowsTrue(legs') /\ OneEach(legs')
    <3>1. legs' = legs \/ \E i : \E o \in CancelLeg(legs, i, live) : legs' = o.legs
      BY <1>16, Zenon DEF GapCancel
    <3>2. CASE legs' = legs
      BY <1>0, <3>2 DEF LegsSound
    <3>3. CASE \E i : \E o \in CancelLeg(legs, i, live) : legs' = o.legs
      <4>1. PICK i : \E o \in CancelLeg(legs, i, live) : legs' = o.legs
        BY <3>3
      <4>2. PICK o \in CancelLeg(legs, i, live) : legs' = o.legs
        BY <4>1
      <4>3. RowsTrue(o.legs) /\ OneEach(o.legs)
        BY <1>0, CancelSingle DEF LegsSound
      <4>4. QED BY <4>2, <4>3
    <3>4. QED BY <3>1, <3>2, <3>3
  <2>4. LegsSound(legs)'
    BY <2>2, <2>3 DEF LegsSound, RowsTrue, OneEach, LiveLegs
  <2>5. QED
    BY <1>1, <1>5, <2>1, <2>2, <2>4
       DEF Threading, GapSound, Confirmation, SpotInvariant, HardInvariant, ThreadDone
<1>17. CASE GapJudge
  <2>1. /\ UNCHANGED <<legs, position>> /\ Enter("fill", "idle") /\ fill.pc = "recovery"
        /\ entry = "filled" /\ fill'.pc = "done"
    BY <1>0, <1>9, <1>17 DEF GapJudge, FillRecord
  <2>2. ~Spot'
    BY <1>0, <1>1, <2>1 DEF GapSound, Spot
  <2>3. impl'["fill"].pc = "idle"
    BY <1>2, <1>3, <2>1
  <2>4. QED
    BY <1>1, <1>5, <1>6, <2>1, <2>2, <2>3
       DEF Threading, GapSound, Confirmation, SpotInvariant, Spot
<1>18. QED
  BY <1>11, <1>12, <1>13, <1>14, <1>15, <1>16, <1>17

LEMMA GuardedInit == Init => Guarded
<1> SUFFICES ASSUME Init PROVE Guarded
  OBVIOUS
<1>1. impl["fill"] = Idle /\ impl["heal"] = Idle /\ legs = <<>> /\ DOMAIN legs = {}
  BY DEF Init, Callers
<1>2. LiveLegs(legs, "SL") = {} /\ LiveLegs(legs, "TP") = {}
  BY <1>1 DEF LiveLegs
<1>3. LegsSound(legs)
  BY <1>1, <1>2 DEF LegsSound, RowsTrue, OneEach, IsLive, Roles
<1>4. Idle.pc = "idle" /\ Idle.whole
  BY DEF Idle
<1>5. RoutineSound(legs, impl["fill"])
  BY <1>1, <1>4 DEF RoutineSound, DualPcs
<1>6. fill.pc = "poll" /\ heal.pc = "asleep" /\ live
  BY DEF Init
<1>7. QED
  BY <1>1, <1>3, <1>4, <1>5, <1>6, TypeInit
     DEF Guarded, Undisturbed, Threading, GapSound, Confirmation, SpotInvariant,
         HardInvariant, ThreadDone

\* A step that leaves the legs, the thread and its routine alone.
LEMMA GuardedRest ==
    ASSUME Guarded, UNCHANGED <<legs, oco, margin, live, fill, heal, impl>>,
           UNCHANGED <<entry, position>> \/ FillEntry, TypeInv'
    PROVE  Guarded'
<1>1. Undisturbed' /\ Threading'
  BY DEF Guarded, Undisturbed, Threading
<1>2. LegsSound(legs)' /\ RoutineSound(legs, impl["fill"])' /\ GapSound'
  BY DEF Guarded, LegsSound, RoutineSound, AnswerSound, GapSound, Spot, RowsTrue, OneEach,
         IsLive, LiveLegs
<1>3. Confirmation'
  BY DEF Guarded, Confirmation, FillEntry
<1>4. SpotInvariant'
  <2>1. CASE UNCHANGED <<entry, position>>
    BY <2>1 DEF Guarded, SpotInvariant, HardInvariant, ThreadDone, IsLive, LiveLegs
  <2>2. CASE FillEntry
    BY <2>2 DEF Guarded, Confirmation, SpotInvariant, HardInvariant, ThreadDone, FillEntry
  <2>3. QED BY <2>1, <2>2
<1>5. QED BY <1>1, <1>2, <1>3, <1>4 DEF Guarded

LEMMA GuardedNext ==
    ASSUME Honest, MaxHeals = 0, Guarded, [Next]_vars
    PROVE  Guarded'
<1>0. /\ TypeInv /\ TypeInv' /\ Undisturbed /\ Threading /\ GapSound /\ Confirmation
      /\ SpotInvariant /\ RowsTrue(legs) /\ "fill" \in Callers /\ "heal" \in Callers
      /\ impl \in [Callers -> Activation] /\ heal.passes \in 0..0 /\ heal.pc = "asleep"
      /\ legs \in Seq(Leg)
  BY TypeNext DEF Guarded, TypeInv, TypeOK, Undisturbed, LegsSound, Callers
<1>1. CASE Create("fill")
  <2>1. impl["fill"].pc \notin {"idle", "back"}
    BY <1>1 DEF Create, Read, EnsureOco, CancelForOco, PlaceNativeOco, CancelBeforeTP,
                TakeProfit, CancelAfterTP, TakeProfitAgain, StopLoss
  <2>2. fill.pc \in {"waiting", "recovery"}
    BY <1>0, <2>1 DEF Threading
  <2>3. UNCHANGED <<env, position, breaker, fill, heal>>
    BY <1>0, <1>1, CreateType
  <2>4. impl'["heal"] = impl["heal"]
    <3>1. \E act : Step("fill", act)
      BY <1>1, Zenon DEF Create, Read, EnsureOco, CancelForOco, PlaceNativeOco, CancelBeforeTP,
                         TakeProfit, CancelAfterTP, TakeProfitAgain, StopLoss
    <3>2. QED BY <1>0, <3>1 DEF Step
  <2>5. Undisturbed' /\ Threading' /\ Confirmation'
    BY <1>0, <2>2, <2>3, <2>4 DEF Undisturbed, Threading, Confirmation, env
  <2>6. GapSound' /\ SpotInvariant'
    BY <1>0, <2>2, <2>3 DEF GapSound, Spot, SpotInvariant, HardInvariant, ThreadDone, env
  <2>7. QED BY <1>0, <1>1, <2>5, <2>6, RoutineStep DEF Guarded
<1>2. CASE PollFill \/ StartProtection \/ Attempt \/ Judge \/ Flatten \/ GapCancel \/ GapJudge
  <2>1. UNCHANGED <<env, heal>>
    BY <1>0, <1>2, ThreadType
  <2>2. impl'["heal"] = impl["heal"]
    BY <1>2, ThreadStep
  <2>3. Undisturbed'
    BY <1>0, <2>1, <2>2 DEF Undisturbed, env
  <2>4. QED BY <1>0, <1>2, <2>3, ThreadStep DEF Guarded
<1>3. ~Create("heal") /\ ~HealStart /\ ~HealCancel /\ ~HealEnd
  <2>1. impl["heal"].pc = "idle"
    BY <1>0 DEF Undisturbed
  <2>2. ~Create("heal")
    BY <2>1 DEF Create, Read, EnsureOco, CancelForOco, PlaceNativeOco, CancelBeforeTP,
                TakeProfit, CancelAfterTP, TakeProfitAgain, StopLoss
  <2>3. QED BY <1>0, <2>2 DEF HealStart, HealCancel, HealEnd
<1>4. ~DropLeg /\ ~FlipMargin /\ ~SwitchOff
  BY DEF DropLeg, FlipMargin, SwitchOff, Honest, Misleading
<1>5. ~SyncRow
  BY <1>0 DEF SyncRow, RowsTrue
<1>6. CASE FillEntry \/ EmergencyStop \/ UNCHANGED vars
  <2>1. /\ UNCHANGED <<legs, oco, margin, live, fill, heal, impl>>
        /\ UNCHANGED <<entry, position>> \/ FillEntry
    BY <1>6 DEF FillEntry, EmergencyStop, vars
  <2>2. QED BY <1>0, <2>1, GuardedRest
<1>7. QED
  BY <1>1, <1>2, <1>3, <1>4, <1>5, <1>6 DEF Next, FillThread, Healer, Settled

LEMMA GuardedAlways == ASSUME Honest, MaxHeals = 0 PROVE Spec => []Guarded
<1>1. Guarded /\ [Next]_vars => Guarded'
  BY GuardedNext
<1>2. QED BY <1>1, GuardedInit, PTL DEF Spec

\* A creation that reports a stop-loss reports one that rests on the exchange,
\* whatever was refused, cancelled or placed again on the way
\* (_create_sl_tp_impl, ensure_spot_oco_protection): the thread, which flattens
\* unless a stop-loss is confirmed, never spares a naked lot.
THEOREM ClaimIsLive == ASSUME Honest, MaxHeals = 0 PROVE Spec => []ClaimedStopIsLive
<1>1. Guarded => ClaimedStopIsLive
  <2> SUFFICES ASSUME Guarded, NEW c \in Callers, impl[c].pc = "back", ConfirmsSL(impl[c].result)
               PROVE  legs[impl[c].result.sl.id].exch = "live"
    BY DEF ClaimedStopIsLive
  <2>1. c = "fill"
    BY DEF Guarded, Undisturbed, Callers
  <2>2. impl["fill"].result.sl.id \in LiveLegs(legs, "SL")
    BY <2>1 DEF Guarded, RoutineSound, AnswerSound
  <2>3. QED BY <2>1, <2>2 DEF LiveLegs
<1>2. QED BY <1>1, GuardedAlways, PTL

\* The thread that goes on to look for the missing take-profit leaves a lot
\* whose stop-loss is there (_create_protection_after_entry_fill).
THEOREM GapIsCovered == ASSUME Honest, MaxHeals = 0 PROVE Spec => []GapHasStop
<1>1. Guarded => GapHasStop
  BY DEF Guarded, GapSound, GapHasStop
<1>2. QED BY <1>1, GuardedAlways, PTL

\* Retries and the recovery never leave two resting orders of one role.
THEOREM OneOfEach == ASSUME Honest, MaxHeals = 0 PROVE Spec => []OneLegPerRole
<1>1. Guarded => OneLegPerRole
  <2> SUFFICES ASSUME Guarded, NEW role \in Roles
               PROVE  Cardinality(LiveLegs(legs, role)) <= 1
    BY DEF OneLegPerRole
  <2>1. \A i, j \in LiveLegs(legs, role) : i = j
    BY DEF Guarded, LegsSound, OneEach
  <2>2. CASE LiveLegs(legs, role) = {}
    BY <2>2, FS_EmptySet
  <2>3. CASE LiveLegs(legs, role) # {}
    <3>1. PICK i : LiveLegs(legs, role) = {i}
      BY <2>1, <2>3
    <3>2. Cardinality({i}) = 1
      BY FS_Singleton
    <3>3. QED BY <3>1, <3>2
  <2>4. QED BY <2>2, <2>3
<1>2. QED BY <1>1, GuardedAlways, PTL

\* With the native OCO a spot entry that the thread is done with has its
\* stop-loss, or is closed, or an operator has been called: the exchange may
\* refuse, the polls miss, the wallet lag and the kill switch be thrown.
THEOREM SpotCovered == ASSUME Honest, MaxHeals = 0 PROVE Spec => []SpotInvariant
<1>1. Guarded => SpotInvariant
  BY DEF Guarded
<1>2. QED BY <1>1, GuardedAlways, PTL

-----------------------------------------------------------------------------
(* The thread implements EntryPromise.                                       *)

\* Until the thread is done it has neither closed the lot nor given it up.
Unsettled == /\ fill.pc # "done" => position # "flat" /\ fill.outcome = "none"
             /\ entry = "resting" => position = "none"

Promised == Guarded /\ Unsettled

LEMMA UnsettledNext ==
    ASSUME Promised, Honest, MaxHeals = 0, [Next]_vars
    PROVE  Unsettled'
<1>0. /\ TypeInv /\ fill \in FillRecord /\ Confirmation /\ "fill" \in Callers
  BY DEF Promised, Guarded, TypeInv, TypeOK, FillRecord, Callers
<1>1. CASE UNCHANGED <<entry, position, fill>>
  BY <1>1 DEF Promised, Unsettled
<1>2. CASE PollFill \/ StartProtection
  <2>1. \/ \E pc \in FillPcs \ {"done"} : fill' = [fill EXCEPT !.pc = pc]
        \/ \E o : fill' = [fill EXCEPT !.pc = "done", !.outcome = o]
    BY <1>2 DEF PollFill, StartProtection, Settle, FillPcs
  <2>2. fill.pc # "done" /\ UNCHANGED <<entry, position>>
    BY <1>2 DEF PollFill, StartProtection, env
  <2>3. \/ fill'.pc # "done" /\ fill'.outcome = fill.outcome
        \/ fill'.pc = "done"
    BY <1>0, <2>1 DEF FillRecord
  <2>4. QED BY <2>2, <2>3 DEF Promised, Unsettled
<1>3. CASE Attempt \/ GapCancel
  <2>1. /\ fill.pc # "done" /\ UNCHANGED <<entry, position>>
        /\ fill'.outcome = fill.outcome
    BY <1>0, <1>3 DEF Attempt, GapCancel, env, FillRecord
  <2>2. QED BY <2>1 DEF Promised, Unsettled
<1>4. CASE Judge
  <2>1. /\ fill.pc # "done" /\ UNCHANGED <<entry, position>>
        /\ fill'.pc # "done" => fill'.outcome = fill.outcome
    BY <1>0, <1>4 DEF Judge, env, FillRecord
  <2>2. QED BY <2>1 DEF Promised, Unsettled
<1>5. CASE Flatten \/ GapJudge
  <2>1. fill'.pc = "done" /\ fill.pc \in {"flatten", "recovery"} /\ entry' = entry
    BY <1>0, <1>5 DEF Flatten, GapJudge, Settle, env, FillRecord
  <2>2. entry = "filled"
    BY <1>0, <2>1 DEF Confirmation
  <2>3. QED BY <2>1, <2>2 DEF Unsettled
<1>6. CASE FillEntry
  BY <1>6 DEF FillEntry, Promised, Unsettled
<1>7. CASE \E c \in Callers : Create(c)
  BY <1>0, <1>1, <1>7, CreateType DEF env
<1>8. CASE HealStart \/ HealCancel \/ HealEnd
  BY <1>0, <1>1, <1>8, HealerType DEF env
<1>9. CASE DropLeg \/ SyncRow
  BY <1>0, <1>1, <1>9, LegEventType DEF env
<1>10. CASE FlipMargin \/ SwitchOff \/ EmergencyStop \/ UNCHANGED vars
  BY <1>1, <1>10 DEF FlipMargin, SwitchOff, EmergencyStop, vars
<1>11. QED
  BY <1>2, <1>3, <1>4, <1>5, <1>6, <1>7, <1>8, <1>9, <1>10
     DEF Next, FillThread, Healer, Settled, Callers

\* How Phase and Cover read a record.
LEMMA PhaseIs ==
    ASSUME TypeInv
    PROVE  /\ fill.pc = "poll" => Phase = "pending"
           /\ fill.pc = "done" /\ fill.outcome = "unconfirmed" => Phase = "abandoned"
           /\ fill.pc = "done" /\ fill.outcome # "unconfirmed" => Phase = "settled"
           /\ fill.pc = "recovery" => Phase = "recovering"
           /\ fill.pc \in {"start", "attempt", "waiting", "flatten", "gap"} => Phase = "working"
BY DEF Phase, TypeInv, TypeOK, FillPcs

LEMMA CoverIs ==
    /\ position = "flat" => Cover = "flat"
    /\ position # "flat" /\ fill.outcome = "close_failed" => Cover = "operator"
    /\ position # "flat" /\ fill.outcome # "close_failed" =>
         Cover = IF IsLive(legs, "SL") THEN "stop" ELSE "none"
BY DEF Cover

\* Every step is one of the promise's, or leaves phase and cover alone.
LEMMA PromiseStep ==
    ASSUME Promised, Promised', Honest, MaxHeals = 0, [Next]_vars
    PROVE  [Promise!Next]_<<Phase, Cover>>
<1>0. /\ TypeInv /\ TypeInv' /\ fill \in FillRecord /\ Undisturbed /\ Threading /\ GapSound
      /\ Confirmation /\ Unsettled /\ Unsettled' /\ RowsTrue(legs) /\ "fill" \in Callers
      /\ legs \in Seq(Leg)
  BY TypeFacts DEF Promised, Guarded, TypeInv, TypeOK, FillRecord, LegsSound, Callers
<1> DEFINE stop == IF IsLive(legs, "SL") THEN "stop" ELSE "none"
<1>1. fill.pc # "done" => Cover = stop
  BY <1>0, CoverIs DEF Unsettled
<1>2. fill'.pc # "done" => Cover' = stop'
  BY <1>0, CoverIs DEF Unsettled, Cover, IsLive
<1>3. /\ fill'.pc = "poll" => Phase' = "pending"
      /\ fill'.pc = "done" /\ fill'.outcome = "unconfirmed" => Phase' = "abandoned"
      /\ fill'.pc = "done" /\ fill'.outcome # "unconfirmed" => Phase' = "settled"
      /\ fill'.pc = "recovery" => Phase' = "recovering"
      /\ fill'.pc \in {"start", "attempt", "waiting", "flatten", "gap"} => Phase' = "working"
  BY <1>0 DEF Phase, TypeInv, TypeOK, FillPcs
<1>4. legs' = legs => stop' = stop
  BY DEF IsLive, LiveLegs
<1> HIDE DEF stop
\* The steps that touch neither the legs nor what the thread has settled.
<1>5. ASSUME UNCHANGED <<legs, position, fill>> PROVE UNCHANGED <<Phase, Cover>>
  BY <1>5 DEF Phase, Cover, IsLive, LiveLegs
<1>6. ASSUME fill.pc # "done", fill'.pc # "done", legs' = legs, Phase' = Phase
      PROVE  UNCHANGED <<Phase, Cover>>
  BY <1>1, <1>2, <1>4, <1>6
<1>7. stop' \in {"none", "stop"} /\ stop \in {"none", "stop"}
  BY DEF stop
<1>8. CASE Create("fill")
  <2>1. impl["fill"].pc # "idle" /\ UNCHANGED <<position, fill>>
    <3>1. impl["fill"].pc # "idle"
      BY <1>8 DEF Create, Read, EnsureOco, CancelForOco, PlaceNativeOco, CancelBeforeTP,
                   TakeProfit, CancelAfterTP, TakeProfitAgain, StopLoss
    <3>2. QED BY <1>0, <1>8, <3>1, CreateType
  <2>2. fill.pc \in {"waiting", "recovery"}
    BY <1>0, <2>1 DEF Threading
  <2>3. Phase \in {"working", "recovering"} /\ Phase' = Phase
    BY <1>0, <2>1, <2>2, PhaseIs DEF Phase
  <2>4. Cover' \in {"none", "stop"}
    BY <1>2, <1>7, <2>1, <2>2
  <2>5. QED BY <2>3, <2>4 DEF Promise!Next, Promise!Work
<1>9. CASE PollFill
  <2>1. /\ UNCHANGED <<legs, position>> /\ fill.pc = "poll"
        /\ \/ fill' = [fill EXCEPT !.pc = "start"]
           \/ fill' = [fill EXCEPT !.pc = "done", !.outcome = "unconfirmed"]
    BY <1>9 DEF PollFill, Settle
  <2>2. Phase = "pending" /\ Cover = stop
    BY <1>0, <1>1, <2>1, PhaseIs
  <2>3. CASE fill' = [fill EXCEPT !.pc = "start"]
    <3>1. fill'.pc = "start"
      BY <1>0, <2>3 DEF FillRecord
    <3>2. Phase' = "working" /\ Cover' = stop
      BY <1>2, <1>3, <1>4, <2>1, <3>1
    <3>3. QED BY <2>2, <3>2 DEF Promise!Next, Promise!Begin
  <2>4. CASE fill' = [fill EXCEPT !.pc = "done", !.outcome = "unconfirmed"]
    <3>1. fill'.pc = "done" /\ fill'.outcome = "unconfirmed"
      BY <1>0, <2>4 DEF FillRecord
    <3>2. position # "flat" /\ position' # "flat"
      BY <1>0, <2>1 DEF Unsettled
    <3>3. Phase' = "abandoned" /\ Cover' = stop
      BY <1>3, <1>4, <2>1, <3>1, <3>2 DEF Cover, stop
    <3>4. QED BY <2>2, <3>3 DEF Promise!Next, Promise!Abandon
  <2>5. QED BY <2>1, <2>3, <2>4
<1>10. CASE StartProtection
  <2>1. /\ UNCHANGED <<legs, position>> /\ fill.pc = "start"
        /\ \/ \E pc \in {"flatten", "attempt"} : fill' = [fill EXCEPT !.pc = pc]
           \/ /\ ActiveLeg(legs, "SL") # 0
              /\ fill' = [fill EXCEPT !.pc = "done", !.outcome = "protected"]
    BY <1>10, Zenon DEF StartProtection, Settle
  <2>2. Phase = "working" /\ Cover = stop
    BY <1>0, <1>1, <2>1, PhaseIs
  <2>3. CASE \E pc \in {"flatten", "attempt"} : fill' = [fill EXCEPT !.pc = pc]
    <3>1. fill'.pc \in {"flatten", "attempt"}
      BY <1>0, <2>3 DEF FillRecord
    <3>2. QED BY <1>3, <1>6, <2>1, <2>2, <3>1
  <2>4. CASE /\ ActiveLeg(legs, "SL") # 0
             /\ fill' = [fill EXCEPT !.pc = "done", !.outcome = "protected"]
    <3>1. fill'.pc = "done" /\ fill'.outcome = "protected"
      BY <1>0, <2>4 DEF FillRecord
    <3>2. stop = "stop" /\ position' # "flat"
      BY <1>0, <2>1, <2>4, ActiveIsLive DEF stop, Unsettled
    <3>3. Phase' = "settled" /\ Cover' = "stop"
      BY <1>3, <1>4, <2>1, <3>1, <3>2 DEF Cover, stop
    <3>4. QED BY <2>2, <3>2, <3>3 DEF Promise!Next, Promise!Settle
  <2>5. QED BY <2>1, <2>3, <2>4
<1>11. CASE Attempt
  <2>1. fill.pc = "attempt" /\ fill'.pc = "waiting" /\ legs' = legs
    BY <1>0, <1>11 DEF Attempt, FillRecord
  <2>2. Phase = "working" /\ Phase' = "working"
    BY <1>0, <1>3, <2>1, PhaseIs
  <2>3. QED BY <1>6, <2>1, <2>2
<1>12. CASE Judge
  <2> DEFINE r == impl["fill"].result
             next == CASE ~LastAttempt(r) -> "attempt"
                       [] LastAttempt(r) /\ ~ConfirmsSL(r) -> "flatten"
                       [] LastAttempt(r) /\ ConfirmsSL(r) /\ ~ConfirmsTP(r) -> "gap"
                       [] OTHER -> "done"
  <2>1. /\ UNCHANGED <<legs, position>> /\ impl["fill"].pc = "back" /\ fill.pc = "waiting"
        /\ fill' = [fill EXCEPT !.pc = next, !.created = r,
                                !.outcome = IF next = "done" THEN "protected" ELSE fill.outcome]
    BY <1>12 DEF Judge
  <2>2. next \in {"attempt", "flatten", "gap", "done"} /\ (next = "done" => ConfirmsSL(r))
    OBVIOUS
  <2>3. AnswerSound(legs, r)
    BY <2>1 DEF Promised, Guarded, RoutineSound
  <2> HIDE DEF next, r
  <2>4. fill'.pc = next /\ (next = "done" => fill'.outcome = "protected")
    BY <1>0, <2>1 DEF FillRecord
  <2>5. Phase = "working" /\ Cover = stop
    BY <1>0, <1>1, <2>1, PhaseIs
  <2>6. CASE next # "done"
    BY <1>3, <1>6, <2>1, <2>2, <2>4, <2>5, <2>6
  <2>7. CASE next = "done"
    <3>1. stop = "stop" /\ position' # "flat"
      BY <1>0, <2>1, <2>2, <2>3, <2>7 DEF AnswerSound, IsLive, stop, Unsettled
    <3>2. Phase' = "settled" /\ Cover' = "stop"
      BY <1>3, <1>4, <2>1, <2>4, <2>7, <3>1 DEF Cover, stop
    <3>3. QED BY <2>5, <3>1, <3>2 DEF Promise!Next, Promise!Settle
  <2>8. QED BY <2>6, <2>7
<1>13. CASE Flatten
  <2>1. /\ legs' = legs /\ fill.pc = "flatten"
        /\ \/ position' = "flat" /\ fill' = [fill EXCEPT !.pc = "done", !.outcome = "flattened"]
           \/ /\ position' = position
              /\ fill' = [fill EXCEPT !.pc = "done", !.outcome = "close_failed"]
    BY <1>13 DEF Flatten, Settle
  <2>2. /\ fill'.pc = "done" /\ fill'.outcome # "unconfirmed"
        /\ \/ position' = "flat"
           \/ position' # "flat" /\ fill'.outcome = "close_failed"
    BY <1>0, <2>1 DEF FillRecord, Unsettled
  <2>3. Phase = "working" /\ Phase' = "settled"
    BY <1>0, <1>3, <2>1, <2>2, PhaseIs
  <2>4. Cover' \in {"flat", "operator"}
    BY <2>2 DEF Cover
  <2>5. QED BY <2>3, <2>4 DEF Promise!Next, Promise!Settle
<1>14. CASE GapCancel
  <2>1. fill.pc = "gap" /\ fill'.pc = "recovery"
    BY <1>0, <1>14 DEF GapCancel, FillRecord
  <2>2. Phase = "working" /\ Phase' = "recovering"
    BY <1>0, <1>3, <2>1, PhaseIs
  <2>3. Cover = "stop" /\ Cover' \in {"none", "stop"}
    BY <1>0, <1>1, <1>2, <1>7, <2>1 DEF GapSound, stop
  <2>4. QED BY <2>2, <2>3 DEF Promise!Next, Promise!Recover
<1>15. CASE GapJudge
  <2>1. /\ fill.pc = "recovery" /\ UNCHANGED <<legs, position>> /\ fill'.pc = "done"
        /\ fill'.outcome \in {"protected", "tp_recovered", "tp_missing"}
    BY <1>0, <1>15 DEF GapJudge, FillRecord
  <2>2. Phase = "recovering" /\ Phase' = "settled" /\ Cover = stop
    BY <1>0, <1>1, <1>3, <2>1, PhaseIs
  <2>3. Cover' = stop
    BY <1>0, <1>4, <2>1 DEF Cover, Unsettled, stop
  <2>4. QED BY <2>2, <2>3 DEF Promise!Next, Promise!EndRecovery
<1>16. CASE FillEntry
  <2>1. position # "flat" /\ position' # "flat" /\ UNCHANGED <<legs, fill>>
    BY <1>0, <1>16 DEF FillEntry, Unsettled
  <2>2. QED BY <2>1 DEF Phase, Cover, IsLive, LiveLegs
<1>17. CASE EmergencyStop \/ UNCHANGED vars
  BY <1>5, <1>17 DEF EmergencyStop, vars
<1>18. /\ ~DropLeg /\ ~FlipMargin /\ ~SwitchOff /\ ~SyncRow
       /\ ~Create("heal") /\ ~HealStart /\ ~HealCancel /\ ~HealEnd
  <2>1. heal.passes \in 0..0 /\ heal.pc = "asleep" /\ impl["heal"].pc = "idle"
    BY <1>0 DEF TypeInv, TypeOK, Undisturbed
  <2>2. ~Create("heal")
    BY <2>1 DEF Create, Read, EnsureOco, CancelForOco, PlaceNativeOco, CancelBeforeTP,
                TakeProfit, CancelAfterTP, TakeProfitAgain, StopLoss
  <2>3. ~HealStart /\ ~HealCancel /\ ~HealEnd
    BY <2>1 DEF HealStart, HealCancel, HealEnd
  <2>4. ~DropLeg /\ ~FlipMargin /\ ~SwitchOff
    BY DEF DropLeg, FlipMargin, SwitchOff, Honest, Misleading
  <2>5. ~SyncRow
    BY <1>0 DEF SyncRow, RowsTrue
  <2>6. QED BY <2>2, <2>3, <2>4, <2>5
<1>19. QED
  BY <1>8, <1>9, <1>10, <1>11, <1>12, <1>13, <1>14, <1>15, <1>16, <1>17, <1>18
     DEF Next, FillThread, Healer, Settled

\* The thread implements EntryPromise: it settles a lot only when covered by a
\* stop-loss, closed, or handed to an operator, the recovery of a missing
\* take-profit apart, and it never touches a lot it has settled.
THEOREM KeepsPromise == ASSUME Honest, MaxHeals = 0 PROVE Spec => PromiseKept
<1>1. Init => Promised /\ Promise!Init
  <2> SUFFICES ASSUME Init PROVE Promised /\ Promise!Init
    OBVIOUS
  <2>1. Guarded
    BY GuardedInit
  <2>2. fill.pc = "poll" /\ fill.outcome = "none" /\ position = "none" /\ legs = <<>>
    BY DEF Init
  <2>3. ~IsLive(legs, "SL")
    BY <2>2 DEF IsLive, LiveLegs
  <2>4. QED BY <2>1, <2>2, <2>3 DEF Promised, Unsettled, Promise!Init, Phase, Cover
<1>2. Promised /\ [Next]_vars => Promised'
  BY GuardedNext, UnsettledNext DEF Promised
<1>3. Promised /\ Promised' /\ [Next]_vars => [Promise!Next]_(Promise!vars)
  BY PromiseStep DEF Promise!vars
<1>4. QED BY <1>1, <1>2, <1>3, PTL DEF Spec, PromiseKept, Promise!Spec
===============================================================================
