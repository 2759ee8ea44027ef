------------------------- MODULE EntryHealing_proofs -------------------------
(* The thread and the healer on one lot, together and for any number of the  *)
(* healer's passes: one resting leg of each role, the hard invariant and the *)
(* healer's part in it, each under the faults that leave it standing; and    *)
(* the spot half of the invariant under every fault but a change of the      *)
(* margin mode.                                                              *)
EXTENDS EntryProtection_proofs

-----------------------------------------------------------------------------
(* What the calls do to the legs, fault by fault.                            *)

\* M is L with orders placed after it.
Grows(L, M) == /\ M \in Seq(Leg) /\ DOMAIN L \subseteq DOMAIN M
               /\ \A i \in DOMAIN L : M[i] = L[i]

\* Every leg that rests has its active row; no two active rows of one role;
\* every active row of a stop-loss is a resting order.
Known(L)  == \A i \in DOMAIN L : L[i].exch = "live" => L[i].row = "active"
OneRow(L) == \A role \in Roles : \A i, j \in ActiveRows(L, role) : i = j
TrueSL(L) == \A i \in DOMAIN L : L[i].role = "SL" /\ L[i].row = "active" => L[i].exch = "live"

HasSL(L) == \E i \in DOMAIN L : L[i].role = "SL"
Recorded(L) == \E i \in DOMAIN L : L[i].row # "none"

LEMMA GrowsOne ==
    ASSUME NEW L \in Seq(Leg), NEW leg \in Leg
    PROVE  /\ Grows(L, Append(L, leg))
           /\ DOMAIN Append(L, leg) = (DOMAIN L) \cup {Len(L) + 1}
           /\ Len(L) + 1 \notin DOMAIN L /\ Len(L) + 1 \in Nat \ {0}
           /\ Append(L, leg)[Len(L) + 1] = leg
BY DEF Grows

\* What resting and recorded legs there were, there are.
LEMMA GrowsKeeps ==
    ASSUME NEW L, NEW M, Grows(L, M)
    PROVE  /\ \A role : LiveLegs(L, role) \subseteq LiveLegs(M, role)
           /\ IsLive(L, "SL") => IsLive(M, "SL")
           /\ HasSL(L) => HasSL(M)
           /\ \A role : (\A i \in DOMAIN M : i \in DOMAIN L \/ M[i].role # role) =>
                 /\ LiveLegs(M, role) = LiveLegs(L, role)
                 /\ ActiveRows(M, role) = ActiveRows(L, role)
<1>1. \A role : LiveLegs(L, role) \subseteq LiveLegs(M, role)
  BY DEF Grows, LiveLegs
<1>2. HasSL(L) => HasSL(M)
  BY DEF Grows, HasSL
<1>3. \A role : (\A i \in DOMAIN M : i \in DOMAIN L \/ M[i].role # role) =>
                 /\ LiveLegs(M, role) = LiveLegs(L, role)
                 /\ ActiveRows(M, role) = ActiveRows(L, role)
  BY DEF Grows, LiveLegs, ActiveRows
<1>4. QED BY <1>1, <1>2, <1>3 DEF IsLive

\* A leg is placed (P is what became of the legs), or nothing is.
Rests(L, P, role) ==
    /\ Grows(L, P)
    /\ DOMAIN P = (DOMAIN L) \cup {Len(L) + 1} /\ Len(L) + 1 \notin DOMAIN L
    /\ P[Len(L) + 1].role = role /\ P[Len(L) + 1].exch = "live"
    /\ P[Len(L) + 1].row \in {"active", "none"}
    /\ P[Len(L) + 1].row = "none" => Faults \cap {"unsaved", "lost"} # {}

LEMMA PlaceLegEffect ==
    ASSUME NEW L \in Seq(Leg), NEW role \in Roles, NEW o \in PlaceLeg(L, role)
    PROVE  \/ /\ Rests(L, o.legs, role)
              /\ \/ o.answer = Placed(Len(L) + 1) /\ Confirmed(o.answer)
                 \/ "lost" \in Faults /\ ~Confirmed(o.answer)
           \/ o.legs = L /\ \E e \in Refusals : o.answer = Failed(e)
<1> DEFINE n == Len(L) + 1
           with(row) == Append(L, NewLeg(role, "live", row))
<1>1. \A row \in {"active", "none"} :
        (row = "none" => Faults \cap {"unsaved", "lost"} # {}) => Rests(L, with(row), role)
  <2> TAKE row \in {"active", "none"}
  <2> DEFINE leg == NewLeg(role, "live", row)
  <2>1. leg \in Leg /\ leg.role = role /\ leg.exch = "live" /\ leg.row = row
    BY DEF NewLeg, Leg, ExchStates, RowStates
  <2> HIDE DEF leg
  <2>2. QED BY <2>1, GrowsOne DEF leg, Rests
<1>2. \/ o = [legs |-> with("active"), answer |-> Placed(n)]
      \/ "unsaved" \in Faults /\ o = [legs |-> with("none"), answer |-> Placed(n)]
      \/ "lost" \in Faults /\ o = [legs |-> with("none"), answer |-> Failed("refused")]
      \/ \E e \in Refusals : o = [legs |-> L, answer |-> Failed(e)]
  <2> HIDE DEF with, n
  <2>1. QED BY Zenon DEF PlaceLeg, Kinds, with, n
<1> HIDE DEF with
<1>3. Confirmed(Placed(n)) /\ ~Confirmed(Failed("refused"))
  BY AnswerTypes DEF Confirmed, Errors
<1>4. CASE o = [legs |-> with("active"), answer |-> Placed(n)]
  BY <1>1, <1>3, <1>4
<1>5. CASE "unsaved" \in Faults /\ o = [legs |-> with("none"), answer |-> Placed(n)]
  BY <1>1, <1>3, <1>5
<1>6. CASE "lost" \in Faults /\ o = [legs |-> with("none"), answer |-> Failed("refused")]
  BY <1>1, <1>3, <1>6
<1>7. CASE \E e \in Refusals : o = [legs |-> L, answer |-> Failed(e)]
  BY <1>7
<1>8. QED BY <1>2, <1>4, <1>5, <1>6, <1>7

\* The outcome o of placing a leg of the role: it rests, and is answered with its
\* number or not at all, or the call is refused.
PlacedOrRefused(L, role, o) ==
    \/ /\ Rests(L, o.legs, role)
       /\ \/ o.answer = Placed(Len(L) + 1) /\ Confirmed(o.answer)
          \/ "lost" \in Faults /\ ~Confirmed(o.answer)
    \/ o.legs = L /\ \E e \in Refusals : o.answer = Failed(e)

\* The active row of the role is the answer.
Reuses(L, role, o) == /\ ActiveLeg(L, role) # 0 /\ o.legs = L
                      /\ o.answer = Placed(ActiveLeg(L, role))

\* A stop-loss dead on arrival, which nobody polls.
DiesUnseen(L, o) ==
    /\ "deadSL" \in Faults
    /\ Grows(L, o.legs) /\ DOMAIN o.legs = (DOMAIN L) \cup {Len(L) + 1}
    /\ o.legs[Len(L) + 1] = NewLeg("SL", "rejected", "active")

LEMMA StopLossEffect ==
    ASSUME NEW L \in Seq(Leg), NEW o \in PlaceStopLoss(L)
    PROVE  \/ Reuses(L, "SL", o)
           \/ o.legs = L /\ \E e \in Refusals : o.answer = Failed(e)
           \/ ActiveLeg(L, "SL") = 0 /\ (PlacedOrRefused(L, "SL", o) \/ DiesUnseen(L, o))
<1> DEFINE row == ActiveLeg(L, "SL")
           leg == NewLeg("SL", "rejected", "active")
           dead == Append(L, leg)
<1>1. \/ row # 0 /\ o = [legs |-> L, answer |-> Placed(row)]
      \/ \E e \in Refusals : o = [legs |-> L, answer |-> Failed(e)]
      \/ row = 0 /\ o \in PlaceLeg(L, "SL")
      \/ row = 0 /\ "deadSL" \in Faults /\ o = [legs |-> dead, answer |-> Placed(Len(L) + 1)]
  <2> HIDE DEF row
  <2>1. QED BY Zenon DEF PlaceStopLoss, Kinds, row
<1>2. Grows(L, dead) /\ DOMAIN dead = (DOMAIN L) \cup {Len(L) + 1} /\ dead[Len(L) + 1] = leg
  <2>1. leg \in Leg
    BY DEF NewLeg, Leg, Roles, ExchStates, RowStates
  <2> HIDE DEF leg
  <2>2. QED BY <2>1, GrowsOne
<1> HIDE DEF dead
<1>3. CASE row # 0 /\ o = [legs |-> L, answer |-> Placed(row)]
  BY <1>3 DEF Reuses
<1>4. CASE \E e \in Refusals : o = [legs |-> L, answer |-> Failed(e)]
  BY <1>4
<1>5. CASE row = 0 /\ o \in PlaceLeg(L, "SL")
  BY <1>5, PlaceLegEffect DEF PlacedOrRefused, Roles
<1>6. CASE row = 0 /\ "deadSL" \in Faults /\ o = [legs |-> dead, answer |-> Placed(Len(L) + 1)]
  BY <1>2, <1>6 DEF DiesUnseen
<1>7. QED BY <1>1, <1>3, <1>4, <1>5, <1>6

\* M is L with one or two take-profits found dead after it, both recorded so.
Buries(L, M) ==
    /\ "deadTP" \in Faults /\ Grows(L, M)
    /\ \A i \in (DOMAIN M) \ (DOMAIN L) :
         M[i].role = "TP" /\ M[i].exch = "rejected" /\ M[i].row = "rejected"

\* A take-profit is placed, perhaps after one found dead, or it is given up.
LEMMA TakeProfitEffect ==
    ASSUME NEW L \in Seq(Leg), NEW o \in PlaceTakeProfit(L)
    PROVE  \/ Reuses(L, "TP", o)
           \/ ActiveLeg(L, "TP") = 0 /\ PlacedOrRefused(L, "TP", o)
           \/ ActiveLeg(L, "TP") = 0 /\ Buries(L, o.legs) /\ ~Confirmed(o.answer)
           \/ /\ ActiveLeg(L, "TP") = 0
              /\ \E M \in Seq(Leg) : Buries(L, M) /\ PlacedOrRefused(M, "TP", o)
<1> DEFINE row == ActiveLeg(L, "TP")
           leg == NewLeg("TP", "rejected", "rejected")
           dead(M) == Append(M, leg)
<1>1. \A M \in Seq(Leg) : /\ dead(M) \in Seq(Leg) /\ Grows(M, dead(M))
                          /\ DOMAIN dead(M) = (DOMAIN M) \cup {Len(M) + 1}
                          /\ dead(M)[Len(M) + 1] = leg
  <2>1. leg \in Leg
    BY DEF NewLeg, Leg, Roles, ExchStates, RowStates
  <2> HIDE DEF leg
  <2> TAKE M \in Seq(Leg)
  <2>2. QED BY <2>1, GrowsOne
<1>2. leg.role = "TP" /\ leg.exch = "rejected" /\ leg.row = "rejected"
  BY DEF NewLeg
<1>3. \/ row # 0 /\ o = [legs |-> L, answer |-> Placed(row)]
      \/ row = 0 /\ o \in PlaceLeg(L, "TP")
      \/ /\ row = 0 /\ "deadTP" \in Faults
         /\ \/ o = [legs |-> dead(L), answer |-> Failed("refused")]
            \/ o = [legs |-> dead(dead(L)), answer |-> Failed("refused")]
            \/ o \in PlaceLeg(dead(L), "TP")
  <2> HIDE DEF row
  <2>1. QED BY Zenon DEF PlaceTakeProfit, Kinds, row
<1> HIDE DEF dead, leg
<1>4. "deadTP" \in Faults => Buries(L, dead(L)) /\ Buries(L, dead(dead(L)))
  <2>1. \A M \in Seq(Leg) : Buries(L, M) => Buries(L, dead(M))
    BY <1>1, <1>2 DEF Buries, Grows
  <2>2. "deadTP" \in Faults => Buries(L, L)
    BY DEF Buries, Grows
  <2>3. QED BY <1>1, <2>1, <2>2
<1>5. CASE row # 0 /\ o = [legs |-> L, answer |-> Placed(row)]
  BY <1>5 DEF Reuses
<1>6. CASE row = 0 /\ o \in PlaceLeg(L, "TP")
  BY <1>6, PlaceLegEffect DEF PlacedOrRefused, Roles
<1>7. CASE /\ row = 0 /\ "deadTP" \in Faults
           /\ \/ o = [legs |-> dead(L), answer |-> Failed("refused")]
              \/ o = [legs |-> dead(dead(L)), answer |-> Failed("refused")]
  <2>1. ~Confirmed(Failed("refused"))
    BY AnswerTypes DEF Errors
  <2>2. QED BY <1>4, <1>7, <2>1
<1>8. CASE row = 0 /\ "deadTP" \in Faults /\ o \in PlaceLeg(dead(L), "TP")
  <2>1. dead(L) \in Seq(Leg) /\ "TP" \in Roles
    BY <1>1 DEF Roles
  <2>2. PlacedOrRefused(dead(L), "TP", o)
    BY <1>8, <2>1, PlaceLegEffect DEF PlacedOrRefused
  <2>3. QED BY <1>4, <1>8, <2>1, <2>2
<1>9. QED BY <1>3, <1>5, <1>6, <1>7, <1>8

\* Two legs of one list rest, and their rows are there or not together.
Pairs(L, M, row) ==
    LET n == Len(L)
    IN  /\ Grows(L, M)
        /\ DOMAIN M = (DOMAIN L) \cup {n + 1, n + 2} /\ {n + 1, n + 2} \cap DOMAIN L = {}
        /\ M[n + 1].role = "SL" /\ M[n + 1].exch = "live"
        /\ M[n + 2].role = "TP" /\ M[n + 2].exch = "live"
        /\ row \in {"active", "none"} /\ M[n + 1].row = row /\ M[n + 2].row = row
        /\ row = "none" => Faults \cap {"unsaved", "lost"} # {}

NewPair(L) == [already |-> FALSE, sl |-> Placed(Len(L) + 1), tp |-> Placed(Len(L) + 2)]

\* A list of both legs: they were there, it is refused, or it rests.
LEMMA OcoEffect ==
    ASSUME NEW L \in Seq(Leg), NEW allowed \in BOOLEAN, NEW o \in PlaceOco(L, allowed)
    PROVE  \/ /\ ActiveLeg(L, "SL") # 0 /\ ActiveLeg(L, "TP") # 0 /\ o.legs = L
              /\ o.answer = [already |-> TRUE, sl |-> Placed(ActiveLeg(L, "SL")),
                                               tp |-> Placed(ActiveLeg(L, "TP"))]
           \/ ~allowed /\ o.legs = L /\ o.answer = OcoFailed("blocked")
           \/ o.legs = L /\ \E e \in Refusals : o.answer = OcoFailed(e)
           \/ /\ allowed /\ ~(ActiveLeg(L, "SL") # 0 /\ ActiveLeg(L, "TP") # 0)
              /\ \/ o.answer = NewPair(L) /\ \E row : Pairs(L, o.legs, row)
                 \/ /\ "lost" \in Faults /\ o.answer = OcoFailed("refused")
                    /\ Pairs(L, o.legs, "none")
<1> DEFINE sl == ActiveLeg(L, "SL")
           tp == ActiveLeg(L, "TP")
           n == Len(L)
           pair(row) == L \o <<NewLeg("SL", "live", row), NewLeg("TP", "live", row)>>
           both == [already |-> TRUE, sl |-> Placed(sl), tp |-> Placed(tp)]
           created == [already |-> FALSE, sl |-> Placed(n + 1), tp |-> Placed(n + 2)]
<1>1. \A row \in {"active", "none"} :
        (row = "none" => Faults \cap {"unsaved", "lost"} # {}) => Pairs(L, pair(row), row)
  <2> TAKE row \in {"active", "none"}
  <2> DEFINE a == NewLeg("SL", "live", row)
             b == NewLeg("TP", "live", row)
             M == Append(L, a)
  <2>1. /\ a \in Leg /\ a.role = "SL" /\ a.exch = "live" /\ a.row = row
        /\ b \in Leg /\ b.role = "TP" /\ b.exch = "live" /\ b.row = row
    BY DEF NewLeg, Leg, Roles, ExchStates, RowStates
  <2> HIDE DEF a, b
  <2>2. L \o <<a, b>> = Append(M, b)
    BY <2>1
  <2>3. M \in Seq(Leg) /\ Len(M) = n + 1 /\ Len(M) + 1 = n + 2 /\ n \in Nat
    BY <2>1, LegAppended
  <2>4. /\ Grows(L, M) /\ DOMAIN M = (DOMAIN L) \cup {n + 1} /\ n + 1 \notin DOMAIN L
        /\ M[n + 1] = a
    BY <2>1, GrowsOne
  <2> HIDE DEF M
  <2>5. /\ Grows(M, Append(M, b)) /\ DOMAIN Append(M, b) = (DOMAIN M) \cup {n + 2}
        /\ n + 2 \notin DOMAIN M /\ Append(M, b)[n + 2] = b
    BY <2>1, <2>3, GrowsOne
  <2> DEFINE P == Append(M, b)
  <2>6. pair(row) = P
    BY <2>2 DEF a, b
  <2>7. Grows(M, P) /\ DOMAIN P = (DOMAIN M) \cup {n + 2} /\ n + 2 \notin DOMAIN M /\ P[n + 2] = b
    BY <2>5
  <2> HIDE DEF P, pair
  <2>8. /\ Grows(L, P) /\ DOMAIN P = (DOMAIN L) \cup {n + 1, n + 2}
        /\ {n + 1, n + 2} \cap DOMAIN L = {} /\ P[n + 1] = a /\ P[n + 2] = b
    BY <2>4, <2>7 DEF Grows
  <2>9. QED BY <2>1, <2>6, <2>8 DEF Pairs
<1>2. \/ sl # 0 /\ tp # 0 /\ o = [legs |-> L, answer |-> both]
      \/ ~allowed /\ o = [legs |-> L, answer |-> OcoFailed("blocked")]
      \/ \E e \in Refusals : o = [legs |-> L, answer |-> OcoFailed(e)]
      \/ /\ ~(sl # 0 /\ tp # 0) /\ allowed
         /\ \/ o = [legs |-> pair("active"), answer |-> created]
            \/ "unsaved" \in Faults /\ o = [legs |-> pair("none"), answer |-> created]
            \/ "lost" \in Faults /\ o = [legs |-> pair("none"), answer |-> OcoFailed("refused")]
  <2> HIDE DEF sl, tp, n
  <2>1. QED BY Zenon DEF PlaceOco, Kinds, sl, tp, n
<1> HIDE DEF pair
<1>3. CASE sl # 0 /\ tp # 0 /\ o = [legs |-> L, answer |-> both]
  BY <1>3
<1>4. CASE ~allowed /\ o = [legs |-> L, answer |-> OcoFailed("blocked")]
  BY <1>4
<1>5. CASE \E e \in Refusals : o = [legs |-> L, answer |-> OcoFailed(e)]
  BY <1>5
<1>6. CASE /\ ~(sl # 0 /\ tp # 0) /\ allowed
           /\ \/ o = [legs |-> pair("active"), answer |-> created]
              \/ "unsaved" \in Faults /\ o = [legs |-> pair("none"), answer |-> created]
              \/ "lost" \in Faults /\ o = [legs |-> pair("none"), answer |-> OcoFailed("refused")]
  <2>1. /\ Pairs(L, pair("active"), "active") /\ created = NewPair(L)
        /\ "unsaved" \in Faults \/ "lost" \in Faults => Pairs(L, pair("none"), "none")
    BY <1>1 DEF NewPair
  <2> HIDE DEF created, sl, tp, n
  <2>2. \/ o.answer = created /\ \E row : Pairs(L, o.legs, row)
        \/ /\ "lost" \in Faults /\ o.answer = OcoFailed("refused")
           /\ Pairs(L, o.legs, "none")
    BY <1>6, <2>1
  <2>3. allowed /\ ~(sl # 0 /\ tp # 0)
    BY <1>6
  <2>4. QED BY <2>1, <2>2, <2>3, Zenon DEF sl, tp
<1>7. QED BY <1>2, <1>3, <1>4, <1>5, <1>6

\* A cancellation touches one leg; where it succeeds that leg is off the
\* exchange (unless live trading is off) and its row is marked (unless unmarked).
LEMMA CancelEffect ==
    ASSUME NEW L \in Seq(Leg), NEW i, NEW on \in BOOLEAN, NEW o \in CancelLeg(L, i, on)
    PROVE  /\ o.legs \in Seq(Leg) /\ DOMAIN o.legs = DOMAIN L /\ o.ok \in BOOLEAN
           /\ ~o.ok => o.legs = L
           /\ \A j \in DOMAIN L : j # i => o.legs[j] = L[j]
           /\ i \in DOMAIN L /\ o.ok =>
                /\ o.legs[i].role = L[i].role
                /\ on => o.legs[i].exch # "live"
                /\ ~on => o.legs[i].exch = L[i].exch
                /\ \/ o.legs[i].row = "cancelled"
                   \/ "unmarked" \in Faults /\ o.legs[i].row = L[i].row
<1> DEFINE off == IF on THEN [L EXCEPT ![i].exch = IF @ = "live" THEN "cancelled" ELSE @] ELSE L
           marked == [off EXCEPT ![i].row = "cancelled"]
<1>1. /\ off \in Seq(Leg) /\ DOMAIN off = DOMAIN L
      /\ \A j \in DOMAIN L : j # i => off[j] = L[j]
      /\ i \in DOMAIN L => /\ off[i].role = L[i].role /\ off[i].row = L[i].row
                           /\ on => off[i].exch # "live"
                           /\ ~on => off[i].exch = L[i].exch
  <2> DEFINE leg == [L[i] EXCEPT !.exch = IF @ = "live" THEN "cancelled" ELSE @]
  <2>1. i \in DOMAIN L => /\ leg \in Leg /\ leg.role = L[i].role /\ leg.row = L[i].row
                          /\ leg.exch # "live"
    <3>1. i \in DOMAIN L => L[i] \in Leg
      OBVIOUS
    <3>2. QED BY <3>1 DEF Leg, ExchStates
  <2>2. off = IF on THEN [L EXCEPT ![i] = leg] ELSE L
    OBVIOUS
  <2> HIDE DEF leg, off
  <2>3. CASE on
    BY <2>1, <2>2, <2>3, LegChanged
  <2>4. CASE ~on
    BY <2>2, <2>4
  <2>5. QED BY <2>3, <2>4
<1>2. /\ marked \in Seq(Leg) /\ DOMAIN marked = DOMAIN L
      /\ \A j \in DOMAIN L : j # i => marked[j] = off[j]
      /\ i \in DOMAIN L => /\ marked[i].exch = off[i].exch /\ marked[i].role = off[i].role
                           /\ marked[i].row = "cancelled"
  <2> HIDE DEF off
  <2> DEFINE leg == [off[i] EXCEPT !.row = "cancelled"]
  <2>1. i \in DOMAIN L => /\ leg \in Leg /\ leg.exch = off[i].exch /\ leg.role = off[i].role
                          /\ leg.row = "cancelled"
    <3>1. i \in DOMAIN L => off[i] \in Leg
      BY <1>1
    <3>2. QED BY <3>1 DEF Leg, RowStates
  <2>2. marked = [off EXCEPT ![i] = leg]
    OBVIOUS
  <2> HIDE DEF leg, marked
  <2>3. QED BY <1>1, <2>1, <2>2, LegChanged
<1>3. \/ o = [legs |-> marked, ok |-> TRUE]
      \/ "unmarked" \in Faults /\ o = [legs |-> off, ok |-> TRUE]
      \/ o = [legs |-> L, ok |-> FALSE]
  BY Zenon DEF CancelLeg, Kinds
<1> HIDE DEF off, marked
<1>4. CASE o = [legs |-> marked, ok |-> TRUE]
  BY <1>1, <1>2, <1>4
<1>5. CASE "unmarked" \in Faults /\ o = [legs |-> off, ok |-> TRUE]
  BY <1>1, <1>5
<1>6. CASE o = [legs |-> L, ok |-> FALSE]
  BY <1>6
<1>7. QED BY <1>3, <1>4, <1>5, <1>6

-----------------------------------------------------------------------------
(* The steps of the routine, read as assignments to one activation.          *)

\* The activation of c becomes one that Q describes; the other caller's stays.
LEMMA StepOther ==
    ASSUME TypeInv, NEW c \in Callers, NEW b \in Activation, Step(c, b)
    PROVE  /\ impl'[c] = b
           /\ \A d \in Callers \ {c} : impl'[d] = impl[d]
           /\ UNCHANGED <<entry, oco, margin, live, killed, position, breaker, fill, heal>>
BY DEF TypeInv, TypeOK, Step, env

\* What the activation b read, or holds, of the two legs.
Holds(b, sl, tp) == b.sl = sl /\ b.tp = tp

LEMMA ReadEffect ==
    ASSUME TypeInv, NEW c \in Callers, Read(c)
    PROVE  LET sl == ActiveLeg(legs, "SL")
               tp == ActiveLeg(legs, "TP")
           IN  /\ legs' = legs /\ impl[c].pc = "read"
               /\ \E b \in Activation :
                    /\ Step(c, b) /\ b.whole = impl[c].whole
                    /\ \/ /\ sl # 0 /\ tp # 0 /\ b.pc = "back" /\ Holds(b, impl[c].sl, impl[c].tp)
                          /\ b.result = Reply("already_protected", Placed(sl), Placed(tp))
                       \/ (sl = 0 \/ tp = 0) /\ Spot /\ b.pc = "oco" /\ Holds(b, sl, tp)
                       \/ /\ sl = 0 \/ tp = 0
                          /\ ~Spot /\ b.pc \in {"sl", "preCancel", "tp"} /\ Holds(b, sl, tp)
                          /\ b.pc = "sl" <=> tp # 0
                          /\ b.pc = "preCancel" => sl # 0
                       \/ "raised" \in Faults /\ b.pc = "back" /\ b.result = Raised
                          /\ Holds(b, impl[c].sl, impl[c].tp)
<1> DEFINE a == impl[c]
           sl == ActiveLeg(legs, "SL")
           tp == ActiveLeg(legs, "TP")
           act == [a EXCEPT !.margin = margin, !.sl = sl, !.tp = tp]
           path == CASE tp # 0 -> "sl"
                     [] tp = 0 /\ sl # 0 /\ (margin => HasRejected(legs, "TP")) -> "preCancel"
                     [] OTHER -> "tp"
           answer == IF tp # 0 THEN Placed(tp) ELSE Nothing
           seen == Reply("already_protected", Placed(sl), Placed(tp))
<1>1. a \in Activation /\ legs \in Seq(Leg) /\ margin \in BOOLEAN
  BY TypeFacts
<1>2. sl \in Nat /\ tp \in Nat
  BY <1>1, ActiveLegFound
<1>3. /\ path \in {"sl", "preCancel", "tp"} /\ (path = "sl" <=> tp # 0)
      /\ path = "preCancel" => sl # 0
  OBVIOUS
<1>4. answer \in Answer /\ seen \in Result
  BY <1>2, AnswerTypes, ResultTypes DEF Statuses
<1>5. legs' = legs /\ a.pc = "read"
  BY DEF Read
<1>6. \/ sl # 0 /\ tp # 0 /\ Step(c, Return(c, seen))
      \/ (sl = 0 \/ tp = 0) /\ Spot /\ Step(c, [act EXCEPT !.pc = "oco"])
      \/ (sl = 0 \/ tp = 0) /\ ~Spot /\ Step(c, [act EXCEPT !.pc = path, !.tpAnswer = answer])
      \/ "raised" \in Faults /\ Step(c, Return(c, Raised))
  <2> HIDE DEF sl, tp, act, path, answer
  <2>1. QED BY Zenon DEF Read, sl, tp, act, path, answer, seen, Spot
<1> HIDE DEF path, answer, seen
<1>7. \A r \in Result : LET b == Return(c, r) IN
        /\ b \in Activation /\ b.pc = "back" /\ b.result = r /\ b.whole = a.whole
        /\ Holds(b, a.sl, a.tp)
  BY <1>1, ReturnType DEF Return, Activation, Holds
<1>8. LET b == [act EXCEPT !.pc = "oco"] IN
        b \in Activation /\ b.pc = "oco" /\ b.whole = a.whole /\ Holds(b, sl, tp)
  BY <1>1, <1>2 DEF Activation, ImplPcs, Holds
<1>9. LET b == [act EXCEPT !.pc = path, !.tpAnswer = answer] IN
        b \in Activation /\ b.pc = path /\ b.whole = a.whole /\ Holds(b, sl, tp)
  BY <1>1, <1>2, <1>3, <1>4 DEF Activation, ImplPcs, Holds
<1> HIDE DEF act, sl, tp
<1>10. CASE sl # 0 /\ tp # 0 /\ Step(c, Return(c, seen))
  BY <1>4, <1>5, <1>7, <1>10 DEF seen, sl, tp
<1>11. CASE (sl = 0 \/ tp = 0) /\ Spot /\ Step(c, [act EXCEPT !.pc = "oco"])
  BY <1>5, <1>8, <1>11 DEF sl, tp
<1>12. CASE (sl = 0 \/ tp = 0) /\ ~Spot /\ Step(c, [act EXCEPT !.pc = path, !.tpAnswer = answer])
  BY <1>3, <1>5, <1>9, <1>12 DEF sl, tp
<1>13. CASE "raised" \in Faults /\ Step(c, Return(c, Raised))
  BY <1>5, <1>7, <1>13, ResultTypes
<1>14. QED BY <1>6, <1>10, <1>11, <1>12, <1>13

\* What the routine, or the healer that called ensure, makes of a list's answer.
LEMMA OcoReturnEffect ==
    ASSUME TypeInv, NEW c \in Callers, NEW answer \in OcoAnswer
    PROVE  LET a == impl[c]
               b == OcoReturn(c, answer)
           IN  /\ b \in Activation /\ b.pc = "back" /\ b.whole = a.whole /\ Holds(b, a.sl, a.tp)
               /\ ConfirmsSL(b.result) => Confirmed(answer.sl) \/ a.sl # 0
               /\ a.sl = 0 /\ a.tp = 0 =>
                    /\ b.result.sl = answer.sl
                    /\ ConfirmsSL(b.result) <=> Confirmed(answer.sl)
                    /\ ConfirmsTP(b.result) <=> Confirmed(answer.tp)
<1> DEFINE a == impl[c]
           given(leg, was) == IF was = 0 THEN leg ELSE [id |-> was, err |-> "none"]
           says == IF answer.already THEN "already_protected" ELSE ""
           plain == Reply(says, answer.sl, answer.tp)
           patched == Reply("", given(answer.sl, a.sl), given(answer.tp, a.tp))
<1>1. a \in Activation /\ a.sl \in Nat /\ a.tp \in Nat /\ answer.sl \in Answer /\ answer.tp \in Answer
  BY TypeFacts DEF Activation, OcoAnswer
<1>2. /\ plain.sl = answer.sl /\ plain.tp = answer.tp
      /\ plain.status \in {"", "already_protected"}
      /\ patched.sl = given(answer.sl, a.sl) /\ patched.tp = given(answer.tp, a.tp)
      /\ patched.status = ""
  BY DEF Reply
<1>3. /\ a.sl = 0 => given(answer.sl, a.sl) = answer.sl
      /\ a.tp = 0 => given(answer.tp, a.tp) = answer.tp
  OBVIOUS
<1>4. \E r \in {plain, patched} : OcoReturn(c, answer) = Return(c, r)
  <2>1. answer.already \in BOOLEAN
    BY DEF OcoAnswer
  <2>2. OcoReply(a, answer) \in {plain, patched}
    BY <2>1 DEF OcoReply
  <2>3. QED BY <2>2 DEF OcoReturn
<1> HIDE DEF plain, patched, given
<1>5. PICK r \in {plain, patched} : OcoReturn(c, answer) = Return(c, r)
  BY <1>4
<1>6. /\ ConfirmsSL(r) => Confirmed(answer.sl) \/ a.sl # 0
      /\ a.sl = 0 /\ a.tp = 0 =>
           /\ r.sl = answer.sl
           /\ ConfirmsSL(r) <=> Confirmed(answer.sl)
           /\ ConfirmsTP(r) <=> Confirmed(answer.tp)
  BY <1>2, <1>3 DEF ConfirmsSL, ConfirmsTP
<1>7. LET b == OcoReturn(c, answer) IN
        /\ b \in Activation /\ b.pc = "back" /\ b.whole = a.whole /\ Holds(b, a.sl, a.tp)
        /\ b.result = r
  BY <1>1, <1>5, OcoReturnType DEF Return, Activation, Holds
<1>8. QED BY <1>6, <1>7

LEMMA EnsureOcoEffect ==
    ASSUME TypeInv, NEW c \in Callers, EnsureOco(c)
    PROVE  LET a  == impl[c]
               sl == IF a.sl # 0 THEN a.sl ELSE ActiveLeg(legs, "SL")
               tp == IF a.tp # 0 THEN a.tp ELSE ActiveLeg(legs, "TP")
           IN  /\ legs' = legs /\ a.pc = "oco"
               /\ \E b \in Activation :
                    /\ Step(c, b) /\ b.whole = a.whole /\ Holds(b, a.sl, a.tp)
                    /\ \/ /\ sl # 0 /\ tp # 0 /\ b.pc = "back"
                          /\ ConfirmsSL(b.result) => sl # 0
                       \/ sl = 0 /\ tp = 0 /\ b.pc = "ocoPlace"
                       \/ /\ sl = 0 \/ tp = 0
                          /\ sl # 0 \/ tp # 0
                          /\ b.pc = "ocoCancel" /\ b.todo = {sl, tp} \ {0}
<1> DEFINE a == impl[c]
           sl == IF a.sl # 0 THEN a.sl ELSE ActiveLeg(legs, "SL")
           tp == IF a.tp # 0 THEN a.tp ELSE ActiveLeg(legs, "TP")
           both == [already |-> TRUE, sl |-> Placed(sl), tp |-> Placed(tp)]
           pc == IF sl = 0 /\ tp = 0 THEN "ocoPlace" ELSE "ocoCancel"
           more == [a EXCEPT !.pc = pc, !.todo = {sl, tp} \ {0}]
<1>1. a \in Activation /\ a.sl \in Nat /\ a.tp \in Nat /\ legs \in Seq(Leg)
  BY TypeFacts DEF Activation
<1>2. sl \in Nat /\ tp \in Nat
  BY <1>1, ActiveLegFound
<1>3. both \in OcoAnswer
  BY <1>2, AnswerTypes DEF OcoAnswer
<1>4. legs' = legs /\ a.pc = "oco"
  BY DEF EnsureOco
<1>5. \/ sl # 0 /\ tp # 0 /\ Step(c, OcoReturn(c, both))
      \/ ~(sl # 0 /\ tp # 0) /\ Step(c, more)
  <2> HIDE DEF sl, tp, pc
  <2>1. QED BY Zenon DEF EnsureOco, sl, tp, pc
<1> HIDE DEF both
<1>6. LET b == OcoReturn(c, both) IN
        b \in Activation /\ b.pc = "back" /\ b.whole = a.whole /\ Holds(b, a.sl, a.tp)
  BY <1>3, OcoReturnEffect
<1> DEFINE left == {sl, tp} \ {0}
<1>7. /\ more \in Activation /\ more.pc = pc /\ more.todo = left
      /\ more.whole = a.whole /\ Holds(more, a.sl, a.tp)
  <2>1. left \in SUBSET Nat
    BY <1>2
  <2>2. pc \in ImplPcs
    BY DEF ImplPcs
  <2> HIDE DEF left, pc
  <2>3. more = [a EXCEPT !.pc = pc, !.todo = left]
    BY DEF left
  <2>4. QED BY <1>1, <2>1, <2>2, <2>3 DEF Activation, Holds
<1> HIDE DEF more
<1>8. CASE sl # 0 /\ tp # 0 /\ Step(c, OcoReturn(c, both))
  BY <1>4, <1>6, <1>8
<1>9. CASE ~(sl # 0 /\ tp # 0) /\ Step(c, more)
  BY <1>4, <1>7, <1>9
<1>10. QED BY <1>5, <1>8, <1>9

LEMMA CancelForOcoEffect ==
    ASSUME TypeInv, NEW c \in Callers, CancelForOco(c)
    PROVE  LET a == impl[c]
           IN  /\ a.pc = "ocoCancel"
               /\ \E i \in a.todo : \E o \in CancelLeg(legs, i, live) : \E b \in Activation :
                    /\ legs' = o.legs
                    /\ Step(c, b) /\ b.whole = a.whole /\ Holds(b, a.sl, a.tp)
                    /\ IF o.ok THEN b.pc = "ocoPlace"
                       ELSE b.pc = "back" /\ (ConfirmsSL(b.result) => a.sl # 0)
<1> DEFINE a == impl[c]
           go == [a EXCEPT !.pc = "ocoPlace", !.todo = {}]
           stop == OcoReturn(c, OcoFailed("not_cancelled"))
<1>1. a \in Activation
  BY TypeFacts
<1>2. PICK i \in a.todo : \E o \in CancelLeg(legs, i, live) :
         legs' = o.legs /\ IF o.ok THEN Step(c, go) ELSE Step(c, stop)
  BY DEF CancelForOco
<1>3. PICK o \in CancelLeg(legs, i, live) :
         legs' = o.legs /\ IF o.ok THEN Step(c, go) ELSE Step(c, stop)
  BY <1>2
<1>4. go \in Activation /\ go.pc = "ocoPlace" /\ go.whole = a.whole /\ Holds(go, a.sl, a.tp)
  BY <1>1 DEF Activation, ImplPcs, Holds
<1>5. OcoFailed("not_cancelled") \in OcoAnswer /\ ~Confirmed(OcoFailed("not_cancelled").sl)
  BY AnswerTypes DEF OcoFailed, OcoAnswer, Errors
<1>6. /\ stop \in Activation /\ stop.pc = "back" /\ stop.whole = a.whole
      /\ Holds(stop, a.sl, a.tp) /\ (ConfirmsSL(stop.result) => a.sl # 0)
  BY <1>5, OcoReturnEffect
<1> HIDE DEF go, stop
<1>7. a.pc = "ocoCancel"
  BY DEF CancelForOco
<1>8. \E b \in Activation :
         /\ Step(c, b) /\ b.whole = a.whole /\ Holds(b, a.sl, a.tp)
         /\ IF o.ok THEN b.pc = "ocoPlace"
            ELSE b.pc = "back" /\ (ConfirmsSL(b.result) => a.sl # 0)
  BY <1>3, <1>4, <1>6
<1>9. QED BY <1>3, <1>7, <1>8

LEMMA PlaceNativeOcoEffect ==
    ASSUME TypeInv, NEW c \in Callers, PlaceNativeOco(c)
    PROVE  LET a == impl[c]
           IN  /\ a.pc = "ocoPlace"
               /\ \E o \in PlaceOco(legs, live /\ ~killed) : \E b \in Activation :
                    /\ legs' = o.legs /\ o.answer \in OcoAnswer
                    /\ Step(c, b) /\ b.whole = a.whole /\ Holds(b, a.sl, a.tp)
                    /\ b.pc = "back"
                    /\ ConfirmsSL(b.result) => Confirmed(o.answer.sl) \/ a.sl # 0
                    /\ a.sl = 0 /\ a.tp = 0 =>
                         /\ ConfirmsSL(b.result) <=> Confirmed(o.answer.sl)
                         /\ ConfirmsTP(b.result) <=> Confirmed(o.answer.tp)
<1>1. PICK o \in PlaceOco(legs, live /\ ~killed) :
         legs' = o.legs /\ Step(c, OcoReturn(c, o.answer))
  BY DEF PlaceNativeOco
<1>2. (live /\ ~killed) \in BOOLEAN
  BY Zenon
<1>3. o.answer \in OcoAnswer
  BY <1>2, TypeFacts, OcoPlaced
<1> DEFINE b == OcoReturn(c, o.answer)
<1>4. /\ b \in Activation /\ b.pc = "back" /\ b.whole = impl[c].whole
      /\ Holds(b, impl[c].sl, impl[c].tp)
      /\ ConfirmsSL(b.result) => Confirmed(o.answer.sl) \/ impl[c].sl # 0
      /\ impl[c].sl = 0 /\ impl[c].tp = 0 =>
           /\ ConfirmsSL(b.result) <=> Confirmed(o.answer.sl)
           /\ ConfirmsTP(b.result) <=> Confirmed(o.answer.tp)
  BY <1>3, OcoReturnEffect
<1>5. Step(c, b) /\ impl[c].pc = "ocoPlace"
  BY <1>1 DEF PlaceNativeOco
<1> HIDE DEF b
<1>6. QED BY <1>1, <1>3, <1>4, <1>5

\* Cancelling the stop-loss before the take-profit, or after it failed.
LEMMA CancelStepEffect ==
    ASSUME TypeInv, NEW c \in Callers, CancelBeforeTP(c) \/ CancelAfterTP(c)
    PROVE  LET a == impl[c]
           IN  /\ a.pc \in {"preCancel", "tpCancel"}
               /\ \E o \in CancelLeg(legs, a.sl, live) : \E b \in Activation :
                    /\ legs' = o.legs
                    /\ Step(c, b) /\ b.whole = a.whole
                    /\ IF o.ok
                       THEN b.pc \in {"tp", "tpAgain"} /\ Holds(b, 0, a.tp)
                       ELSE b.pc \in {"tp", "sl"} /\ Holds(b, a.sl, a.tp)
<1> DEFINE a == impl[c]
<1>1. a \in Activation /\ a.sl \in Nat /\ a.tp \in Nat
  BY TypeFacts DEF Activation
<1>2. PICK o \in CancelLeg(legs, a.sl, live) :
         /\ legs' = o.legs
         /\ \/ o.ok /\ \E pc \in {"tp", "tpAgain"} : Step(c, [a EXCEPT !.pc = pc, !.sl = 0])
            \/ ~o.ok /\ \E pc \in {"tp", "sl"} : Step(c, [a EXCEPT !.pc = pc])
            \/ ~o.ok /\ Step(c, [a EXCEPT !.pc = "sl", !.skipTp = TRUE])
  BY Zenon DEF CancelBeforeTP, CancelAfterTP
<1>3. a.pc \in {"preCancel", "tpCancel"}
  BY DEF CancelBeforeTP, CancelAfterTP
<1>4. CASE o.ok
  <2>1. PICK pc \in {"tp", "tpAgain"} : Step(c, [a EXCEPT !.pc = pc, !.sl = 0])
    BY <1>2, <1>4
  <2> DEFINE b == [a EXCEPT !.pc = pc, !.sl = 0]
  <2>2. b \in Activation /\ b.pc = pc /\ b.whole = a.whole /\ Holds(b, 0, a.tp)
    BY <1>1 DEF Activation, ImplPcs, Holds
  <2>3. Step(c, b)
    BY <2>1
  <2> HIDE DEF b
  <2>4. QED BY <1>2, <1>3, <1>4, <2>2, <2>3
<1>5. CASE ~o.ok
  <2>1. PICK b : /\ Step(c, b)
                 /\ \/ \E pc \in {"tp", "sl"} : b = [a EXCEPT !.pc = pc]
                    \/ b = [a EXCEPT !.pc = "sl", !.skipTp = TRUE]
    BY <1>2, <1>5
  <2>2. b \in Activation /\ b.pc \in {"tp", "sl"} /\ b.whole = a.whole /\ Holds(b, a.sl, a.tp)
    BY <1>1, <2>1 DEF Activation, ImplPcs, Holds
  <2>3. QED BY <1>2, <1>3, <1>5, <2>1, <2>2
<1>6. QED BY <1>4, <1>5

\* The take-profit of the dual path, the first time or the second.
LEMMA TakeProfitStepEffect ==
    ASSUME TypeInv, NEW c \in Callers, TakeProfit(c) \/ TakeProfitAgain(c)
    PROVE  LET a == impl[c]
           IN  /\ a.pc \in {"tp", "tpAgain"}
               /\ \E o \in PlaceTakeProfit(legs) : \E b \in Activation :
                    /\ legs' = o.legs
                    /\ Step(c, b) /\ b.whole = a.whole /\ Holds(b, a.sl, a.tp)
                    /\ b.tpAnswer = o.answer
                    /\ \/ b.pc = "sl"
                       \/ a.pc = "tp" /\ b.pc = "tpCancel" /\ a.sl # 0 /\ ~Confirmed(o.answer)
<1> DEFINE a == impl[c]
<1>1. a \in Activation /\ legs \in Seq(Leg) /\ a.sl \in Nat /\ a.tp \in Nat
  BY TypeFacts DEF Activation
<1>2. PICK o \in PlaceTakeProfit(legs) :
         /\ legs' = o.legs
         /\ \E pc : /\ Step(c, [a EXCEPT !.pc = pc, !.tpAnswer = o.answer,
                                         !.tpNew = Confirmed(o.answer)])
                    /\ \/ pc = "sl"
                       \/ a.pc = "tp" /\ pc = "tpCancel" /\ a.sl # 0 /\ ~Confirmed(o.answer)
  <2>1. CASE TakeProfit(c)
    BY <2>1, Zenon DEF TakeProfit
  <2>2. CASE TakeProfitAgain(c)
    BY <2>2, Zenon DEF TakeProfitAgain
  <2>3. QED BY <2>1, <2>2
<1>3. PICK pc : /\ Step(c, [a EXCEPT !.pc = pc, !.tpAnswer = o.answer,
                                     !.tpNew = Confirmed(o.answer)])
                /\ \/ pc = "sl"
                   \/ a.pc = "tp" /\ pc = "tpCancel" /\ a.sl # 0 /\ ~Confirmed(o.answer)
  BY <1>2
<1>4. o.answer \in Answer
  BY <1>1, TakeProfitOutcome
<1>5. Confirmed(o.answer) \in BOOLEAN /\ pc \in ImplPcs
  BY <1>3 DEF Confirmed, ImplPcs
<1> DEFINE new == Confirmed(o.answer)
           b == [a EXCEPT !.pc = pc, !.tpAnswer = o.answer, !.tpNew = new]
<1>6. /\ b \in Activation /\ b.pc = pc /\ b.tpAnswer = o.answer /\ b.whole = a.whole
      /\ Holds(b, a.sl, a.tp)
  <2> HIDE DEF new
  <2>1. new \in BOOLEAN
    BY <1>5 DEF new
  <2>2. QED BY <1>1, <1>4, <1>5, <2>1 DEF Activation, Holds
<1>7. Step(c, b) /\ a.pc \in {"tp", "tpAgain"}
  BY <1>3 DEF TakeProfit, TakeProfitAgain
<1> HIDE DEF b, new
<1>8. QED BY <1>2, <1>3, <1>6, <1>7 DEF new

\* The stop-loss of the dual path, and with it the routine's result.
LEMMA StopLossStepEffect ==
    ASSUME TypeInv, NEW c \in Callers, StopLoss(c)
    PROVE  LET a == impl[c]
           IN  /\ a.pc = "sl"
               /\ \E b \in Activation :
                    /\ Step(c, b) /\ b.pc = "back" /\ b.whole = a.whole /\ Holds(b, a.sl, a.tp)
                    /\ ConfirmsTP(b.result) <=> Confirmed(a.tpAnswer)
                    /\ IF a.sl # 0
                       THEN legs' = legs /\ b.result.sl = Placed(a.sl)
                       ELSE \E o \in PlaceStopLoss(legs) :
                              /\ legs' = o.legs /\ b.result.sl = o.answer
                              /\ ConfirmsSL(b.result) <=> Confirmed(o.answer)
<1> DEFINE a == impl[c]
           status(sl) == IF sl # 0 /\ (a.tp # 0 \/ a.skipTp) /\ ~a.tpNew
                         THEN "already_protected" ELSE ""
<1>1. a \in Activation /\ a.sl \in Nat /\ a.tpAnswer \in Answer /\ legs \in Seq(Leg)
  BY TypeFacts DEF Activation
<1>2. \A sl : status(sl) \in {"", "already_protected"}
  OBVIOUS
<1> HIDE DEF status
<1>3. \/ a.sl # 0 /\ legs' = legs
         /\ Step(c, Return(c, Reply(status(a.sl), Placed(a.sl), a.tpAnswer)))
      \/ a.sl = 0 /\ \E o \in PlaceStopLoss(legs) :
           legs' = o.legs /\ Step(c, Return(c, Reply("", o.answer, a.tpAnswer)))
  BY Zenon DEF StopLoss, status
<1>4. a.pc = "sl"
  BY DEF StopLoss
<1>5. \A r \in Result : LET b == Return(c, r) IN
        /\ b \in Activation /\ b.pc = "back" /\ b.result = r /\ b.whole = a.whole
        /\ Holds(b, a.sl, a.tp)
  BY <1>1, ReturnType DEF Return, Activation, Holds
<1>6. \A s \in {"", "already_protected"}, x \in Answer :
        LET r == Reply(s, x, a.tpAnswer) IN
        /\ r \in Result /\ r.sl = x
        /\ ConfirmsSL(r) <=> Confirmed(x)
        /\ ConfirmsTP(r) <=> Confirmed(a.tpAnswer)
  BY <1>1 DEF Reply, Result, Statuses, ConfirmsSL, ConfirmsTP
<1>7. CASE a.sl # 0 /\ legs' = legs
           /\ Step(c, Return(c, Reply(status(a.sl), Placed(a.sl), a.tpAnswer)))
  <2>1. Placed(a.sl) \in Answer
    BY <1>1, AnswerTypes
  <2> DEFINE r == Reply(status(a.sl), Placed(a.sl), a.tpAnswer)
  <2>2. r \in Result /\ r.sl = Placed(a.sl) /\ (ConfirmsTP(r) <=> Confirmed(a.tpAnswer))
    BY <1>2, <1>6, <2>1
  <2> HIDE DEF r
  <2>3. QED BY <1>4, <1>5, <1>7, <2>2 DEF r
<1>8. CASE a.sl = 0 /\ \E o \in PlaceStopLoss(legs) :
             legs' = o.legs /\ Step(c, Return(c, Reply("", o.answer, a.tpAnswer)))
  <2>1. PICK o \in PlaceStopLoss(legs) :
          legs' = o.legs /\ Step(c, Return(c, Reply("", o.answer, a.tpAnswer)))
    BY <1>8
  <2>2. o.answer \in Answer
    BY <1>1, StopLossOutcome
  <2> DEFINE r == Reply("", o.answer, a.tpAnswer)
  <2>3. /\ r \in Result /\ r.sl = o.answer /\ (ConfirmsSL(r) <=> Confirmed(o.answer))
        /\ ConfirmsTP(r) <=> Confirmed(a.tpAnswer)
    BY <1>6, <2>2
  <2>4. Step(c, Return(c, r))
    BY <2>1
  <2> HIDE DEF r
  <2>5. QED BY <1>4, <1>5, <1>8, <2>1, <2>3, <2>4
<1>9. QED BY <1>3, <1>7, <1>8

-----------------------------------------------------------------------------
(* The steps of the thread and of the healer, read in the same way.          *)

Still == UNCHANGED <<legs, position, impl>>
Goes(pc) == fill'.pc = pc /\ fill'.outcome = fill.outcome
Ends(outcome) == fill'.pc = "done" /\ fill'.outcome = outcome

\* c enters the routine, leaves it, or is answered before it.
Enters(c, pc) == /\ impl'[c] = [Idle EXCEPT !.pc = pc]
                 /\ \A d \in Callers \ {c} : impl'[d] = impl[d]

LEMMA EnterEffect ==
    ASSUME TypeInv, NEW c \in Callers, NEW pc, Enter(c, pc)
    PROVE  Enters(c, pc)
BY DEF TypeInv, TypeOK, Enter, Enters

LEMMA ThreadEffect ==
    ASSUME TypeInv,
           PollFill \/ StartProtection \/ Attempt \/ Judge \/ Flatten \/ GapCancel \/ GapJudge
    PROVE  /\ UNCHANGED <<entry, oco, margin, live, killed, heal>>
           /\ \/ /\ fill.pc = "poll" /\ Still
                 /\ (entry = "filled" /\ Goes("start")) \/ Ends("unconfirmed")
              \/ /\ fill.pc = "start" /\ Still
                 /\ \/ Goes("flatten") \/ Goes("attempt")
                    \/ /\ ActiveLeg(legs, "SL") # 0 /\ ActiveLeg(legs, "TP") # 0
                       /\ Ends("protected")
              \/ /\ fill.pc = "attempt" /\ UNCHANGED <<legs, position>> /\ Goes("waiting")
                 /\ Enters("fill", "read") \/ Enters("fill", "back")
              \/ /\ fill.pc = "waiting" /\ impl["fill"].pc = "back"
                 /\ UNCHANGED <<legs, position>> /\ Enters("fill", "idle")
                 /\ LET r == impl["fill"].result
                    IN  \/ Goes("attempt") /\ ~ConfirmsBoth(r)
                        \/ Goes("flatten") /\ ~ConfirmsSL(r)
                        \/ Goes("gap") /\ ConfirmsSL(r) /\ ~ConfirmsTP(r)
                        \/ Ends("protected") /\ ConfirmsBoth(r)
              \/ /\ fill.pc = "flatten" /\ UNCHANGED <<legs, impl>>
                 /\ \/ ~killed /\ position' = "flat" /\ Ends("flattened")
                    \/ /\ killed \/ "noclose" \in Faults
                       /\ UNCHANGED position /\ Ends("close_failed")
              \/ /\ fill.pc = "gap" /\ Goes("recovery") /\ UNCHANGED position
                 /\ \/ legs' = legs /\ (Enters("fill", "read") \/ Enters("fill", "back"))
                    \/ /\ margin /\ Enters("fill", "read")
                       /\ \E i : \E o \in CancelLeg(legs, i, live) : legs' = o.legs
              \/ /\ fill.pc = "recovery" /\ impl["fill"].pc = "back"
                 /\ UNCHANGED <<legs, position>> /\ Enters("fill", "idle")
                 /\ \E o \in {"protected", "tp_recovered", "tp_missing"} : Ends(o)
<1>0. fill \in FillRecord /\ "fill" \in Callers
  BY DEF TypeInv, TypeOK, FillRecord, Callers
<1>1. CASE PollFill
  BY <1>0, <1>1 DEF PollFill, Settle, FillRecord, Still, Goes, Ends, env
<1>2. CASE StartProtection
  BY <1>0, <1>2 DEF StartProtection, Settle, FillRecord, Still, Goes, Ends, env
<1>3. CASE Attempt
  <2>1. /\ fill.pc = "attempt" /\ UNCHANGED <<env, legs, position, heal>>
        /\ fill' = [fill EXCEPT !.pc = "waiting", !.attempt = fill.attempt + 1]
        /\ Enter("fill", "read") \/ Enter("fill", "back")
    BY <1>3 DEF Attempt, CallCreate
  <2>2. Goes("waiting") /\ (Enters("fill", "read") \/ Enters("fill", "back"))
    BY <1>0, <2>1, EnterEffect DEF FillRecord, Goes
  <2>3. QED BY <2>1, <2>2 DEF env
<1>4. CASE Judge
  <2> DEFINE r == impl["fill"].result
             next == CASE ~LastAttempt(r) -> "attempt"
                       [] LastAttempt(r) /\ ~ConfirmsSL(r) -> "flatten"
                       [] LastAttempt(r) /\ ConfirmsSL(r) /\ ~ConfirmsTP(r) -> "gap"
                       [] OTHER -> "done"
  <2>1. /\ fill.pc = "waiting" /\ impl["fill"].pc = "back"
        /\ UNCHANGED <<env, legs, position, heal>> /\ Enter("fill", "idle")
        /\ fill' = [fill EXCEPT !.pc = next, !.created = r,
                                !.outcome = IF next = "done" THEN "protected" ELSE fill.outcome]
    BY <1>4 DEF Judge
  <2>2. \/ next = "attempt" /\ ~ConfirmsBoth(r)
        \/ next = "flatten" /\ ~ConfirmsSL(r)
        \/ next = "gap" /\ ConfirmsSL(r) /\ ~ConfirmsTP(r)
        \/ next = "done" /\ ConfirmsBoth(r)
    BY DEF LastAttempt, ConfirmsBoth
  <2> HIDE DEF next, r
  <2>3. fill'.pc = next /\ fill'.outcome = IF next = "done" THEN "protected" ELSE fill.outcome
    BY <1>0, <2>1 DEF FillRecord
  <2>4. \/ Goes("attempt") /\ ~ConfirmsBoth(r)
        \/ Goes("flatten") /\ ~ConfirmsSL(r)
        \/ Goes("gap") /\ ConfirmsSL(r) /\ ~ConfirmsTP(r)
        \/ Ends("protected") /\ ConfirmsBoth(r)
    BY <2>2, <2>3 DEF Goes, Ends
  <2>5. Enters("fill", "idle")
    BY <1>0, <2>1, EnterEffect
  <2>6. UNCHANGED <<entry, oco, margin, live, killed, heal>> /\ UNCHANGED <<legs, position>>
    BY <2>1 DEF env
  <2>7. QED BY <2>1, <2>4, <2>5, <2>6 DEF r
<1>5. CASE Flatten
  BY <1>0, <1>5 DEF Flatten, Settle, FillRecord, Ends, env
<1>6. CASE GapCancel
  <2>1. /\ fill.pc = "gap" /\ UNCHANGED <<env, position, heal>>
        /\ fill' = [fill EXCEPT !.pc = "recovery"]
        /\ Enter("fill", "read") \/ (~margin /\ Enter("fill", "back"))
        /\ \/ legs' = legs
           \/ margin /\ \E i : \E o \in CancelLeg(legs, i, live) : legs' = o.legs
    BY <1>6, Zenon DEF GapCancel, CallCreate
  <2>2. Enters("fill", "read") \/ (~margin /\ Enters("fill", "back"))
    BY <1>0, <2>1, EnterEffect
  <2>3. Goes("recovery")
    BY <1>0, <2>1 DEF FillRecord, Goes
  <2>4. QED BY <2>1, <2>2, <2>3 DEF env
<1>7. CASE GapJudge
  <2>1. /\ fill.pc = "recovery" /\ impl["fill"].pc = "back"
        /\ UNCHANGED <<env, legs, position, heal>> /\ Enter("fill", "idle")
        /\ \E created : \E o \in {"protected", "tp_recovered", "tp_missing"} :
             fill' = [fill EXCEPT !.pc = "done", !.created = created, !.outcome = o]
    <3> DEFINE r == impl["fill"].result
               created == IF r = Raised THEN fill.created ELSE r
               outcome == IF ConfirmsBoth(r) THEN "protected"
                          ELSE IF ConfirmsTP(created) THEN "tp_recovered" ELSE "tp_missing"
    <3>1. outcome \in {"protected", "tp_recovered", "tp_missing"}
      OBVIOUS
    <3>2. fill' = [fill EXCEPT !.pc = "done", !.created = created, !.outcome = outcome]
      BY <1>7 DEF GapJudge
    <3> HIDE DEF created, outcome
    <3>3. QED BY <1>7, <3>1, <3>2 DEF GapJudge
  <2>2. \E o \in {"protected", "tp_recovered", "tp_missing"} : Ends(o)
    BY <1>0, <2>1 DEF FillRecord, Ends
  <2>3. Enters("fill", "idle")
    BY <1>0, <2>1, EnterEffect
  <2>4. QED BY <2>1, <2>2, <2>3 DEF env
<1>8. QED BY <1>1, <1>2, <1>3, <1>4, <1>5, <1>6, <1>7

LEMMA HealerEffect ==
    ASSUME TypeInv, HealStart \/ HealCancel \/ HealEnd
    PROVE  /\ UNCHANGED <<entry, oco, margin, live, killed, position, fill>>
           /\ impl'["fill"] = impl["fill"]
           /\ \/ /\ heal.pc = "asleep" /\ MaxHeals # 0 /\ entry = "filled" /\ legs' = legs
                 /\ ActiveLeg(legs, "SL") # 0 /\ ActiveLeg(legs, "TP") = 0
                 /\ heal'.sl = ActiveLeg(legs, "SL")
                 /\ \/ /\ Spot /\ heal'.pc = "waiting"
                       /\ impl'["heal"] = [Idle EXCEPT !.pc = "oco", !.whole = FALSE,
                                                       !.sl = ActiveLeg(legs, "SL")]
                    \/ ~Spot /\ heal'.pc = "cancel" /\ impl' = impl
              \/ /\ heal.pc = "cancel"
                 /\ \E o \in CancelLeg(legs, heal.sl, live) :
                      /\ legs' = o.legs
                      /\ IF o.ok THEN Enters("heal", "read") /\ heal'.pc = "waiting"
                                      /\ heal'.sl = heal.sl
                                 ELSE impl' = impl /\ heal'.pc = "asleep"
              \/ /\ heal.pc = "waiting" /\ impl["heal"].pc = "back" /\ legs' = legs
                 /\ Enters("heal", "idle") /\ heal'.pc = "asleep"
<1>0. /\ heal \in HealRecord /\ impl \in [Callers -> Activation] /\ "fill" \in Callers
      /\ "heal" \in Callers /\ MaxHeals \in Nat
  BY EntryProtectionAssumption DEF TypeInv, TypeOK, HealRecord, Callers
<1>1. CASE HealStart
  <2> DEFINE sl == ActiveLeg(legs, "SL")
             ensure == [Idle EXCEPT !.pc = "oco", !.whole = FALSE, !.sl = sl]
  <2>1. /\ heal.pc = "asleep" /\ heal.passes < MaxHeals /\ entry = "filled"
        /\ sl # 0 /\ ActiveLeg(legs, "TP") = 0
        /\ UNCHANGED <<env, position, legs, fill>>
        /\ \/ /\ Spot /\ impl' = [impl EXCEPT !["heal"] = ensure]
              /\ heal' = [pc |-> "waiting", passes |-> heal.passes + 1, sl |-> sl]
           \/ /\ ~Spot /\ impl' = impl
              /\ heal' = [pc |-> "cancel", passes |-> heal.passes + 1, sl |-> sl]
    <3> HIDE DEF sl, ensure
    <3>1. QED BY <1>1, Zenon DEF HealStart, sl, ensure, Spot
  <2>2. MaxHeals # 0
    BY <1>0, <2>1 DEF HealRecord
  <2> HIDE DEF sl, ensure
  <2>3. impl' = [impl EXCEPT !["heal"] = ensure]
              => impl'["heal"] = ensure /\ impl'["fill"] = impl["fill"]
    BY <1>0
  <2>4. QED BY <2>1, <2>2, <2>3 DEF env, sl, ensure
<1>2. CASE HealCancel
  <2>1. PICK o \in CancelLeg(legs, heal.sl, live) :
           /\ legs' = o.legs
           /\ IF o.ok
              THEN Enter("heal", "read") /\ heal' = [heal EXCEPT !.pc = "waiting"]
              ELSE UNCHANGED impl /\ heal' = [heal EXCEPT !.pc = "asleep", !.sl = 0]
    BY <1>2 DEF HealCancel
  <2>2. IF o.ok THEN Enters("heal", "read") /\ heal'.pc = "waiting" /\ heal'.sl = heal.sl
                ELSE impl' = impl /\ heal'.pc = "asleep"
    BY <1>0, <2>1, EnterEffect DEF HealRecord
  <2>3. impl'["fill"] = impl["fill"]
    BY <1>0, <2>2 DEF Enters
  <2>4. heal.pc = "cancel" /\ UNCHANGED <<env, position, fill>>
    BY <1>2 DEF HealCancel
  <2>5. QED BY <2>1, <2>2, <2>3, <2>4 DEF env
<1>3. CASE HealEnd
  <2>1. /\ heal.pc = "waiting" /\ impl["heal"].pc = "back" /\ Enter("heal", "idle")
        /\ heal' = [heal EXCEPT !.pc = "asleep", !.sl = 0]
        /\ UNCHANGED <<env, position, legs, fill>>
    BY <1>3 DEF HealEnd
  <2>2. Enters("heal", "idle") /\ heal'.pc = "asleep"
    BY <1>0, <2>1, EnterEffect DEF HealRecord
  <2>3. impl'["fill"] = impl["fill"]
    BY <1>0, <2>2 DEF Enters
  <2>4. QED BY <2>1, <2>2, <2>3 DEF env
<1>4. QED BY <1>1, <1>2, <1>3

\* One leg changed: a take-profit dropped by the exchange, or a row that gets
\* the final status of an order that is gone.
Dropped(L, M, i) == /\ L[i].role = "TP" /\ L[i].exch = "live"
                    /\ M[i].role = "TP" /\ M[i].exch = "rejected" /\ M[i].row = L[i].row
Synced(L, M, i) == /\ L[i].row = "active" /\ L[i].exch # "live"
                   /\ M[i].role = L[i].role /\ M[i].exch = L[i].exch /\ M[i].row = L[i].exch

LEMMA RestEffect ==
    ASSUME TypeInv, FillEntry \/ DropLeg \/ SyncRow \/ Switch \/ UNCHANGED vars
    PROVE  /\ UNCHANGED <<oco, fill, heal, impl>>
           /\ "margin" \notin Faults => margin' = margin
           /\ "toggle" \notin Faults => live' = live
           /\ "kill" \notin Faults => killed' = killed
           /\ \/ UNCHANGED <<entry, position>>
              \/ entry = "resting" /\ entry' = "filled" /\ position' = "open" /\ legs' = legs
           /\ \/ legs' = legs
              \/ /\ legs' \in Seq(Leg) /\ DOMAIN legs' = DOMAIN legs
                 /\ \E i \in DOMAIN legs :
                      /\ \A j \in DOMAIN legs : j # i => legs'[j] = legs[j]
                      /\ \/ "drop" \in Faults /\ Dropped(legs, legs', i)
                         \/ Synced(legs, legs', i)
<1>0. legs \in Seq(Leg)
  BY TypeFacts
<1>1. CASE FillEntry
  BY <1>1 DEF FillEntry
<1>2. CASE DropLeg
  <2>1. PICK i \in LiveLegs(legs, "TP") : legs' = [legs EXCEPT ![i].exch = "rejected"]
    BY <1>2 DEF DropLeg
  <2> DEFINE leg == [legs[i] EXCEPT !.exch = "rejected"]
  <2>2. i \in DOMAIN legs /\ legs[i] \in Leg /\ legs[i].role = "TP" /\ legs[i].exch = "live"
    BY <1>0, <2>1 DEF LiveLegs
  <2>3. leg \in Leg
    BY <2>2 DEF Leg, ExchStates
  <2>4. legs' = [legs EXCEPT ![i] = leg]
    BY <2>1
  <2>5. "drop" \in Faults /\ UNCHANGED <<env, position, fill, heal, impl>>
    BY <1>2 DEF DropLeg
  <2> HIDE DEF leg
  <2>6. legs' \in Seq(Leg) /\ DOMAIN legs' = DOMAIN legs
        /\ \A j \in DOMAIN legs : legs'[j] = IF j = i THEN leg ELSE legs[j]
    BY <1>0, <2>3, <2>4, LegChanged
  <2>7. Dropped(legs, legs', i)
    <3>1. leg.role = legs[i].role /\ leg.exch = "rejected" /\ leg.row = legs[i].row
      BY <2>2 DEF leg, Leg
    <3>2. QED BY <2>2, <2>6, <3>1 DEF Dropped
  <2>8. QED BY <2>2, <2>5, <2>6, <2>7 DEF env
<1>3. CASE SyncRow
  <2>1. PICK i \in DOMAIN legs : /\ legs[i].row = "active" /\ legs[i].exch # "live"
                                 /\ legs' = [legs EXCEPT ![i].row = legs[i].exch]
    BY <1>3 DEF SyncRow
  <2> DEFINE leg == [legs[i] EXCEPT !.row = legs[i].exch]
  <2>2. legs[i] \in Leg
    BY <1>0, <2>1
  <2>3. leg \in Leg
    BY <2>1, <2>2 DEF Leg, ExchStates, RowStates
  <2>4. legs' = [legs EXCEPT ![i] = leg]
    BY <2>1
  <2>5. UNCHANGED <<env, position, fill, heal, impl>>
    BY <1>3 DEF SyncRow
  <2> HIDE DEF leg
  <2>6. legs' \in Seq(Leg) /\ DOMAIN legs' = DOMAIN legs
        /\ \A j \in DOMAIN legs : legs'[j] = IF j = i THEN leg ELSE legs[j]
    BY <1>0, <2>3, <2>4, LegChanged
  <2>7. Synced(legs, legs', i)
    <3>1. leg.role = legs[i].role /\ leg.exch = legs[i].exch /\ leg.row = legs[i].exch
      BY <2>2 DEF leg, Leg
    <3>2. QED BY <2>1, <2>6, <3>1 DEF Synced
  <2>8. QED BY <2>5, <2>6, <2>7 DEF env
<1>4. CASE Switch
  BY <1>4 DEF Switch, FlipMargin, SwitchOff, EmergencyStop
<1>5. CASE UNCHANGED vars
  BY <1>5 DEF vars
<1>6. QED BY <1>1, <1>2, <1>3, <1>4, <1>5

-----------------------------------------------------------------------------
(* The two paths.  Where nobody flips the margin mode of a deployment that    *)
(* places native lists, a lot is spot or not for good.  On spot the thread    *)
(* and the healer take turns: a list is placed when no leg has a row, and the *)
(* healer comes when the thread has, or is about to read, a full answer.      *)

Steady == "margin" \in Faults => ~oco

Bound == /\ impl["fill"].pc # "idle" => fill.pc \in {"waiting", "recovery"}
         /\ impl["heal"].pc # "idle" => heal.pc = "waiting"

Over == \/ fill.pc = "done"
        \/ /\ fill.pc = "waiting" /\ impl["fill"].pc = "back"
           /\ ConfirmsBoth(impl["fill"].result)

Turns == Recorded(legs) \/ heal.pc # "asleep" => Over

OcoPcs == {"oco", "ocoCancel", "ocoPlace"}

SpotFill(a) == /\ a.pc \in {"idle", "read", "oco", "ocoPlace", "back"}
               /\ a.pc \in {"oco", "ocoPlace"} => Holds(a, 0, 0)
               /\ a.pc = "back" => (ConfirmsSL(a.result) <=> ConfirmsTP(a.result))

SpotHeal(a) == /\ a.pc \in {"idle", "back"} \cup OcoPcs
               /\ a.pc = "oco" => a.sl # 0

SpotPath == /\ SpotFill(impl["fill"]) /\ SpotHeal(impl["heal"])
            /\ fill.pc \notin {"gap", "recovery"} /\ heal.pc # "cancel"
            /\ Turns

DualPath == \A c \in Callers : impl[c].pc \notin OcoPcs

Paths == /\ TypeInv /\ Steady /\ Bound
         /\ IF Spot THEN SpotPath ELSE DualPath

ThreadActs == PollFill \/ StartProtection \/ Attempt \/ Judge \/ Flatten \/ GapCancel \/ GapJudge
HealActs == HealStart \/ HealCancel \/ HealEnd
RestActs == FillEntry \/ DropLeg \/ SyncRow \/ Switch \/ UNCHANGED vars

LEMMA NextActs ==
    ASSUME [Next]_vars
    PROVE  (\E c \in Callers : Create(c)) \/ ThreadActs \/ HealActs \/ RestActs
BY DEF Next, FillThread, Healer, Settled, Switch, ThreadActs, HealActs, RestActs, Callers

\* The routine is at work when it takes a step.
LEMMA CreateBusy ==
    ASSUME NEW c \in Callers, Create(c)
    PROVE  impl[c].pc \notin {"idle", "back"}
BY DEF Create, Read, EnsureOco, CancelForOco, PlaceNativeOco, CancelBeforeTP, TakeProfit,
       CancelAfterTP, TakeProfitAgain, StopLoss

LEMMA CreateFrame ==
    ASSUME TypeInv, NEW c \in Callers, Create(c)
    PROVE  /\ \A d \in Callers \ {c} : impl'[d] = impl[d]
           /\ UNCHANGED <<entry, oco, margin, live, killed, position, breaker, fill, heal>>
<1>1. \E b \in Activation : Step(c, b)
  BY ReadEffect, EnsureOcoEffect, CancelForOcoEffect, PlaceNativeOcoEffect, CancelStepEffect,
     TakeProfitStepEffect, StopLossStepEffect, Zenon DEF Create
<1>2. QED BY <1>1, StepOther

\* Nobody changes sides.
LEMMA SpotStays ==
    ASSUME TypeInv, Steady, [Next]_vars
    PROVE  (Spot' <=> Spot) /\ Steady'
<1>1. oco' = oco /\ (margin' = margin \/ "margin" \in Faults)
  <2>1. CASE \E c \in Callers : Create(c)
    BY <2>1, CreateFrame
  <2>2. CASE ThreadActs
    BY <2>2, ThreadEffect DEF ThreadActs
  <2>3. CASE HealActs
    BY <2>3, HealerEffect DEF HealActs
  <2>4. CASE RestActs
    BY <2>4, RestEffect DEF RestActs
  <2>5. QED BY <2>1, <2>2, <2>3, <2>4, NextActs
<1>2. QED BY <1>1, TypeFacts DEF Spot, Steady

LEMMA NoRows ==
    ASSUME NEW L \in Seq(Leg), ~Recorded(L)
    PROVE  \A role : ActiveRows(L, role) = {} /\ ActiveLeg(L, role) = 0
<1>1. \A role : ActiveRows(L, role) = {}
  BY DEF Recorded, ActiveRows
<1>2. QED BY <1>1 DEF ActiveLeg

\* The routine's step off spot.
LEMMA DualCreate ==
    ASSUME TypeInv, DualPath, ~Spot, NEW c \in Callers, Create(c)
    PROVE  DualPath'
<1>1. \E b \in Activation : Step(c, b) /\ b.pc \notin OcoPcs
  <2>1. impl[c].pc \notin OcoPcs
    BY DEF DualPath
  <2>2. CASE Read(c)
    <3>1. PICK b \in Activation :
             Step(c, b) /\ b.pc \in {"back", "sl", "preCancel", "tp"}
      BY <2>2, ReadEffect
    <3>2. QED BY <3>1 DEF OcoPcs
  <2>3. CASE EnsureOco(c) \/ CancelForOco(c) \/ PlaceNativeOco(c)
    BY <2>1, <2>3 DEF EnsureOco, CancelForOco, PlaceNativeOco, OcoPcs
  <2>4. CASE CancelBeforeTP(c) \/ CancelAfterTP(c)
    <3>1. PICK b \in Activation : Step(c, b) /\ b.pc \in {"tp", "tpAgain", "sl"}
      BY <2>4, CancelStepEffect
    <3>2. QED BY <3>1 DEF OcoPcs
  <2>5. CASE TakeProfit(c) \/ TakeProfitAgain(c)
    <3>1. PICK b \in Activation : Step(c, b) /\ b.pc \in {"tpCancel", "sl"}
      BY <2>5, TakeProfitStepEffect
    <3>2. QED BY <3>1 DEF OcoPcs
  <2>6. CASE StopLoss(c)
    <3>1. PICK b \in Activation : Step(c, b) /\ b.pc = "back"
      BY <2>6, StopLossStepEffect
    <3>2. QED BY <3>1 DEF OcoPcs
  <2>7. QED BY <2>2, <2>3, <2>4, <2>5, <2>6 DEF Create
<1>2. QED BY <1>1, StepOther DEF DualPath

\* The thread's routine on spot: no leg has a row and the healer is asleep.
LEMMA SpotCreateFill ==
    ASSUME Paths, Spot, Create("fill")
    PROVE  SpotPath'
<1> DEFINE a == impl["fill"]
<1>0. "fill" \in Callers /\ "heal" \in Callers /\ TypeInv /\ SpotPath /\ legs \in Seq(Leg)
  BY TypeFacts DEF Callers, Paths
<1>1. a.pc \notin {"idle", "back"} /\ fill.pc = "waiting"
  BY <1>0, CreateBusy DEF Paths, Bound, SpotPath
<1>2. ~Recorded(legs) /\ heal.pc = "asleep"
  BY <1>0, <1>1 DEF SpotPath, Turns, Over
<1>3. impl["heal"].pc = "idle"
  BY <1>2 DEF Paths, Bound
<1>4. impl'["heal"] = impl["heal"] /\ fill' = fill /\ heal' = heal
  BY <1>0, CreateFrame DEF Callers
<1>5. \A role : ActiveLeg(legs, role) = 0
  BY <1>0, <1>2, NoRows
<1>6. \E b \in Activation :
        /\ impl'["fill"] = b /\ SpotFill(b)
        /\ Recorded(legs') => b.pc = "back" /\ ConfirmsBoth(b.result)
  <2>1. CASE Read("fill")
    <3>1. PICK b \in Activation :
             /\ Step("fill", b) /\ legs' = legs
             /\ \/ b.pc = "oco" /\ Holds(b, 0, 0)
                \/ b.pc = "back" /\ b.result = Raised
      BY <1>0, <1>5, <2>1, ReadEffect
    <3>2. SpotFill(b)
      BY <3>1, AnswerReading DEF SpotFill
    <3>3. QED BY <1>0, <1>2, <3>1, <3>2, StepOther
  <2>2. CASE EnsureOco("fill")
    <3>1. a.pc = "oco" /\ a.sl = 0 /\ a.tp = 0
      BY <1>0, <2>2 DEF EnsureOco, SpotPath, SpotFill, Holds
    <3>2. PICK b \in Activation :
             Step("fill", b) /\ legs' = legs /\ Holds(b, 0, 0) /\ b.pc = "ocoPlace"
      BY <1>0, <1>5, <2>2, <3>1, EnsureOcoEffect
    <3>3. SpotFill(b)
      BY <3>2 DEF SpotFill
    <3>4. QED BY <1>0, <1>2, <3>2, <3>3, StepOther
  <2>3. CASE PlaceNativeOco("fill")
    <3>1. a.sl = 0 /\ a.tp = 0
      BY <1>0, <2>3 DEF PlaceNativeOco, SpotPath, SpotFill, Holds
    <3>2. PICK o \in PlaceOco(legs, live /\ ~killed), b \in Activation :
             /\ legs' = o.legs /\ Step("fill", b) /\ b.pc = "back"
             /\ ConfirmsSL(b.result) <=> Confirmed(o.answer.sl)
             /\ ConfirmsTP(b.result) <=> Confirmed(o.answer.tp)
      BY <1>0, <2>3, <3>1, PlaceNativeOcoEffect
    <3>3. (live /\ ~killed) \in BOOLEAN
      BY Zenon
    <3>4. \/ legs' = legs /\ ~Confirmed(o.answer.sl) /\ ~Confirmed(o.answer.tp)
          \/ Confirmed(o.answer.sl) /\ Confirmed(o.answer.tp)
          \/ /\ Pairs(legs, legs', "none")
             /\ ~Confirmed(o.answer.sl) /\ ~Confirmed(o.answer.tp)
      <4>1. \A e \in Errors : ~Confirmed(OcoFailed(e).sl) /\ ~Confirmed(OcoFailed(e).tp)
        BY AnswerTypes DEF OcoFailed
      <4>2. LET n == NewPair(legs) IN Confirmed(n.sl) /\ Confirmed(n.tp)
        BY <1>0 DEF NewPair, Placed, Confirmed
      <4>3. {"blocked", "refused"} \subseteq Errors /\ Refusals \subseteq Errors
        BY AnswerTypes DEF Errors
      <4>4. QED BY <1>0, <1>5, <3>2, <3>3, <4>1, <4>2, <4>3, OcoEffect
    <3>5. ~Recorded(legs') \/ (Confirmed(o.answer.sl) /\ Confirmed(o.answer.tp))
      BY <1>2, <3>4 DEF Pairs, Grows, Recorded
    <3>6. SpotFill(b) /\ (Recorded(legs') => ConfirmsBoth(b.result))
      BY <3>2, <3>4, <3>5 DEF SpotFill, ConfirmsBoth
    <3>7. QED BY <1>0, <3>2, <3>6, StepOther
  <2>4. CASE CancelForOco("fill") \/ CancelBeforeTP("fill") \/ CancelAfterTP("fill")
             \/ TakeProfit("fill") \/ TakeProfitAgain("fill") \/ StopLoss("fill")
    BY <1>0, <2>4 DEF SpotPath, SpotFill, CancelForOco, CancelBeforeTP, CancelAfterTP,
                      TakeProfit, TakeProfitAgain, StopLoss
  <2>5. QED BY <2>1, <2>2, <2>3, <2>4 DEF Create
<1>7. QED
  BY <1>0, <1>1, <1>2, <1>3, <1>4, <1>6 DEF SpotPath, SpotHeal, Turns, Over, OcoPcs

\* The healer's routine on spot: the thread is through.
LEMMA SpotCreateHeal ==
    ASSUME Paths, Spot, Create("heal")
    PROVE  SpotPath'
<1> DEFINE a == impl["heal"]
<1>0. "fill" \in Callers /\ "heal" \in Callers /\ TypeInv /\ SpotPath
  BY DEF Callers, Paths
<1>1. a.pc \notin {"idle", "back"} /\ heal.pc = "waiting" /\ Over
  BY <1>0, CreateBusy DEF Paths, Bound, SpotPath, Turns
<1>2. impl'["fill"] = impl["fill"] /\ fill' = fill /\ heal' = heal
  BY <1>0, CreateFrame DEF Callers
<1>3. \E b \in Activation : impl'["heal"] = b /\ b.pc \in {"back", "ocoPlace", "ocoCancel"}
  <2>1. CASE EnsureOco("heal")
    BY <1>0, <2>1, EnsureOcoEffect, StepOther
  <2>2. CASE CancelForOco("heal")
    BY <1>0, <2>2, CancelForOcoEffect, StepOther
  <2>3. CASE PlaceNativeOco("heal")
    BY <1>0, <2>3, PlaceNativeOcoEffect, StepOther
  <2>4. CASE Read("heal") \/ CancelBeforeTP("heal") \/ CancelAfterTP("heal")
             \/ TakeProfit("heal") \/ TakeProfitAgain("heal") \/ StopLoss("heal")
    BY <1>0, <2>4 DEF SpotPath, SpotHeal, OcoPcs, Read, CancelBeforeTP, CancelAfterTP,
                      TakeProfit, TakeProfitAgain, StopLoss
  <2>5. QED BY <2>1, <2>2, <2>3, <2>4 DEF Create
<1>4. QED BY <1>0, <1>1, <1>2, <1>3 DEF SpotPath, SpotHeal, Turns, Over, OcoPcs

\* What a caller's activation is on entering the routine or being refused it.
LEMMA EntersAs ==
    ASSUME NEW c \in Callers, NEW pc \in {"read", "back", "idle"}, Enters(c, pc)
    PROVE  /\ impl'[c].pc = pc /\ impl'[c].whole /\ Holds(impl'[c], 0, 0)
           /\ impl'[c].result = NoResult
           /\ ~ConfirmsSL(impl'[c].result) /\ ~ConfirmsTP(impl'[c].result)
BY AnswerReading DEF Enters, Idle, Holds

LEMMA PathsThread ==
    ASSUME Paths, ThreadActs
    PROVE  Bound' /\ IF Spot THEN SpotPath' ELSE DualPath'
<1>0. "fill" \in Callers /\ "heal" \in Callers /\ TypeInv
  BY DEF Callers, Paths
<1>1. heal' = heal /\ impl'["heal"] = impl["heal"]
  BY <1>0, ThreadEffect DEF ThreadActs, Enters, Still
<1>2. Callers = {"fill", "heal"}
  BY DEF Callers
<1>3. \A pc \in {"read", "back", "idle"} : Enters("fill", pc) =>
         /\ impl'["fill"].pc = pc /\ SpotFill(impl'["fill"])
         /\ ~ConfirmsBoth(impl'["fill"].result)
  BY <1>0, EntersAs DEF SpotFill, ConfirmsBoth
<1>4. Bound'
  BY <1>0, <1>1, <1>3, ThreadEffect DEF ThreadActs, Paths, Bound, Still, Goes, Ends
<1>5. CASE ~Spot
  <2>1. impl'["fill"].pc \in {"read", "back", "idle"} \/ impl' = impl
    BY <1>0, <1>3, ThreadEffect DEF ThreadActs, Still
  <2>2. DualPath'
    BY <1>1, <1>2, <1>5, <2>1 DEF Paths, DualPath, OcoPcs
  <2>3. QED BY <1>4, <1>5, <2>2
<1>6. CASE Spot
  <2>0. SpotPath
    BY <1>6 DEF Paths
  <2>1. /\ SpotFill(impl'["fill"]) /\ fill'.pc \notin {"gap", "recovery"}
        /\ legs' = legs
    BY <1>0, <1>3, <2>0, ThreadEffect
       DEF ThreadActs, SpotPath, SpotFill, Still, Goes, Ends
  <2>2. Over => Over'
    <3>1. SUFFICES ASSUME Over PROVE fill'.pc = "done"
      BY DEF Over
    <3>2. fill.pc = "waiting" /\ ConfirmsBoth(impl["fill"].result)
      BY <1>0, <3>1, ThreadEffect DEF ThreadActs, Over
    <3>3. QED
      BY <1>0, <3>2, ThreadEffect DEF ThreadActs, Ends, Goes, ConfirmsBoth
  <2>3. SpotPath'
    BY <1>1, <2>0, <2>1, <2>2 DEF SpotPath, SpotHeal, Turns, Recorded
  <2>4. QED BY <1>4, <1>6, <2>3
<1>7. QED BY <1>5, <1>6

LEMMA PathsHealer ==
    ASSUME Paths, HealActs
    PROVE  Bound' /\ IF Spot THEN SpotPath' ELSE DualPath'
<1>0. "fill" \in Callers /\ "heal" \in Callers /\ TypeInv /\ legs \in Seq(Leg)
  BY TypeFacts DEF Callers, Paths
<1>1. fill' = fill /\ impl'["fill"] = impl["fill"]
  BY <1>0, HealerEffect DEF HealActs
<1>2. \A pc \in {"read", "back", "idle"} : Enters("heal", pc) => impl'["heal"].pc = pc
  BY <1>0, EntersAs
<1> DEFINE ensure == [Idle EXCEPT !.pc = "oco", !.whole = FALSE, !.sl = ActiveLeg(legs, "SL")]
<1>3. ensure.pc = "oco" /\ ensure.sl = ActiveLeg(legs, "SL")
  BY DEF Idle
<1> HIDE DEF ensure
<1>4. \/ /\ heal.pc = "asleep" /\ legs' = legs /\ ActiveLeg(legs, "SL") # 0
         /\ \/ Spot /\ heal'.pc = "waiting" /\ impl'["heal"] = ensure
            \/ ~Spot /\ heal'.pc = "cancel" /\ impl' = impl
      \/ /\ heal.pc = "cancel"
         /\ \/ impl'["heal"].pc = "read" /\ heal'.pc = "waiting"
            \/ impl' = impl /\ heal'.pc = "asleep"
      \/ /\ heal.pc = "waiting" /\ legs' = legs
         /\ impl'["heal"].pc = "idle" /\ heal'.pc = "asleep"
  BY <1>0, <1>2, HealerEffect DEF HealActs, ensure
<1>5. Bound'
  BY <1>1, <1>4 DEF Paths, Bound
<1>6. CASE ~Spot
  <2>1. DualPath'
    BY <1>1, <1>4, <1>6 DEF Paths, DualPath, OcoPcs, Callers
  <2>2. QED BY <1>5, <1>6, <2>1
<1>7. CASE Spot
  <2>0. SpotPath
    BY <1>7 DEF Paths
  <2>1. ActiveLeg(legs, "SL") # 0 => Recorded(legs)
    BY <1>0, NoRows
  <2>2. heal'.pc # "cancel" /\ SpotHeal(impl'["heal"]) /\ legs' = legs
    BY <1>3, <1>4, <1>7, <2>0 DEF SpotPath, SpotHeal, OcoPcs
  <2>3. Over' <=> Over
    BY <1>1 DEF Over
  <2>4. Recorded(legs)' \/ heal'.pc # "asleep" => Over'
    BY <1>4, <2>0, <2>1, <2>2, <2>3 DEF SpotPath, Turns
  <2>5. SpotPath'
    BY <1>1, <2>0, <2>2, <2>4 DEF SpotPath, Turns
  <2>6. QED BY <1>5, <1>7, <2>5
<1>8. QED BY <1>6, <1>7

LEMMA PathsRest ==
    ASSUME Paths, RestActs
    PROVE  Bound' /\ IF Spot THEN SpotPath' ELSE DualPath'
<1>0. TypeInv /\ legs \in Seq(Leg)
  BY TypeFacts DEF Paths
<1>1. UNCHANGED <<fill, heal, impl>>
  BY <1>0, RestEffect DEF RestActs
<1>2. Recorded(legs') => Recorded(legs)
  <2>1. \/ legs' = legs
        \/ /\ DOMAIN legs' = DOMAIN legs
           /\ \E i \in DOMAIN legs :
                /\ \A j \in DOMAIN legs : j # i => legs'[j] = legs[j]
                /\ Dropped(legs, legs', i) \/ Synced(legs, legs', i)
    BY <1>0, RestEffect DEF RestActs
  <2>2. ASSUME NEW i \in DOMAIN legs, Dropped(legs, legs', i) \/ Synced(legs, legs', i)
        PROVE  legs'[i].row # "none" => legs[i].row # "none"
    BY <2>2 DEF Dropped, Synced
  <2>3. QED BY <2>1, <2>2 DEF Recorded
<1>3. Bound'
  BY <1>1 DEF Paths, Bound
<1>4. Spot => SpotPath'
  BY <1>1, <1>2 DEF Paths, SpotPath, Turns, Over
<1>5. ~Spot => DualPath'
  BY <1>1 DEF Paths, DualPath
<1>6. QED BY <1>3, <1>4, <1>5

\* The deployments and faults under which a lot keeps to its path.
PathKept == "margin" \in Faults => TRUE \notin OcoFlags

LEMMA PathsInit == ASSUME PathKept, Init PROVE Paths
<1>1. TypeInv
  BY TypeInit
<1>2. /\ fill.pc = "poll" /\ heal.pc = "asleep" /\ legs = <<>>
      /\ impl["fill"].pc = "idle" /\ impl["heal"].pc = "idle"
  BY DEF Init, Callers, Idle
<1>3. Steady
  BY EntryProtectionAssumption DEF Init, PathKept, Steady
<1>4. ~Recorded(legs)
  BY <1>2 DEF Recorded
<1>5. QED
  BY <1>1, <1>2, <1>3, <1>4
     DEF Paths, Bound, SpotPath, DualPath, SpotFill, SpotHeal, Turns, OcoPcs, Callers

LEMMA PathsNext ==
    ASSUME Paths, [Next]_vars
    PROVE  Paths' /\ (Spot' <=> Spot)
<1>1. TypeInv' /\ (Spot' <=> Spot) /\ Steady'
  BY TypeNext, SpotStays DEF Paths
<1>2. Bound' /\ IF Spot THEN SpotPath' ELSE DualPath'
  <2>1. CASE \E c \in Callers : Create(c)
    <3>1. PICK c \in Callers : Create(c)
      BY <2>1
    <3>2. Bound'
      <4>1. fill' = fill /\ heal' = heal /\ \A d \in Callers \ {c} : impl'[d] = impl[d]
        BY <3>1, CreateFrame DEF Paths
      <4>2. impl[c].pc # "idle"
        BY <3>1, CreateBusy
      <4>3. QED BY <4>1, <4>2 DEF Paths, Bound, Callers
    <3>3. ~Spot => DualPath'
      BY <3>1, DualCreate DEF Paths
    <3>4. Spot => SpotPath'
      BY <3>1, SpotCreateFill, SpotCreateHeal DEF Callers
    <3>5. QED BY <3>2, <3>3, <3>4
  <2>2. CASE ThreadActs
    BY <2>2, PathsThread
  <2>3. CASE HealActs
    BY <2>3, PathsHealer
  <2>4. CASE RestActs
    BY <2>4, PathsRest
  <2>5. QED BY <2>1, <2>2, <2>3, <2>4, NextActs
<1>3. QED BY <1>1, <1>2 DEF Paths

-----------------------------------------------------------------------------
(* How the thread ends.                                                      *)

Covered == {"protected", "tp_missing", "tp_recovered"}

Closing == /\ fill.pc = "done" <=> fill.outcome # "none"
           /\ fill.outcome = "flattened" => position = "flat"
           /\ Confirmation

LEMMA ClosingInit == Init => Closing
BY DEF Init, Closing, Confirmation

LEMMA ClosingNext ==
    ASSUME TypeInv, Closing, [Next]_vars
    PROVE  Closing'
<1>0. "fill" \in Callers
  BY DEF Callers
<1>1. CASE \E c \in Callers : Create(c)
  BY <1>1, CreateFrame DEF Closing, Confirmation
<1>2. CASE ThreadActs
  BY <1>2, ThreadEffect DEF ThreadActs, Closing, Confirmation, Still, Goes, Ends
<1>3. CASE HealActs
  BY <1>3, HealerEffect DEF HealActs, Closing, Confirmation
<1>4. CASE RestActs
  BY <1>4, RestEffect DEF RestActs, Closing, Confirmation
<1>5. QED BY <1>1, <1>2, <1>3, <1>4, NextActs

\* A thread that ends as covered only over a stop-loss keeps the hard invariant.
LEMMA HardFromOutcome ==
    ASSUME TypeInv, Closing, ThreadDone /\ fill.outcome \in Covered => IsLive(legs, "SL")
    PROVE  HardInvariant
<1>1. fill.outcome \in Outcomes
  BY DEF TypeInv, TypeOK
<1>2. QED BY <1>1 DEF HardInvariant, ThreadDone, Closing, Covered, Outcomes

\* What everyone else does leaves the stop-losses where they are.
LEMMA RestKeepsSL ==
    ASSUME TypeInv, RestActs
    PROVE  /\ LiveLegs(legs', "SL") = LiveLegs(legs, "SL")
           /\ HasSL(legs') <=> HasSL(legs)
           /\ TrueSL(legs) => TrueSL(legs')
<1>1. \/ legs' = legs
      \/ /\ DOMAIN legs' = DOMAIN legs
         /\ \E i \in DOMAIN legs :
              /\ \A j \in DOMAIN legs : j # i => legs'[j] = legs[j]
              /\ Dropped(legs, legs', i) \/ Synced(legs, legs', i)
  BY RestEffect DEF RestActs
<1>2. CASE legs' = legs
  BY <1>2
<1>3. ASSUME NEW i \in DOMAIN legs, DOMAIN legs' = DOMAIN legs,
             \A j \in DOMAIN legs : j # i => legs'[j] = legs[j],
             Dropped(legs, legs', i) \/ Synced(legs, legs', i)
      PROVE  /\ LiveLegs(legs', "SL") = LiveLegs(legs, "SL")
             /\ HasSL(legs') <=> HasSL(legs)
             /\ TrueSL(legs) => TrueSL(legs')
  <2>1. /\ legs'[i].role = legs[i].role
        /\ legs[i].role = "SL" => legs'[i].exch = legs[i].exch
    BY <1>3 DEF Dropped, Synced
  <2>2. \A j \in DOMAIN legs : /\ legs'[j].role = legs[j].role
                               /\ legs[j].role = "SL" => legs'[j].exch = legs[j].exch
    BY <1>3, <2>1
  <2>3. LiveLegs(legs', "SL") = LiveLegs(legs, "SL")
    BY <1>3, <2>2 DEF LiveLegs
  <2>4. HasSL(legs') <=> HasSL(legs)
    BY <1>3, <2>2 DEF HasSL
  <2>5. TrueSL(legs) => TrueSL(legs')
    BY <1>3 DEF TrueSL, Dropped, Synced
  <2>6. QED BY <2>3, <2>4, <2>5
<1>4. QED BY <1>1, <1>2, <1>3

-----------------------------------------------------------------------------
(* The spot half of the hard invariant, with the thread alone.               *)

Alone == heal.pc = "asleep"

SpotKept == Spot => /\ /\ impl["fill"].pc = "back" /\ ConfirmsSL(impl["fill"].result)
                       => IsLive(legs, "SL")
                    /\ fill.outcome \in Covered => IsLive(legs, "SL")

SpotInv == Paths /\ Closing /\ Alone /\ SpotKept

\* The native list is placed: a stop-loss it confirms is live.
LEMMA SpotReturns ==
    ASSUME Paths, Spot, Create("fill"), impl'["fill"].pc = "back",
           ConfirmsSL(impl'["fill"].result)
    PROVE  IsLive(legs', "SL")
<1> DEFINE a == impl["fill"]
<1>0. "fill" \in Callers /\ TypeInv /\ SpotPath /\ legs \in Seq(Leg)
  BY TypeFacts DEF Callers, Paths
<1>1. a.pc \notin {"idle", "back"} /\ fill.pc = "waiting"
  BY <1>0, CreateBusy DEF Paths, Bound, SpotPath
<1>2. ~Recorded(legs)
  BY <1>0, <1>1 DEF SpotPath, Turns, Over
<1>3. \A role : ActiveLeg(legs, role) = 0
  BY <1>0, <1>2, NoRows
<1>4. CASE Read("fill")
  <2>1. PICK b \in Activation :
           /\ Step("fill", b)
           /\ b.pc = "oco" \/ (b.pc = "back" /\ b.result = Raised)
    BY <1>0, <1>3, <1>4, ReadEffect
  <2>2. impl'["fill"] = b
    BY <1>0, <2>1, StepOther
  <2>3. QED BY <2>1, <2>2, AnswerReading
<1>5. CASE EnsureOco("fill")
  <2>1. a.sl = 0 /\ a.tp = 0
    BY <1>0, <1>5 DEF EnsureOco, SpotPath, SpotFill, Holds
  <2>2. PICK b \in Activation : Step("fill", b) /\ b.pc = "ocoPlace"
    BY <1>0, <1>3, <1>5, <2>1, EnsureOcoEffect
  <2>3. QED BY <1>0, <2>2, StepOther
<1>6. CASE PlaceNativeOco("fill")
  <2>1. a.sl = 0 /\ a.tp = 0
    BY <1>0, <1>6 DEF PlaceNativeOco, SpotPath, SpotFill, Holds
  <2>2. PICK o \in PlaceOco(legs, live /\ ~killed), b \in Activation :
           /\ legs' = o.legs /\ Step("fill", b)
           /\ ConfirmsSL(b.result) <=> Confirmed(o.answer.sl)
    BY <1>0, <1>6, <2>1, PlaceNativeOcoEffect
  <2>3. Confirmed(o.answer.sl)
    BY <1>0, <2>2, StepOther
  <2>4. (live /\ ~killed) \in BOOLEAN
    BY Zenon
  <2>5. \A e \in Errors : ~Confirmed(OcoFailed(e).sl)
    BY AnswerTypes DEF OcoFailed
  <2>6. {"blocked", "refused"} \subseteq Errors /\ Refusals \subseteq Errors
    BY AnswerTypes DEF Errors
  <2>7. \E row : Pairs(legs, legs', row)
    BY <1>0, <1>3, <2>2, <2>3, <2>4, <2>5, <2>6, OcoEffect
  <2>8. QED BY <2>7 DEF Pairs, IsLive, LiveLegs
<1>7. QED
  BY <1>0, <1>4, <1>5, <1>6
     DEF Create, SpotPath, SpotFill, CancelForOco, CancelBeforeTP, CancelAfterTP,
         TakeProfit, TakeProfitAgain, StopLoss

LEMMA SpotInvNext ==
    ASSUME MaxHeals = 0, SpotInv, [Next]_vars
    PROVE  SpotInv'
<1>0. /\ TypeInv /\ Paths /\ Closing /\ heal.pc = "asleep" /\ impl["heal"].pc = "idle"
      /\ "fill" \in Callers /\ "heal" \in Callers /\ legs \in Seq(Leg)
  BY TypeFacts DEF SpotInv, Paths, Bound, Alone, Callers
<1>1. Paths' /\ (Spot' <=> Spot) /\ Closing'
  BY <1>0, PathsNext, ClosingNext
<1>2. CASE \E c \in Callers : Create(c)
  <2>1. Create("fill")
    BY <1>0, <1>2, CreateBusy DEF Callers
  <2>2. fill' = fill /\ heal' = heal
    BY <1>0, <2>1, CreateFrame
  <2>3. Spot => fill.pc = "waiting" /\ fill.outcome = "none"
    BY <1>0, <2>1, CreateBusy DEF Paths, Bound, SpotPath, Closing
  <2>4. SpotKept'
    BY <1>0, <1>1, <2>1, <2>2, <2>3, SpotReturns DEF SpotKept, Covered
  <2>5. QED BY <1>0, <1>1, <2>2, <2>4 DEF SpotInv, Alone
<1>3. CASE ThreadActs
  <2>1. heal' = heal
    BY <1>0, <1>3, ThreadEffect DEF ThreadActs
  <2>2. ASSUME Spot PROVE SpotKept'
    <3>1. SpotPath /\ legs' = legs
      BY <1>0, <1>3, <2>2, ThreadEffect DEF ThreadActs, Paths, SpotPath, Still
    <3>2. \A pc \in {"read", "back", "idle"} : Enters("fill", pc) =>
            ~ConfirmsSL(impl'["fill"].result)
      BY <1>0, EntersAs
    <3>3. fill.pc = "start" => ActiveLeg(legs, "SL") = 0
      BY <1>0, <3>1, NoRows DEF SpotPath, Turns, Over
    <3>4. fill'.outcome \in Covered =>
            \/ fill.outcome \in Covered
            \/ impl["fill"].pc = "back" /\ ConfirmsSL(impl["fill"].result)
      BY <1>0, <1>3, <3>1, <3>3, ThreadEffect
         DEF ThreadActs, Still, Goes, Ends, Covered, ConfirmsBoth, SpotPath
    <3>5. impl'["fill"].pc = "back" /\ ConfirmsSL(impl'["fill"].result) =>
            impl["fill"].pc = "back" /\ ConfirmsSL(impl["fill"].result)
      BY <1>0, <1>3, <3>2, ThreadEffect DEF ThreadActs, Still
    <3>6. IsLive(legs, "SL") => IsLive(legs, "SL")'
      BY <3>1 DEF IsLive, LiveLegs
    <3>7. QED BY <1>1, <2>2, <3>4, <3>5, <3>6 DEF SpotInv, SpotKept
  <2>3. SpotKept'
    BY <1>1, <2>2 DEF SpotKept
  <2>4. QED BY <1>0, <1>1, <2>1, <2>3 DEF SpotInv, Alone
<1>4. CASE HealActs
  BY <1>0, <1>4, HealerEffect DEF HealActs
<1>5. CASE RestActs
  <2>1. UNCHANGED <<fill, heal, impl>>
    BY <1>0, <1>5, RestEffect DEF RestActs
  <2>2. LiveLegs(legs', "SL") = LiveLegs(legs, "SL")
    BY <1>0, <1>5, RestKeepsSL
  <2>3. SpotKept'
    BY <1>1, <2>1, <2>2 DEF SpotInv, SpotKept, IsLive
  <2>4. QED BY <1>0, <1>1, <2>1, <2>3 DEF SpotInv, Alone
<1>6. QED BY <1>2, <1>3, <1>4, <1>5, NextActs

\* With a native list there is no gap to recover: whatever is refused, lost,
\* left unsaved, found dead or switched off, as long as the lot stays on its
\* path the thread alone leaves no spot entry naked (create_oco_protection_orders
\* places both legs or none, and the thread flattens on none).
THEOREM SpotNeverNaked == ASSUME PathKept, MaxHeals = 0 PROVE Spec => []SpotInvariant
<1>1. Init => SpotInv
  <2>1. Init => /\ heal.pc = "asleep" /\ fill.outcome = "none"
                /\ impl["fill"].pc = "idle"
    BY DEF Init, Callers, Idle
  <2>2. QED BY <2>1, PathsInit, ClosingInit DEF SpotInv, Alone, SpotKept, Covered
<1>2. SpotInv /\ [Next]_vars => SpotInv'
  BY SpotInvNext
<1>3. SpotInv => SpotInvariant
  BY HardFromOutcome DEF SpotInv, Paths, SpotKept, SpotInvariant, Spot
<1>4. QED BY <1>1, <1>2, <1>3, PTL DEF Spec

-----------------------------------------------------------------------------
(* The hard invariant with the healer at work.  Whoever takes a stop-loss     *)
(* away owes one: until the debt is paid by a placement, which nothing        *)
(* refuses, some activation stands where its next steps pay it.               *)

\* The exchange refuses no placement and kills no stop-loss, queries and commits
\* of a cancellation succeed, and where native lists are placed nobody flips the
\* margin mode, the live-trading toggle or the kill switch.
Obeyed == /\ Faults \cap {"refused", "disabled", "raised", "deadSL", "unmarked"} = {}
          /\ Faults \cap {"margin", "toggle", "kill"} # {} => TRUE \notin OcoFlags

LEMMA ObeyedFacts ==
    ASSUME Obeyed
    PROVE  /\ Refusals = {} /\ PathKept
           /\ "deadSL" \notin Faults /\ "unmarked" \notin Faults /\ "raised" \notin Faults
BY DEF Obeyed, PathKept, Refusals, Kinds

LEMMA StopLossPaid ==
    ASSUME Obeyed, NEW L \in Seq(Leg), TrueSL(L), NEW o \in PlaceStopLoss(L)
    PROVE  IsLive(o.legs, "SL") /\ TrueSL(o.legs) /\ HasSL(o.legs)
<1>1. Reuses(L, "SL", o) \/ Rests(L, o.legs, "SL")
  BY ObeyedFacts, StopLossEffect DEF PlacedOrRefused, DiesUnseen
<1>2. CASE Reuses(L, "SL", o)
  <2>1. o.legs = L /\ ActiveLeg(L, "SL") \in ActiveRows(L, "SL")
    BY <1>2, ActiveLegFound DEF Reuses
  <2>2. QED BY <2>1 DEF ActiveRows, TrueSL, HasSL, IsLive, LiveLegs
<1>3. CASE Rests(L, o.legs, "SL")
  <2>1. Len(L) + 1 \in LiveLegs(o.legs, "SL")
    BY <1>3 DEF Rests, LiveLegs
  <2>2. TrueSL(o.legs)
    BY <1>3 DEF Rests, Grows, TrueSL
  <2>3. QED BY <2>1, <2>2 DEF IsLive, LiveLegs, HasSL
<1>4. QED BY <1>1, <1>2, <1>3

\* A take-profit call adds take-profits only.
LEMMA TakeProfitAdds ==
    ASSUME NEW L \in Seq(Leg), NEW o \in PlaceTakeProfit(L)
    PROVE  Grows(L, o.legs) /\ \A i \in DOMAIN o.legs : i \in DOMAIN L \/ o.legs[i].role = "TP"
<1>1. Grows(L, L)
  BY DEF Grows
<1>2. \A M \in Seq(Leg) : PlacedOrRefused(M, "TP", o) =>
         Grows(M, o.legs) /\ \A i \in DOMAIN o.legs : i \in DOMAIN M \/ o.legs[i].role = "TP"
  BY DEF PlacedOrRefused, Rests, Grows
<1>3. CASE Reuses(L, "TP", o) \/ PlacedOrRefused(L, "TP", o)
  BY <1>1, <1>2, <1>3 DEF Reuses
<1>4. CASE Buries(L, o.legs)
  BY <1>4 DEF Buries
<1>5. CASE \E M \in Seq(Leg) : Buries(L, M) /\ PlacedOrRefused(M, "TP", o)
  <2>1. PICK M \in Seq(Leg) : Buries(L, M) /\ PlacedOrRefused(M, "TP", o)
    BY <1>5
  <2>2. Grows(M, o.legs) /\ \A i \in DOMAIN o.legs : i \in DOMAIN M \/ o.legs[i].role = "TP"
    BY <1>2, <2>1
  <2>3. Grows(L, M) /\ \A i \in DOMAIN M : i \in DOMAIN L \/ M[i].role = "TP"
    BY <2>1 DEF Buries
  <2>4. QED BY <2>2, <2>3 DEF Grows
<1>6. QED BY <1>3, <1>4, <1>5, TakeProfitEffect

LEMMA TakeProfitAside ==
    ASSUME NEW L \in Seq(Leg), NEW o \in PlaceTakeProfit(L)
    PROVE  /\ LiveLegs(o.legs, "SL") = LiveLegs(L, "SL")
           /\ HasSL(o.legs) <=> HasSL(L)
           /\ TrueSL(L) => TrueSL(o.legs)
<1>1. Grows(L, o.legs) /\ \A i \in DOMAIN o.legs : i \in DOMAIN L \/ o.legs[i].role = "TP"
  BY TakeProfitAdds
<1>2. LiveLegs(o.legs, "SL") = LiveLegs(L, "SL")
  BY <1>1, GrowsKeeps
<1>3. HasSL(o.legs) <=> HasSL(L)
  BY <1>1 DEF Grows, HasSL
<1>4. TrueSL(L) => TrueSL(o.legs)
  BY <1>1 DEF Grows, TrueSL
<1>5. QED BY <1>2, <1>3, <1>4

LEMMA OcoPaid ==
    ASSUME Obeyed, NEW L \in Seq(Leg), TrueSL(L), NEW on, on = TRUE, NEW o \in PlaceOco(L, on)
    PROVE  IsLive(o.legs, "SL") /\ TrueSL(o.legs) /\ HasSL(o.legs)
<1>1. \/ o.legs = L /\ ActiveLeg(L, "SL") # 0
      \/ \E row : Pairs(L, o.legs, row)
  BY ObeyedFacts, OcoEffect
<1>2. CASE o.legs = L /\ ActiveLeg(L, "SL") # 0
  <2>1. ActiveLeg(L, "SL") \in ActiveRows(L, "SL")
    BY <1>2, ActiveLegFound
  <2>2. QED BY <1>2, <2>1 DEF ActiveRows, TrueSL, HasSL, IsLive, LiveLegs
<1>3. CASE \E row : Pairs(L, o.legs, row)
  <2>1. Len(L) + 1 \in LiveLegs(o.legs, "SL")
    BY <1>3 DEF Pairs, LiveLegs
  <2>2. TrueSL(o.legs)
    BY <1>3 DEF Pairs, Grows, TrueSL
  <2>3. QED BY <2>1, <2>2 DEF IsLive, LiveLegs, HasSL
<1>4. QED BY <1>1, <1>2, <1>3

LEMMA CancelMarked ==
    ASSUME Obeyed, NEW L \in Seq(Leg), NEW i, NEW on \in BOOLEAN, NEW o \in CancelLeg(L, i, on)
    PROVE  /\ HasSL(o.legs) <=> HasSL(L)
           /\ TrueSL(L) => TrueSL(o.legs)
<1>1. CASE o.ok /\ i \in DOMAIN L
  <2>1. /\ DOMAIN o.legs = DOMAIN L /\ \A j \in DOMAIN L : j # i => o.legs[j] = L[j]
        /\ o.legs[i].role = L[i].role /\ o.legs[i].row = "cancelled"
    BY <1>1, CancelEffect, ObeyedFacts
  <2>2. QED BY <2>1 DEF HasSL, TrueSL
<1>2. CASE ~o.ok
  BY <1>2, CancelEffect
<1>3. CASE o.ok /\ i \notin DOMAIN L
  <2>1. DOMAIN o.legs = DOMAIN L /\ \A j \in DOMAIN L : o.legs[j] = L[j]
    BY <1>3, CancelEffect
  <2>2. QED BY <2>1 DEF HasSL, TrueSL
<1>4. QED BY <1>1, <1>2, <1>3

\* An activation whose next steps place a stop-loss, whatever it meets.
Owes(a) == \/ a.pc \in {"read", "ocoPlace", "tpAgain"}
           \/ a.pc \in {"oco", "tp", "sl"} /\ a.sl = 0

Owed == HasSL(legs) =>
          IsLive(legs, "SL") \/ Owes(impl["fill"]) \/ Owes(impl["heal"])

SwitchesOn == /\ Faults \cap {"toggle", "kill"} # {} => ~oco
              /\ oco => live /\ ~killed

\* Who knows of a stop-loss knows of one that was placed.
Knows(L, a) == /\ a.sl # 0 => HasSL(L)
               /\ a.pc = "back" /\ ConfirmsSL(a.result) => HasSL(L)
               /\ a.pc = "tpAgain" => a.sl = 0

SLFound == /\ heal.pc # "asleep" => HasSL(legs)
           /\ fill.pc \in {"gap", "recovery"} => HasSL(legs)
           /\ fill.outcome \in Covered => HasSL(legs)

Indebted == /\ Paths /\ Closing /\ SwitchesOn
            /\ TrueSL(legs) /\ SLFound
            /\ \A c \in Callers : Knows(legs, impl[c])
            /\ Owed

LEMMA ActiveSL ==
    ASSUME NEW L \in Seq(Leg), ActiveLeg(L, "SL") # 0
    PROVE  HasSL(L) /\ (TrueSL(L) => IsLive(L, "SL"))
<1>1. ActiveLeg(L, "SL") \in ActiveRows(L, "SL")
  BY ActiveLegFound
<1>2. QED BY <1>1 DEF ActiveRows, HasSL, TrueSL, IsLive, LiveLegs

\* One step of the routine, as the debt sees it.
Pays(c) == /\ IsLive(legs, "SL") \/ Owes(impl[c]) => IsLive(legs', "SL") \/ Owes(impl'[c])
           /\ HasSL(legs) => HasSL(legs')
           /\ HasSL(legs') => HasSL(legs) \/ IsLive(legs', "SL")
           /\ TrueSL(legs')
           /\ Knows(legs', impl'[c])

LEMMA PaysRead ==
    ASSUME Obeyed, Indebted, NEW c \in Callers, Read(c)
    PROVE  Pays(c)
<1>1. TypeInv /\ legs \in Seq(Leg) /\ TrueSL(legs) /\ Knows(legs, impl[c])
  BY TypeFacts DEF Indebted, Paths
<1>2. legs' = legs
  BY <1>1, ReadEffect
<1>3. ActiveLeg(legs, "SL") # 0 => HasSL(legs) /\ IsLive(legs, "SL")
  BY <1>1, ActiveSL
<1>4. PICK b \in Activation :
        /\ Step(c, b)
        /\ \/ ActiveLeg(legs, "SL") # 0 /\ b.pc = "back" /\ Holds(b, impl[c].sl, impl[c].tp)
           \/ /\ b.pc \in {"oco", "sl", "preCancel", "tp"}
              /\ b.pc = "preCancel" => ActiveLeg(legs, "SL") # 0
              /\ b.sl = ActiveLeg(legs, "SL")
  BY <1>1, ReadEffect, ObeyedFacts DEF Holds
<1>5. impl'[c] = b
  BY <1>1, <1>4, StepOther
<1>6. IsLive(legs, "SL") \/ Owes(b)
  BY <1>3, <1>4 DEF Owes
<1>7. Knows(legs, b)
  BY <1>1, <1>3, <1>4 DEF Knows, Holds
<1>8. QED BY <1>1, <1>2, <1>5, <1>6, <1>7 DEF Pays

LEMMA PaysEnsure ==
    ASSUME Obeyed, Indebted, NEW c \in Callers, EnsureOco(c)
    PROVE  Pays(c)
<1> DEFINE a == impl[c]
<1>1. TypeInv /\ legs \in Seq(Leg) /\ TrueSL(legs) /\ Knows(legs, a)
  BY TypeFacts DEF Indebted, Paths
<1>2. legs' = legs /\ a.pc = "oco"
  BY <1>1, EnsureOcoEffect
<1>3. ActiveLeg(legs, "SL") # 0 => HasSL(legs) /\ IsLive(legs, "SL")
  BY <1>1, ActiveSL
<1>4. a.sl = 0 => a.tp = 0 /\ ActiveLeg(legs, "SL") = 0 /\ ActiveLeg(legs, "TP") = 0
  <2>1. SpotPath /\ Callers = {"fill", "heal"}
    BY <1>2 DEF Indebted, Paths, DualPath, OcoPcs, Callers
  <2>2. c = "heal" => a.sl # 0
    BY <1>2, <2>1 DEF SpotPath, SpotHeal
  <2>3. c = "fill" => Holds(a, 0, 0) /\ ~Over
    <3>1. c = "fill" => Bound /\ fill.pc \in {"waiting", "recovery"} /\ a.pc # "back"
      BY <1>2 DEF Indebted, Paths, Bound
    <3>2. QED BY <1>2, <2>1, <3>1 DEF SpotPath, SpotFill, Over
  <2>4. ~Over => ~Recorded(legs)
    BY <2>1 DEF SpotPath, Turns
  <2>5. QED BY <1>1, <2>1, <2>2, <2>3, <2>4, NoRows DEF Holds, Roles
<1> DEFINE sl == IF a.sl # 0 THEN a.sl ELSE ActiveLeg(legs, "SL")
           tp == IF a.tp # 0 THEN a.tp ELSE ActiveLeg(legs, "TP")
<1>5. sl = 0 => a.sl = 0 /\ tp = 0
  BY <1>4
<1>6. sl # 0 => a.sl # 0 \/ ActiveLeg(legs, "SL") # 0
  OBVIOUS
<1>7. \E b \in Activation :
        /\ Step(c, b) /\ b.whole = a.whole /\ Holds(b, a.sl, a.tp)
        /\ \/ /\ sl # 0 /\ tp # 0 /\ b.pc = "back"
              /\ ConfirmsSL(b.result) => sl # 0
           \/ sl = 0 /\ tp = 0 /\ b.pc = "ocoPlace"
           \/ /\ sl = 0 \/ tp = 0
              /\ sl # 0 \/ tp # 0
              /\ b.pc = "ocoCancel" /\ b.todo = {sl, tp} \ {0}
  BY <1>1, EnsureOcoEffect
<1> HIDE DEF sl, tp
<1>8. PICK b \in Activation :
        /\ Step(c, b) /\ b.sl = a.sl
        /\ \/ b.pc = "back" /\ sl # 0
           \/ b.pc = "ocoPlace"
           \/ b.pc = "ocoCancel" /\ sl # 0
  BY <1>5, <1>7 DEF Holds
<1>9. impl'[c] = b
  BY <1>1, <1>8, StepOther
<1>10. IsLive(legs, "SL") \/ Owes(a) => IsLive(legs, "SL") \/ Owes(b)
  BY <1>2, <1>8, <1>5, <1>6, <1>4, <1>3, <1>1 DEF Owes
<1>11. Knows(legs, b)
  BY <1>1, <1>3, <1>8, <1>6 DEF Knows
<1>12. QED BY <1>1, <1>2, <1>9, <1>10, <1>11 DEF Pays

LEMMA PaysOco ==
    ASSUME Obeyed, Indebted, NEW c \in Callers, CancelForOco(c) \/ PlaceNativeOco(c)
    PROVE  Pays(c)
<1> DEFINE a == impl[c]
<1>1. /\ TypeInv /\ legs \in Seq(Leg) /\ TrueSL(legs) /\ Knows(legs, a) /\ live \in BOOLEAN
      /\ SwitchesOn
  BY TypeFacts DEF Indebted, Paths
<1>2. CASE CancelForOco(c)
  <2>1. PICK i \in a.todo : \E o \in CancelLeg(legs, i, live) : \E b \in Activation :
          /\ legs' = o.legs
          /\ Step(c, b) /\ Holds(b, a.sl, a.tp)
          /\ IF o.ok THEN b.pc = "ocoPlace"
             ELSE b.pc = "back" /\ (ConfirmsSL(b.result) => a.sl # 0)
    BY <1>1, <1>2, CancelForOcoEffect
  <2>2. PICK o \in CancelLeg(legs, i, live), b \in Activation :
          /\ legs' = o.legs
          /\ Step(c, b) /\ Holds(b, a.sl, a.tp)
          /\ IF o.ok THEN b.pc = "ocoPlace"
             ELSE b.pc = "back" /\ (ConfirmsSL(b.result) => a.sl # 0)
    BY <2>1
  <2>3. (HasSL(legs') <=> HasSL(legs)) /\ TrueSL(legs')
    BY <1>1, <2>2, CancelMarked
  <2>4. (~o.ok => legs' = legs) /\ o.ok \in BOOLEAN
    BY <1>1, <2>2, CancelEffect
  <2>5. impl'[c] = b /\ a.pc = "ocoCancel"
    BY <1>1, <1>2, <2>2, StepOther, CancelForOcoEffect
  <2>6. IsLive(legs, "SL") \/ Owes(a) => IsLive(legs', "SL") \/ Owes(b)
    BY <2>2, <2>4, <2>5 DEF Owes
  <2>7. Knows(legs', b)
    BY <1>1, <2>2, <2>3, <2>4 DEF Knows, Holds
  <2>8. QED BY <2>3, <2>5, <2>6, <2>7 DEF Pays
<1>3. CASE PlaceNativeOco(c)
  <2>1. PICK o \in PlaceOco(legs, live /\ ~killed), b \in Activation :
          /\ legs' = o.legs /\ Step(c, b) /\ b.pc = "back"
    BY <1>1, <1>3, PlaceNativeOcoEffect
  <2>2. a.pc = "ocoPlace"
    BY <1>1, <1>3, PlaceNativeOcoEffect
  <2>3. Spot
    BY <2>2 DEF Indebted, Paths, DualPath, OcoPcs
  <2>4. (live /\ ~killed) = TRUE
    BY <1>1, <2>3 DEF Spot, SwitchesOn
  <2>5. IsLive(legs', "SL") /\ TrueSL(legs') /\ HasSL(legs')
    BY <1>1, <2>1, <2>4, OcoPaid
  <2>6. impl'[c] = b
    BY <1>1, <2>1, StepOther
  <2>7. Knows(legs', b)
    BY <2>1, <2>5 DEF Knows
  <2>8. QED BY <2>5, <2>6, <2>7 DEF Pays
<1>4. QED BY <1>2, <1>3

LEMMA PaysTakeProfit ==
    ASSUME Obeyed, Indebted, NEW c \in Callers,
           \/ CancelBeforeTP(c) \/ CancelAfterTP(c)
           \/ TakeProfit(c) \/ TakeProfitAgain(c)
    PROVE  Pays(c)
<1> DEFINE a == impl[c]
<1>1. TypeInv /\ legs \in Seq(Leg) /\ TrueSL(legs) /\ Knows(legs, a) /\ live \in BOOLEAN
  BY TypeFacts DEF Indebted, Paths
<1>2. CASE CancelBeforeTP(c) \/ CancelAfterTP(c)
  <2>1. PICK o \in CancelLeg(legs, a.sl, live), b \in Activation :
          /\ legs' = o.legs /\ Step(c, b)
          /\ IF o.ok THEN b.pc \in {"tp", "tpAgain"} /\ Holds(b, 0, a.tp)
             ELSE b.pc \in {"tp", "sl"} /\ Holds(b, a.sl, a.tp)
    BY <1>1, <1>2, CancelStepEffect
  <2>2. (HasSL(legs') <=> HasSL(legs)) /\ TrueSL(legs')
    BY <1>1, <2>1, CancelMarked
  <2>3. (~o.ok => legs' = legs) /\ o.ok \in BOOLEAN
    BY <1>1, <2>1, CancelEffect
  <2>4. impl'[c] = b /\ a.pc \in {"preCancel", "tpCancel"}
    BY <1>1, <1>2, <2>1, StepOther, CancelStepEffect
  <2>5. IsLive(legs, "SL") \/ Owes(a) => IsLive(legs', "SL") \/ Owes(b)
    BY <2>1, <2>3, <2>4 DEF Owes, Holds
  <2>6. Knows(legs', b)
    BY <1>1, <2>1, <2>2, <2>3 DEF Knows, Holds
  <2>7. QED BY <2>2, <2>4, <2>5, <2>6 DEF Pays
<1>3. CASE TakeProfit(c) \/ TakeProfitAgain(c)
  <2>1. PICK o \in PlaceTakeProfit(legs), b \in Activation :
          /\ legs' = o.legs /\ Step(c, b) /\ Holds(b, a.sl, a.tp)
          /\ b.pc = "sl" \/ (a.pc = "tp" /\ b.pc = "tpCancel" /\ a.sl # 0)
    BY <1>1, <1>3, TakeProfitStepEffect
  <2>2. /\ LiveLegs(legs', "SL") = LiveLegs(legs, "SL")
        /\ HasSL(legs') <=> HasSL(legs)
        /\ TrueSL(legs')
    BY <1>1, <2>1, TakeProfitAside
  <2>3. impl'[c] = b /\ a.pc \in {"tp", "tpAgain"}
    BY <1>1, <1>3, <2>1, StepOther, TakeProfitStepEffect
  <2>4. Owes(a) => Owes(b)
    BY <1>1, <2>1, <2>3 DEF Owes, Holds, Knows
  <2>5. Knows(legs', b)
    BY <1>1, <2>1, <2>2 DEF Knows, Holds
  <2>6. QED BY <2>2, <2>3, <2>4, <2>5 DEF Pays, IsLive
<1>4. QED BY <1>2, <1>3

LEMMA PaysStopLoss ==
    ASSUME Obeyed, Indebted, NEW c \in Callers, StopLoss(c)
    PROVE  Pays(c)
<1> DEFINE a == impl[c]
<1>1. TypeInv /\ legs \in Seq(Leg) /\ TrueSL(legs) /\ Knows(legs, a)
  BY TypeFacts DEF Indebted, Paths
<1>2. a.pc = "sl"
  BY <1>1, StopLossStepEffect
<1>3. PICK b \in Activation :
        /\ Step(c, b) /\ b.pc = "back" /\ Holds(b, a.sl, a.tp)
        /\ IF a.sl # 0 THEN legs' = legs
           ELSE \E o \in PlaceStopLoss(legs) : legs' = o.legs
  BY <1>1, StopLossStepEffect
<1>4. impl'[c] = b
  BY <1>1, <1>3, StepOther
<1>5. CASE a.sl # 0
  BY <1>1, <1>2, <1>3, <1>4, <1>5 DEF Pays, Knows, Holds, Owes
<1>6. CASE a.sl = 0
  <2>1. IsLive(legs', "SL") /\ TrueSL(legs') /\ HasSL(legs')
    BY <1>1, <1>3, <1>6, StopLossPaid
  <2>2. QED BY <1>3, <1>4, <2>1 DEF Pays, Knows
<1>7. QED BY <1>5, <1>6

LEMMA PaysCreate ==
    ASSUME Obeyed, Indebted, NEW c \in Callers, Create(c)
    PROVE  Pays(c)
BY PaysRead, PaysEnsure, PaysOco, PaysTakeProfit, PaysStopLoss DEF Create

LEMMA IndebtedInit == ASSUME Obeyed, Init PROVE Indebted
<1>1. Paths /\ Closing
  BY ObeyedFacts, PathsInit, ClosingInit
<1>2. /\ legs = <<>> /\ oco \in OcoFlags /\ live = TRUE /\ killed = FALSE
      /\ fill.pc = "poll" /\ fill.outcome = "none" /\ heal.pc = "asleep"
      /\ \A c \in Callers : impl[c] = Idle
  BY DEF Init
<1>3. TrueSL(legs) /\ ~HasSL(legs)
  BY <1>2 DEF TrueSL, HasSL
<1>4. SwitchesOn
  BY <1>2 DEF SwitchesOn, Obeyed
<1>5. SLFound
  BY <1>2 DEF SLFound, Covered
<1>6. \A c \in Callers : Knows(legs, impl[c])
  BY <1>2 DEF Knows, Idle
<1>7. QED BY <1>1, <1>3, <1>4, <1>5, <1>6 DEF Indebted, Owed

\* What the steps of the thread and of the healer do to the debt.
LEMMA IndebtedThread ==
    ASSUME Obeyed, Indebted, ThreadActs
    PROVE  /\ TrueSL(legs') /\ SLFound' /\ Owed'
           /\ \A c \in Callers : Knows(legs', impl'[c])
<1>1. /\ TypeInv /\ legs \in Seq(Leg) /\ live \in BOOLEAN /\ TrueSL(legs) /\ SLFound /\ Owed
      /\ Bound /\ Closing /\ Callers = {"fill", "heal"}
      /\ \A c \in Callers : Knows(legs, impl[c])
  BY TypeFacts DEF Indebted, Paths, Callers
<1>2. \A pc \in {"read", "back", "idle"} : Enters("fill", pc) =>
        /\ impl'["heal"] = impl["heal"]
        /\ impl'["fill"].pc = pc
        /\ Knows(legs', impl'["fill"]) /\ (pc = "read" => Owes(impl'["fill"]))
  BY <1>1, EntersAs DEF Knows, Owes, Holds, Enters
<1>3. /\ fill.pc \in {"attempt", "gap"} => impl["fill"].pc = "idle"
      /\ impl["fill"].pc \in {"idle", "back"} => ~Owes(impl["fill"])
  BY <1>1 DEF Bound, Owes
<1>4. /\ HasSL(legs') <=> HasSL(legs)
      /\ TrueSL(legs')
      /\ legs' = legs \/ Enters("fill", "read")
  <2>1. \A i : \A o \in CancelLeg(legs, i, live) :
          (HasSL(o.legs) <=> HasSL(legs)) /\ TrueSL(o.legs)
    BY <1>1, CancelMarked
  <2>2. \/ legs' = legs
        \/ /\ Enters("fill", "read")
           /\ \E i : \E o \in CancelLeg(legs, i, live) : legs' = o.legs
    BY <1>1, ThreadEffect DEF ThreadActs, Still
  <2>3. QED BY <1>1, <2>1, <2>2
<1>5. /\ impl' = impl \/ \E pc \in {"read", "back", "idle"} : Enters("fill", pc)
      /\ Owes(impl["fill"]) => impl' = impl
  BY <1>1, <1>3, ThreadEffect DEF ThreadActs, Still
<1>6. \A c \in Callers : Knows(legs', impl'[c])
  BY <1>1, <1>2, <1>4, <1>5 DEF Knows
<1>7. Owed'
  BY <1>1, <1>2, <1>4, <1>5 DEF Owed
<1>8. SLFound'
  <2>1. heal' = heal
    BY <1>1, ThreadEffect DEF ThreadActs
  <2>2. /\ fill.pc = "waiting" /\ ConfirmsSL(impl["fill"].result) /\ impl["fill"].pc = "back"
             => HasSL(legs)
        /\ ActiveLeg(legs, "SL") # 0 => HasSL(legs)
    BY <1>1, ActiveSL DEF Knows
  <2>3. /\ fill'.pc \in {"gap", "recovery"} => HasSL(legs)
        /\ fill'.outcome \in Covered => HasSL(legs)
    BY <1>1, <2>2, ThreadEffect DEF ThreadActs, Goes, Ends, SLFound, Covered, ConfirmsBoth
  <2>4. QED BY <1>1, <1>4, <2>1, <2>3 DEF SLFound
<1>9. QED BY <1>4, <1>6, <1>7, <1>8

LEMMA IndebtedHealer ==
    ASSUME Obeyed, Indebted, HealActs
    PROVE  /\ TrueSL(legs') /\ SLFound' /\ Owed'
           /\ \A c \in Callers : Knows(legs', impl'[c])
<1>1. /\ TypeInv /\ legs \in Seq(Leg) /\ live \in BOOLEAN /\ TrueSL(legs) /\ SLFound /\ Owed
      /\ Bound /\ Callers = {"fill", "heal"}
      /\ \A c \in Callers : Knows(legs, impl[c])
  BY TypeFacts DEF Indebted, Paths, Callers
<1>2. fill' = fill /\ impl'["fill"] = impl["fill"]
  BY <1>1, HealerEffect DEF HealActs
<1>3. \A pc \in {"read", "idle"} : Enters("heal", pc) =>
        /\ impl'["heal"].pc = pc
        /\ Knows(legs', impl'["heal"]) /\ (pc = "read" => Owes(impl'["heal"]))
  BY <1>1, EntersAs DEF Knows, Owes, Holds
<1>4. /\ heal.pc \in {"asleep", "cancel"} => impl["heal"].pc = "idle"
      /\ impl["heal"].pc \in {"idle", "back"} => ~Owes(impl["heal"])
      /\ heal.pc = "asleep" => impl["heal"].pc = "idle"
  BY <1>1 DEF Bound, Owes
<1>5. CASE heal.pc = "asleep"
  <2>1. legs' = legs /\ ActiveLeg(legs, "SL") # 0
    BY <1>1, <1>5, HealerEffect DEF HealActs
  <2>2. HasSL(legs)
    BY <1>1, <2>1, ActiveSL
  <2>3. \/ impl' = impl
        \/ impl'["heal"] = [Idle EXCEPT !.pc = "oco", !.whole = FALSE,
                                        !.sl = ActiveLeg(legs, "SL")]
    BY <1>1, <1>5, HealerEffect DEF HealActs
  <2>4. Knows(legs, impl'["heal"])
    BY <1>1, <2>2, <2>3 DEF Knows, Idle
  <2>5. Owed'
    BY <1>1, <1>2, <1>4, <1>5, <2>1 DEF Owed
  <2>6. QED BY <1>1, <1>2, <2>1, <2>2, <2>4, <2>5 DEF SLFound
<1>6. CASE heal.pc = "cancel"
  <2>1. PICK o \in CancelLeg(legs, heal.sl, live) :
          /\ legs' = o.legs
          /\ IF o.ok THEN Enters("heal", "read") ELSE impl' = impl
    BY <1>1, <1>6, HealerEffect DEF HealActs
  <2>2. (HasSL(legs') <=> HasSL(legs)) /\ TrueSL(legs')
    BY <1>1, <2>1, CancelMarked
  <2>3. (~o.ok => legs' = legs) /\ o.ok \in BOOLEAN
    BY <1>1, <2>1, CancelEffect
  <2>4. \A c \in Callers : Knows(legs', impl'[c])
    BY <1>1, <1>2, <1>3, <2>1, <2>2 DEF Knows
  <2>5. Owed'
    BY <1>1, <1>3, <2>1, <2>2, <2>3 DEF Owed
  <2>6. SLFound'
    BY <1>1, <1>2, <1>6, <2>2 DEF SLFound
  <2>7. QED BY <2>2, <2>4, <2>5, <2>6
<1>7. CASE heal.pc = "waiting"
  <2>1. legs' = legs /\ Enters("heal", "idle") /\ heal'.pc = "asleep"
    BY <1>1, <1>7, HealerEffect DEF HealActs
  <2>2. impl["heal"].pc = "back"
    BY <1>1, <1>7, HealerEffect DEF HealActs
  <2>3. QED BY <1>1, <1>2, <1>3, <1>4, <2>1, <2>2 DEF SLFound, Owed
<1>8. QED
  BY <1>1, <1>5, <1>6, <1>7, HealerEffect DEF HealActs

LEMMA IndebtedNext ==
    ASSUME Obeyed, Indebted, [Next]_vars
    PROVE  Indebted'
<1>1. Paths' /\ Closing'
  BY PathsNext, ClosingNext DEF Indebted, Paths
<1>2. /\ TypeInv /\ legs \in Seq(Leg) /\ TrueSL(legs) /\ SLFound /\ Owed /\ SwitchesOn
      /\ Callers = {"fill", "heal"}
      /\ \A c \in Callers : Knows(legs, impl[c])
  BY TypeFacts DEF Indebted, Paths, Callers
<1>3. CASE \E c \in Callers : Create(c)
  <2>1. PICK c \in Callers : Create(c)
    BY <1>3
  <2>2. Pays(c)
    BY <2>1, PaysCreate
  <2>3. /\ \A d \in Callers \ {c} : impl'[d] = impl[d]
        /\ UNCHANGED <<oco, live, killed, fill, heal>>
    BY <1>2, <2>1, CreateFrame
  <2>4. \A d \in Callers : Knows(legs', impl'[d])
    BY <1>2, <2>2, <2>3 DEF Pays, Knows
  <2>5. Owed'
    BY <1>2, <2>2, <2>3 DEF Pays, Owed
  <2>6. SLFound' /\ SwitchesOn'
    BY <1>2, <2>2, <2>3 DEF Pays, SLFound, SwitchesOn
  <2>7. QED BY <1>1, <2>2, <2>4, <2>5, <2>6 DEF Indebted, Pays
<1>4. CASE ThreadActs
  BY <1>1, <1>2, <1>4, IndebtedThread, ThreadEffect DEF ThreadActs, SwitchesOn, Indebted
<1>5. CASE HealActs
  BY <1>1, <1>2, <1>5, IndebtedHealer, HealerEffect DEF HealActs, SwitchesOn, Indebted
<1>6. CASE RestActs
  <2>1. /\ LiveLegs(legs', "SL") = LiveLegs(legs, "SL")
        /\ HasSL(legs') <=> HasSL(legs)
        /\ TrueSL(legs')
    BY <1>2, <1>6, RestKeepsSL
  <2>2. /\ UNCHANGED <<oco, fill, heal, impl>>
        /\ "toggle" \notin Faults => live' = live
        /\ "kill" \notin Faults => killed' = killed
    BY <1>2, <1>6, RestEffect DEF RestActs
  <2>3. SwitchesOn'
    BY <1>2, <2>2 DEF SwitchesOn
  <2>4. Owed' /\ SLFound' /\ \A c \in Callers : Knows(legs', impl'[c])
    BY <1>2, <2>1, <2>2 DEF Owed, SLFound, Knows, IsLive
  <2>5. QED BY <1>1, <2>1, <2>3, <2>4 DEF Indebted
<1>7. QED BY <1>3, <1>4, <1>5, <1>6, NextActs

LEMMA IndebtedAlways == ASSUME Obeyed PROVE Spec => []Indebted
<1>1. Init => Indebted
  BY IndebtedInit
<1>2. Indebted /\ [Next]_vars => Indebted'
  BY IndebtedNext
<1>3. QED BY <1>1, <1>2, PTL DEF Spec

\* However often the healer takes the stop-loss of a lot away to place the pair
\* anew, and whatever the thread is doing meanwhile, an entry both are done with
\* is covered, where the exchange refuses no placement: whoever took the
\* stop-loss away placed the next one before it ended.
THEOREM HealedIsHard == ASSUME Obeyed PROVE Spec => []HardInvariant
<1>1. Indebted => HardInvariant
  <2> SUFFICES ASSUME Indebted PROVE HardInvariant
    OBVIOUS
  <2>1. ThreadDone => ~Owes(impl["fill"]) /\ ~Owes(impl["heal"])
    BY DEF ThreadDone, Indebted, Paths, Bound, Owes
  <2>2. ThreadDone /\ fill.outcome \in Covered => IsLive(legs, "SL")
    BY <2>1 DEF Indebted, SLFound, Owed
  <2>3. QED BY <2>2, HardFromOutcome DEF Indebted, Paths
<1>2. QED BY <1>1, IndebtedAlways, PTL

\* A pass of the healer over a lot the thread is done with hands it back with a
\* stop-loss (_heal_half_protected_tp_parents, which cancels the one it found).
THEOREM HealerGivesBack == ASSUME Obeyed PROVE Spec => HealKeepsStop
<1>1. Indebted => (HealEnd /\ fill.pc = "done" => IsLive(legs, "SL"))
  BY DEF Indebted, Paths, Bound, Owes, SLFound, Owed, HealEnd
<1>2. QED BY <1>1, IndebtedAlways, PTL DEF HealKeepsStop

-----------------------------------------------------------------------------
(* One resting leg of each role, with the healer at work.  The rows are what  *)
(* keeps the code from placing a second leg: an order that rests has an       *)
(* active row, and a role with an active row gets no other order.             *)

Tidy(L) == Known(L) /\ OneRow(L)

\* Every accepted order is answered and recorded and live trading stays on; where
\* native lists are placed, nobody flips the margin mode and the row of a
\* cancelled leg is marked.
Saved == /\ Faults \cap {"lost", "unsaved", "toggle"} = {}
         /\ TRUE \in OcoFlags => Faults \cap {"margin", "unmarked"} = {}

\* Orders are added, each live one with its active row, none beside another
\* active row of its role.
LEMMA TidyGrows ==
    ASSUME NEW L, NEW M, Tidy(L), Grows(L, M),
           \A i \in (DOMAIN M) \ (DOMAIN L) : M[i].exch = "live" => M[i].row = "active",
           \A i \in (DOMAIN M) \ (DOMAIN L) : \A j \in DOMAIN M :
               M[i].row = "active" /\ M[j].row = "active" /\ M[i].role = M[j].role => i = j
    PROVE  Tidy(M)
<1>1. Known(M)
  BY DEF Tidy, Known, Grows
<1>2. OneRow(M)
  <2> SUFFICES ASSUME NEW role \in Roles, NEW i \in ActiveRows(M, role),
                      NEW j \in ActiveRows(M, role)
               PROVE  i = j
    BY DEF OneRow
  <2>1. CASE i \in DOMAIN L /\ j \in DOMAIN L
    BY <2>1 DEF Grows, Tidy, OneRow, ActiveRows
  <2>2. CASE i \notin DOMAIN L \/ j \notin DOMAIN L
    BY <2>2 DEF ActiveRows
  <2>3. QED BY <2>1, <2>2
<1>3. QED BY <1>1, <1>2 DEF Tidy

\* Orders end or rows become final: no row is active that was not, no order rests
\* that did not, and the row of one that rests is as it was.
LEMMA TidyShrinks ==
    ASSUME NEW L, NEW M, Tidy(L), DOMAIN M = DOMAIN L,
           \A i \in DOMAIN L :
               /\ M[i].role = L[i].role
               /\ M[i].row = "active" => L[i].row = "active"
               /\ M[i].exch = "live" => L[i].exch = "live" /\ M[i].row = L[i].row
    PROVE  Tidy(M) /\ \A role : ActiveRows(M, role) \subseteq ActiveRows(L, role)
<1>1. \A role : ActiveRows(M, role) \subseteq ActiveRows(L, role)
  BY DEF ActiveRows
<1>2. Known(M)
  BY DEF Tidy, Known
<1>3. OneRow(M)
  BY <1>1 DEF Tidy, OneRow
<1>4. QED BY <1>1, <1>2, <1>3 DEF Tidy

LEMMA TidyPlaced ==
    ASSUME Saved, NEW L \in Seq(Leg), Tidy(L), NEW role \in Roles, ActiveLeg(L, role) = 0,
           NEW P, Rests(L, P, role)
    PROVE  Tidy(P)
<1>1. /\ Grows(L, P) /\ DOMAIN P = (DOMAIN L) \cup {Len(L) + 1}
      /\ P[Len(L) + 1].role = role /\ P[Len(L) + 1].row = "active"
  BY DEF Rests, Saved
<1>2. \A j \in DOMAIN L : P[j].role = role => P[j].row # "active"
  BY <1>1, ActiveLegFound DEF Grows, ActiveRows
<1>3. \A j \in DOMAIN P : P[j].role = role /\ P[j].row = "active" => j = Len(L) + 1
  BY <1>1, <1>2
<1>4. QED BY <1>1, <1>3, TidyGrows

LEMMA TidyStopLoss ==
    ASSUME Saved, NEW L \in Seq(Leg), Tidy(L), NEW o \in PlaceStopLoss(L)
    PROVE  Tidy(o.legs)
<1>1. CASE o.legs = L
  BY <1>1
<1>2. CASE ActiveLeg(L, "SL") = 0 /\ Rests(L, o.legs, "SL")
  BY <1>2, TidyPlaced DEF Roles
<1>3. CASE ActiveLeg(L, "SL") = 0 /\ DiesUnseen(L, o)
  <2> DEFINE n == Len(L) + 1
             P == o.legs
  <2>1. /\ Grows(L, P) /\ DOMAIN P = (DOMAIN L) \cup {n}
        /\ P[n].role = "SL" /\ P[n].exch = "rejected" /\ P[n].row = "active"
    BY <1>3 DEF DiesUnseen, NewLeg
  <2>2. \A j \in DOMAIN L : P[j].role = "SL" => P[j].row # "active"
    BY <1>3, <2>1, ActiveLegFound DEF Grows, ActiveRows
  <2> HIDE DEF n, P
  <2>3. \A j \in DOMAIN P : P[j].role = "SL" /\ P[j].row = "active" => j = n
    BY <2>1, <2>2
  <2>4. Tidy(P)
    BY <2>1, <2>3, TidyGrows
  <2>5. QED BY <2>4 DEF P
<1>4. QED BY <1>1, <1>2, <1>3, StopLossEffect DEF Reuses, PlacedOrRefused

LEMMA TidyTakeProfit ==
    ASSUME Saved, NEW L \in Seq(Leg), Tidy(L), NEW o \in PlaceTakeProfit(L)
    PROVE  Tidy(o.legs)
<1>1. ASSUME NEW M \in Seq(Leg), Tidy(M), ActiveLeg(M, "TP") = 0, PlacedOrRefused(M, "TP", o)
      PROVE  Tidy(o.legs)
  BY <1>1, TidyPlaced DEF PlacedOrRefused, Roles
<1>2. ASSUME NEW M, Buries(L, M)
      PROVE  Tidy(M) /\ (ActiveLeg(L, "TP") = 0 /\ M \in Seq(Leg) => ActiveLeg(M, "TP") = 0)
  <2>1. /\ Grows(L, M)
        /\ \A i \in (DOMAIN M) \ (DOMAIN L) : M[i].exch # "live" /\ M[i].row # "active"
    BY <1>2 DEF Buries
  <2>2. Tidy(M)
    BY <2>1, TidyGrows
  <2>3. ActiveRows(M, "TP") \subseteq ActiveRows(L, "TP")
    BY <2>1 DEF ActiveRows, Grows
  <2>4. QED BY <2>2, <2>3, ActiveLegFound
<1>3. QED BY <1>1, <1>2, TakeProfitEffect DEF Reuses

LEMMA TidyOco ==
    ASSUME Saved, NEW L \in Seq(Leg), Tidy(L), NEW on \in BOOLEAN, NEW o \in PlaceOco(L, on),
           ActiveRows(L, "SL") = {}, ActiveRows(L, "TP") = {}
    PROVE  Tidy(o.legs)
<1>1. CASE o.legs = L
  BY <1>1
<1>2. ASSUME NEW row, Pairs(L, o.legs, row)
      PROVE  Tidy(o.legs)
  <2> DEFINE n == Len(L)
             P == o.legs
  <2>1. /\ Grows(L, P) /\ DOMAIN P = (DOMAIN L) \cup {n + 1, n + 2}
        /\ P[n + 1].role = "SL" /\ P[n + 1].row = "active"
        /\ P[n + 2].role = "TP" /\ P[n + 2].row = "active"
    BY <1>2 DEF Pairs, Saved
  <2>2. \A j \in DOMAIN L : P[j].role \in Roles /\ P[j].row # "active"
    <3>1. \A j \in DOMAIN L : L[j] \in Leg
      OBVIOUS
    <3>2. \A j \in DOMAIN L : L[j].role \in Roles
      BY <3>1 DEF Leg
    <3>3. QED BY <2>1, <3>2 DEF Grows, ActiveRows, Roles
  <2> HIDE DEF P
  <2>3. \A j \in DOMAIN P : P[j].row = "active" =>
           (j = n + 1 /\ P[j].role = "SL") \/ (j = n + 2 /\ P[j].role = "TP")
    BY <2>1, <2>2
  <2>4. \A i, j \in DOMAIN P :
           P[i].row = "active" /\ P[j].row = "active" /\ P[i].role = P[j].role => i = j
    BY <2>3
  <2>5. Tidy(P)
    BY <2>1, <2>4, TidyGrows
  <2>6. QED BY <2>5 DEF P
<1>3. QED BY <1>1, <1>2, OcoEffect

LEMMA TidyCancel ==
    ASSUME NEW L \in Seq(Leg), Tidy(L), NEW i, NEW on \in BOOLEAN, NEW o \in CancelLeg(L, i, on)
    PROVE  on => /\ Tidy(o.legs)
                 /\ \A role : ActiveRows(o.legs, role) \subseteq ActiveRows(L, role)
                 /\ i \in DOMAIN L /\ o.ok /\ "unmarked" \notin Faults =>
                      \A role : i \notin ActiveRows(o.legs, role)
<1>1. /\ DOMAIN o.legs = DOMAIN L /\ o.ok \in BOOLEAN
      /\ ~o.ok => o.legs = L
      /\ \A j \in DOMAIN L : j # i => o.legs[j] = L[j]
      /\ i \in DOMAIN L /\ o.ok =>
           /\ o.legs[i].role = L[i].role
           /\ on => o.legs[i].exch # "live"
           /\ \/ o.legs[i].row = "cancelled"
              \/ "unmarked" \in Faults /\ o.legs[i].row = L[i].row
  BY CancelEffect
<1>2. ASSUME on
      PROVE  \A j \in DOMAIN L :
               /\ o.legs[j].role = L[j].role
               /\ o.legs[j].row = "active" => L[j].row = "active"
               /\ o.legs[j].exch = "live" => L[j].exch = "live" /\ o.legs[j].row = L[j].row
  BY <1>1, <1>2
<1>3. on => /\ Tidy(o.legs)
            /\ \A role : ActiveRows(o.legs, role) \subseteq ActiveRows(L, role)
  BY <1>1, <1>2, TidyShrinks
<1>4. QED BY <1>1, <1>3 DEF ActiveRows

\* The healer's passage on spot: it has taken up the one active row there is, of
\* a stop-loss, and no row is active any more when it places the list.
Clears(L, a) ==
    /\ a.pc \in OcoPcs => ActiveRows(L, "TP") = {}
    /\ a.pc \in {"oco", "ocoCancel"} => a.tp = 0 /\ ActiveRows(L, "SL") \subseteq {a.sl}
    /\ a.pc = "ocoCancel" => a.todo = {a.sl} /\ a.sl \in DOMAIN L
    /\ a.pc = "oco" => a.sl \in DOMAIN L /\ a.sl # 0
    /\ a.pc = "ocoPlace" => ActiveRows(L, "SL") = {}

Ordered == /\ Paths /\ live /\ (oco => "unmarked" \notin Faults)
           /\ Tidy(legs)
           /\ Spot => Clears(legs, impl["heal"])

\* Fewer active rows do the healer's passage no harm.
LEMMA ClearsLess ==
    ASSUME NEW L, NEW M, NEW a, Clears(L, a), DOMAIN M = DOMAIN L,
           \A role : ActiveRows(M, role) \subseteq ActiveRows(L, role)
    PROVE  Clears(M, a)
<1>1. /\ ActiveRows(M, "SL") \subseteq ActiveRows(L, "SL")
      /\ ActiveRows(M, "TP") \subseteq ActiveRows(L, "TP")
  OBVIOUS
<1>2. QED BY <1>1 DEF Clears

\* Off spot a role with an active row gets no other order.
LEMMA TidyDual ==
    ASSUME Saved, Ordered, ~Spot, NEW c \in Callers, Create(c)
    PROVE  Tidy(legs')
<1>1. /\ TypeInv /\ legs \in Seq(Leg) /\ live \in BOOLEAN /\ live /\ Tidy(legs)
      /\ impl[c].pc \notin OcoPcs
  BY TypeFacts DEF Ordered, Paths, DualPath
<1>2. CASE Read(c)
  BY <1>1, <1>2, ReadEffect
<1>3. CASE EnsureOco(c) \/ CancelForOco(c) \/ PlaceNativeOco(c)
  BY <1>1, <1>3 DEF EnsureOco, CancelForOco, PlaceNativeOco, OcoPcs
<1>4. CASE CancelBeforeTP(c) \/ CancelAfterTP(c)
  <2>1. PICK o \in CancelLeg(legs, impl[c].sl, live) : legs' = o.legs
    BY <1>1, <1>4, CancelStepEffect
  <2>2. QED BY <1>1, <2>1, TidyCancel
<1>5. CASE TakeProfit(c) \/ TakeProfitAgain(c)
  <2>1. PICK o \in PlaceTakeProfit(legs) : legs' = o.legs
    BY <1>1, <1>5, TakeProfitStepEffect
  <2>2. QED BY <1>1, <2>1, TidyTakeProfit
<1>6. CASE StopLoss(c)
  <2>1. legs' = legs \/ \E o \in PlaceStopLoss(legs) : legs' = o.legs
    BY <1>1, <1>6, StopLossStepEffect
  <2>2. QED BY <1>1, <2>1, TidyStopLoss
<1>7. QED BY <1>2, <1>3, <1>4, <1>5, <1>6 DEF Create

\* On spot the thread places its list where no leg has a row.
LEMMA TidySpotFill ==
    ASSUME Saved, Ordered, Spot, Create("fill")
    PROVE  Tidy(legs') /\ Clears(legs', impl'["heal"])
<1>1. /\ TypeInv /\ legs \in Seq(Leg) /\ live \in BOOLEAN /\ killed \in BOOLEAN /\ Tidy(legs)
      /\ SpotFill(impl["fill"]) /\ Bound /\ Turns /\ "fill" \in Callers /\ "heal" \in Callers
  BY TypeFacts DEF Ordered, Paths, SpotPath, Callers, TypeInv, TypeOK
<1>2. impl["fill"].pc \notin {"idle", "back"}
  BY CreateBusy, <1>1
<1>3. ~Recorded(legs) /\ impl["heal"].pc = "idle"
  BY <1>1, <1>2 DEF Bound, Turns, Over
<1>4. impl'["heal"] = impl["heal"]
  BY <1>1, CreateFrame DEF Callers
<1>5. Clears(legs', impl'["heal"])
  BY <1>3, <1>4 DEF Clears, OcoPcs
<1>6. CASE Read("fill") \/ EnsureOco("fill")
  BY <1>1, <1>5, <1>6, ReadEffect, EnsureOcoEffect
<1>7. CASE PlaceNativeOco("fill")
  <2>1. PICK o \in PlaceOco(legs, live /\ ~killed) : legs' = o.legs
    BY <1>1, <1>7, PlaceNativeOcoEffect
  <2>2. (live /\ ~killed) \in BOOLEAN
    OBVIOUS
  <2>3. QED BY <1>1, <1>3, <1>5, <2>1, <2>2, NoRows, TidyOco
<1>8. QED
  BY <1>1, <1>2, <1>6, <1>7
     DEF Create, SpotFill, CancelForOco, CancelBeforeTP, TakeProfit, CancelAfterTP,
         TakeProfitAgain, StopLoss

\* The healer places its list where it has cancelled the only active row.
LEMMA TidySpotHeal ==
    ASSUME Saved, Ordered, Spot, Create("heal")
    PROVE  Tidy(legs') /\ Clears(legs', impl'["heal"])
<1> DEFINE a == impl["heal"]
<1>1. /\ TypeInv /\ legs \in Seq(Leg) /\ live \in BOOLEAN /\ killed \in BOOLEAN /\ Tidy(legs)
      /\ SpotHeal(a) /\ Clears(legs, a) /\ "heal" \in Callers
      /\ live /\ "unmarked" \notin Faults
  BY TypeFacts DEF Ordered, Paths, SpotPath, Callers, TypeInv, TypeOK, Spot
<1>2. a.pc \in OcoPcs
  BY CreateBusy, <1>1 DEF SpotHeal
<1>3. CASE EnsureOco("heal")
  <2>1. legs' = legs /\ a.pc = "oco"
    BY <1>1, <1>3, EnsureOcoEffect
  <2>2. a.tp = 0 /\ ActiveLeg(legs, "TP") = 0 /\ a.sl # 0
    BY <1>1, <2>1, ActiveLegFound DEF Clears, OcoPcs
  <2>3. PICK b \in Activation :
          /\ Step("heal", b) /\ Holds(b, a.sl, a.tp)
          /\ b.pc = "back" \/ (b.pc = "ocoCancel" /\ b.todo = {a.sl, 0} \ {0})
    BY <1>1, <1>3, <2>2, EnsureOcoEffect
  <2>4. impl'["heal"] = b
    BY <1>1, <2>3, StepOther
  <2>5. {a.sl, 0} \ {0} = {a.sl}
    BY <2>2
  <2>6. Clears(legs, b)
    BY <1>1, <2>1, <2>3, <2>5 DEF Clears, OcoPcs, Holds
  <2>7. QED BY <1>1, <2>1, <2>4, <2>6
<1>4. CASE CancelForOco("heal")
  <2>1. a.pc = "ocoCancel" /\ a.todo = {a.sl} /\ a.sl \in DOMAIN legs
    BY <1>1, <1>4, CancelForOcoEffect DEF Clears
  <2>2. PICK i \in a.todo : \E o \in CancelLeg(legs, i, live) : \E b \in Activation :
          /\ legs' = o.legs
          /\ Step("heal", b) /\ b.whole = a.whole /\ Holds(b, a.sl, a.tp)
          /\ IF o.ok THEN b.pc = "ocoPlace"
             ELSE b.pc = "back" /\ (ConfirmsSL(b.result) => a.sl # 0)
    BY <1>1, <1>4, CancelForOcoEffect
  <2>3. PICK o \in CancelLeg(legs, i, live), b \in Activation :
          /\ legs' = o.legs /\ Step("heal", b)
          /\ IF o.ok THEN b.pc = "ocoPlace" ELSE b.pc = "back"
    BY <2>2
  <2>4. i = a.sl
    BY <2>1
  <2>5. /\ Tidy(legs')
        /\ \A role : ActiveRows(legs', role) \subseteq ActiveRows(legs, role)
        /\ o.ok => \A role : i \notin ActiveRows(legs', role)
    <3>1. Tidy(legs')
      BY <1>1, <2>3, TidyCancel
    <3>2. \A role : ActiveRows(legs', role) \subseteq ActiveRows(legs, role)
      BY <1>1, <2>3, TidyCancel
    <3>3. i \in DOMAIN legs
      BY <2>1, <2>4
    <3>4. o.ok => \A role : i \notin ActiveRows(legs', role)
      BY <1>1, <2>3, <3>3, TidyCancel
    <3>5. QED BY <3>1, <3>2, <3>4
  <2>6. impl'["heal"] = b
    BY <1>1, <2>3, StepOther
  <2>7. /\ ActiveRows(legs', "TP") = {}
        /\ o.ok => ActiveRows(legs', "SL") = {}
    <3>1. ActiveRows(legs, "TP") = {} /\ ActiveRows(legs, "SL") \subseteq {a.sl}
      BY <1>1, <2>1 DEF Clears, OcoPcs
    <3>2. /\ ActiveRows(legs', "TP") \subseteq ActiveRows(legs, "TP")
          /\ ActiveRows(legs', "SL") \subseteq ActiveRows(legs, "SL")
          /\ o.ok => a.sl \notin ActiveRows(legs', "SL")
      BY <2>4, <2>5
    <3>3. QED BY <3>1, <3>2
  <2>8. Clears(legs', b)
    BY <2>3, <2>7 DEF Clears, OcoPcs
  <2>9. QED BY <2>5, <2>6, <2>8
<1>5. CASE PlaceNativeOco("heal")
  <2>1. PICK o \in PlaceOco(legs, live /\ ~killed), b \in Activation :
          legs' = o.legs /\ Step("heal", b) /\ b.pc = "back"
    BY <1>1, <1>5, PlaceNativeOcoEffect
  <2>2. a.pc = "ocoPlace" /\ impl'["heal"] = b
    BY <1>1, <1>5, <2>1, PlaceNativeOcoEffect, StepOther
  <2>3. (live /\ ~killed) \in BOOLEAN
    OBVIOUS
  <2>4. ActiveRows(legs, "SL") = {} /\ ActiveRows(legs, "TP") = {}
    BY <1>1, <2>2 DEF Clears, OcoPcs
  <2>5. Tidy(legs')
    BY <1>1, <2>1, <2>3, <2>4, TidyOco
  <2>6. QED BY <2>1, <2>2, <2>5 DEF Clears, OcoPcs
<1>6. QED
  BY <1>2, <1>3, <1>4, <1>5
     DEF Create, OcoPcs, Read, CancelBeforeTP, TakeProfit, CancelAfterTP, TakeProfitAgain,
         StopLoss

LEMMA OrderedInit == ASSUME Saved, Init PROVE Ordered
<1>1. Paths
  BY PathsInit DEF Saved, PathKept
<1>2. /\ legs = <<>> /\ oco \in OcoFlags /\ live = TRUE /\ impl["heal"] = Idle
  BY DEF Init, Callers
<1>3. Tidy(legs)
  BY <1>2 DEF Tidy, Known, OneRow, ActiveRows
<1>4. Clears(legs, impl["heal"])
  BY <1>2 DEF Clears, Idle, OcoPcs
<1>5. oco => "unmarked" \notin Faults
  BY <1>2 DEF Saved
<1>6. QED BY <1>1, <1>2, <1>3, <1>4, <1>5 DEF Ordered

\* What everybody but the routine does to the rows.
LEMMA TidyOthers ==
    ASSUME Saved, Ordered, ThreadActs \/ HealActs \/ RestActs
    PROVE  /\ live' /\ oco' = oco /\ Tidy(legs')
           /\ Spot => Clears(legs', impl'["heal"])
<1>1. /\ TypeInv /\ legs \in Seq(Leg) /\ live \in BOOLEAN /\ live /\ Tidy(legs) /\ Bound
      /\ Spot => Clears(legs, impl["heal"]) /\ SpotPath
      /\ Callers = {"fill", "heal"} /\ "toggle" \notin Faults
  BY TypeFacts DEF Ordered, Paths, Callers, Saved
<1>2. \A i : \A o \in CancelLeg(legs, i, live) : Tidy(o.legs)
  BY <1>1, TidyCancel
<1>3. CASE ThreadActs
  <2>1. UNCHANGED <<oco, live>> /\ (legs' = legs \/ fill.pc = "gap")
    BY <1>1, <1>3, ThreadEffect DEF ThreadActs, Still
  <2>2. Tidy(legs')
    BY <1>1, <1>2, <1>3, ThreadEffect DEF ThreadActs, Still
  <2>3. impl'["heal"] = impl["heal"]
    BY <1>1, <1>3, ThreadEffect DEF ThreadActs, Still, Enters
  <2>4. QED BY <1>1, <2>1, <2>2, <2>3 DEF SpotPath
<1>4. CASE HealActs
  <2>1. UNCHANGED <<oco, live>>
    BY <1>1, <1>4, HealerEffect DEF HealActs
  <2>2. Tidy(legs')
    BY <1>1, <1>2, <1>4, HealerEffect DEF HealActs
  <2>3. ASSUME Spot
        PROVE  Clears(legs', impl'["heal"])
    <3>1. heal.pc # "cancel"
      BY <1>1, <2>3 DEF SpotPath
    <3>2. CASE heal.pc = "asleep"
      <4> DEFINE sl == ActiveLeg(legs, "SL")
      <4>1. /\ legs' = legs /\ sl # 0 /\ ActiveLeg(legs, "TP") = 0
            /\ impl'["heal"] = [Idle EXCEPT !.pc = "oco", !.whole = FALSE, !.sl = sl]
        BY <1>1, <1>4, <2>3, <3>2, HealerEffect DEF HealActs
      <4>2. impl'["heal"].pc = "oco" /\ impl'["heal"].sl = sl /\ impl'["heal"].tp = 0
        BY <4>1 DEF Idle
      <4>3. sl \in ActiveRows(legs, "SL") /\ ActiveRows(legs, "TP") = {}
        BY <1>1, <4>1, ActiveLegFound
      <4>4. ActiveRows(legs, "SL") \subseteq {sl} /\ sl \in DOMAIN legs
        BY <1>1, <4>3 DEF Tidy, OneRow, Roles, ActiveRows
      <4> HIDE DEF sl
      <4>5. QED BY <4>1, <4>2, <4>3, <4>4 DEF Clears, OcoPcs
    <3>3. CASE heal.pc = "waiting"
      <4>1. Enters("heal", "idle")
        BY <1>1, <1>4, <3>3, HealerEffect DEF HealActs
      <4>2. impl'["heal"].pc = "idle"
        BY <1>1, <4>1, EntersAs
      <4>3. QED BY <4>2 DEF Clears, OcoPcs
    <3>4. QED
      BY <1>1, <1>4, <3>1, <3>2, <3>3, HealerEffect DEF HealActs
  <2>4. QED BY <1>1, <2>1, <2>2, <2>3
<1>5. CASE RestActs
  <2>1. UNCHANGED <<oco, live, impl>>
    BY <1>1, <1>5, RestEffect DEF RestActs
  <2>2. CASE legs' = legs
    BY <1>1, <2>1, <2>2
  <2>3. ASSUME NEW i \in DOMAIN legs, DOMAIN legs' = DOMAIN legs,
               \A j \in DOMAIN legs : j # i => legs'[j] = legs[j],
               Dropped(legs, legs', i) \/ Synced(legs, legs', i)
        PROVE  Tidy(legs') /\ \A role : ActiveRows(legs', role) \subseteq ActiveRows(legs, role)
    <3>1. legs[i] \in Leg
      BY <1>1
    <3>2. /\ legs'[i].role = legs[i].role
          /\ legs'[i].row = "active" => legs[i].row = "active"
          /\ legs'[i].exch = "live" => legs[i].exch = "live" /\ legs'[i].row = legs[i].row
      BY <2>3, <3>1 DEF Dropped, Synced, Leg, ExchStates
    <3>3. \A j \in DOMAIN legs :
            /\ legs'[j].role = legs[j].role
            /\ legs'[j].row = "active" => legs[j].row = "active"
            /\ legs'[j].exch = "live" => legs[j].exch = "live" /\ legs'[j].row = legs[j].row
      BY <2>3, <3>2
    <3>4. QED BY <1>1, <2>3, <3>3, TidyShrinks
  <2>4. CASE legs' # legs
    <3>1. /\ DOMAIN legs' = DOMAIN legs
          /\ \E i \in DOMAIN legs :
               /\ \A j \in DOMAIN legs : j # i => legs'[j] = legs[j]
               /\ Dropped(legs, legs', i) \/ Synced(legs, legs', i)
      BY <1>1, <1>5, <2>4, RestEffect DEF RestActs
    <3>2. Tidy(legs') /\ \A role : ActiveRows(legs', role) \subseteq ActiveRows(legs, role)
      BY <2>3, <3>1
    <3>3. Spot => Clears(legs', impl["heal"])
      BY <1>1, <3>1, <3>2, ClearsLess
    <3>4. QED BY <1>1, <2>1, <3>2, <3>3
  <2>5. QED BY <2>2, <2>4
<1>6. QED BY <1>3, <1>4, <1>5

LEMMA OrderedNext ==
    ASSUME Saved, Ordered, [Next]_vars
    PROVE  Ordered'
<1>1. Paths' /\ (Spot' <=> Spot)
  BY PathsNext DEF Ordered
<1>2. CASE \E c \in Callers : Create(c)
  <2>1. PICK c \in Callers : Create(c)
    BY <1>2
  <2>2. UNCHANGED <<live, oco>>
    BY <2>1, CreateFrame DEF Ordered, Paths
  <2>3. Tidy(legs') /\ (Spot => Clears(legs', impl'["heal"]))
    BY <2>1, TidyDual, TidySpotFill, TidySpotHeal DEF Callers
  <2>4. QED BY <1>1, <2>2, <2>3 DEF Ordered
<1>3. CASE ThreadActs \/ HealActs \/ RestActs
  BY <1>1, <1>3, TidyOthers DEF Ordered
<1>4. QED BY <1>2, <1>3, NextActs

\* However the attempts, the recovery and any number of healing passes follow or
\* overlap each other, whatever is refused, stuck, dropped or dead on arrival,
\* with the kill switch thrown at any time: never two resting orders of one role.
\* (ActiveLeg, which every placement asks first, then finds what there is.)
THEOREM NeverTwoOfARole == ASSUME Saved PROVE Spec => []OneLegPerRole
<1>1. Init => Ordered
  BY OrderedInit
<1>2. Ordered /\ [Next]_vars => Ordered'
  BY OrderedNext
<1>3. Ordered => OneLegPerRole
  <2> SUFFICES ASSUME Ordered, NEW role \in Roles
               PROVE  Cardinality(LiveLegs(legs, role)) <= 1
    BY DEF OneLegPerRole
  <2>1. LiveLegs(legs, role) \subseteq ActiveRows(legs, role)
    BY DEF Ordered, Tidy, Known, LiveLegs, ActiveRows
  <2>2. \A i, j \in LiveLegs(legs, role) : i = j
    BY <2>1 DEF Ordered, Tidy, OneRow
  <2>3. CASE LiveLegs(legs, role) = {}
    BY <2>3, FS_EmptySet
  <2>4. CASE LiveLegs(legs, role) # {}
    <3>1. PICK i : LiveLegs(legs, role) = {i}
      BY <2>2, <2>4
    <3>2. Cardinality({i}) = 1
      BY FS_Singleton
    <3>3. QED BY <3>1, <3>2
  <2>5. QED BY <2>3, <2>4
<1>4. QED BY <1>1, <1>2, <1>3, PTL DEF Spec
===============================================================================
