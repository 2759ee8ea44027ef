------------------------- MODULE EntrySwitches_proofs -------------------------
(* The thread and the operator: the hard invariant where the exchange places *)
(* whatever it is asked to place, and the promise of the two switches where  *)
(* only the live-trading toggle is touched.  The margin mode, the toggle and *)
(* the kill switch may be turned over at any moment.                         *)
EXTENDS EntryHealing_proofs

\* No placement is refused, lost or dead on arrival, and healing is off.
Smooth == /\ MaxHeals = 0
          /\ Faults \cap {"refused", "disabled", "lost", "deadTP", "deadSL"} = {}

\* One activation of the routine from legs that are not there yet: a take-profit
\* first and then a stop-loss, or a list of both, and an answer that confirms the
\* two or, when nothing was placed, neither.
Fresh(a) ==
    /\ a.pc \in {"idle", "read", "oco", "ocoPlace", "tp", "sl", "back"}
    /\ a.pc \in {"oco", "ocoPlace", "tp", "sl"} => Holds(a, 0, 0)
    /\ a.pc = "sl" => Confirmed(a.tpAnswer) /\ ~HasSL(legs)
    /\ a.pc = "back" => \/ ConfirmsBoth(a.result) /\ IsLive(legs, "SL")
                        \/ ~ConfirmsSL(a.result) /\ legs = <<>>
    /\ a.pc \notin {"sl", "back"} /\ fill.pc # "done" => legs = <<>>

Flawless == /\ TypeInv /\ Closing /\ Bound
            /\ heal.pc = "asleep"
            /\ fill.pc \notin {"gap", "recovery"}
            /\ Fresh(impl["fill"])
            /\ fill.outcome \in Covered => IsLive(legs, "SL")

LEMMA SmoothFacts ==
    ASSUME Smooth
    PROVE  /\ Refusals = {} /\ MaxHeals = 0
           /\ "lost" \notin Faults /\ "deadTP" \notin Faults /\ "deadSL" \notin Faults
BY DEF Smooth, Refusals, Kinds

LEMMA NothingYet ==
    ASSUME NEW L, L = <<>>
    PROVE  /\ \A role : ActiveLeg(L, role) = 0
           /\ ~HasSL(L) /\ L \in Seq(Leg)
<1>1. \A role : ActiveRows(L, role) = {}
  BY DEF ActiveRows
<1>2. QED BY <1>1 DEF ActiveLeg, HasSL

\* The first take-profit is placed and confirmed.
LEMMA FirstTakeProfit ==
    ASSUME Smooth, NEW L, L = <<>>, NEW o \in PlaceTakeProfit(L)
    PROVE  Confirmed(o.answer) /\ ~HasSL(o.legs)
<1>1. L \in Seq(Leg) /\ ActiveLeg(L, "TP") = 0 /\ ~HasSL(L)
  BY NothingYet
<1>2. Confirmed(o.answer)
  BY <1>1, TakeProfitEffect, SmoothFacts DEF Reuses, PlacedOrRefused, Buries
<1>3. HasSL(o.legs) <=> HasSL(L)
  BY <1>1, TakeProfitAside
<1>4. QED BY <1>1, <1>2, <1>3

\* And so is the first stop-loss.
LEMMA FirstStopLoss ==
    ASSUME Smooth, NEW L \in Seq(Leg), ~HasSL(L), NEW o \in PlaceStopLoss(L)
    PROVE  Confirmed(o.answer) /\ IsLive(o.legs, "SL")
<1>1. ActiveLeg(L, "SL") = 0
  BY ActiveSL
<1>2. Rests(L, o.legs, "SL") /\ Confirmed(o.answer)
  BY <1>1, StopLossEffect, SmoothFacts DEF Reuses, PlacedOrRefused, DiesUnseen
<1>3. Len(L) + 1 \in LiveLegs(o.legs, "SL")
  BY <1>2 DEF Rests, LiveLegs
<1>4. QED BY <1>2, <1>3 DEF IsLive

\* And so is the first list, unless a switch forbids it.
LEMMA FirstList ==
    ASSUME Smooth, NEW L, L = <<>>, NEW on \in BOOLEAN, NEW o \in PlaceOco(L, on)
    PROVE  \/ o.legs = L /\ ~Confirmed(o.answer.sl)
           \/ Confirmed(o.answer.sl) /\ Confirmed(o.answer.tp) /\ IsLive(o.legs, "SL")
<1>1. L \in Seq(Leg) /\ ActiveLeg(L, "SL") = 0
  BY NothingYet
<1>2. \/ o.legs = L /\ o.answer = OcoFailed("blocked")
      \/ o.answer = NewPair(L) /\ \E row : Pairs(L, o.legs, row)
  BY <1>1, OcoEffect, SmoothFacts
<1>3. CASE o.legs = L /\ o.answer = OcoFailed("blocked")
  BY <1>3 DEF OcoFailed, Failed, Confirmed
<1>4. CASE o.answer = NewPair(L) /\ \E row : Pairs(L, o.legs, row)
  <2>1. Confirmed(o.answer.sl) /\ Confirmed(o.answer.tp)
    BY <1>1, <1>4 DEF NewPair, Placed, Confirmed
  <2>2. Len(L) + 1 \in LiveLegs(o.legs, "SL")
    BY <1>4 DEF Pairs, LiveLegs
  <2>3. QED BY <2>1, <2>2 DEF IsLive
<1>5. QED BY <1>2, <1>3, <1>4

LEMMA FlawlessCreate ==
    ASSUME Smooth, Flawless, Create("fill")
    PROVE  Fresh(impl["fill"])'
<1> DEFINE a == impl["fill"]
<1>1. /\ TypeInv /\ legs \in Seq(Leg) /\ live \in BOOLEAN /\ killed \in BOOLEAN
      /\ Fresh(a) /\ "fill" \in Callers /\ fill.pc = "waiting"
  <2>1. a.pc \notin {"idle", "back"}
    BY CreateBusy DEF Callers
  <2>2. QED BY <2>1, TypeFacts DEF Flawless, Bound, Callers, TypeInv, TypeOK
<1>2. fill' = fill
  BY <1>1, CreateFrame
<1>3. CASE Read("fill")
  <2>1. legs' = legs /\ legs = <<>> /\ a.pc = "read"
    BY <1>1, <1>3, ReadEffect DEF Fresh
  <2>2. PICK b \in Activation :
          /\ Step("fill", b)
          /\ \/ b.pc \in {"oco", "tp"} /\ Holds(b, 0, 0)
             \/ b.pc = "back" /\ b.result = Raised
    BY <1>1, <1>3, <2>1, NothingYet, ReadEffect
  <2>3. impl'["fill"] = b /\ ~ConfirmsSL(Raised)
    BY <1>1, <2>2, StepOther DEF ConfirmsSL, Raised
  <2>4. QED BY <1>2, <2>1, <2>2, <2>3 DEF Fresh
<1>4. CASE EnsureOco("fill")
  <2>1. legs' = legs /\ legs = <<>> /\ a.pc = "oco" /\ a.sl = 0 /\ a.tp = 0
    BY <1>1, <1>4, EnsureOcoEffect DEF Fresh, Holds
  <2>2. PICK b \in Activation : Step("fill", b) /\ b.pc = "ocoPlace" /\ Holds(b, 0, 0)
    BY <1>1, <1>4, <2>1, NothingYet, EnsureOcoEffect
  <2>3. impl'["fill"] = b
    BY <1>1, <2>2, StepOther
  <2>4. QED BY <1>2, <2>1, <2>2, <2>3 DEF Fresh
<1>5. CASE PlaceNativeOco("fill")
  <2>1. legs = <<>> /\ a.sl = 0 /\ a.tp = 0
    BY <1>1, <1>5, PlaceNativeOcoEffect DEF Fresh, Holds
  <2>2. PICK o \in PlaceOco(legs, live /\ ~killed), b \in Activation :
          /\ legs' = o.legs /\ Step("fill", b) /\ b.pc = "back"
          /\ ConfirmsSL(b.result) <=> Confirmed(o.answer.sl)
          /\ ConfirmsTP(b.result) <=> Confirmed(o.answer.tp)
    BY <1>1, <1>5, <2>1, PlaceNativeOcoEffect
  <2>3. (live /\ ~killed) \in BOOLEAN
    OBVIOUS
  <2>4. \/ legs' = <<>> /\ ~ConfirmsSL(b.result)
        \/ ConfirmsBoth(b.result) /\ IsLive(legs', "SL")
    BY <2>1, <2>2, <2>3, FirstList DEF ConfirmsBoth
  <2>5. impl'["fill"] = b
    BY <1>1, <2>2, StepOther
  <2>6. QED BY <2>2, <2>4, <2>5 DEF Fresh
<1>6. CASE TakeProfit("fill")
  <2>1. legs = <<>> /\ a.sl = 0 /\ a.tp = 0
    BY <1>1, <1>6 DEF Fresh, Holds, TakeProfit
  <2>2. PICK o \in PlaceTakeProfit(legs), b \in Activation :
          /\ legs' = o.legs /\ Step("fill", b) /\ Holds(b, 0, 0)
          /\ b.tpAnswer = o.answer /\ b.pc = "sl"
    BY <1>1, <1>6, <2>1, TakeProfitStepEffect
  <2>3. Confirmed(b.tpAnswer) /\ ~HasSL(legs')
    BY <2>1, <2>2, FirstTakeProfit
  <2>4. impl'["fill"] = b
    BY <1>1, <2>2, StepOther
  <2>5. QED BY <2>2, <2>3, <2>4 DEF Fresh
<1>7. CASE StopLoss("fill")
  <2>1. a.sl = 0 /\ Confirmed(a.tpAnswer) /\ ~HasSL(legs)
    BY <1>1, <1>7 DEF Fresh, Holds, StopLoss
  <2>2. PICK b \in Activation :
          /\ Step("fill", b) /\ b.pc = "back"
          /\ ConfirmsTP(b.result) <=> Confirmed(a.tpAnswer)
          /\ \E o \in PlaceStopLoss(legs) :
               legs' = o.legs /\ (ConfirmsSL(b.result) <=> Confirmed(o.answer))
    BY <1>1, <1>7, <2>1, StopLossStepEffect
  <2>3. ConfirmsBoth(b.result) /\ IsLive(legs', "SL")
    BY <1>1, <2>1, <2>2, FirstStopLoss DEF ConfirmsBoth
  <2>4. impl'["fill"] = b
    BY <1>1, <2>2, StepOther
  <2>5. QED BY <2>2, <2>3, <2>4 DEF Fresh
<1>8. QED
  BY <1>1, <1>3, <1>4, <1>5, <1>6, <1>7
     DEF Create, Fresh, CancelForOco, CancelBeforeTP, CancelAfterTP, TakeProfitAgain

LEMMA FlawlessThread ==
    ASSUME Smooth, Flawless, ThreadActs
    PROVE  /\ heal' = heal /\ Bound' /\ fill'.pc \notin {"gap", "recovery"}
           /\ Fresh(impl["fill"])'
           /\ fill'.outcome \in Covered => IsLive(legs', "SL")
<1> DEFINE a == impl["fill"]
<1>1. /\ TypeInv /\ Bound /\ heal.pc = "asleep" /\ Fresh(a) /\ "fill" \in Callers
      /\ fill.pc \notin {"gap", "recovery"} /\ Callers = {"fill", "heal"}
      /\ fill.outcome \in Covered => IsLive(legs, "SL")
      /\ impl["heal"].pc = "idle" /\ (fill.pc # "waiting" => a.pc = "idle")
  BY DEF Flawless, Bound, Callers
<1>2. heal' = heal /\ legs' = legs
  BY <1>1, ThreadEffect DEF ThreadActs, Still
<1>3. fill.pc \notin {"waiting", "done"} => legs = <<>>
  BY <1>1 DEF Fresh
<1>4. \A pc \in {"read", "back", "idle"} : Enters("fill", pc) =>
        impl'["fill"].pc = pc /\ ~ConfirmsSL(impl'["fill"].result)
  BY <1>1, EntersAs
<1>5. impl'["heal"] = impl["heal"]
  BY <1>1, ThreadEffect DEF ThreadActs, Still, Enters
<1>6. CASE fill.pc \in {"poll", "start"}
  <2>1. ActiveLeg(legs, "SL") = 0
    BY <1>3, <1>6, NothingYet
  <2>2. /\ impl' = impl
        /\ fill'.pc \in {"start", "flatten", "attempt"} \/ fill'.outcome = "unconfirmed"
        /\ fill'.pc \notin {"gap", "recovery"}
        /\ fill'.outcome \in {fill.outcome, "unconfirmed"}
    BY <1>1, <1>6, <2>1, ThreadEffect DEF ThreadActs, Still, Goes, Ends
  <2>3. QED BY <1>1, <1>2, <1>3, <1>6, <2>2 DEF Bound, Fresh, Covered
<1>7. CASE fill.pc = "attempt"
  <2>1. /\ fill'.pc = "waiting" /\ fill'.outcome = fill.outcome
        /\ Enters("fill", "read") \/ Enters("fill", "back")
    BY <1>1, <1>7, ThreadEffect DEF ThreadActs, Goes
  <2>2. impl'["fill"].pc \in {"read", "back"} /\ ~ConfirmsSL(impl'["fill"].result)
    BY <1>4, <2>1
  <2>3. QED BY <1>1, <1>2, <1>3, <1>5, <1>7, <2>1, <2>2 DEF Bound, Fresh
<1>8. CASE fill.pc = "waiting"
  <2>1. a.pc = "back" /\ Enters("fill", "idle")
    BY <1>1, <1>8, ThreadEffect DEF ThreadActs
  <2>2. \/ ConfirmsBoth(a.result) /\ IsLive(legs, "SL")
        \/ ~ConfirmsSL(a.result) /\ legs = <<>>
    BY <1>1, <2>1 DEF Fresh
  <2>3. \/ /\ fill'.pc \in {"attempt", "flatten"} /\ fill'.outcome = fill.outcome
           /\ ~ConfirmsBoth(a.result)
        \/ /\ fill'.pc = "done" /\ fill'.outcome = "protected" /\ ConfirmsBoth(a.result)
    BY <1>1, <1>8, <2>2, ThreadEffect DEF ThreadActs, Goes, Ends, ConfirmsBoth
  <2>4. impl'["fill"].pc = "idle"
    BY <1>4, <2>1
  <2>5. QED BY <1>1, <1>2, <1>5, <2>2, <2>3, <2>4 DEF Bound, Fresh, ConfirmsBoth
<1>9. CASE fill.pc = "flatten"
  <2>1. impl' = impl /\ fill'.pc = "done" /\ fill'.outcome \in {"flattened", "close_failed"}
    BY <1>1, <1>9, ThreadEffect DEF ThreadActs, Ends
  <2>2. QED BY <1>1, <1>2, <1>9, <2>1 DEF Bound, Fresh, Covered
<1>10. QED
  BY <1>1, <1>6, <1>7, <1>8, <1>9, ThreadEffect DEF ThreadActs

LEMMA FlawlessInit == ASSUME Init PROVE Flawless
<1>1. TypeInv /\ Closing
  BY TypeInit, ClosingInit
<1>2. /\ legs = <<>> /\ impl["fill"] = Idle /\ impl["heal"] = Idle
      /\ fill.pc = "poll" /\ fill.outcome = "none" /\ heal.pc = "asleep"
  BY DEF Init, Callers
<1>3. Fresh(impl["fill"]) /\ Bound
  BY <1>2 DEF Fresh, Bound, Idle
<1>4. QED BY <1>1, <1>2, <1>3 DEF Flawless, Covered

LEMMA FlawlessNext ==
    ASSUME Smooth, Flawless, [Next]_vars
    PROVE  Flawless'
<1>1. TypeInv' /\ Closing'
  BY TypeNext, ClosingNext DEF Flawless
<1>2. /\ TypeInv /\ Bound /\ heal.pc = "asleep" /\ Fresh(impl["fill"])
      /\ fill.pc \notin {"gap", "recovery"} /\ Callers = {"fill", "heal"}
      /\ fill.outcome \in Covered => IsLive(legs, "SL")
      /\ impl["heal"].pc = "idle"
  BY DEF Flawless, Bound, Callers
<1>3. CASE \E c \in Callers : Create(c)
  <2>1. Create("fill")
    BY <1>2, <1>3, CreateBusy
  <2>2. /\ UNCHANGED <<fill, heal>> /\ impl'["heal"] = impl["heal"]
        /\ impl["fill"].pc \notin {"idle", "back"}
    BY <1>2, <2>1, CreateFrame, CreateBusy
  <2>3. fill.pc = "waiting" /\ fill.outcome \notin Covered
    <3>1. fill.pc = "waiting"
      BY <1>2, <2>2 DEF Bound
    <3>2. fill.outcome = "none"
      BY <3>1 DEF Flawless, Closing
    <3>3. QED BY <3>1, <3>2 DEF Covered
  <2>4. Fresh(impl["fill"])'
    BY <2>1, FlawlessCreate
  <2>5. QED BY <1>1, <1>2, <2>2, <2>3, <2>4 DEF Flawless, Bound
<1>4. CASE ThreadActs
  BY <1>1, <1>2, <1>4, FlawlessThread DEF Flawless
<1>5. CASE HealActs
  BY <1>2, <1>5, HealerEffect, SmoothFacts DEF HealActs
<1>6. CASE RestActs
  <2>1. UNCHANGED <<fill, heal, impl>>
    BY <1>2, <1>6, RestEffect DEF RestActs
  <2>2. /\ LiveLegs(legs', "SL") = LiveLegs(legs, "SL")
        /\ HasSL(legs') <=> HasSL(legs)
    BY <1>2, <1>6, RestKeepsSL
  <2>3. legs = <<>> => legs' = legs
    BY <1>2, <1>6, RestEffect DEF RestActs
  <2>4. Fresh(impl["fill"])' /\ Bound'
    BY <1>2, <2>1, <2>2, <2>3 DEF Fresh, Bound, IsLive
  <2>5. QED BY <1>1, <1>2, <2>1, <2>2, <2>4 DEF Flawless, IsLive
<1>7. QED BY <1>3, <1>4, <1>5, <1>6, NextActs

LEMMA FlawlessAlways == ASSUME Smooth PROVE Spec => []Flawless
<1>1. Init => Flawless
  BY FlawlessInit
<1>2. Flawless /\ [Next]_vars => Flawless'
  BY FlawlessNext
<1>3. QED BY <1>1, <1>2, PTL DEF Spec

\* Where the exchange places what it is asked to place, the thread alone leaves
\* no entry naked, on either path: not when the margin mode, the live-trading
\* toggle or the kill switch is turned over between two of its calls, not when a
\* query raises, a row is not saved, the wallet lags or the close is refused.  An
\* attempt that confirms one leg only does not happen, so the recovery that would
\* cancel a stop-loss is never entered.
THEOREM SwitchesAreSafe == ASSUME Smooth PROVE Spec => []HardInvariant
<1>1. Flawless => HardInvariant
  BY HardFromOutcome DEF Flawless
<1>2. QED BY <1>1, FlawlessAlways, PTL

\* Nobody throws the kill switch and no market close is refused.
Closable == ~killed /\ fill.outcome # "close_failed"

LEMMA ClosableNext ==
    ASSUME Faults \cap {"kill", "noclose"} = {}, TypeInv, Closable, [Next]_vars
    PROVE  Closable'
<1>1. CASE \E c \in Callers : Create(c)
  BY <1>1, CreateFrame DEF Closable
<1>2. CASE ThreadActs
  BY <1>2, ThreadEffect DEF ThreadActs, Closable, Goes, Ends
<1>3. CASE HealActs
  BY <1>3, HealerEffect DEF HealActs, Closable
<1>4. CASE RestActs
  BY <1>4, RestEffect DEF RestActs, Closable
<1>5. QED BY <1>1, <1>2, <1>3, <1>4, NextActs

\* Turning live trading OFF strips nothing: a filled entry still ends with its
\* stop-loss, or closed (trading_guardrails.py:269).  What the promise says of
\* the emergency stop needs the kill switch excluded here: the market close is
\* one of the orders that switch refuses, and the run entry_stopped shows it.
THEOREM ToggleStripsNothing ==
    ASSUME Smooth, Faults \cap {"kill", "noclose"} = {}
    PROVE  Spec => []NeverStripped
<1>1. Init => Flawless /\ Closable
  <2>1. Init => Flawless
    BY FlawlessInit
  <2>2. Init => Closable
    BY DEF Init, Closable
  <2>3. QED BY <2>1, <2>2
<1>2. Flawless /\ Closable /\ [Next]_vars => (Flawless /\ Closable)'
  BY FlawlessNext, ClosableNext DEF Flawless
<1>3. Flawless /\ Closable => NeverStripped
  BY HardFromOutcome DEF Flawless, Closable, HardInvariant, NeverStripped
<1>4. QED BY <1>1, <1>2, <1>3, PTL DEF Spec
===============================================================================
