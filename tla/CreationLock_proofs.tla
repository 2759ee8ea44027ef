------------------------ MODULE CreationLock_proofs ------------------------
(***************************************************************************)
(* What the advisory lock of the creation of protective orders does give,  *)
(* for any number of callers, processes and connections: in one process it *)
(* is never held twice over, no caller places a leg of a role more than    *)
(* once, and one that goes through leaves both legs behind.  (That there   *)
(* is one pair of them in all does not hold: OnePairPerEntry.)             *)
(***************************************************************************)
EXTENDS CreationLock, FiniteSetTheorems, TLAPS

-----------------------------------------------------------------------------
(* Who may still place a leg, and who may still take the lock.                *)

\* Without margin both legs go as one list, whichever was missing; with it, the
\* stop-loss may follow when the take-profit is saved.
MayPlace(s, r) ==
    \/ pc[s] \in {"start", "sync", "look"}
    \/ pc[s] \in {"check", "place"} /\ (margin => r \in missing[s])
    \/ pc[s] = "save" /\ margin /\ r \in missing[s] \ Order(s)

MayTake == {s \in Callers : pc[s] = "start"}

MayPlaceSet(r) == {s \in Callers : MayPlace(s, r)}

States ==
    /\ margin \in BOOLEAN
    /\ live \in [Roles -> Nat] /\ row \subseteq Roles
    /\ held \in [Connections -> Nat]
    /\ conn \in [Callers -> Connections \cup {NoConnection}]
    /\ pc \in [Callers -> {"start", "sync", "look", "check", "place", "save",
                           "release", "done"}]
    /\ missing \in [Callers -> SUBSET Roles]

\* Each placement and each taking of the lock uses up its caller.
LegsBounded == \A r \in Roles :
    live[r] + Cardinality(MayPlaceSet(r)) <= Cardinality(Callers)
LockBounded == \A c \in Connections :
    held[c] + Cardinality(MayTake) <= Cardinality(Callers)

\* There is a leg to place wherever one is about to be.
SomeMissing == \A s \in Callers : pc[s] \in {"check", "place"} => missing[s] # {}

\* A row is of a leg, and so is what a caller is about to save.
RowsOfLegs == \A r \in row : live[r] > 0
SavedOfLegs == \A s \in Callers : pc[s] = "save" => \A r \in Order(s) : live[r] > 0

\* Of a caller under the lock, every role it no longer misses has its leg.
NotMissingRests == \A s \in Callers : pc[s] \in {"check", "place", "save"} =>
    \A r \in Roles \ missing[s] : live[r] > 0

\* Whoever got through the creation leaves a stop-loss and a take-profit behind:
\* at "release" both rest at the exchange, however the callers interleave.
ReleaseIsProtected ==
    \A s \in Callers : pc[s] = "release" => \A r \in Roles : live[r] > 0

\* Two connections of one process never hold the lock at once.
LockIsExclusive ==
    \A c, d \in Connections :
        held[c] > 0 /\ held[d] > 0 /\ PoolOf(c) = PoolOf(d) => c = d

IInv == /\ States /\ LegsBounded /\ LockBounded /\ SomeMissing /\ RowsOfLegs
        /\ SavedOfLegs /\ NotMissingRests /\ ReleaseIsProtected /\ LockIsExclusive

Finite == IsFiniteSet(Callers)

LEMMA InvInit == Finite /\ Init => IInv
<1> SUFFICES ASSUME Finite, Init PROVE IInv
  OBVIOUS
<1>1. \A s \in Callers : pc[s] = "start"
  BY DEF Init
<1>2. States
  BY DEF Init, States
<1>3. /\ SomeMissing /\ RowsOfLegs /\ SavedOfLegs /\ NotMissingRests
      /\ ReleaseIsProtected
  BY <1>1 DEF Init, SomeMissing, RowsOfLegs, SavedOfLegs, NotMissingRests,
     ReleaseIsProtected
<1>4. LockIsExclusive
  BY DEF Init, LockIsExclusive
<1>5. MayTake = Callers /\ \A r \in Roles : MayPlaceSet(r) = Callers
  BY <1>1 DEF MayTake, MayPlaceSet, MayPlace
<1>6. Cardinality(Callers) \in Nat
  BY FS_CardinalityType DEF Finite
<1>7. LegsBounded /\ LockBounded
  BY <1>5, <1>6 DEF Init, LegsBounded, LockBounded
<1>8. QED
  BY <1>2, <1>3, <1>4, <1>7 DEF IInv

-----------------------------------------------------------------------------
(* Counting.                                                                  *)

LEMMA Fewer ==
    ASSUME Finite, NEW S \in SUBSET Callers, NEW T \in SUBSET S
    PROVE  /\ Cardinality(S) \in Nat /\ Cardinality(T) \in Nat
           /\ Cardinality(T) <= Cardinality(S)
           /\ T # S => Cardinality(T) + 1 <= Cardinality(S)
<1>1. IsFiniteSet(S)
  BY FS_Subset DEF Finite
<1>2. IsFiniteSet(T) /\ Cardinality(T) <= Cardinality(S)
  BY <1>1, FS_Subset
<1>3. Cardinality(S) \in Nat /\ Cardinality(T) \in Nat
  BY <1>1, <1>2, FS_CardinalityType
<1>4. T # S => Cardinality(T) # Cardinality(S)
  BY <1>1, FS_Subset
<1>5. QED
  BY <1>2, <1>3, <1>4

\* What the others are at, while s makes a step.
OthersWait(s) ==
    /\ margin' = margin
    /\ \A u \in Callers \ {s} : pc'[u] = pc[u] /\ missing'[u] = missing[u]

LEMMA OthersPlace ==
    ASSUME NEW s \in Callers, OthersWait(s), NEW u \in Callers \ {s}
    PROVE  Order(u)' = Order(u) /\ \A r \in Roles : MayPlace(u, r)' <=> MayPlace(u, r)
<1>1. Order(u)' = Order(u)
  BY DEF OthersWait, Order
<1>2. QED
  BY <1>1 DEF OthersWait, MayPlace

\* A step of s that places a leg of a role only if s might before and may no more.
LEMMA LegsStep ==
    ASSUME Finite, States, LegsBounded, NEW s \in Callers, OthersWait(s),
           \A r \in Roles :
              /\ MayPlace(s, r)' => MayPlace(s, r)
              /\ \/ live'[r] = live[r]
                 \/ live'[r] = live[r] + 1 /\ MayPlace(s, r) /\ ~MayPlace(s, r)'
    PROVE  LegsBounded'
<1> SUFFICES ASSUME NEW r \in Roles
             PROVE  live'[r] + Cardinality(MayPlaceSet(r)') <= Cardinality(Callers)
  BY DEF LegsBounded
<1>1. MayPlaceSet(r)' \subseteq MayPlaceSet(r) /\ MayPlaceSet(r) \subseteq Callers
  BY OthersPlace DEF MayPlaceSet
<1>2. live[r] + Cardinality(MayPlaceSet(r)) <= Cardinality(Callers)
  BY DEF LegsBounded
<1>3. live[r] \in Nat /\ Cardinality(Callers) \in Nat
  BY FS_CardinalityType DEF States, Finite
<1>4. /\ Cardinality(MayPlaceSet(r)) \in Nat /\ Cardinality(MayPlaceSet(r)') \in Nat
      /\ Cardinality(MayPlaceSet(r)') <= Cardinality(MayPlaceSet(r))
  BY <1>1, Fewer
<1>5. CASE live'[r] = live[r]
  BY <1>2, <1>3, <1>4, <1>5
<1>6. CASE live'[r] = live[r] + 1 /\ MayPlace(s, r) /\ ~MayPlace(s, r)'
  <2>1. MayPlaceSet(r)' # MayPlaceSet(r)
    BY <1>6 DEF MayPlaceSet
  <2>2. Cardinality(MayPlaceSet(r)') + 1 <= Cardinality(MayPlaceSet(r))
    BY <1>1, <2>1, Fewer
  <2>3. QED BY <1>2, <1>3, <1>4, <1>6, <2>2
<1>7. QED
  BY <1>5, <1>6

\* The same of the lock.
LEMMA LockStep ==
    ASSUME Finite, States, States', LockBounded, NEW s \in Callers, OthersWait(s),
           pc'[s] # "start",
           \A c \in Connections : \/ held'[c] <= held[c]
                                  \/ held'[c] = held[c] + 1 /\ pc[s] = "start"
    PROVE  LockBounded'
<1> SUFFICES ASSUME NEW c \in Connections
             PROVE  held'[c] + Cardinality(MayTake') <= Cardinality(Callers)
  BY DEF LockBounded
<1>1. MayTake' \subseteq MayTake /\ MayTake \subseteq Callers
  BY DEF MayTake, OthersWait
<1>2. held[c] + Cardinality(MayTake) <= Cardinality(Callers)
  BY DEF LockBounded
<1>3. held[c] \in Nat /\ held'[c] \in Nat /\ Cardinality(Callers) \in Nat
  BY FS_CardinalityType DEF States, Finite
<1>4. /\ Cardinality(MayTake) \in Nat /\ Cardinality(MayTake') \in Nat
      /\ Cardinality(MayTake') <= Cardinality(MayTake)
  BY <1>1, Fewer
<1>5. CASE held'[c] <= held[c]
  BY <1>2, <1>3, <1>4, <1>5
<1>6. CASE held'[c] = held[c] + 1 /\ pc[s] = "start"
  <2>1. MayTake' # MayTake
    BY <1>6 DEF MayTake
  <2>2. Cardinality(MayTake') + 1 <= Cardinality(MayTake)
    BY <1>1, <2>1, Fewer
  <2>3. QED BY <1>2, <1>3, <1>4, <1>6, <2>2
<1>7. QED
  BY <1>5, <1>6

-----------------------------------------------------------------------------
(* The steps.                                                                 *)

\* A step of s under which legs and rows only grow, and what s then claims holds.
LEMMA ClaimsStep ==
    ASSUME IInv, States', NEW s \in Callers, OthersWait(s),
           \A r \in Roles : live'[r] >= live[r],
           \A r \in row' : r \in row \/ live'[r] > 0,
           pc'[s] \in {"check", "place"} => missing'[s] # {},
           pc'[s] = "save" => \A r \in Order(s)' : live'[r] > 0,
           pc'[s] \in {"check", "place", "save"} =>
              \A r \in Roles \ missing'[s] : live'[r] > 0,
           pc'[s] = "release" => \A r \in Roles : live'[r] > 0
    PROVE  /\ SomeMissing' /\ RowsOfLegs' /\ SavedOfLegs' /\ NotMissingRests'
           /\ ReleaseIsProtected'
<1>1. \A r \in Roles : live[r] > 0 => live'[r] > 0
  BY DEF IInv, States
<1>2. \A u \in Callers \ {s} :
         pc'[u] = pc[u] /\ missing'[u] = missing[u] /\ Order(u)' = Order(u)
  BY OthersPlace DEF OthersWait
<1>3. SomeMissing'
  BY <1>2 DEF IInv, SomeMissing
<1>4. RowsOfLegs'
  BY <1>1 DEF IInv, States, RowsOfLegs
<1>5. ASSUME NEW u \in Callers, (pc[u] = "save")', NEW r \in Order(u)'
      PROVE  live'[r] > 0
  <2>1. CASE u = s
    BY <1>5, <2>1
  <2>2. CASE u # s
    <3>1. r \in Roles
      BY <1>2, <1>5, <2>2 DEF Order, Roles
    <3>2. live[r] > 0
      BY <1>2, <1>5, <2>2 DEF IInv, SavedOfLegs
    <3>3. QED BY <1>1, <3>1, <3>2
  <2>3. QED BY <2>1, <2>2
<1>6. NotMissingRests'
  BY <1>1, <1>2 DEF IInv, NotMissingRests
<1>7. ReleaseIsProtected'
  BY <1>1, <1>2 DEF IInv, ReleaseIsProtected
<1>8. QED
  BY <1>3, <1>4, <1>5, <1>6, <1>7 DEF SavedOfLegs

\* The lock stays with one connection while no other takes it.
LEMMA ExclusiveStep ==
    ASSUME IInv, States',
           \/ \A c \in Connections : held'[c] <= held[c]
           \/ \E c \in Connections : ~Locked(c) /\ held' = [held EXCEPT ![c] = @ + 1]
    PROVE  LockIsExclusive'
<1>1. CASE \A c \in Connections : held'[c] <= held[c]
  <2>1. \A c \in Connections : held'[c] > 0 => held[c] > 0
    BY <1>1 DEF IInv, States
  <2>2. QED BY <2>1 DEF IInv, LockIsExclusive
<1>2. CASE \E c \in Connections : ~Locked(c) /\ held' = [held EXCEPT ![c] = @ + 1]
  <2>1. PICK c \in Connections : ~Locked(c) /\ held' = [held EXCEPT ![c] = @ + 1]
    BY <1>2
  <2>2. \A d \in Connections \ {c} : held'[d] = held[d]
    BY <2>1 DEF IInv, States
  <2>3. \A d \in Connections \ {c} : PoolOf(d) = PoolOf(c) => ~(held'[d] > 0)
    BY <2>1, <2>2 DEF Locked
  <2>4. QED BY <2>2, <2>3 DEF IInv, LockIsExclusive
<1>3. QED
  BY <1>1, <1>2

\* Order within the roles, and within the missing ones where margin has two orders.
LEMMA OrderType ==
    ASSUME IInv, NEW s \in Callers
    PROVE  /\ Order(s) \subseteq Roles /\ (~margin => Order(s) = Roles)
           /\ pc[s] \in {"check", "place"} /\ margin => Order(s) \subseteq missing[s]
<1>1. missing[s] \subseteq Roles /\ (pc[s] \in {"check", "place"} => missing[s] # {})
  BY DEF IInv, States, SomeMissing
<1>2. QED
  BY <1>1 DEF Order, Roles

LEMMA StatesStep ==
    ASSUME IInv, NEW s \in Callers,
           \/ TryLock(s) \/ SyncOpenOrders(s) \/ Look(s) \/ CheckAgain(s)
           \/ Place(s) \/ Save(s) \/ Release(s)
    PROVE  /\ States' /\ OthersWait(s) /\ pc'[s] # "start"
           /\ \A p : Goto(s, p) => pc'[s] = p
<1>0. States /\ Order(s) \subseteq Roles
  BY OrderType DEF IInv
<1>1. CASE TryLock(s)
  <2>1. held' \in [Connections -> Nat]
    BY <1>0, <1>1 DEF TryLock, States
  <2>2. QED BY <1>0, <1>1, <2>1 DEF TryLock, States, Goto, HandsBack, Keeps, OthersWait
<1>2. CASE SyncOpenOrders(s)
  BY <1>0, <1>2 DEF SyncOpenOrders, States, Goto, HandsBack, OthersWait
<1>3. CASE Look(s)
  BY <1>0, <1>3 DEF Look, States, Goto, Keeps, OthersWait
<1>4. CASE CheckAgain(s)
  BY <1>0, <1>4 DEF CheckAgain, Placed, States, Goto, Keeps, OthersWait
<1>5. CASE Place(s)
  <2>1. live' \in [Roles -> Nat]
    BY <1>0, <1>5 DEF Place, States
  <2>2. QED BY <1>0, <1>5, <2>1 DEF Place, States, Goto, OthersWait
<1>6. CASE Save(s)
  BY <1>0, <1>6 DEF Save, Placed, States, Goto, HandsBack, OthersWait
<1>7. CASE Release(s)
  <2>1. held' \in [Connections -> Nat]
    BY <1>0, <1>7 DEF Release, States
  <2>2. QED BY <1>0, <1>7, <2>1 DEF Release, States, Goto, HandsBack, OthersWait
<1>8. QED
  BY <1>1, <1>2, <1>3, <1>4, <1>5, <1>6, <1>7

\* The legs of the placement at hand rest, and s goes on.
LEMMA PlacedStep ==
    ASSUME IInv, States', NEW s \in Callers, OthersWait(s), Placed(s), UNCHANGED live,
           pc[s] \in {"check", "save"}, \A r \in Order(s) : live[r] > 0,
           pc'[s] = (IF missing[s] \subseteq Order(s) THEN "release" ELSE "check"),
           \A r \in row' : r \in row \/ live[r] > 0
    PROVE  /\ SomeMissing' /\ RowsOfLegs' /\ SavedOfLegs' /\ NotMissingRests'
           /\ ReleaseIsProtected'
           /\ \A r \in Roles : MayPlace(s, r)' => MayPlace(s, r)
<1>1. missing'[s] = missing[s] \ Order(s)
  BY DEF Placed, IInv, States
<1>2. \A r \in Roles \ missing'[s] : live[r] > 0
  BY <1>1 DEF IInv, NotMissingRests
<1>3. pc'[s] = "check" => missing'[s] # {}
  BY <1>1
<1>4. pc'[s] = "release" => \A r \in Roles : live[r] > 0
  BY <1>1, <1>2
<1>5. pc'[s] \in {"check", "release"}
  OBVIOUS
<1>6. \A r \in Roles : live'[r] >= live[r]
  BY DEF IInv, States
<1>7. /\ SomeMissing' /\ RowsOfLegs' /\ SavedOfLegs' /\ NotMissingRests'
      /\ ReleaseIsProtected'
  BY <1>2, <1>3, <1>4, <1>5, <1>6, ClaimsStep
<1>8. ASSUME NEW r \in Roles, MayPlace(s, r)' PROVE MayPlace(s, r)
  <2>1. pc'[s] = "check" /\ ~(missing[s] \subseteq Order(s)) /\ (margin' => r \in missing'[s])
    BY <1>5, <1>8 DEF MayPlace
  <2>2. margin /\ margin' /\ r \in missing[s] \ Order(s)
    BY <1>1, <2>1, OrderType DEF OthersWait, IInv, States
  <2>3. QED BY <2>2 DEF MayPlace
<1>9. QED
  BY <1>7, <1>8

LEMMA LockedSteps ==
    ASSUME Finite, IInv, NEW s \in Callers,
           CheckAgain(s) \/ Place(s) \/ Save(s)
    PROVE  IInv'
<1>0. States /\ States' /\ OthersWait(s) /\ pc'[s] # "start" /\ held' = held
  BY StatesStep DEF IInv, CheckAgain, Place, Save
<1>g. \A p : Goto(s, p) => pc'[s] = p
  BY StatesStep
<1>1. LockIsExclusive' /\ LockBounded'
  <2>1. \A c \in Connections : held'[c] <= held[c]
    BY <1>0 DEF States
  <2>2. QED BY <1>0, <2>1, ExclusiveStep, LockStep DEF IInv
<1>2. CASE /\ Placed(s) /\ UNCHANGED live /\ pc[s] \in {"check", "save"}
           /\ \A r \in Order(s) : live[r] > 0
           /\ \A r \in row' : r \in row \/ live[r] > 0
  <2>1. pc'[s] = (IF missing[s] \subseteq Order(s) THEN "release" ELSE "check")
    BY <1>2, <1>g DEF Placed
  <2>2. /\ SomeMissing' /\ RowsOfLegs' /\ SavedOfLegs' /\ NotMissingRests'
        /\ ReleaseIsProtected'
        /\ \A r \in Roles : MayPlace(s, r)' => MayPlace(s, r)
    BY <1>0, <1>2, <2>1, PlacedStep
  <2>3. LegsBounded'
    BY <1>0, <1>2, <2>2, LegsStep DEF IInv
  <2>4. QED BY <1>0, <1>1, <2>2, <2>3 DEF IInv
<1>3. CASE CheckAgain(s)
  <2>1. pc[s] = "check" /\ UNCHANGED <<live, row>>
    BY <1>3 DEF CheckAgain
  <2>2. CASE Order(s) \subseteq row
    <3>1. \A r \in Order(s) : live[r] > 0
      BY <2>2 DEF IInv, RowsOfLegs
    <3>2. QED BY <1>2, <1>3, <2>1, <2>2, <3>1 DEF CheckAgain
  <2>3. CASE ~(Order(s) \subseteq row)
    <3>1. pc'[s] = "place" /\ missing' = missing
      BY <1>3, <1>g, <2>3 DEF CheckAgain
    <3>2. /\ missing[s] # {} /\ (\A r \in Roles \ missing[s] : live[r] > 0)
          /\ \A r \in Roles : live'[r] >= live[r] /\ live'[r] = live[r]
      BY <2>1 DEF IInv, SomeMissing, NotMissingRests, States
    <3>3. /\ SomeMissing' /\ RowsOfLegs' /\ SavedOfLegs' /\ NotMissingRests'
          /\ ReleaseIsProtected'
      BY <1>0, <2>1, <3>1, <3>2, ClaimsStep
    <3>4. \A r \in Roles : MayPlace(s, r)' => MayPlace(s, r)
      BY <1>0, <2>1, <3>1 DEF MayPlace, OthersWait
    <3>5. LegsBounded'
      BY <1>0, <3>2, <3>4, LegsStep DEF IInv
    <3>6. QED BY <1>0, <1>1, <3>3, <3>5 DEF IInv
  <2>4. QED BY <2>2, <2>3
<1>4. CASE Place(s)
  <2>1. /\ pc[s] = "place" /\ pc'[s] = "save" /\ UNCHANGED <<row, missing>>
        /\ \A r \in Roles : live'[r] = IF r \in Order(s) THEN live[r] + 1 ELSE live[r]
    BY <1>4, <1>g DEF Place
  <2>2. Order(s)' = Order(s) /\ margin' = margin
    BY <1>0, <2>1 DEF Order, OthersWait
  <2>3. \A r \in Roles : live[r] \in Nat
    BY <1>0 DEF States
  <2>4. \A r \in Roles : live'[r] >= live[r] /\ (r \in Order(s) => live'[r] > 0)
    BY <2>1, <2>3
  <2>5. \A r \in Roles \ missing'[s] : live'[r] > 0
    BY <2>1, <2>3 DEF IInv, NotMissingRests
  <2>6. /\ SomeMissing' /\ RowsOfLegs' /\ SavedOfLegs' /\ NotMissingRests'
        /\ ReleaseIsProtected'
    BY <1>0, <2>1, <2>2, <2>4, <2>5, OrderType, ClaimsStep
  <2>7. ASSUME NEW r \in Roles
        PROVE  /\ MayPlace(s, r)' => MayPlace(s, r)
               /\ \/ live'[r] = live[r]
                  \/ live'[r] = live[r] + 1 /\ MayPlace(s, r) /\ ~MayPlace(s, r)'
    <3>1. MayPlace(s, r) <=> (margin => r \in missing[s])
      BY <2>1 DEF MayPlace
    <3>2. MayPlace(s, r)' <=> margin /\ r \in missing[s] \ Order(s)
      BY <2>1, <2>2 DEF MayPlace
    <3>3. r \in Order(s) => (margin => r \in missing[s])
      BY <2>1, OrderType
    <3>4. QED BY <2>1, <3>1, <3>2, <3>3
  <2>8. LegsBounded'
    BY <1>0, <2>7, LegsStep DEF IInv
  <2>9. QED BY <1>0, <1>1, <2>6, <2>8 DEF IInv
<1>5. CASE Save(s)
  <2>1. pc[s] = "save" /\ Placed(s) /\ UNCHANGED live /\ row' = row \cup Order(s)
    BY <1>5 DEF Save
  <2>2. \A r \in Order(s) : live[r] > 0
    BY <2>1 DEF IInv, SavedOfLegs
  <2>3. QED BY <1>2, <2>1, <2>2
<1>6. QED
  BY <1>3, <1>4, <1>5

LEMMA OtherSteps ==
    ASSUME Finite, IInv, NEW s \in Callers,
           TryLock(s) \/ SyncOpenOrders(s) \/ Look(s) \/ Release(s)
    PROVE  IInv'
<1>0. States /\ States' /\ OthersWait(s) /\ pc'[s] # "start" /\ UNCHANGED <<live, row>>
  BY StatesStep DEF IInv, TryLock, SyncOpenOrders, Look, Release
<1>g. \A p : Goto(s, p) => pc'[s] = p
  BY StatesStep
<1>1. \A r \in Roles : live'[r] >= live[r] /\ live'[r] = live[r]
  BY <1>0 DEF States
<1>2. LockIsExclusive' /\ LockBounded'
  <2>1. CASE TryLock(s)
    <3>1. PICK c \in Connections :
             \/ held' = held
             \/ ~Locked(c) /\ held' = [held EXCEPT ![c] = @ + 1]
      BY <2>1 DEF TryLock
    <3>2. LockIsExclusive'
      BY <1>0, <3>1, ExclusiveStep DEF States
    <3>3. /\ pc[s] = "start"
          /\ \A d \in Connections : held'[d] <= held[d] \/ held'[d] = held[d] + 1
      BY <1>0, <2>1, <3>1 DEF TryLock, States
    <3>4. QED BY <1>0, <3>2, <3>3, LockStep DEF IInv
  <2>2. CASE ~TryLock(s)
    <3>1. \/ held' = held
          \/ \E c \in Connections : held' = [held EXCEPT ![c] = IF @ > 0 THEN @ - 1 ELSE 0]
      BY <2>2 DEF SyncOpenOrders, Look, Release
    <3>2. \A c \in Connections : held'[c] <= held[c]
      BY <1>0, <3>1 DEF States
    <3>3. QED BY <1>0, <3>2, ExclusiveStep, LockStep DEF IInv
  <2>3. QED BY <2>1, <2>2
<1>3. CASE Look(s)
  <2>1. /\ pc[s] = "look" /\ missing'[s] = Roles \ row
        /\ pc'[s] = IF Roles \subseteq row THEN "release" ELSE "check"
    BY <1>0, <1>3, <1>g DEF Look, States
  <2>2. \A r \in Roles \ missing'[s] : live'[r] > 0
    BY <1>1, <2>1 DEF IInv, RowsOfLegs
  <2>3. /\ SomeMissing' /\ RowsOfLegs' /\ SavedOfLegs' /\ NotMissingRests'
        /\ ReleaseIsProtected'
    BY <1>0, <1>1, <2>1, <2>2, ClaimsStep
  <2>4. \A r \in Roles : MayPlace(s, r)
    BY <2>1 DEF MayPlace
  <2>5. LegsBounded'
    BY <1>0, <1>1, <2>4, LegsStep DEF IInv
  <2>6. QED BY <1>0, <1>2, <2>3, <2>5 DEF IInv
<1>4. CASE TryLock(s) \/ SyncOpenOrders(s) \/ Release(s)
  <2>1. /\ pc[s] \in {"start", "sync", "release"} /\ pc'[s] \in {"sync", "look", "done"}
        /\ (pc[s] = "release" => pc'[s] = "done")
    BY <1>4, <1>g DEF TryLock, SyncOpenOrders, Release
  <2>2. /\ SomeMissing' /\ RowsOfLegs' /\ SavedOfLegs' /\ NotMissingRests'
        /\ ReleaseIsProtected'
    BY <1>0, <1>1, <2>1, ClaimsStep
  <2>3. \A r \in Roles : MayPlace(s, r)' => MayPlace(s, r)
    BY <2>1 DEF MayPlace
  <2>4. LegsBounded'
    BY <1>0, <1>1, <2>3, LegsStep DEF IInv
  <2>5. QED BY <1>0, <1>2, <2>2, <2>4 DEF IInv
<1>5. QED
  BY <1>3, <1>4

LEMMA IdleStep == ASSUME IInv, UNCHANGED vars PROVE IInv'
<1>1. \A s \in Callers : Order(s)' = Order(s)
  BY DEF Order, vars
<1>2. \A s \in Callers, r \in Roles : MayPlace(s, r)' <=> MayPlace(s, r)
  BY <1>1 DEF MayPlace, vars
<1>3. MayTake' = MayTake /\ \A r \in Roles : MayPlaceSet(r)' = MayPlaceSet(r)
  BY <1>2 DEF MayTake, MayPlaceSet, vars
<1>4. States' /\ LegsBounded' /\ LockBounded'
  BY <1>3 DEF IInv, States, LegsBounded, LockBounded, vars
<1>5. /\ SomeMissing' /\ RowsOfLegs' /\ SavedOfLegs' /\ NotMissingRests'
      /\ ReleaseIsProtected' /\ LockIsExclusive'
  BY <1>1 DEF IInv, SomeMissing, RowsOfLegs, SavedOfLegs, NotMissingRests,
     ReleaseIsProtected, LockIsExclusive, vars
<1>6. QED
  BY <1>4, <1>5 DEF IInv

LEMMA Invariant == ASSUME Finite PROVE Spec => []IInv
<1>1. Init => IInv
  BY InvInit
<1>2. IInv /\ [Next]_vars => IInv'
  BY LockedSteps, OtherSteps, IdleStep DEF Next
<1>3. QED
  BY <1>1, <1>2, PTL DEF Spec

-----------------------------------------------------------------------------
(* What follows.                                                              *)

\* Every state of the callers is well typed.  Its bounds say the most: however
\* the callers come and go, none places a leg of a role twice, so that there are
\* never more than as many of a role as callers.
THEOREM TypeCorrect == ASSUME Finite PROVE Spec => []TypeOK
<1>1. IInv => TypeOK
  <2> SUFFICES ASSUME IInv PROVE TypeOK
    OBVIOUS
  <2>1. Cardinality(Callers) \in Nat
    BY FS_CardinalityType DEF Finite
  <2>2. \A r \in Roles : live[r] \in 0..Cardinality(Callers)
    <3> TAKE r \in Roles
    <3>1. live[r] \in Nat /\ live[r] + Cardinality(MayPlaceSet(r)) <= Cardinality(Callers)
      BY DEF IInv, States, LegsBounded
    <3>2. MayPlaceSet(r) \in SUBSET Callers
      BY DEF MayPlaceSet
    <3>3. Cardinality(MayPlaceSet(r)) \in Nat
      BY <3>2, Fewer
    <3>4. QED BY <2>1, <3>1, <3>3
  <2>3. \A c \in Connections : held[c] \in 0..Cardinality(Callers)
    <3> TAKE c \in Connections
    <3>1. held[c] \in Nat /\ held[c] + Cardinality(MayTake) <= Cardinality(Callers)
      BY DEF IInv, States, LockBounded
    <3>2. MayTake \in SUBSET Callers
      BY DEF MayTake
    <3>3. Cardinality(MayTake) \in Nat
      BY <3>2, Fewer
    <3>4. QED BY <2>1, <3>1, <3>3
  <2>4. QED BY <2>2, <2>3 DEF IInv, States, TypeOK
<1>2. QED
  BY <1>1, Invariant, PTL

\* The database never grants the key of a process to two of its connections.  (That
\* two callers are never at work at once does not follow: a connection handed back
\* with the lock on it lets its next session in.)
THEOREM OneHolder == ASSUME Finite PROVE Spec => []LockIsExclusive
<1>1. IInv => LockIsExclusive
  BY DEF IInv
<1>2. QED
  BY <1>1, Invariant, PTL

\* A caller that took the lock and comes to release it leaves the entry with both
\* of its legs, those it placed, found, or saw appear at its second look.
THEOREM LeavesProtected == ASSUME Finite PROVE Spec => []ReleaseIsProtected
<1>1. IInv => ReleaseIsProtected
  BY DEF IInv
<1>2. QED
  BY <1>1, Invariant, PTL

\* A creation that nobody joins, though it commits and looks again between the
\* orders, gives the entry one stop-loss and one take-profit at most: it takes a
\* second caller to double one.
THEOREM OneCallerOnePair ==
    ASSUME Finite, Cardinality(Callers) = 1 PROVE Spec => []OnePairPerEntry
<1>1. TypeOK => OnePairPerEntry
  BY DEF TypeOK, OnePairPerEntry
<1>2. QED
  BY <1>1, TypeCorrect, PTL

===============================================================================
