-------------------------- MODULE LazyDialerProofs --------------------------
(* Proofs about LazyDialer: for any number of users and any idle time, the  *)
(* use count is exact, the instance is never stopped under a user, and an   *)
(* unused instance is always watched by a timer.                            *)
EXTENDS LazyDialer, FiniteSetTheorems, TLAPS

\* A timer is armed only for an unused instance, and not before lastUsed was
\* set: when it fires, the idle time is over.
TimerIsHonest ==
    timer # Off => box /\ active = 0 /\ age + timer >= IdleAfter

\* A used instance runs.
UsedBoxRuns == active > 0 => box

\* The inductive invariant: TimerIsHonest is what makes IdleBoxIsWatched
\* survive the firing of the timer.
LazyInv ==
    /\ TypeOK
    /\ ActiveCountsUsers
    /\ UsedBoxRuns
    /\ TimerIsHonest
    /\ IdleBoxIsWatched

-----------------------------------------------------------------------------
(* How the steps change the set of users. *)

LEMMA UsersFinite == IsFiniteSet(Users) /\ Cardinality(Users) \in Nat
<1>1. Users \subseteq User
  BY DEF Users
<1>2. IsFiniteSet(Users)
  BY <1>1, LazyAssumption, FS_Subset
<1> QED
  BY <1>2, FS_CardinalityType

\* A dial that starts adds a user (singbox.go 264-278).
LEMMA UserJoins ==
    ASSUME TypeOK, NEW u \in User, pc[u] \in {"idle", "closed"},
           pc' = [pc EXCEPT ![u] = "dialing"]
    PROVE  /\ Users' = Users \cup {u}
           /\ u \notin Users
           /\ Cardinality(Users') = Cardinality(Users) + 1
<1>1. Users' = Users \cup {u} /\ u \notin Users
  BY DEF Users, TypeOK
<1>2. Cardinality(Users \cup {u}) = Cardinality(Users) + 1
  BY <1>1, UsersFinite, FS_AddElement
<1> QED
  BY <1>1, <1>2

\* A failed dial or a closed connection removes one (singbox.go 315-325).
LEMMA UserLeaves ==
    ASSUME TypeOK, NEW u \in User, pc[u] \in {"dialing", "open"},
           NEW l \in {"idle", "closed"}, pc' = [pc EXCEPT ![u] = l]
    PROVE  /\ Users' = Users \ {u}
           /\ u \in Users
           /\ Cardinality(Users') = Cardinality(Users) - 1
           /\ Cardinality(Users) \in Nat \ {0}
<1>1. Users' = Users \ {u} /\ u \in Users
  BY DEF Users, TypeOK
<1>2. Cardinality(Users \ {u}) = Cardinality(Users) - 1
  BY <1>1, UsersFinite, FS_RemoveElement
<1>3. Cardinality(Users) # 0
  BY <1>1, UsersFinite, FS_EmptySet
<1> QED
  BY <1>1, <1>2, <1>3, UsersFinite

\* The other steps of a user leave the users alone.
LEMMA UsersStay ==
    ASSUME TypeOK, NEW u \in User,
           \/ pc[u] = "dialing" /\ pc' = [pc EXCEPT ![u] = "open"]
           \/ pc[u] = "closed" /\ pc' = [pc EXCEPT ![u] = "idle"]
           \/ pc' = pc
    PROVE  Users' = Users
BY DEF Users, TypeOK

-----------------------------------------------------------------------------
(* Invariance. *)

LEMMA AcquireInv ==
    ASSUME LazyInv, NEW u \in User, Acquire(u)
    PROVE  LazyInv'
<1> USE LazyAssumption DEF LazyInv, Off
<1>1. CASE box' = TRUE /\ active' = active + 1 /\ age' = 0
           /\ pc' = [pc EXCEPT ![u] = "dialing"]
  <2>1. ActiveCountsUsers'
    BY <1>1, UserJoins DEF Acquire, ActiveCountsUsers
  <2> QED
    BY <1>1, <2>1 DEF Acquire, TypeOK, UsedBoxRuns, TimerIsHonest, IdleBoxIsWatched
<1>2. CASE ~box /\ UNCHANGED <<box, active, age, pc>>
  <2>1. ActiveCountsUsers'
    BY <1>2, UsersStay DEF ActiveCountsUsers
  <2> QED
    BY <1>2, <2>1 DEF Acquire, TypeOK, UsedBoxRuns, TimerIsHonest, IdleBoxIsWatched
<1> QED
  BY <1>1, <1>2 DEF Acquire

LEMMA ReleaseInv ==
    ASSUME LazyInv, NEW u \in User, pc[u] \in {"dialing", "open"},
           NEW l \in {"idle", "closed"}, Release([pc EXCEPT ![u] = l])
    PROVE  LazyInv'
<1> USE LazyAssumption DEF LazyInv, Off
<1>1. pc' = [pc EXCEPT ![u] = l]
  BY DEF Release
<1>2. active \in Nat \ {0} /\ active' = active - 1 /\ ActiveCountsUsers'
  <2>1. /\ Cardinality(Users') = Cardinality(Users) - 1
        /\ Cardinality(Users) \in Nat \ {0}
    BY <1>1, UserLeaves
  <2>2. active = Cardinality(Users)
    BY DEF ActiveCountsUsers
  <2>3. active' = active - 1
    BY <2>1, <2>2 DEF Release
  <2> QED
    BY <2>1, <2>2, <2>3 DEF ActiveCountsUsers
<1>3. TypeOK'
  <2>1. pc' \in [User -> {"idle", "dialing", "open", "closed"}]
    BY <1>1 DEF TypeOK
  <2>2. box' \in BOOLEAN
    BY Zenon DEF Release, CloseBox, TypeOK
  <2>3. /\ age' \in 0 .. IdleAfter
        /\ timer' \in {Off} \cup 0 .. IdleAfter
        /\ callbacks' \in 0 .. CallbackCap
    BY DEF Release, CloseBox, TypeOK
  <2> QED
    BY <1>2, <2>1, <2>2, <2>3 DEF TypeOK
<1>4. UsedBoxRuns' /\ TimerIsHonest' /\ IdleBoxIsWatched'
  BY <1>2 DEF Release, CloseBox, TypeOK, UsedBoxRuns, TimerIsHonest, IdleBoxIsWatched
<1> QED
  BY <1>2, <1>3, <1>4

LEMMA NextInv == LazyInv /\ [Next]_vars => LazyInv'
<1> SUFFICES ASSUME LazyInv, [Next]_vars PROVE LazyInv'
  OBVIOUS
<1> USE LazyAssumption DEF LazyInv, Off
<1>1. ASSUME UNCHANGED pc, UNCHANGED active
      PROVE  ActiveCountsUsers'
  BY <1>1 DEF ActiveCountsUsers, Users
<1>2. ASSUME NEW u \in User, UserStep(u)
      PROVE  LazyInv'
  <2>1. CASE Acquire(u)
    BY <2>1, AcquireInv
  <2>2. CASE DialSucceeds(u)
    <3>1. ActiveCountsUsers'
      BY <2>2, UsersStay DEF DialSucceeds, ActiveCountsUsers
    <3> QED
      BY <2>2, <3>1 DEF DialSucceeds, TypeOK, UsedBoxRuns, TimerIsHonest,
         IdleBoxIsWatched
  <2>3. CASE DialFails(u)
    BY <2>3, ReleaseInv DEF DialFails
  <2>4. CASE Close(u)
    <3>1. CASE pc[u] = "open" /\ Release([pc EXCEPT ![u] = "closed"])
      BY <3>1, ReleaseInv
    <3>2. CASE UNCHANGED vars
      BY <1>1, <3>2 DEF vars, TypeOK, UsedBoxRuns, TimerIsHonest, IdleBoxIsWatched
    <3> QED
      BY <2>4, <3>1, <3>2 DEF Close
  <2>5. CASE Forget(u)
    <3>1. ActiveCountsUsers'
      BY <2>5, UsersStay DEF Forget, ActiveCountsUsers
    <3> QED
      BY <2>5, <3>1 DEF Forget, TypeOK, UsedBoxRuns, TimerIsHonest, IdleBoxIsWatched
  <2> QED
    BY <1>2, <2>1, <2>2, <2>3, <2>4, <2>5 DEF UserStep
<1>3. CASE Fire
  BY <1>1, <1>3 DEF Fire, TypeOK, UsedBoxRuns, TimerIsHonest, IdleBoxIsWatched
<1>4. CASE CloseIfIdle
  <2>1. ActiveCountsUsers' /\ TypeOK'
    <3>1. box' \in BOOLEAN
      <4>1. box' = FALSE \/ box' = box
        BY <1>4 DEF CloseIfIdle, CloseBox
      <4> QED
        BY <4>1, Zenon DEF TypeOK
    <3>2. /\ timer' \in {Off} \cup 0 .. IdleAfter
          /\ callbacks' \in 0 .. CallbackCap
      BY <1>4 DEF CloseIfIdle, CloseBox, TypeOK
    <3>3. UNCHANGED <<active, age, pc>>
      BY <1>4 DEF CloseIfIdle
    <3> QED
      BY <1>1, <3>1, <3>2, <3>3 DEF TypeOK
  <2>2. UsedBoxRuns' /\ TimerIsHonest'
    BY <1>4 DEF CloseIfIdle, CloseBox, UsedBoxRuns, TimerIsHonest, TypeOK
  <2>3. IdleBoxIsWatched'
    BY <1>4 DEF CloseIfIdle, CloseBox, IdleBoxIsWatched, TypeOK
  <2> QED
    BY <2>1, <2>2, <2>3
<1>5. CASE ResetIdleCache
  <2>1. ActiveCountsUsers' /\ TypeOK'
    <3>1. box' \in BOOLEAN
      BY <1>5, Zenon DEF ResetIdleCache, CloseBox, TypeOK
    <3>2. timer' \in {Off} \cup 0 .. IdleAfter
      BY <1>5 DEF ResetIdleCache, CloseBox, TypeOK
    <3>3. UNCHANGED <<active, age, callbacks, pc>>
      BY <1>5 DEF ResetIdleCache
    <3> QED
      BY <1>1, <3>1, <3>2, <3>3 DEF TypeOK
  <2>2. UsedBoxRuns' /\ TimerIsHonest'
    BY <1>5 DEF ResetIdleCache, CloseBox, UsedBoxRuns, TimerIsHonest, TypeOK
  <2>3. IdleBoxIsWatched'
    BY <1>5 DEF ResetIdleCache, CloseBox, IdleBoxIsWatched, TypeOK
  <2> QED
    BY <2>1, <2>2, <2>3
<1>6. CASE Tick
  BY <1>1, <1>6 DEF Tick, TypeOK, UsedBoxRuns, TimerIsHonest, IdleBoxIsWatched
<1>7. CASE UNCHANGED vars
  BY <1>1, <1>7 DEF vars, TypeOK, UsedBoxRuns, TimerIsHonest, IdleBoxIsWatched
<1> QED
  BY <1>2, <1>3, <1>4, <1>5, <1>6, <1>7 DEF Next

LEMMA InitInv == Init => LazyInv
<1> SUFFICES ASSUME Init PROVE LazyInv
  OBVIOUS
<1>1. Users = {}
  BY DEF Init, Users
<1>2. ActiveCountsUsers
  BY <1>1, FS_EmptySet DEF Init, ActiveCountsUsers
<1>3. TypeOK
  <2>1. box \in BOOLEAN
    BY Zenon DEF Init
  <2> QED
    BY <2>1, LazyAssumption DEF Init, TypeOK, Off
<1> QED
  BY <1>2, <1>3
     DEF LazyInv, Init, UsedBoxRuns, TimerIsHonest, IdleBoxIsWatched

\* The inductive invariant holds in every reachable state.
THEOREM LazyInvariance == Spec => []LazyInv
BY InitInv, NextInv, PTL DEF Spec

\* The dialer's fields keep their types (singbox.go 229-241).
THEOREM LazyTypeCorrect == Spec => []TypeOK
BY LazyInvariance, PTL DEF LazyInv

\* The use count equals the dials under way plus the open connections
\* (singbox.go 264-278, 315-325, 392-402).
THEOREM LazyActiveExact == Spec => []ActiveCountsUsers
BY LazyInvariance, PTL DEF LazyInv

\* An unused instance has an armed timer or a callback that will close it
\* (singbox.go 341-366).
THEOREM LazyIdleWatched == Spec => []IdleBoxIsWatched
BY LazyInvariance, PTL DEF LazyInv

-----------------------------------------------------------------------------
(* Refinement. *)

\* With an exact count, "active is zero" means that nobody uses the instance.
LEMMA ZeroMeansUnused ==
    ASSUME ActiveCountsUsers, active = 0
    PROVE  Users = {}
BY UsersFinite, FS_EmptySet DEF ActiveCountsUsers

\* Every step of the dialer is a step of the shared resource, or none.
LEMMA StepRefines ==
    LazyInv /\ LazyInv' /\ [Next]_vars => [SharedBox!Next]_(SharedBox!vars)
<1> SUFFICES ASSUME LazyInv, LazyInv', [Next]_vars
             PROVE  [SharedBox!Next]_(SharedBox!vars)
  OBVIOUS
<1> USE DEF SharedBox!Next, SharedBox!vars
<1>1. box \in BOOLEAN /\ box' \in BOOLEAN
  BY DEF LazyInv, TypeOK
<1>2. ASSUME UNCHANGED box, Users' = Users
      PROVE  [SharedBox!Next]_(SharedBox!vars)
  BY <1>2
<1>3. ASSUME active = 0, UNCHANGED pc, box' = FALSE
      PROVE  [SharedBox!Next]_(SharedBox!vars)
  <2>1. Users = {} /\ Users' = Users
    BY <1>3, ZeroMeansUnused DEF LazyInv, Users
  <2> QED
    BY <1>3, <2>1 DEF SharedBox!Stop
<1>4. ASSUME NEW u \in User, pc[u] \in {"dialing", "open"},
             NEW l \in {"idle", "closed"}, Release([pc EXCEPT ![u] = l])
      PROVE  [SharedBox!Next]_(SharedBox!vars)
  <2>1. Users' = Users \ {u} /\ u \in Users
    BY <1>4, UserLeaves DEF LazyInv, Release
  <2>2. box' = box \/ active' = 0
    BY <1>4 DEF Release
  <2>3. box' = box \/ Users' = {}
    <3>1. CASE active' = 0
      <4>1. Users' = {} <=> Cardinality(Users') = 0
        <5>1. IsFiniteSet(Users')
          BY <2>1, UsersFinite, FS_Subset
        <5> QED
          BY <5>1, FS_EmptySet
      <4> QED
        BY <3>1, <4>1 DEF LazyInv, ActiveCountsUsers
    <3> QED
      BY <2>2, <3>1
  <2> QED
    BY <1>1, <2>1, <2>3 DEF SharedBox!Release
<1>5. ASSUME NEW u \in User, UserStep(u)
      PROVE  [SharedBox!Next]_(SharedBox!vars)
  <2>1. CASE Acquire(u)
    <3>1. CASE box' = TRUE /\ pc' = [pc EXCEPT ![u] = "dialing"]
      <4>1. Users' = Users \cup {u} /\ u \notin Users
        BY <2>1, <3>1, UserJoins DEF Acquire, LazyInv
      <4> QED
        BY <3>1, <4>1 DEF SharedBox!Acquire
    <3>2. CASE UNCHANGED <<box, pc>>
      BY <1>2, <3>2 DEF Users
    <3> QED
      BY <2>1, <3>1, <3>2 DEF Acquire
  <2>2. CASE DialSucceeds(u) \/ Forget(u)
    BY <1>2, <2>2, UsersStay DEF DialSucceeds, Forget, LazyInv
  <2>3. CASE DialFails(u)
    BY <1>4, <2>3 DEF DialFails
  <2>4. CASE Close(u)
    <3>1. CASE pc[u] = "open" /\ Release([pc EXCEPT ![u] = "closed"])
      BY <1>4, <3>1
    <3>2. CASE UNCHANGED vars
      BY <1>2, <3>2 DEF vars, Users
    <3> QED
      BY <2>4, <3>1, <3>2 DEF Close
  <2> QED
    BY <1>5, <2>1, <2>2, <2>3, <2>4 DEF UserStep
<1>6. CASE Fire \/ Tick
  BY <1>2, <1>6 DEF Fire, Tick, Users
<1>7. CASE CloseIfIdle
  BY <1>2, <1>3, <1>7 DEF CloseIfIdle, CloseBox, Users
<1>8. CASE ResetIdleCache
  BY <1>2, <1>3, <1>8 DEF ResetIdleCache, CloseBox, Users
<1>9. CASE UNCHANGED vars
  BY <1>2, <1>9 DEF vars, Users
<1> QED
  BY <1>5, <1>6, <1>7, <1>8, <1>9 DEF Next

\* The dialer implements the shared resource: the instance runs while it is
\* used and stops only when it is not (singbox.go 251-366).
THEOREM LazyRefinesRefCount == Spec => ImplementsRefCount
<1>1. Init => SharedBox!Init
  BY DEF Init, SharedBox!Init, Users
<1> QED
  BY <1>1, StepRefines, LazyInvariance, PTL
     DEF Spec, ImplementsRefCount, SharedBox!Spec
=============================================================================
