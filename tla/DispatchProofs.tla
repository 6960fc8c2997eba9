--------------------------- MODULE DispatchProofs ---------------------------
(***************************************************************************)
(* Proofs about module Dispatch, for any number of connections, candidates, *)
(* sessions and attempts.  The pool's own invariant is that of PoolProofs.  *)
(***************************************************************************)
EXTENDS Dispatch, PoolProofs

\* Where a request has chosen a candidate that it has not given up.
HasCandidate == {"dialer", "dialing", "bind", "failed", "unbind", "forward"}

BindingsOK ==
    /\ \A k \in DOMAIN bindings :
         /\ bindings[k].fp \in Fingerprint
         /\ bindings[k].ttl \in 1 .. MaxTTL
         /\ bindings[k].left \in 0 .. bindings[k].ttl
         /\ bindings[k] = [fp |-> bindings[k].fp, ttl |-> bindings[k].ttl,
                           left |-> bindings[k].left]
    /\ sweepAge \in 0 .. SweepInterval

RequestsOK ==
    /\ pc \in [Request -> HasCandidate \cup {"idle", "session", "schedule", "refused"}]
    /\ info \in [Request -> Info]
    /\ attempt \in [Request -> 0 .. MaxAttempts]
    /\ attempted \in [Request -> SUBSET Fingerprint]
    /\ cand \in [Request -> Fingerprint \cup {NoCandidate}]
    /\ \A r \in Request : pc[r] \in HasCandidate => cand[r] \in Fingerprint
    /\ cancelled \in BOOLEAN

\* While the service runs, a dial that failed was not that of a healthy proxy.
FailedIsAtFault ==
    ~cancelled => \A r \in Request : pc[r] = "failed" => cand[r] \notin Healthy \ BoxFingerprint

\* The inductive invariant.
DispatchInv ==
    PoolInv /\ BindingsOK /\ RequestsOK /\ FailedIsAtFault

-----------------------------------------------------------------------------
(* The session manager. *)

\* A lifetime is positive and within the maximum (session.go 37-134).
LEMMA EffectiveTTLType ==
    ASSUME NEW i \in Info
    PROVE  EffectiveTTL(i) \in 1 .. MaxTTL
BY TTLAssumption DEF EffectiveTTL, Info

\* Bindings that are deleted leave the others as they are.
LEMMA WithoutKeepsBindings ==
    ASSUME BindingsOK, NEW keys, bindings' = Without(keys), sweepAge' \in 0 .. SweepInterval
    PROVE  BindingsOK'
BY DEF BindingsOK, Without

LEMMA SweepAgeType ==
    ASSUME BindingsOK
    PROVE  SweepAge(SweepInterval) \in 0 .. SweepInterval
BY TTLAssumption DEF BindingsOK, SweepAge

\* A lookup sweeps, and renews the binding it uses or deletes it
\* (session.go 180-202).
LEMMA GetBoundKeepsBindings ==
    ASSUME BindingsOK, NEW i \in Info, NEW result, GetBound(i, result)
    PROVE  BindingsOK'
<1>1. CASE i.session = NoSession
  BY <1>1 DEF GetBound, BindingsOK, sessionVars
<1>2. CASE i.session # NoSession
  <2> DEFINE k == BindingKey(i)
  <2>1. sweepAge' \in 0 .. SweepInterval
    BY <1>2, SweepAgeType DEF GetBound
  <2>2. CASE Usable(k)
    <3> DEFINE b == Without(Swept(SweepInterval))
    <3>1. bindings' = [b EXCEPT ![k].left = bindings[k].ttl]
      BY <1>2, <2>2 DEF GetBound
    <3>2. /\ b = [x \in DOMAIN b |-> bindings[x]] /\ DOMAIN b \subseteq DOMAIN bindings
          /\ k \in DOMAIN bindings
      BY <2>2 DEF Without, Usable
    <3> HIDE DEF k, b
    <3>3. /\ DOMAIN bindings' = DOMAIN b
          /\ \A x \in DOMAIN b : x # k => bindings'[x] = bindings[x]
          /\ k \in DOMAIN b => bindings'[k] = [bindings[k] EXCEPT !.left = bindings[k].ttl]
      BY <3>1, <3>2
    <3>4. [bindings[k] EXCEPT !.left = bindings[k].ttl]
            = [fp |-> bindings[k].fp, ttl |-> bindings[k].ttl, left |-> bindings[k].ttl]
      BY <3>2 DEF BindingsOK
    <3>5. bindings[k].ttl \in 1 .. MaxTTL /\ bindings[k].fp \in Fingerprint
      BY <3>2 DEF BindingsOK
    <3>6. \A x \in DOMAIN bindings' :
             /\ bindings'[x].fp \in Fingerprint /\ bindings'[x].ttl \in 1 .. MaxTTL
             /\ bindings'[x].left \in 0 .. bindings'[x].ttl
             /\ bindings'[x] = [fp |-> bindings'[x].fp, ttl |-> bindings'[x].ttl,
                                left |-> bindings'[x].left]
      BY <3>2, <3>3, <3>4, <3>5, TTLAssumption DEF BindingsOK
    <3> QED
      BY <2>1, <3>6 DEF BindingsOK
  <2>3. CASE ~Usable(k)
    BY <1>2, <2>1, <2>3, WithoutKeepsBindings DEF GetBound
  <2> QED
    BY <2>2, <2>3
<1> QED
  BY <1>1, <1>2

\* A binding is made with a full lifetime (session.go 204-219).
LEMMA RebindKeepsBindings ==
    ASSUME BindingsOK, NEW i \in Info, NEW fp \in Fingerprint, Rebind(i, fp)
    PROVE  BindingsOK'
<1>1. CASE i.session = NoSession
  BY <1>1 DEF Rebind, BindingsOK
<1>2. CASE i.session # NoSession
  <2> DEFINE t == EffectiveTTL(i)
  <2>1. t \in 1 .. MaxTTL
    BY EffectiveTTLType
  <2> HIDE DEF t
  <2>2. /\ bindings' = [k \in DOMAIN bindings \cup {BindingKey(i)} |->
                          IF k = BindingKey(i) THEN [fp |-> fp, ttl |-> t, left |-> t]
                                               ELSE bindings[k]]
        /\ sweepAge' = sweepAge
    BY <1>2 DEF Rebind, Bind, t
  <2> QED
    BY <2>1, <2>2, TTLAssumption DEF BindingsOK
<1> QED
  BY <1>1, <1>2

\* Time passes, and statistics are read (session.go 230-248).
LEMMA TimeKeepsBindings ==
    ASSUME BindingsOK, Tick \/ Count
    PROVE  BindingsOK'
<1>1. CASE Count
  BY <1>1, WithoutKeepsBindings, TTLAssumption DEF Count
<1>2. CASE Tick
  <2>1. sweepAge' \in 0 .. SweepInterval
    BY <1>2, TTLAssumption DEF Tick, BindingsOK
  <2>2. /\ DOMAIN bindings' = DOMAIN bindings
        /\ \A k \in DOMAIN bindings :
             bindings'[k] = [fp |-> bindings[k].fp, ttl |-> bindings[k].ttl,
                             left |-> IF bindings[k].left > 0 THEN bindings[k].left - 1 ELSE 0]
    <3>1. bindings' = [k \in DOMAIN bindings |->
                         [bindings[k] EXCEPT !.left = IF @ > 0 THEN @ - 1 ELSE 0]]
      BY <1>2 DEF Tick
    <3> QED
      BY <3>1 DEF BindingsOK
  <2>3. \A k \in DOMAIN bindings : bindings[k].ttl \in 1 .. MaxTTL
                                    /\ bindings[k].left \in 0 .. bindings[k].ttl
    BY DEF BindingsOK
  <2> QED
    BY <2>1, <2>2, <2>3, TTLAssumption DEF BindingsOK
<1> QED
  BY <1>1, <1>2

-----------------------------------------------------------------------------
(* The steps of a request. *)

LEMMA SamePool ==
    ASSUME PoolInv, UNCHANGED poolVars
    PROVE  PoolInv'
BY DEF PoolInv, poolVars, TypeOK, OrderEnumeratesItems, AvailableBelowThreshold,
       AvailableBoxHasDialer, DialersHaveItems, EvictedUntilValidated, IsAvailable

\* A pick is of an eligible candidate (pool.go 217-293).
LEMMA PickStep ==
    ASSUME PoolInv, NEW route, NEW exclude, NEW result,
           \/ PickMatchingExcluding(route, exclude, result)
           \/ PickMatchingPercentExcluding(route, exclude, FastPercent, result)
    PROVE  /\ PoolInv'
           /\ result = NoCandidate \/ result \in Eligible(route, exclude)
<1>1. PoolInv'
  BY PickInv
<1>2. result = NoCandidate \/ result \in Eligible(route, exclude)
  BY DEF PickMatchingExcluding, PickMatchingPercentExcluding, FastSet
<1> QED
  BY <1>1, <1>2

\* A step of one request that keeps the types keeps the invariant, if a candidate
\* whose dial has failed is at fault.
LEMMA RequestStep ==
    ASSUME DispatchInv, BindingsOK', PoolInv', RequestsOK', NEW r \in Request,
           UNCHANGED cancelled,
           \A q \in Request \ {r} : pc'[q] = pc[q] /\ cand'[q] = cand[q],
           pc'[r] = "failed" /\ ~cancelled => cand'[r] \notin Healthy \ BoxFingerprint
    PROVE  DispatchInv'
BY DEF DispatchInv, FailedIsAtFault

\* A step that leaves the pool, the sessions and the candidate alone.
LEMMA QuietStep ==
    ASSUME DispatchInv, NEW r \in Request, NEW label,
           UNCHANGED <<poolVars, sessionVars, info, attempt, attempted, cand, cancelled>>,
           Goto(r, label),
           label \in HasCandidate, pc[r] \in HasCandidate,
           label = "failed" /\ ~cancelled => cand[r] \notin Healthy \ BoxFingerprint
    PROVE  DispatchInv'
<1>1. BindingsOK'
  BY DEF DispatchInv, BindingsOK, sessionVars
<1>2. PoolInv'
  BY SamePool DEF DispatchInv
<1>3. RequestsOK'
  BY DEF DispatchInv, RequestsOK, Goto
<1>4. \A q \in Request \ {r} : pc'[q] = pc[q] /\ cand'[q] = cand[q]
  BY DEF DispatchInv, RequestsOK, Goto
<1>5. pc'[r] = label /\ cand'[r] = cand[r]
  BY DEF DispatchInv, RequestsOK, Goto
<1> QED
  BY <1>1, <1>2, <1>3, <1>4, <1>5, RequestStep

LEMMA BeginStep ==
    ASSUME DispatchInv, NEW r \in Request, Begin(r), UNCHANGED cancelled
    PROVE  DispatchInv'
<1>1. BindingsOK'
  BY DEF Begin, DispatchInv, BindingsOK, sessionVars
<1>2. PoolInv'
  BY SamePool DEF Begin, DispatchInv
<1>3. PICK i \in InfosOf[r] : info' = [info EXCEPT ![r] = i]
  BY DEF Begin
<1>4. i \in Info
  BY <1>3, DispatchAssumption
<1>5. RequestsOK'
  <2>1. 1 \in 0 .. MaxAttempts
    BY DispatchAssumption DEF MaxAttempts
  <2>2. /\ info' \in [Request -> Info]
        /\ attempt' \in [Request -> 0 .. MaxAttempts]
    BY <1>3, <1>4, <2>1 DEF Begin, DispatchInv, RequestsOK
  <2>3. pc' = [pc EXCEPT ![r] = "session"] /\ UNCHANGED <<attempted, cand>>
    BY DEF Begin, Goto
  <2> QED
    BY <2>2, <2>3 DEF DispatchInv, RequestsOK, HasCandidate
<1>6. /\ pc'[r] = "session"
      /\ \A q \in Request \ {r} : pc'[q] = pc[q] /\ cand'[q] = cand[q]
  BY DEF Begin, DispatchInv, RequestsOK, Goto
<1> QED
  BY <1>1, <1>2, <1>5, <1>6, RequestStep

\* A candidate that is chosen is remembered as tried.
LEMMA ChooseTypes ==
    ASSUME RequestsOK, NEW r \in Request, NEW fp \in Fingerprint, Choose(r, fp),
           UNCHANGED <<info, attempt, cancelled>>
    PROVE  /\ RequestsOK'
           /\ pc'[r] = "dialer"
           /\ \A q \in Request \ {r} : pc'[q] = pc[q] /\ cand'[q] = cand[q]
BY DEF RequestsOK, Choose, Goto, HasCandidate

\* A request goes on without a candidate of its own.
LEMMA GotoTypes ==
    ASSUME RequestsOK, NEW r \in Request, NEW label \in {"schedule", "refused"},
           Goto(r, label), UNCHANGED <<info, attempt, attempted, cand, cancelled>>
    PROVE  /\ RequestsOK'
           /\ pc'[r] = label
           /\ \A q \in Request \ {r} : pc'[q] = pc[q] /\ cand'[q] = cand[q]
BY DEF RequestsOK, Goto, HasCandidate

LEMMA FollowSessionStep ==
    ASSUME DispatchInv, NEW r \in Request, FollowSession(r), UNCHANGED cancelled
    PROVE  DispatchInv'
<1>1. PICK result \in Fingerprint \cup {NoCandidate} :
        /\ GetBound(info[r], result)
        /\ IF result # NoCandidate /\ result \notin attempted[r]
             THEN Choose(r, result)
             ELSE Goto(r, "schedule") /\ UNCHANGED <<attempted, cand>>
  BY DEF FollowSession
<1>2. BindingsOK'
  BY <1>1, GetBoundKeepsBindings DEF DispatchInv, RequestsOK
<1>3. PoolInv'
  BY SamePool DEF FollowSession, DispatchInv
<1>4. UNCHANGED <<info, attempt>>
  BY DEF FollowSession
<1>5. /\ RequestsOK'
      /\ pc'[r] # "failed"
      /\ \A q \in Request \ {r} : pc'[q] = pc[q] /\ cand'[q] = cand[q]
  <2>1. CASE result # NoCandidate /\ result \notin attempted[r]
    BY <1>1, <1>4, <2>1, ChooseTypes DEF DispatchInv
  <2>2. CASE ~(result # NoCandidate /\ result \notin attempted[r])
    BY <1>1, <1>4, <2>2, GotoTypes DEF DispatchInv
  <2> QED
    BY <2>1, <2>2
<1> QED
  BY <1>2, <1>3, <1>5, RequestStep

LEMMA ScheduleStep ==
    ASSUME DispatchInv, NEW r \in Request, Schedule(r), UNCHANGED cancelled
    PROVE  DispatchInv'
<1>1. PICK result \in Fingerprint \cup {NoCandidate} :
        /\ \/ PickMatchingExcluding(info[r].route, attempted[r], result)
           \/ PickMatchingPercentExcluding(info[r].route, attempted[r], FastPercent, result)
        /\ IF result # NoCandidate
             THEN Choose(r, result)
             ELSE Goto(r, "refused") /\ UNCHANGED <<attempted, cand>>
  BY DEF Schedule
<1>2. BindingsOK'
  BY DEF Schedule, DispatchInv, BindingsOK, sessionVars
<1>3. PoolInv'
  BY <1>1, PickStep DEF DispatchInv
<1>4. UNCHANGED <<info, attempt>>
  BY DEF Schedule
<1>5. /\ RequestsOK'
      /\ pc'[r] # "failed"
      /\ \A q \in Request \ {r} : pc'[q] = pc[q] /\ cand'[q] = cand[q]
  <2>1. CASE result # NoCandidate
    BY <1>1, <1>4, <2>1, ChooseTypes DEF DispatchInv
  <2>2. CASE result = NoCandidate
    BY <1>1, <1>4, <2>2, GotoTypes DEF DispatchInv
  <2> QED
    BY <2>1, <2>2
<1> QED
  BY <1>2, <1>3, <1>5, RequestStep

\* Without a shutdown only a sing-box candidate is without a dialer.
LEMMA StartDialStep ==
    ASSUME DispatchInv, NEW r \in Request, StartDial(r), UNCHANGED cancelled
    PROVE  DispatchInv'
<1>1. CASE Goto(r, "dialing")
  BY <1>1, QuietStep DEF StartDial, HasCandidate
<1>2. CASE /\ (cand[r] \in BoxFingerprint /\ cand[r] \notin dialers) \/ cancelled
           /\ Goto(r, "failed")
  BY <1>2, QuietStep DEF StartDial, HasCandidate
<1> QED
  BY <1>1, <1>2 DEF StartDial

LEMMA EndDialStep ==
    ASSUME DispatchInv, NEW r \in Request, EndDial(r), UNCHANGED cancelled
    PROVE  DispatchInv'
<1>1. CASE Goto(r, "bind")
  BY <1>1, QuietStep DEF EndDial, HasCandidate
<1>2. CASE (cand[r] \notin Healthy \/ cancelled) /\ Goto(r, "failed")
  BY <1>2, QuietStep DEF EndDial, HasCandidate
<1> QED
  BY <1>1, <1>2 DEF EndDial

LEMMA BindSessionStep ==
    ASSUME DispatchInv, NEW r \in Request, BindSession(r), UNCHANGED cancelled
    PROVE  DispatchInv'
<1>1. cand[r] \in Fingerprint /\ info[r] \in Info
  BY DEF BindSession, DispatchInv, RequestsOK, HasCandidate
<1>2. BindingsOK'
  BY <1>1, RebindKeepsBindings DEF BindSession, DispatchInv
<1>3. PoolInv'
  BY SamePool DEF BindSession, DispatchInv
<1>4. /\ RequestsOK'
      /\ pc'[r] # "failed"
      /\ \A q \in Request \ {r} : pc'[q] = pc[q] /\ cand'[q] = cand[q]
  BY DEF BindSession, DispatchInv, RequestsOK, Goto, HasCandidate
<1> QED
  BY <1>2, <1>3, <1>4, RequestStep

\* A failure is charged for a dial that failed, and while the service runs that
\* is not the dial of a healthy proxy.
LEMMA CountFailureStep ==
    ASSUME DispatchInv, NEW r \in Request, CountFailure(r), UNCHANGED cancelled
    PROVE  DispatchInv'
<1>1. /\ cand[r] \in Fingerprint
      /\ ~cancelled => cand[r] \notin Healthy \ BoxFingerprint
  BY DEF CountFailure, DispatchInv, RequestsOK, HasCandidate, FailedIsAtFault
<1>2. BindingsOK'
  BY DEF CountFailure, DispatchInv, BindingsOK, sessionVars
<1>3. PoolInv'
  BY <1>1, MarkFailureInv DEF CountFailure, DispatchInv
<1>4. /\ RequestsOK'
      /\ pc'[r] # "failed"
      /\ \A q \in Request \ {r} : pc'[q] = pc[q] /\ cand'[q] = cand[q]
  BY DEF CountFailure, DispatchInv, RequestsOK, Goto, HasCandidate
<1> QED
  BY <1>2, <1>3, <1>4, RequestStep

LEMMA RetryStep ==
    ASSUME DispatchInv, NEW r \in Request, Retry(r), UNCHANGED cancelled
    PROVE  DispatchInv'
<1>1. BindingsOK'
  <2>1. sweepAge' \in 0 .. SweepInterval
    BY DEF Retry, Unbind, DispatchInv, BindingsOK
  <2>2. bindings' = bindings \/ bindings' = Without({BindingKey(info[r])})
    BY DEF Retry, Unbind
  <2>3. CASE bindings' = bindings
    BY <2>1, <2>3 DEF DispatchInv, BindingsOK
  <2>4. CASE bindings' = Without({BindingKey(info[r])})
    BY <2>1, <2>4, WithoutKeepsBindings DEF DispatchInv
  <2> QED
    BY <2>2, <2>3, <2>4
<1>2. PoolInv'
  BY SamePool DEF Retry, DispatchInv
<1>3. CASE attempt[r] < MaxAttempts
  <2>1. /\ RequestsOK'
        /\ pc'[r] # "failed"
        /\ \A q \in Request \ {r} : pc'[q] = pc[q] /\ cand'[q] = cand[q]
    BY <1>3, DispatchAssumption
    DEF Retry, DispatchInv, RequestsOK, Goto, HasCandidate, MaxAttempts
  <2> QED
    BY <1>1, <1>2, <2>1, RequestStep
<1>4. CASE ~(attempt[r] < MaxAttempts)
  <2>1. /\ RequestsOK'
        /\ pc'[r] # "failed"
        /\ \A q \in Request \ {r} : pc'[q] = pc[q] /\ cand'[q] = cand[q]
    BY <1>4 DEF Retry, DispatchInv, RequestsOK, Goto, HasCandidate
  <2> QED
    BY <1>1, <1>2, <2>1, RequestStep
<1> QED
  BY <1>3, <1>4

\* A request ends with whatever the pool has recorded of its forwarding.
LEMMA ResetStep ==
    ASSUME DispatchInv, NEW r \in Request, Reset(r), PoolInv', UNCHANGED cancelled
    PROVE  DispatchInv'
<1>1. BindingsOK'
  BY DEF Reset, DispatchInv, BindingsOK, sessionVars
<1>2. /\ RequestsOK'
      /\ pc'[r] # "failed"
      /\ \A q \in Request \ {r} : pc'[q] = pc[q] /\ cand'[q] = cand[q]
  BY DispatchAssumption DEF Reset, DispatchInv, RequestsOK, Goto, HasCandidate, MaxAttempts
<1> QED
  BY <1>1, <1>2, RequestStep

LEMMA EndForwardStep ==
    ASSUME DispatchInv, NEW r \in Request, EndForward(r), UNCHANGED cancelled
    PROVE  DispatchInv'
<1>1. cand[r] \in Fingerprint
  BY DEF EndForward, DispatchInv, RequestsOK, HasCandidate
<1>2. PoolInv'
  BY <1>1, MarkSuccessInv, MarkFailureInv, SamePool DEF EndForward, DispatchInv
<1> QED
  BY <1>2, ResetStep DEF EndForward

LEMMA RefuseStep ==
    ASSUME DispatchInv, NEW r \in Request, Refuse(r), UNCHANGED cancelled
    PROVE  DispatchInv'
<1>1. PoolInv'
  BY SamePool DEF Refuse, DispatchInv
<1> QED
  BY <1>1, ResetStep DEF Refuse

-----------------------------------------------------------------------------
(* The surroundings. *)

\* Nothing but the pool and the sessions changes, or the service shuts down.
LEMMA EnvironmentStep ==
    ASSUME DispatchInv, Environment
    PROVE  DispatchInv'
<1>1. CASE Refresh /\ UNCHANGED <<sessionVars, requestVars, cancelled>>
  <2>1. PoolInv'
    BY <1>1, NextInv DEF Next, DispatchInv
  <2>2. BindingsOK' /\ RequestsOK'
    BY <1>1 DEF DispatchInv, BindingsOK, RequestsOK, sessionVars, requestVars
  <2> QED
    BY <1>1, <2>1, <2>2 DEF DispatchInv, FailedIsAtFault, requestVars
<1>2. CASE (Tick \/ Count) /\ UNCHANGED <<poolVars, requestVars, cancelled>>
  <2>1. PoolInv'
    BY <1>2, SamePool DEF DispatchInv
  <2>2. BindingsOK'
    BY <1>2, TimeKeepsBindings DEF DispatchInv
  <2>3. RequestsOK'
    BY <1>2 DEF DispatchInv, RequestsOK, requestVars
  <2> QED
    BY <1>2, <2>1, <2>2, <2>3 DEF DispatchInv, FailedIsAtFault, requestVars
<1>3. CASE Shutdown
  <2>1. PoolInv'
    BY <1>3, SamePool DEF DispatchInv, Shutdown
  <2>2. BindingsOK' /\ RequestsOK'
    BY <1>3 DEF Shutdown, DispatchInv, BindingsOK, RequestsOK, sessionVars, requestVars
  <2> QED
    BY <1>3, <2>1, <2>2 DEF Shutdown, DispatchInv, FailedIsAtFault
<1> QED
  BY <1>1, <1>2, <1>3 DEF Environment

-----------------------------------------------------------------------------
(* The theorems. *)

LEMMA DispatchInitInv == DispatchInit => DispatchInv
<1> SUFFICES ASSUME DispatchInit PROVE DispatchInv
  OBVIOUS
<1>1. PoolInv
  BY InitInv DEF DispatchInit
<1>2. BindingsOK
  BY TTLAssumption DEF DispatchInit, SessionsInit, BindingsOK
<1>3. info \in [Request -> Info]
  BY DispatchAssumption DEF DispatchInit
<1>4. RequestsOK
  <2>1. 0 \in 0 .. MaxAttempts
    BY DispatchAssumption DEF MaxAttempts
  <2> QED
    BY <1>3, <2>1 DEF DispatchInit, RequestsOK, HasCandidate
<1>5. FailedIsAtFault
  BY DEF DispatchInit, FailedIsAtFault
<1> QED
  BY <1>1, <1>2, <1>4, <1>5 DEF DispatchInv

LEMMA DispatchNextInv == DispatchInv /\ [DispatchNext]_vars => DispatchInv'
<1> SUFFICES ASSUME DispatchInv, [DispatchNext]_vars PROVE DispatchInv'
  OBVIOUS
<1>1. ASSUME NEW r \in Request, Begin(r) \/ DispatchStep(r) \/ EndForward(r),
             UNCHANGED cancelled
      PROVE  DispatchInv'
  BY <1>1, BeginStep, FollowSessionStep, ScheduleStep, StartDialStep, EndDialStep,
     BindSessionStep, CountFailureStep, RetryStep, RefuseStep, EndForwardStep
  DEF DispatchStep
<1>2. CASE Environment
  BY <1>2, EnvironmentStep
<1>3. CASE UNCHANGED vars
  <2>1. PoolInv'
    BY <1>3, SamePool DEF DispatchInv, vars
  <2> QED
    BY <1>3, <2>1 DEF vars, DispatchInv, BindingsOK, RequestsOK,
                      FailedIsAtFault, sessionVars, requestVars
<1> QED
  BY <1>1, <1>2, <1>3 DEF DispatchNext

\* The inductive invariant holds of every execution, for any number of
\* connections, sessions and attempts (server.go 299-354, session.go 180-248).
THEOREM DispatchInvariance == DispatchSpec => []DispatchInv
<1> QED
  BY DispatchInitInv, DispatchNextInv, PTL DEF DispatchSpec

\* The types of the requests and of the bindings (server.go 299-339).
THEOREM DispatchTypeCorrect == DispatchSpec => []DispatchTypeOK
<1>1. DispatchInv => DispatchTypeOK
  BY DEF DispatchInv, PoolInv, BindingsOK, RequestsOK, DispatchTypeOK
<1> QED
  BY <1>1, DispatchInvariance, PTL

\* Only MarkFailure raises a count, and only that of its candidate: picks leave
\* the candidates alone, a success forgets failures, and a refresh admits with a
\* clean record (pool.go 40-124, 217-328).
LEMMA FailureCharges ==
    ASSUME PoolInv, NEW g \in Fingerprint, MarkFailure(g),
           NEW fp \in DOMAIN items, items'[fp].failures > items[fp].failures
    PROVE  fp = g
<1>1. items \in [DOMAIN items -> Candidate]
  BY DEF PoolInv, TypeOK
<1>2. items[fp].failures \in Nat
  BY <1>1, BoundsAssumption DEF Candidate
<1>3. fp # g => items'[fp] = items[fp]
  BY <1>1 DEF MarkFailure
<1> QED
  BY <1>2, <1>3

LEMMA OthersDoNotCharge ==
    ASSUME PoolInv,
           \/ UNCHANGED items
           \/ Refresh
           \/ \E g \in Fingerprint : MarkSuccess(g),
           NEW fp \in DOMAIN items, fp \in DOMAIN items'
    PROVE  ~(items'[fp].failures > items[fp].failures)
<1>1. items \in [DOMAIN items -> Candidate]
  BY DEF PoolInv, TypeOK
<1>2. items[fp].failures \in Nat
  BY <1>1, BoundsAssumption DEF Candidate
<1> SUFFICES items'[fp].failures \in {items[fp].failures, 0}
  BY <1>2
<1>3. ASSUME NEW batch, NEW gone, IsBatch(batch), Upsert(batch, gone)
      PROVE  items'[fp].failures \in {items[fp].failures, 0}
  <2>1. \A g \in DOMAIN batch : Admitted(batch[g]).failures = 0
    BY <1>3, AdmittedCandidate DEF IsBatch
  <2>2. items' = [g \in (DOMAIN items \ gone) \cup DOMAIN batch |->
                    IF g \in DOMAIN batch THEN Admitted(batch[g]) ELSE items[g]]
    BY <1>3 DEF Upsert
  <2> QED
    BY <2>1, <2>2
<1>4. CASE Refresh
  <2>1. PICK plugin \in Plugin, label \in Label \cup {NoLabel}, failed \in BOOLEAN,
             valid \in SUBSET Offers : ApplyReport(valid, plugin, label, failed)
    BY <1>4 DEF Refresh, Findings
  <2>2. PICK batch \in Batches(ReportCandidates(valid, plugin, label)) :
           \E gone : Upsert(batch, gone)
    BY <2>1 DEF ApplyReport, AddValidated, ReplaceValidatedMatching
  <2>3. IsBatch(batch)
    BY <2>1, <2>2, ReportCandidatesIsBatch
  <2> QED
    BY <1>3, <2>2, <2>3
<1>5. CASE \E g \in Fingerprint : MarkSuccess(g)
  <2>1. PICK g \in Fingerprint : MarkSuccess(g)
    BY <1>5
  <2>2. CASE items' = [items EXCEPT ![g].failures = 0]
    BY <1>1, <2>2 DEF Candidate
  <2> QED
    BY <2>1, <2>2 DEF MarkSuccess
<1> QED
  BY <1>4, <1>5

\* While the service runs a healthy candidate is charged only by the end of a
\* connection through it: its dials do not fail.
LEMMA ChargeComesFromForward ==
    ASSUME DispatchInv, DispatchNext, ~cancelled,
           NEW fp \in Healthy \ BoxFingerprint, fp \in DOMAIN items, fp \in DOMAIN items',
           items'[fp].failures > items[fp].failures
    PROVE  \E r \in Request : pc[r] = "forward" /\ pc'[r] = "idle" /\ cand[r] = fp
<1> DEFINE Unpicked ==
        \/ UNCHANGED items \/ Refresh \/ \E g \in Fingerprint : MarkSuccess(g)
<1>1. ~Unpicked
  BY OthersDoNotCharge DEF DispatchInv
<1>2. ~Environment
  BY <1>1 DEF Environment, Shutdown, poolVars
<1>3. PICK r \in Request : Begin(r) \/ DispatchStep(r) \/ EndForward(r)
  BY <1>2 DEF DispatchNext
<1>4. CASE CountFailure(r)
  <2>1. cand[r] \in Fingerprint /\ cand[r] \notin Healthy \ BoxFingerprint
    BY <1>4 DEF CountFailure, DispatchInv, RequestsOK, HasCandidate, FailedIsAtFault
  <2>2. fp = cand[r]
    BY <1>4, <2>1, FailureCharges DEF CountFailure, DispatchInv
  <2> QED
    BY <2>1, <2>2
<1>5. CASE EndForward(r)
  <2>1. cand[r] \in Fingerprint /\ pc[r] = "forward" /\ pc'[r] = "idle"
    BY <1>5 DEF EndForward, Reset, Goto, DispatchInv, RequestsOK, HasCandidate
  <2>2. MarkFailure(cand[r])
    BY <1>1, <1>5, <2>1 DEF EndForward, poolVars
  <2>3. fp = cand[r]
    BY <2>1, <2>2, FailureCharges DEF DispatchInv
  <2> QED
    BY <2>1, <2>3
<1>6. CASE Schedule(r)
  BY <1>1, <1>6 DEF Schedule, PickMatchingExcluding, PickMatchingPercentExcluding
<1>7. CASE Begin(r) \/ FollowSession(r) \/ StartDial(r) \/ EndDial(r)
  BY <1>1, <1>7 DEF Begin, FollowSession, StartDial, EndDial, poolVars
<1>8. CASE BindSession(r) \/ Retry(r) \/ Refuse(r)
  BY <1>1, <1>8 DEF BindSession, Retry, Refuse, poolVars
<1> QED
  BY <1>3, <1>4, <1>5, <1>6, <1>7, <1>8 DEF DispatchStep

\* While the service runs, the dials of no request charge a candidate that
\* answers every dial, whatever other requests, evictions, re-imports and
\* sessions do meanwhile (server.go 306-338, pool.go 297-328).
THEOREM DispatchDialsSpareHealthy == DispatchSpec => DialsSpareHealthy
<1>1. DispatchInv /\ [DispatchNext]_vars => [~cancelled => HealthyOnlyForwarded]_vars
  <2> SUFFICES ASSUME DispatchInv, DispatchNext, ~cancelled
               PROVE  HealthyOnlyForwarded
    OBVIOUS
  <2> QED
    BY ChargeComesFromForward DEF HealthyOnlyForwarded
<1> QED
  BY <1>1, DispatchInvariance, PTL DEF DispatchSpec, DialsSpareHealthy

\* A request is given only candidates in rotation that match its route and that
\* it has not tried (server.go 341-354, session.go 180-202, pool.go 217-293).
LEMMA ChoiceIsEligible ==
    ASSUME DispatchInv, [DispatchNext]_vars, NEW r \in Request,
           cand'[r] \notin {cand[r], NoCandidate}
    PROVE  cand'[r] \in Eligible(info[r].route, attempted[r])
<1>1. PICK q \in Request : FollowSession(q) \/ Schedule(q)
  BY DEF DispatchNext, DispatchStep, Begin, StartDial, EndDial, BindSession, CountFailure,
         Retry, Refuse, EndForward, Reset, Environment, Shutdown, vars, requestVars,
         DispatchInv, RequestsOK
<1>2. ASSUME NEW result, Choose(q, result)
      PROVE  r = q /\ cand'[r] = result
  BY <1>2 DEF Choose, DispatchInv, RequestsOK
<1>3. CASE FollowSession(q)
  <2>1. PICK result \in Fingerprint \cup {NoCandidate} :
          GetBound(info[q], result) /\ result # NoCandidate
            /\ result \notin attempted[q] /\ Choose(q, result)
    BY <1>3 DEF FollowSession
  <2>2. /\ Usable(BindingKey(info[q]))
        /\ result = bindings[BindingKey(info[q])].fp
    BY <2>1 DEF GetBound
  <2>3. result \in Eligible(info[q].route, attempted[q])
    BY <2>1, <2>2 DEF Usable, BindingKey, Eligible, IsAvailable
  <2> QED
    BY <1>2, <2>1, <2>3
<1>4. CASE Schedule(q)
  <2>1. PICK result \in Fingerprint \cup {NoCandidate} :
          /\ \/ PickMatchingExcluding(info[q].route, attempted[q], result)
             \/ PickMatchingPercentExcluding(info[q].route, attempted[q], FastPercent, result)
          /\ result # NoCandidate /\ Choose(q, result)
    BY <1>4 DEF Schedule
  <2>2. result \in Eligible(info[q].route, attempted[q])
    BY <2>1, PickStep DEF DispatchInv
  <2> QED
    BY <1>2, <2>1, <2>2
<1> QED
  BY <1>1, <1>3, <1>4

\* That is so of every choice of every execution (server.go 341-354).
THEOREM DispatchChosenIsEligible == DispatchSpec => ChosenIsEligible
<1>1. DispatchInv /\ [DispatchNext]_vars =>
        [\A r \in Request : cand'[r] \notin {cand[r], NoCandidate} =>
            cand'[r] \in Eligible(info[r].route, attempted[r])]_vars
  BY ChoiceIsEligible
<1> QED
  BY <1>1, DispatchInvariance, PTL DEF DispatchSpec, ChosenIsEligible

-----------------------------------------------------------------------------
(* Retries reach a healthy candidate.                                       *)
(*                                                                         *)
(* A request tries a new candidate with every attempt, and while the service *)
(* runs it leaves no candidate behind that would have answered.             *)

Dependables == Healthy \ BoxFingerprint

Tried(r) ==
    /\ pc[r] = "idle" => attempted[r] = {}
    /\ pc[r] \in {"session", "schedule"} => Cardinality(attempted[r]) + 1 = attempt[r]
    /\ pc[r] \in HasCandidate => Cardinality(attempted[r]) = attempt[r]
    /\ \A fp \in attempted[r] \cap Dependables :
         pc[r] \in {"dialer", "dialing", "bind", "forward"} /\ fp = cand[r]

Covered(r) ==
    /\ steady[r] \subseteq Dependables
    /\ pc[r] = "refused" /\ Cardinality(Fingerprint) <= MaxAttempts => steady[r] = {}

ReachInv == ~cancelled => \A r \in Request : Tried(r) /\ Covered(r)

\* The candidates remembered as usable throughout only become fewer.
LEMMA SteadyStep ==
    ASSUME Remember, NEW r \in Request
    PROVE  /\ steady'[r] \subseteq Dependables
           /\ pc[r] # "idle" /\ pc'[r] # "idle" =>
                steady'[r] \subseteq steady[r] \cap Dependable(r)'
           /\ pc'[r] = "idle" => steady'[r] = {}
<1>1. steady'[r] = IF pc'[r] = "idle" THEN {}
                   ELSE IF pc[r] = "idle" THEN Dependable(r)'
                   ELSE steady[r] \cap Dependable(r)'
  BY DEF Remember
<1>2. Dependable(r)' \subseteq Dependables
  BY DEF Dependable, Dependables
<1> QED
  BY <1>1, <1>2

LEMMA AttemptedIsFinite ==
    ASSUME RequestsOK, NEW r \in Request
    PROVE  /\ attempted[r] \subseteq Fingerprint /\ IsFiniteSet(attempted[r])
           /\ Cardinality(attempted[r]) \in Nat
           /\ \A fp : fp \notin attempted[r] =>
                Cardinality(attempted[r] \cup {fp}) = Cardinality(attempted[r]) + 1
<1>1. attempted[r] \subseteq Fingerprint
  BY DEF RequestsOK
<1>2. IsFiniteSet(attempted[r])
  BY <1>1, FingerprintAssumption, FS_Subset
<1> QED
  BY <1>1, <1>2, FS_CardinalityType, FS_AddElement

\* A choice adds a candidate that was not tried before.
LEMMA ChooseTried ==
    ASSUME RequestsOK, NEW r \in Request, NEW fp \in Fingerprint \ attempted[r],
           Choose(r, fp), UNCHANGED attempt, Tried(r),
           pc[r] \in {"session", "schedule"}
    PROVE  Tried(r)' /\ pc'[r] = "dialer"
<1>1. /\ pc'[r] = "dialer" /\ cand'[r] = fp /\ attempt'[r] = attempt[r]
      /\ attempted'[r] = attempted[r] \cup {fp}
  BY DEF Choose, Goto, RequestsOK
<1>2. Cardinality(attempted'[r]) = attempt'[r]
  BY <1>1, AttemptedIsFinite DEF Tried
<1>3. attempted[r] \cap Dependables = {}
  BY DEF Tried
<1> QED
  BY <1>1, <1>2, <1>3 DEF Tried, HasCandidate

\* No candidate is picked only if there is none to pick (pool.go 217-293).
LEMMA NoPick ==
    ASSUME TypeOK, NEW route, NEW exclude,
           \/ PickMatchingExcluding(route, exclude, NoCandidate)
           \/ PickMatchingPercentExcluding(route, exclude, FastPercent, NoCandidate)
    PROVE  Eligible(route, exclude) = {} /\ UNCHANGED items
<1>1. NoCandidate \notin Eligible(route, exclude)
  BY FingerprintAssumption DEF Eligible, TypeOK
<1> QED
  BY <1>1 DEF PickMatchingExcluding, PickMatchingPercentExcluding, FastSet

\* A request that has tried as many candidates as there are has tried all.
LEMMA AllTried ==
    ASSUME NEW S \in SUBSET Fingerprint,
           Cardinality(Fingerprint) <= Cardinality(S)
    PROVE  S = Fingerprint
<1>1. /\ Cardinality(S) \in Nat /\ Cardinality(Fingerprint) \in Nat
      /\ S # Fingerprint => Cardinality(S) < Cardinality(Fingerprint)
  BY FingerprintAssumption, FS_Subset, FS_CardinalityType
<1> QED
  BY <1>1

\* Requests that a step does not move keep what they have.
LEMMA OthersKeep ==
    ASSUME Remember, NEW q \in Request, Tried(q), Covered(q),
           pc'[q] = pc[q], attempted'[q] = attempted[q], attempt'[q] = attempt[q],
           cand'[q] = cand[q]
    PROVE  Tried(q)' /\ Covered(q)'
<1>1. Tried(q)'
  BY DEF Tried
<1>2. Covered(q)'
  BY SteadyStep DEF Covered
<1> QED
  BY <1>1, <1>2

\* A request that moves, but is not refused, is covered by what it remembers.
LEMMA MovedCovered ==
    ASSUME Remember, NEW r \in Request, pc'[r] # "refused"
    PROVE  Covered(r)'
BY SteadyStep DEF Covered

LEMMA BeginTried ==
    ASSUME DispatchInv, NEW r \in Request, Tried(r), Begin(r)
    PROVE  Tried(r)' /\ pc'[r] = "session"
<1>1. /\ pc'[r] = "session" /\ attempt'[r] = 1 /\ attempted'[r] = {}
  BY DEF Begin, DispatchInv, RequestsOK, Goto, Tried
<1>2. Cardinality({}) = 0
  BY FS_EmptySet
<1> QED
  BY <1>1, <1>2 DEF Tried, HasCandidate

LEMMA FollowSessionTried ==
    ASSUME DispatchInv, NEW r \in Request, Tried(r), FollowSession(r)
    PROVE  Tried(r)' /\ pc'[r] # "refused"
<1>1. PICK result \in Fingerprint \cup {NoCandidate} :
        IF result # NoCandidate /\ result \notin attempted[r]
          THEN Choose(r, result)
          ELSE Goto(r, "schedule") /\ UNCHANGED <<attempted, cand>>
  BY DEF FollowSession
<1>2. pc[r] = "session" /\ UNCHANGED <<info, attempt>>
  BY DEF FollowSession
<1>3. CASE result # NoCandidate /\ result \notin attempted[r]
  BY <1>1, <1>2, <1>3, ChooseTried DEF DispatchInv
<1>4. CASE ~(result # NoCandidate /\ result \notin attempted[r])
  <2>1. /\ pc'[r] = "schedule" /\ UNCHANGED <<attempted, attempt, cand>>
    BY <1>1, <1>2, <1>4 DEF Goto, DispatchInv, RequestsOK
  <2> QED
    BY <1>2, <2>1 DEF Tried, HasCandidate
<1> QED
  BY <1>3, <1>4

\* A request is refused for want of a candidate only if every dependable one that
\* matches has been tried, and so none.
LEMMA ScheduleTried ==
    ASSUME DispatchInv, NEW r \in Request, Tried(r), Covered(r), Schedule(r), Remember
    PROVE  Tried(r)' /\ Covered(r)'
<1>1. PICK result \in Fingerprint \cup {NoCandidate} :
        /\ \/ PickMatchingExcluding(info[r].route, attempted[r], result)
           \/ PickMatchingPercentExcluding(info[r].route, attempted[r], FastPercent, result)
        /\ IF result # NoCandidate
             THEN Choose(r, result)
             ELSE Goto(r, "refused") /\ UNCHANGED <<attempted, cand>>
  BY DEF Schedule
<1>2. pc[r] = "schedule" /\ UNCHANGED <<info, attempt>>
  BY DEF Schedule
<1>3. CASE result # NoCandidate
  <2>1. result \notin attempted[r]
    BY <1>1, <1>3, PickStep DEF DispatchInv, Eligible
  <2> QED
    BY <1>1, <1>2, <1>3, <2>1, ChooseTried, MovedCovered DEF DispatchInv
<1>4. CASE result = NoCandidate
  <2>1. /\ pc'[r] = "refused" /\ UNCHANGED <<attempted, attempt, cand>>
    BY <1>1, <1>2, <1>4 DEF Goto, DispatchInv, RequestsOK
  <2>2. Tried(r)'
    BY <1>2, <2>1 DEF Tried, HasCandidate
  <2>3. Eligible(info[r].route, attempted[r]) = {} /\ UNCHANGED items
    BY <1>1, <1>4, NoPick DEF DispatchInv, PoolInv
  <2>4. Dependable(r)' = Dependable(r)
    BY <1>2, <2>3 DEF Dependable, Eligible, IsAvailable, MatchesRoute
  <2>5. Dependable(r) \subseteq attempted[r] \cap Dependables
    BY <2>3 DEF Dependable, Dependables, Eligible
  <2>6. steady'[r] = {}
    BY <1>2, <2>1, <2>4, <2>5, SteadyStep DEF Tried
  <2> QED
    BY <2>2, <2>6 DEF Covered
<1> QED
  BY <1>3, <1>4

\* A step of the dial that keeps to the request's candidate.
LEMMA DialTried ==
    ASSUME DispatchInv, NEW r \in Request, NEW label \in HasCandidate, Tried(r),
           pc[r] \in HasCandidate, Goto(r, label),
           UNCHANGED <<attempt, attempted, cand>>,
           label \in {"failed", "unbind"} => cand[r] \notin Dependables
    PROVE  Tried(r)' /\ pc'[r] # "refused"
<1>1. pc'[r] = label
  BY DEF Goto, DispatchInv, RequestsOK
<1> QED
  BY <1>1 DEF Tried, HasCandidate

\* After the last attempt every candidate has been tried, if there are no more
\* candidates than attempts.
LEMMA RetryTried ==
    ASSUME DispatchInv, NEW r \in Request, Tried(r), Retry(r), Remember
    PROVE  Tried(r)' /\ Covered(r)'
<1>1. pc[r] = "unbind" /\ UNCHANGED <<info, attempted>>
  BY DEF Retry
<1>2. /\ Cardinality(attempted[r]) = attempt[r]
      /\ attempted[r] \cap Dependables = {}
  BY <1>1 DEF Tried, HasCandidate
<1>3. CASE attempt[r] < MaxAttempts
  <2>1. pc'[r] = "session" /\ attempt'[r] = attempt[r] + 1
    BY <1>3 DEF Retry, Goto, DispatchInv, RequestsOK
  <2>2. Tried(r)'
    BY <1>1, <1>2, <2>1 DEF Tried, HasCandidate
  <2> QED
    BY <2>1, <2>2, MovedCovered
<1>4. CASE ~(attempt[r] < MaxAttempts)
  <2>1. pc'[r] = "refused"
    BY <1>4 DEF Retry, Goto, DispatchInv, RequestsOK
  <2>2. Tried(r)'
    BY <1>1, <1>2, <2>1 DEF Tried, HasCandidate
  <2>3. steady'[r] \subseteq Dependables
    BY SteadyStep
  <2>4. ASSUME Cardinality(Fingerprint) <= MaxAttempts
        PROVE  steady'[r] = {}
    <3>1. MaxAttempts \in Nat /\ attempt[r] \in 0 .. MaxAttempts
      BY DispatchAssumption DEF MaxAttempts, DispatchInv, RequestsOK
    <3>2. Cardinality(Fingerprint) <= Cardinality(attempted[r])
      BY <1>2, <1>4, <2>4, <3>1
    <3>3. attempted[r] = Fingerprint
      BY <3>2, AllTried DEF DispatchInv, RequestsOK
    <3> QED
      BY <1>2, <2>3, <3>3, DispatchAssumption DEF Dependables
  <2>5. MaxAttempts' = MaxAttempts
    BY DEF MaxAttempts
  <2> QED
    BY <2>2, <2>3, <2>4, <2>5 DEF Covered
<1> QED
  BY <1>3, <1>4

LEMMA ResetTried ==
    ASSUME DispatchInv, NEW r \in Request, Reset(r)
    PROVE  Tried(r)' /\ pc'[r] # "refused"
BY DEF Reset, Goto, DispatchInv, RequestsOK, Tried, HasCandidate

\* What a step leaves of the requests it does not belong to.
LEMMA OneMoves ==
    ASSUME RequestsOK, NEW r \in Request, Begin(r) \/ DispatchStep(r) \/ EndForward(r),
           NEW q \in Request \ {r}
    PROVE  /\ pc'[q] = pc[q] /\ attempted'[q] = attempted[q]
           /\ attempt'[q] = attempt[q] /\ cand'[q] = cand[q]
<1>1. CASE Begin(r) \/ EndForward(r) \/ Refuse(r)
  BY <1>1 DEF Begin, EndForward, Refuse, Reset, Goto, RequestsOK
<1>2. CASE FollowSession(r) \/ Schedule(r)
  BY <1>2 DEF FollowSession, Schedule, Choose, Goto, RequestsOK
<1>3. CASE StartDial(r) \/ EndDial(r) \/ BindSession(r) \/ CountFailure(r)
  BY <1>3 DEF StartDial, EndDial, BindSession, CountFailure, Goto, RequestsOK
<1>4. CASE Retry(r)
  BY <1>4 DEF Retry, Goto, RequestsOK
<1> QED
  BY <1>1, <1>2, <1>3, <1>4 DEF DispatchStep

LEMMA MoveReach ==
    ASSUME DispatchInv, NEW r \in Request, Tried(r), Covered(r), Remember, ~cancelled,
           Begin(r) \/ DispatchStep(r) \/ EndForward(r)
    PROVE  Tried(r)' /\ Covered(r)'
<1>1. CASE Begin(r)
  BY <1>1, BeginTried, MovedCovered
<1>2. CASE FollowSession(r)
  BY <1>2, FollowSessionTried, MovedCovered
<1>3. CASE Schedule(r)
  BY <1>3, ScheduleTried
<1>4. CASE StartDial(r)
  <2>1. CASE Goto(r, "dialing")
    BY <1>4, <2>1, DialTried, MovedCovered DEF StartDial, HasCandidate
  <2>2. CASE cand[r] \in BoxFingerprint /\ Goto(r, "failed")
    BY <1>4, <2>2, DialTried, MovedCovered DEF StartDial, HasCandidate, Dependables
  <2> QED
    BY <1>4, <2>1, <2>2 DEF StartDial
<1>5. CASE EndDial(r)
  <2>1. CASE Goto(r, "bind")
    BY <1>5, <2>1, DialTried, MovedCovered DEF EndDial, HasCandidate
  <2>2. CASE cand[r] \notin Healthy /\ Goto(r, "failed")
    BY <1>5, <2>2, DialTried, MovedCovered DEF EndDial, HasCandidate, Dependables
  <2> QED
    BY <1>5, <2>1, <2>2 DEF EndDial
<1>6. CASE BindSession(r)
  BY <1>6, DialTried, MovedCovered DEF BindSession, HasCandidate
<1>7. CASE CountFailure(r)
  <2>1. cand[r] \notin Dependables
    BY <1>7 DEF CountFailure, DispatchInv, FailedIsAtFault, Dependables
  <2> QED
    BY <1>7, <2>1, DialTried, MovedCovered DEF CountFailure, HasCandidate
<1>8. CASE Retry(r)
  BY <1>8, RetryTried
<1>9. CASE Refuse(r) \/ EndForward(r)
  BY <1>9, ResetTried, MovedCovered DEF Refuse, EndForward
<1> QED
  BY <1>1, <1>2, <1>3, <1>4, <1>5, <1>6, <1>7, <1>8, <1>9 DEF DispatchStep

LEMMA ReachInitInv == DispatchInit => ReachInv
BY DEF DispatchInit, ReachInv, Tried, Covered, HasCandidate

LEMMA ReachNextInv == DispatchInv /\ ReachInv /\ [DispatchNext]_vars => ReachInv'
<1> SUFFICES ASSUME DispatchInv, ReachInv, [DispatchNext]_vars, ~cancelled',
                    NEW q \in Request
             PROVE  Tried(q)' /\ Covered(q)'
  BY DEF ReachInv
<1>1. CASE UNCHANGED vars
  BY <1>1 DEF vars, requestVars, ReachInv, Tried, Covered
<1>2. CASE DispatchNext
  <2>1. Remember
    BY <1>2 DEF DispatchNext
  <2>2. ASSUME NEW r \in Request, Begin(r) \/ DispatchStep(r) \/ EndForward(r),
               UNCHANGED cancelled
        PROVE  Tried(q)' /\ Covered(q)'
    <3>1. Tried(q) /\ Covered(q) /\ ~cancelled
      BY <2>2 DEF ReachInv
    <3>2. CASE q = r
      BY <2>1, <2>2, <3>1, <3>2, MoveReach
    <3>3. CASE q # r
      BY <2>1, <2>2, <3>1, <3>3, OneMoves, OthersKeep DEF DispatchInv
    <3> QED
      BY <3>2, <3>3
  <2>3. ASSUME Environment
        PROVE  Tried(q)' /\ Covered(q)'
    <3>1. UNCHANGED requestVars /\ ~cancelled
      BY <2>3 DEF Environment, Shutdown
    <3> QED
      BY <2>1, <3>1, OthersKeep DEF ReachInv, requestVars
  <2> QED
    BY <1>2, <2>2, <2>3 DEF DispatchNext
<1> QED
  BY <1>1, <1>2

\* With as many attempts as candidates, a request that a healthy candidate could
\* have served throughout is not refused, however many requests, refreshes and
\* session changes there are (server.go 306-338).
THEOREM DispatchRetryReachesHealthy == DispatchSpec => []RetryReachesHealthy
<1>1. DispatchInit => DispatchInv /\ ReachInv
  BY DispatchInitInv, ReachInitInv
<1>2. DispatchInv /\ ReachInv /\ [DispatchNext]_vars => (DispatchInv /\ ReachInv)'
  BY DispatchNextInv, ReachNextInv
<1>3. ReachInv => RetryReachesHealthy
  BY DEF ReachInv, Covered, RetryReachesHealthy
<1> QED
  BY <1>1, <1>2, <1>3, PTL DEF DispatchSpec

-----------------------------------------------------------------------------
(* Sessions, where no two connections share one.  If they do, one of them may *)
(* rebind the session while the other dials.                                 *)

\* No two connections send requests of one session.
SessionsApart ==
    \A r, q \in Request : r # q =>
        \A i \in InfosOf[r], j \in InfosOf[q] :
            i.session # NoSession => BindingKey(i) # BindingKey(j)

InSession(r) == info[r].session # NoSession
OwnKey(r)    == BindingKey(info[r])

\* What a request knows of the binding of its session: at the first lookup it
\* has tried nothing, it schedules only if there is no binding, and otherwise it
\* dials the candidate that is bound.
OwnBinding(r) ==
    /\ info[r] \in InfosOf[r]
    /\ pc[r] = "idle" => attempted[r] = {}
    /\ (InSession(r) /\ OwnKey(r) \in DOMAIN bindings) =>
         /\ pc[r] = "session" => attempted[r] = {}
         /\ pc[r] # "schedule"
         /\ pc[r] \in HasCandidate \ {"forward"} => bindings[OwnKey(r)].fp = cand[r]

SessionInv == \A r \in Request : OwnBinding(r)

\* A lookup deletes bindings that cannot be used, and changes no candidate
\* (session.go 180-202).
LEMMA GetBoundKeeps ==
    ASSUME BindingsOK, NEW i \in Info, NEW result, GetBound(i, result)
    PROVE  /\ \A k \in DOMAIN bindings' :
                k \in DOMAIN bindings /\ bindings'[k].fp = bindings[k].fp
           /\ \A k \in DOMAIN bindings : Usable(k) => k \in DOMAIN bindings'
           /\ (i.session # NoSession /\ BindingKey(i) \in DOMAIN bindings') =>
                result = bindings[BindingKey(i)].fp
<1>1. CASE i.session = NoSession
  BY <1>1 DEF GetBound, sessionVars
<1>2. CASE i.session # NoSession
  <2> DEFINE key == BindingKey(i)
             gone == Swept(SweepInterval)
  <2>1. \A k \in gone : ~Usable(k)
    BY DEF Swept, Usable
  <2>2. CASE Usable(key)
    <3> DEFINE b == Without(gone)
    <3>1. bindings' = [b EXCEPT ![key].left = bindings[key].ttl]
             /\ result = bindings[key].fp
      BY <1>2, <2>2 DEF GetBound
    <3>2. b = [k \in DOMAIN bindings \ gone |-> bindings[k]]
      BY DEF Without
    <3> HIDE DEF b, key, gone
    <3>3. DOMAIN bindings' = DOMAIN bindings \ gone
      BY <3>1, <3>2
    <3>4. ASSUME NEW k \in DOMAIN bindings'
          PROVE  bindings'[k].fp = bindings[k].fp
      <4>1. bindings'[k] = IF k = key THEN [bindings[k] EXCEPT !.left = bindings[key].ttl]
                                      ELSE bindings[k]
        BY <3>1, <3>2, <3>3
      <4>2. bindings[k] = [fp |-> bindings[k].fp, ttl |-> bindings[k].ttl,
                           left |-> bindings[k].left]
        BY <3>3 DEF BindingsOK
      <4> QED
        BY <4>1, <4>2
    <3> QED
      BY <2>1, <3>1, <3>3, <3>4 DEF key
  <2>3. CASE ~Usable(key)
    <3>1. bindings' = [k \in DOMAIN bindings \ (gone \cup {key}) |-> bindings[k]]
      BY <1>2, <2>3 DEF GetBound, Without
    <3> HIDE DEF key, gone
    <3>2. DOMAIN bindings' = DOMAIN bindings \ (gone \cup {key})
      BY <3>1
    <3> QED
      BY <2>1, <2>3, <3>1, <3>2 DEF key
  <2> QED
    BY <2>2, <2>3
<1> QED
  BY <1>1, <1>2

\* A request binds and unbinds its own session only (session.go 204-228).
LEMMA OnlyOwnBinding ==
    ASSUME DispatchInv, NEW r \in Request, Begin(r) \/ DispatchStep(r) \/ EndForward(r),
           NEW k \in DOMAIN bindings'
    PROVE  \/ k \in DOMAIN bindings /\ bindings'[k].fp = bindings[k].fp
           \/ InSession(r) /\ k = OwnKey(r)
<1>1. info[r] \in Info /\ BindingsOK
  BY DEF DispatchInv, RequestsOK
<1>2. CASE FollowSession(r)
  BY <1>1, <1>2, GetBoundKeeps DEF FollowSession
<1>3. CASE BindSession(r)
  BY <1>3 DEF BindSession, Rebind, Bind, InSession, OwnKey
<1>4. CASE Retry(r)
  BY <1>4 DEF Retry, Unbind, Without
<1>5. CASE UNCHANGED bindings
  BY <1>5
<1> QED
  BY <1>2, <1>3, <1>4, <1>5
  DEF DispatchStep, Begin, Schedule, StartDial, EndDial, CountFailure, Refuse, EndForward,
      Reset, sessionVars

\* The session of one connection is left alone by the others.
LEMMA OthersKeepBinding ==
    ASSUME SessionsApart, DispatchInv, SessionInv, NEW r \in Request, NEW q \in Request \ {r},
           Begin(r) \/ DispatchStep(r) \/ EndForward(r)
    PROVE  OwnBinding(q)'
<1>1. /\ pc'[q] = pc[q] /\ attempted'[q] = attempted[q] /\ cand'[q] = cand[q]
  BY OneMoves DEF DispatchInv
<1>2. info'[q] = info[q]
  BY DEF Begin, DispatchStep, FollowSession, Schedule, StartDial, EndDial, BindSession,
         CountFailure, Retry, Refuse, EndForward, Reset, DispatchInv, RequestsOK
<1>3. OwnBinding(q) /\ OwnBinding(r)
  BY DEF SessionInv
<1>4. ASSUME InSession(q), OwnKey(q) \in DOMAIN bindings'
      PROVE  /\ OwnKey(q) \in DOMAIN bindings
             /\ bindings'[OwnKey(q)].fp = bindings[OwnKey(q)].fp
  <2>1. OwnKey(q) # OwnKey(r)
    BY <1>3, <1>4 DEF SessionsApart, OwnBinding, InSession, OwnKey
  <2> QED
    BY <1>4, <2>1, OnlyOwnBinding
<1> QED
  BY <1>1, <1>2, <1>3, <1>4 DEF OwnBinding, InSession, OwnKey

LEMMA OwnStepKeepsBinding ==
    ASSUME DispatchInv, SessionInv, NEW r \in Request,
           Begin(r) \/ DispatchStep(r) \/ EndForward(r)
    PROVE  OwnBinding(r)'
<1>1. /\ pc \in [Request -> HasCandidate \cup {"idle", "session", "schedule", "refused"}]
      /\ info \in [Request -> Info]
      /\ attempted \in [Request -> SUBSET Fingerprint]
      /\ cand \in [Request -> Fingerprint \cup {NoCandidate}]
      /\ BindingsOK /\ OwnBinding(r)
  BY DEF DispatchInv, RequestsOK, SessionInv
<1>2. CASE Begin(r)
  <2>1. pc'[r] = "session" /\ info'[r] \in InfosOf[r] /\ attempted'[r] = {}
    BY <1>1, <1>2 DEF Begin, Goto, OwnBinding
  <2> QED
    BY <2>1 DEF OwnBinding, HasCandidate
<1>3. CASE FollowSession(r)
  <2>1. PICK result \in Fingerprint \cup {NoCandidate} :
          /\ GetBound(info[r], result)
          /\ IF result # NoCandidate /\ result \notin attempted[r]
               THEN Choose(r, result)
               ELSE Goto(r, "schedule") /\ UNCHANGED <<attempted, cand>>
    BY <1>3 DEF FollowSession
  <2>2. UNCHANGED info /\ pc[r] = "session" /\ pc'[r] \in {"dialer", "schedule"}
    BY <1>1, <1>3, <2>1 DEF FollowSession, Choose, Goto
  <2>3. ASSUME InSession(r), OwnKey(r) \in DOMAIN bindings'
        PROVE  pc'[r] = "dialer" /\ bindings'[OwnKey(r)].fp = cand'[r]
    <3>1. /\ OwnKey(r) \in DOMAIN bindings
          /\ bindings'[OwnKey(r)].fp = bindings[OwnKey(r)].fp
          /\ result = bindings[OwnKey(r)].fp
      BY <1>1, <2>1, <2>3, GetBoundKeeps DEF InSession, OwnKey
    <3>2. result # NoCandidate
      BY <1>1, <3>1, FingerprintAssumption DEF BindingsOK
    <3>3. attempted[r] = {}
      BY <1>1, <2>2, <2>3, <3>1 DEF OwnBinding
    <3>4. Choose(r, result)
      BY <2>1, <3>2, <3>3
    <3> QED
      BY <1>1, <3>1, <3>4 DEF Choose, Goto
  <2> QED
    BY <1>1, <2>2, <2>3 DEF OwnBinding, InSession, OwnKey
<1>4. CASE Schedule(r)
  <2>1. UNCHANGED <<info, bindings>> /\ pc[r] = "schedule"
    BY <1>4 DEF Schedule, sessionVars
  <2>2. pc'[r] \in {"dialer", "refused"}
    BY <1>1, <1>4 DEF Schedule, Choose, Goto
  <2> QED
    BY <1>1, <2>1, <2>2 DEF OwnBinding, InSession, OwnKey
<1>5. CASE StartDial(r) \/ EndDial(r) \/ CountFailure(r)
  <2>1. UNCHANGED <<info, bindings, attempted, cand>>
    BY <1>5 DEF StartDial, EndDial, CountFailure, sessionVars
  <2>2. /\ pc[r] \in HasCandidate \ {"forward"}
        /\ pc'[r] \in HasCandidate \ {"forward"}
    BY <1>1, <1>5 DEF StartDial, EndDial, CountFailure, Goto, HasCandidate
  <2> QED
    BY <1>1, <2>1, <2>2 DEF OwnBinding, InSession, OwnKey, HasCandidate
<1>6. CASE BindSession(r)
  <2>1. UNCHANGED info /\ pc'[r] = "forward"
    BY <1>1, <1>6 DEF BindSession, Goto
  <2> QED
    BY <1>1, <2>1 DEF OwnBinding
<1>7. CASE Retry(r)
  <2>1. UNCHANGED info /\ pc'[r] \in {"session", "refused"}
    BY <1>1, <1>7 DEF Retry, Goto
  <2>2. InSession(r) => OwnKey(r) \notin DOMAIN bindings'
    BY <1>7 DEF Retry, Unbind, Without, InSession, OwnKey
  <2> QED
    BY <1>1, <2>1, <2>2 DEF OwnBinding, InSession, OwnKey
<1>8. CASE Refuse(r) \/ EndForward(r)
  <2>1. UNCHANGED info /\ pc'[r] = "idle" /\ attempted'[r] = {}
    BY <1>1, <1>8 DEF Refuse, EndForward, Reset, Goto
  <2> QED
    BY <1>1, <2>1 DEF OwnBinding, HasCandidate
<1> QED
  BY <1>2, <1>3, <1>4, <1>5, <1>6, <1>7, <1>8 DEF DispatchStep

\* Time and statistics change no binding that is in use (session.go 230-248).
LEMMA TimeKeeps ==
    ASSUME BindingsOK, Tick \/ Count
    PROVE  /\ \A k \in DOMAIN bindings' :
                k \in DOMAIN bindings /\ bindings'[k].fp = bindings[k].fp
           /\ \A k \in DOMAIN bindings : Usable(k) => k \in DOMAIN bindings'
<1>1. CASE Count
  BY <1>1 DEF Count, Without, Swept, Usable
<1>2. CASE Tick
  <2>1. bindings' = [k \in DOMAIN bindings |->
                       [bindings[k] EXCEPT !.left = IF @ > 0 THEN @ - 1 ELSE 0]]
    BY <1>2 DEF Tick
  <2>2. \A k \in DOMAIN bindings :
          bindings[k] = [fp |-> bindings[k].fp, ttl |-> bindings[k].ttl,
                         left |-> bindings[k].left]
    BY DEF BindingsOK
  <2> QED
    BY <2>1, <2>2
<1> QED
  BY <1>1, <1>2

LEMMA EnvironmentKeepsBinding ==
    ASSUME BindingsOK, Environment
    PROVE  /\ UNCHANGED requestVars
           /\ \A k \in DOMAIN bindings' :
                k \in DOMAIN bindings /\ bindings'[k].fp = bindings[k].fp
           /\ \A k \in DOMAIN bindings : Usable(k) => k \in DOMAIN bindings'
<1>1. CASE (Tick \/ Count) /\ UNCHANGED <<poolVars, requestVars, cancelled>>
  BY <1>1, TimeKeeps
<1>2. CASE UNCHANGED sessionVars /\ UNCHANGED requestVars
  BY <1>2 DEF sessionVars
<1> QED
  BY <1>1, <1>2 DEF Environment, Shutdown

LEMMA SessionNextInv ==
    ASSUME SessionsApart, DispatchInv, SessionInv, [DispatchNext]_vars
    PROVE  SessionInv'
<1> SUFFICES ASSUME NEW q \in Request PROVE OwnBinding(q)'
  BY DEF SessionInv
<1>1. ASSUME NEW r \in Request, Begin(r) \/ DispatchStep(r) \/ EndForward(r)
      PROVE  OwnBinding(q)'
  BY <1>1, OthersKeepBinding, OwnStepKeepsBinding
<1>2. CASE Environment
  <2>1. UNCHANGED <<pc, info, attempted, cand>>
    BY <1>2, EnvironmentKeepsBinding DEF DispatchInv, requestVars
  <2>2. \A k \in DOMAIN bindings' :
          k \in DOMAIN bindings /\ bindings'[k].fp = bindings[k].fp
    BY <1>2, EnvironmentKeepsBinding DEF DispatchInv
  <2> QED
    BY <2>1, <2>2 DEF SessionInv, OwnBinding, InSession, OwnKey
<1>3. CASE UNCHANGED vars
  BY <1>3 DEF vars, requestVars, sessionVars, SessionInv, OwnBinding, InSession, OwnKey
<1> QED
  BY <1>1, <1>2, <1>3 DEF DispatchNext

\* What SessionIsStable asks of a step, for one binding.
Stable(k) ==
    \/ k \in DOMAIN bindings' /\ bindings'[k].fp = bindings[k].fp
    \/ \E r \in Request : /\ pc[r] = "unbind" /\ pc'[r] # "unbind"
                          /\ BindingKey(info[r]) = k
                          /\ cand[r] = bindings[k].fp

LEMMA StepIsStable ==
    ASSUME DispatchInv, SessionInv, [DispatchNext]_vars,
           NEW k \in DOMAIN bindings, Usable(k)
    PROVE  Stable(k)
<1>1. BindingsOK
  BY DEF DispatchInv
<1>2. ASSUME NEW r \in Request, Begin(r) \/ DispatchStep(r) \/ EndForward(r)
      PROVE  Stable(k)
  <2>1. OwnBinding(r) /\ info[r] \in Info
    BY DEF SessionInv, DispatchInv, RequestsOK
  <2>2. CASE FollowSession(r)
    BY <1>1, <2>1, <2>2, GetBoundKeeps DEF FollowSession, Stable
  <2>3. CASE BindSession(r)
    <3>1. pc[r] = "bind" /\ Rebind(info[r], cand[r])
      BY <2>3 DEF BindSession
    <3>2. CASE InSession(r) /\ k = OwnKey(r)
      <4>1. bindings[k].fp = cand[r]
        BY <2>1, <3>1, <3>2 DEF OwnBinding, HasCandidate
      <4> QED
        BY <3>1, <3>2, <4>1 DEF Rebind, Bind, InSession, OwnKey, Stable
    <3>3. CASE ~(InSession(r) /\ k = OwnKey(r))
      BY <3>1, <3>3 DEF Rebind, Bind, InSession, OwnKey, Stable
    <3> QED
      BY <3>2, <3>3
  <2>4. CASE Retry(r)
    <3>1. pc[r] = "unbind" /\ Unbind(info[r]) /\ pc'[r] # "unbind"
      BY <2>4 DEF Retry, Goto, DispatchInv, RequestsOK
    <3>2. CASE InSession(r) /\ k = OwnKey(r)
      <4>1. bindings[k].fp = cand[r]
        BY <2>1, <3>1, <3>2 DEF OwnBinding, HasCandidate
      <4> QED
        BY <3>1, <3>2, <4>1 DEF OwnKey, Stable
    <3>3. CASE ~(InSession(r) /\ k = OwnKey(r))
      BY <3>1, <3>3 DEF Unbind, Without, InSession, OwnKey, Stable
    <3> QED
      BY <3>2, <3>3
  <2>5. CASE UNCHANGED bindings
    BY <2>5 DEF Stable
  <2> QED
    BY <1>2, <2>2, <2>3, <2>4, <2>5
    DEF DispatchStep, Begin, Schedule, StartDial, EndDial, CountFailure, Refuse, EndForward,
        Reset, sessionVars
<1>3. CASE Environment
  BY <1>1, <1>3, EnvironmentKeepsBinding DEF Stable
<1>4. CASE UNCHANGED vars
  BY <1>4 DEF vars, sessionVars, Stable
<1> QED
  BY <1>2, <1>3, <1>4 DEF DispatchNext

\* Where no two connections share a session, a session keeps its upstream until a
\* dial through it failed, whatever is swept, evicted, re-imported or retried
\* meanwhile (session.go 180-219, server.go 323-334).
THEOREM DispatchSessionIsStable ==
    ASSUME SessionsApart
    PROVE  DispatchSpec => SessionIsStable
<1>1. DispatchInit => SessionInv
  BY DEF DispatchInit, SessionsInit, SessionInv, OwnBinding
<1>2. DispatchInv /\ SessionInv /\ [DispatchNext]_vars => (DispatchInv /\ SessionInv)'
  BY DispatchNextInv, SessionNextInv
<1>3. DispatchInv /\ SessionInv /\ [DispatchNext]_vars =>
        [\A k \in DOMAIN bindings :
            Usable(k) =>
                \/ k \in DOMAIN bindings' /\ bindings'[k].fp = bindings[k].fp
                \/ \E r \in Request : /\ pc[r] = "unbind" /\ pc'[r] # "unbind"
                                      /\ BindingKey(info[r]) = k
                                      /\ cand[r] = bindings[k].fp]_vars
  BY StepIsStable DEF Stable
<1> QED
  BY <1>1, <1>2, <1>3, DispatchInitInv, PTL DEF DispatchSpec, SessionIsStable

-----------------------------------------------------------------------------
(* The pool within dispatch. *)

\* A pick reads of the tried candidates only those that are still in the pool.
LEMMA TriedInPool ==
    ASSUME NEW route, NEW tried, NEW result
    PROVE  /\ PickMatchingExcluding(route, tried, result)
                <=> PickMatchingExcluding(route, tried \cap DOMAIN items, result)
           /\ PickMatchingPercentExcluding(route, tried, FastPercent, result)
                <=> PickMatchingPercentExcluding(route, tried \cap DOMAIN items,
                                                 FastPercent, result)
<1>1. Eligible(route, tried) = Eligible(route, tried \cap DOMAIN items)
  BY DEF Eligible
<1> QED
  BY <1>1 DEF PickMatchingExcluding, PickMatchingPercentExcluding

LEMMA DispatchIsPoolStep ==
    ASSUME DispatchInv, [DispatchNext]_vars
    PROVE  [Next]_poolVars
<1>1. ASSUME NEW r \in Request, Schedule(r)
      PROVE  Pick
  <2> DEFINE tried == attempted[r] \cap DOMAIN items
  <2>1. PICK result \in Fingerprint \cup {NoCandidate} :
          \/ PickMatchingExcluding(info[r].route, attempted[r], result)
          \/ PickMatchingPercentExcluding(info[r].route, attempted[r], FastPercent, result)
    BY <1>1 DEF Schedule
  <2>2. \/ PickMatchingExcluding(info[r].route, tried, result)
        \/ PickMatchingPercentExcluding(info[r].route, tried, FastPercent, result)
    BY <2>1, TriedInPool
  <2>3. info[r].route \in Route /\ tried \in SUBSET DOMAIN items
    BY DEF DispatchInv, RequestsOK, Info
  <2> QED
    BY <2>2, <2>3 DEF Pick
<1>2. ASSUME NEW r \in Request, CountFailure(r) \/ EndForward(r)
      PROVE  Outcome \/ UNCHANGED poolVars
  <2>1. cand[r] \in Fingerprint
    BY <1>2 DEF CountFailure, EndForward, DispatchInv, RequestsOK, HasCandidate
  <2> QED
    BY <1>2, <2>1 DEF CountFailure, EndForward, Outcome
<1>3. CASE Environment
  BY <1>3 DEF Environment, Shutdown, Next
<1>4. CASE UNCHANGED vars
  BY <1>4 DEF vars
<1>5. ASSUME NEW r \in Request, Begin(r) \/ DispatchStep(r) \/ EndForward(r)
      PROVE  [Next]_poolVars
  BY <1>1, <1>2, <1>5
  DEF DispatchStep, Begin, FollowSession, StartDial, EndDial, BindSession, Retry, Refuse, Next
<1> QED
  BY <1>3, <1>4, <1>5 DEF DispatchNext

\* Whatever requests do to the pool, concurrent and with stale data, is what the
\* methods of the pool allow: what holds of every execution of Pool holds of the
\* pool under dispatch (server.go 299-354, pool.go 217-328).
THEOREM DispatchIsPool == DispatchSpec => Spec
<1>1. DispatchInit => Init
  BY DEF DispatchInit
<1>2. DispatchInv /\ [DispatchNext]_vars => [Next]_poolVars
  BY DispatchIsPoolStep
<1> QED
  BY <1>1, <1>2, DispatchInvariance, PTL DEF DispatchSpec, Spec

\* So no request, whether it binds, retries or succeeds late, brings an evicted
\* candidate back into rotation (pool.go 297-328, server.go 306-338).
THEOREM DispatchEvictedUntilValidated == DispatchSpec => []EvictedUntilValidated
BY DispatchIsPool, PoolEvictedUntilValidated, PTL

=============================================================================
