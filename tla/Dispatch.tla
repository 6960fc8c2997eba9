------------------------------ MODULE Dispatch ------------------------------
(***************************************************************************)
(* Request dispatch of internal/proxy/server.go: dialScheduled and          *)
(* pickCandidateForAttempt, run by one goroutine per client connection      *)
(* against the shared pool and session manager while plugins refresh the   *)
(* pool and the service may be shut down.                                   *)
(*                                                                         *)
(* A request slot is a client connection that issues one request after the *)
(* other.  Each step is one lock section or one end of a blocking call:    *)
(* whatever a step has read may be stale when the next step uses it.        *)
(***************************************************************************)
EXTENDS Sessions

CONSTANTS
    Request,        \* concurrent client connections
    InfosOf,        \* connection -> the SessionInfos its requests carry
    RetryAttempts,  \* runtime_failure.retry_attempts
    Healthy,        \* candidates that answer every dial
    MayShutDown     \* whether the shutdown signal can arrive

ASSUME DispatchAssumption ==
    /\ InfosOf \in [Request -> SUBSET Info]
    /\ RetryAttempts \in Nat
    /\ Healthy \subseteq Fingerprint
    /\ MayShutDown \in BOOLEAN

VARIABLES
    pc,         \* connection -> where its request is
    info,       \* connection -> SessionInfo of the request, meaningless if idle
    attempt,    \* connection -> number of the attempt, 0 if idle
    attempted,  \* connection -> candidates tried for the request
    cand,       \* connection -> candidate of the attempt
    cancelled,  \* the server context is cancelled
    steady      \* history: healthy candidates the request could have used
                \* at every moment since it began

requestVars == <<pc, info, attempt, attempted, cand>>
vars == <<poolVars, sessionVars, requestVars, cancelled, steady>>

MaxAttempts == RetryAttempts + 1

Goto(r, label) == pc' = [pc EXCEPT ![r] = label]

-----------------------------------------------------------------------------
(* One request. *)

Begin(r) ==
    /\ pc[r] = "idle"
    /\ \E i \in InfosOf[r] : info' = [info EXCEPT ![r] = i]
    /\ attempt' = [attempt EXCEPT ![r] = 1]
    /\ Goto(r, "session")
    /\ UNCHANGED <<poolVars, sessionVars, attempted, cand>>

\* Mutation of Choose: the candidate is not remembered as attempted.
ChooseForgetting(r, fp) ==
    /\ cand' = [cand EXCEPT ![r] = fp]
    /\ Goto(r, "dialer")
    /\ UNCHANGED attempted

Choose(r, fp) ==
    /\ attempted' = [attempted EXCEPT ![r] = @ \cup {fp}]
    /\ cand' = [cand EXCEPT ![r] = fp]
    /\ Goto(r, "dialer")

\* The session's candidate, unless this request has already tried it.
FollowSession(r) ==
    /\ pc[r] = "session"
    /\ \E result \in Fingerprint \cup {NoCandidate} :
         /\ GetBound(info[r], result)
         /\ IF result # NoCandidate /\ result \notin attempted[r]
              THEN Choose(r, result)
              ELSE Goto(r, "schedule") /\ UNCHANGED <<attempted, cand>>
    /\ UNCHANGED <<poolVars, info, attempt>>

Schedule(r) ==
    /\ pc[r] = "schedule"
    /\ \E result \in Fingerprint \cup {NoCandidate} :
         /\ IF info[r].fast
              THEN PickMatchingPercentExcluding(info[r].route, attempted[r],
                                                FastPercent, result)
              ELSE PickMatchingExcluding(info[r].route, attempted[r], result)
         /\ IF result # NoCandidate
              THEN Choose(r, result)
              ELSE Goto(r, "refused") /\ UNCHANGED <<attempted, cand>>
    /\ UNCHANGED <<sessionVars, info, attempt>>

\* Mutation of StartDial: every candidate is taken to need a custom dialer.
StartDialCustom(r) ==
    /\ pc[r] = "dialer"
    /\ Goto(r, IF cand[r] \in dialers THEN "dialing" ELSE "failed")
    /\ UNCHANGED <<poolVars, sessionVars, info, attempt, attempted, cand>>

\* Pool.Dialer, then the start of DialViaCandidate.  It fails at once without
\* a dialer for a sing-box candidate, and if the context is cancelled (a
\* custom dialer may be past its use of the context).
StartDial(r) ==
    LET missing == cand[r] \in BoxFingerprint /\ cand[r] \notin dialers
    IN  /\ pc[r] = "dialer"
        /\ \/ ~missing /\ (cancelled => cand[r] \in dialers) /\ Goto(r, "dialing")
           \/ (missing \/ cancelled) /\ Goto(r, "failed")
        /\ UNCHANGED <<poolVars, sessionVars, info, attempt, attempted, cand>>

\* Mutation of EndDial: a dial that gets no answer is not timed out.
EndDialUntimed(r) ==
    /\ pc[r] = "dialing" /\ cand[r] \in Healthy
    /\ Goto(r, "bind")
    /\ UNCHANGED <<poolVars, sessionVars, info, attempt, attempted, cand>>

\* A dial that fails includes one that runs into dialAttemptTimeout.
EndDial(r) ==
    /\ pc[r] = "dialing"
    /\ \/ Goto(r, "bind")
       \/ (cand[r] \notin Healthy \/ cancelled) /\ Goto(r, "failed")
    /\ UNCHANGED <<poolVars, sessionVars, info, attempt, attempted, cand>>

BindSession(r) ==
    /\ pc[r] = "bind"
    /\ Rebind(info[r], cand[r])
    /\ Goto(r, "forward")
    /\ UNCHANGED <<poolVars, info, attempt, attempted, cand>>

CountFailure(r) ==
    /\ pc[r] = "failed"
    /\ MarkFailure(cand[r])
    /\ Goto(r, "unbind")
    /\ UNCHANGED <<sessionVars, info, attempt, attempted, cand>>

Retry(r) ==
    /\ pc[r] = "unbind"
    /\ Unbind(info[r])
    /\ cand' = [cand EXCEPT ![r] = NoCandidate]
    /\ IF attempt[r] < MaxAttempts
         THEN /\ attempt' = [attempt EXCEPT ![r] = @ + 1]
              /\ Goto(r, "session")
         ELSE Goto(r, "refused") /\ UNCHANGED attempt
    /\ UNCHANGED <<poolVars, info, attempted>>

Reset(r) ==
    /\ Goto(r, "idle")
    /\ attempt' = [attempt EXCEPT ![r] = 0]
    /\ attempted' = [attempted EXCEPT ![r] = {}]
    /\ cand' = [cand EXCEPT ![r] = NoCandidate]
    /\ UNCHANGED <<sessionVars, info>>

Refuse(r) == pc[r] = "refused" /\ Reset(r) /\ UNCHANGED poolVars

\* Forwarding over the new connection ends (module Forward): a success, a
\* failure of the candidate, or neither is recorded, whether or not the
\* candidate answers its dials.
EndForward(r) ==
    /\ pc[r] = "forward"
    /\ \/ MarkSuccess(cand[r])
       \/ MarkFailure(cand[r])
       \/ UNCHANGED poolVars
    /\ Reset(r)

DispatchStep(r) ==
    \/ FollowSession(r) \/ Schedule(r) \/ StartDial(r) \/ EndDial(r)
    \/ BindSession(r) \/ CountFailure(r) \/ Retry(r) \/ Refuse(r)

-----------------------------------------------------------------------------
(* The surroundings. *)

Shutdown ==
    /\ MayShutDown /\ ~cancelled
    /\ cancelled' = TRUE
    /\ UNCHANGED <<poolVars, sessionVars, requestVars>>

Environment ==
    \/ Refresh /\ UNCHANGED <<sessionVars, requestVars, cancelled>>
    \/ (Tick \/ Count) /\ UNCHANGED <<poolVars, requestVars, cancelled>>
    \/ Shutdown

\* Candidates on which the request is bound to succeed.
Dependable(r) == Eligible(info[r].route, {}) \cap (Healthy \ BoxFingerprint)

Remember ==
    steady' = [r \in Request |->
        IF pc'[r] = "idle" THEN {}
        ELSE IF pc[r] = "idle" THEN Dependable(r)'
        ELSE steady[r] \cap Dependable(r)']

DispatchInit ==
    /\ Init /\ SessionsInit
    /\ pc = [r \in Request |-> "idle"]
    /\ info \in {f \in [Request -> UNION {InfosOf[r] : r \in Request}] :
                    \A r \in Request : f[r] \in InfosOf[r]}
    /\ attempt = [r \in Request |-> 0]
    /\ attempted = [r \in Request |-> {}]
    /\ cand = [r \in Request |-> NoCandidate]
    /\ cancelled = FALSE
    /\ steady = [r \in Request |-> {}]

DispatchNext ==
    /\ \/ \E r \in Request :
             (Begin(r) \/ DispatchStep(r) \/ EndForward(r)) /\ UNCHANGED cancelled
       \/ Environment
    /\ Remember

\* Each handler goroutine keeps running: lock sections end, and a dial ends at
\* the latest with dialAttemptTimeout.  Clients need not send requests, and
\* nothing is assumed of forwarding, of time or of plugins.
Fairness == \A r \in Request : WF_vars(DispatchStep(r) /\ UNCHANGED cancelled /\ Remember)

DispatchSpec == DispatchInit /\ [][DispatchNext]_vars /\ Fairness

-----------------------------------------------------------------------------
(* Properties. *)

\* Type invariant of requests and bindings.
DispatchTypeOK ==
    /\ TypeOK
    /\ \A k \in DOMAIN bindings :
         /\ bindings[k].fp \in Fingerprint
         /\ bindings[k].ttl \in 1 .. MaxTTL
         /\ bindings[k].left \in 0 .. bindings[k].ttl
    /\ sweepAge \in 0 .. SweepInterval
    /\ \A r \in Request :
         /\ attempt[r] \in 0 .. MaxAttempts
         /\ attempted[r] \subseteq Fingerprint
         /\ cand[r] \in Fingerprint \cup {NoCandidate}
    /\ cancelled \in BOOLEAN

\* Whichever way a candidate is chosen, it is in rotation at that moment,
\* matches the request's route and has not been tried for this request: a
\* binding may name a candidate that was evicted, removed or re-imported under
\* another plugin or country since (server.go 341-354, session.go 194-198).
ChosenIsEligible ==
    [][\A r \in Request : cand'[r] \notin {cand[r], NoCandidate} =>
            cand'[r] \in Eligible(info[r].route, attempted[r])]_vars

\* Retries cover the pool: if there are as many attempts as candidates and a
\* healthy one matched throughout, the request is not refused, whatever
\* happens to the others and to the session meanwhile (server.go 306-338).
RetryReachesHealthy ==
    Cardinality(Fingerprint) <= MaxAttempts /\ ~cancelled =>
        \A r \in Request : pc[r] = "refused" => steady[r] = {}

\* A candidate that answers every dial is charged with a failure only where a
\* connection through it ends.
HealthyOnlyForwarded ==
    \A fp \in (Healthy \ BoxFingerprint) \cap DOMAIN items \cap DOMAIN items' :
        items'[fp].failures > items[fp].failures =>
            \E r \in Request : pc[r] = "forward" /\ pc'[r] = "idle" /\ cand[r] = fp

\* While the service runs, no dial charges a candidate that answers every dial: it
\* is dialled the way it can be dialled, is given the time it needs, and is not
\* charged for the failure of another attempt or request.  What happens to the
\* connection afterwards may still charge it (server.go 274-288, 315-331, 387).
DialsSpareHealthy == [][~cancelled => HealthyOnlyForwarded]_vars

\* Neither does a dial that the shutdown interrupts: its failure is not the
\* candidate's (server.go 319-331).
ShutdownSparesHealthy == [][HealthyOnlyForwarded]_vars

\* A session keeps its upstream proxy for its lifetime: a live binding to a
\* candidate in rotation is given up only after a dial through that candidate
\* failed (session.go 180-219, server.go 323-334).
SessionIsStable ==
    [][\A k \in DOMAIN bindings :
        Usable(k) =>
            \/ k \in DOMAIN bindings' /\ bindings'[k].fp = bindings[k].fp
            \/ \E r \in Request : /\ pc[r] = "unbind" /\ pc'[r] # "unbind"
                                  /\ BindingKey(info[r]) = k
                                  /\ cand[r] = bindings[k].fp]_vars

\* Every request is answered or forwarded (server.go 299-339).
DispatchEnds ==
    \A r \in Request :
        pc[r] \notin {"idle", "forward"} ~> pc[r] \in {"idle", "forward"}
=============================================================================
