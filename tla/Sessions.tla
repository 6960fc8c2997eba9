------------------------------ MODULE Sessions ------------------------------
(***************************************************************************)
(* The session manager of internal/core/session.go: bindings from a        *)
(* session key to the candidate that serves it, with a sliding lifetime.   *)
(* Its methods run under SessionManager.mu; GetBound reads the pool once   *)
(* while it holds it, so each method is one step.  SessionManager.Pick,    *)
(* which only tests call, is left out: the proxy server looks up, dials    *)
(* and binds in separate steps (module Dispatch).                          *)
(*                                                                         *)
(* Time is relative: a binding stores the ticks it has left, and sweepAge  *)
(* the ticks since the last sweep, so that the state stays finite without  *)
(* a bound on time.  A tick is any duration the TTLs are multiples of.     *)
(***************************************************************************)
EXTENDS Pool

CONSTANTS
    Session,        \* session identifiers of the clients
    DefaultTTL,     \* session.default_ttl, in ticks
    MaxTTL,         \* session.max_ttl, in ticks
    SweepInterval   \* the minute between two sweeps, in ticks

NoSession == ""     \* SessionInfo.SessionID of a request without a session

ASSUME TTLAssumption ==
    /\ DefaultTTL \in Nat \ {0} /\ MaxTTL \in Nat \ {0}
    /\ SweepInterval \in Nat
ASSUME SessionAssumption == NoSession \notin Session

VARIABLES
    bindings,    \* session key -> [fp, ttl, left]
    sweepAge     \* ticks since lastSweep, at most SweepInterval

sessionVars == <<bindings, sweepAge>>

\* SessionInfo, without the credential.  ttl 0 or less means "not given".
Info == [route : Route, fast : BOOLEAN, session : Session \cup {NoSession},
         ttl : Int]

BindingKey(info) ==
    [route |-> info.route, fast |-> info.fast, session |-> info.session]

\* Mutation of EffectiveTTL: the default is forgotten.
EffectiveTTLAsGiven(info) ==
    IF MaxTTL > 0 /\ info.ttl > MaxTTL THEN MaxTTL ELSE info.ttl

EffectiveTTL(info) ==
    LET ttl == IF info.ttl <= 0 THEN DefaultTTL ELSE info.ttl
    IN  IF MaxTTL > 0 /\ ttl > MaxTTL THEN MaxTTL ELSE ttl

\* now.Before(b.ExpiresAt)
Live(b) == b.left > 0

Without(keys) == [k \in DOMAIN bindings \ keys |-> bindings[k]]

\* Mutation of Swept: live bindings are deleted as well.
SweptAll(interval) ==
    IF interval > 0 /\ sweepAge < interval THEN {} ELSE DOMAIN bindings

\* The keys sweepExpiredLocked deletes for an interval.
Swept(interval) ==
    IF interval > 0 /\ sweepAge < interval THEN {}
    ELSE {k \in DOMAIN bindings : ~Live(bindings[k])}

SweepAge(interval) ==
    IF interval > 0 /\ sweepAge < interval THEN sweepAge ELSE 0

\* Mutation of Usable: the candidate is not looked up in the pool.
UsableUnchecked(k) == k \in DOMAIN bindings /\ Live(bindings[k])

\* A binding that GetBound may use; the route is part of the key.
Usable(k) ==
    /\ k \in DOMAIN bindings
    /\ Live(bindings[k])
    /\ IsAvailable(bindings[k].fp)
    /\ MatchesRoute(items[bindings[k].fp], k.route)

Bind(b, info, fp) ==
    [k \in DOMAIN b \cup {BindingKey(info)} |->
        IF k = BindingKey(info)
          THEN [fp |-> fp, ttl |-> EffectiveTTL(info), left |-> EffectiveTTL(info)]
          ELSE b[k]]

\* result is the candidate returned, or NoCandidate for false.
GetBound(info, result) ==
    IF info.session = NoSession
    THEN result = NoCandidate /\ UNCHANGED sessionVars
    ELSE LET k == BindingKey(info)
         IN  /\ sweepAge' = SweepAge(SweepInterval)
             /\ IF Usable(k)
                THEN /\ result = bindings[k].fp
                     /\ bindings' = [Without(Swept(SweepInterval)) EXCEPT
                                        ![k].left = bindings[k].ttl]
                ELSE /\ result = NoCandidate
                     /\ bindings' = Without(Swept(SweepInterval) \cup {k})

Rebind(info, fp) ==
    /\ bindings' = IF info.session = NoSession THEN bindings
                                               ELSE Bind(bindings, info, fp)
    /\ UNCHANGED sweepAge

Unbind(info) ==
    /\ bindings' = IF info.session = NoSession THEN bindings
                                               ELSE Without({BindingKey(info)})
    /\ UNCHANGED sweepAge

\* Count, for the admin statistics: an unconditional sweep.
Count ==
    /\ bindings' = Without(Swept(0))
    /\ sweepAge' = 0

\* Time passes.
Tick ==
    /\ bindings' = [k \in DOMAIN bindings |->
          [bindings[k] EXCEPT !.left = IF @ > 0 THEN @ - 1 ELSE 0]]
    /\ sweepAge' = IF sweepAge < SweepInterval THEN sweepAge + 1 ELSE sweepAge

SessionsInit ==
    /\ bindings = [k \in {} |-> NoCandidate]
    /\ sweepAge = SweepInterval
=============================================================================
