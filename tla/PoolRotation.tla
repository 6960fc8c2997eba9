---------------------------- MODULE PoolRotation ----------------------------
(***************************************************************************)
(* Round-robin scheduling of requests for any candidate, among requests    *)
(* with routes and retries, while refreshes, evictions, recoveries and     *)
(* restarts change the pool between two picks.  All requests share the     *)
(* counter rr, and it is never adjusted when candidates come and go: its   *)
(* position in the order is arbitrary after a refresh.  passed is a history *)
(* variable: it counts the picks that went to other candidates since a     *)
(* candidate was last served, became eligible, the order changed, another  *)
(* kind of request moved the counter, or the process started.              *)
(***************************************************************************)
EXTENDS Pool

VARIABLE passed

rotationVars == <<items, order, rr, dialers, evicted, passed>>

AnyRoute == [plugin |-> AnyPlugin, region |-> AnyRegion]

Serve ==
    \E result \in Fingerprint \cup {NoCandidate} :
        /\ PickMatchingExcluding(AnyRoute, {}, result)
        /\ passed' = [fp \in Fingerprint |->
                        IF fp = result \/ ~IsAvailable(fp) THEN 0
                                                           ELSE passed[fp] + 1]

Change ==
    /\ Refresh \/ Outcome
    /\ passed' = [fp \in Fingerprint |->
                    IF order' = order /\ IsAvailable(fp) THEN passed[fp] ELSE 0]

\* Another kind of request or a restart begins a new rotation.
Begin == (Pick \/ Restart) /\ passed' = [fp \in Fingerprint |-> 0]

RotationInit == Init /\ passed = [fp \in Fingerprint |-> 0]

RotationSpec == RotationInit /\ [][Serve \/ Change \/ Begin]_rotationVars

\* No candidate in rotation waits longer than one round: while the order stays
\* as it is, at most Len(order) - 1 picks go to others, whatever is evicted or
\* recovers meanwhile (pool.go 268-278).
NoneIsSkipped ==
    \A fp \in DOMAIN items : IsAvailable(fp) => passed[fp] < Len(order)

=============================================================================
