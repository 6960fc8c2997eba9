-------------------------------- MODULE Pool --------------------------------
(***************************************************************************)
(* The candidate pool of internal/core/pool.go: the candidates the proxy   *)
(* may dial, the order in which they are scheduled, the shared round-robin *)
(* counter and the custom dialers of sing-box candidates.                  *)
(*                                                                         *)
(* Every method of Pool runs under Pool.mu, so each one is one action.     *)
(* Methods that only read are operators.  Times, error texts and metadata  *)
(* other than the country code and the report label are left out.          *)
(***************************************************************************)
EXTENDS Integers, Sequences, FiniteSets

CONSTANTS
    Fingerprint,     \* identities of candidates (CanonicalFingerprint)
    BoxFingerprint,  \* those of protocol "singbox", dialled by a custom dialer
    Plugin,          \* plugin names
    LenientPlugin,   \* plugin fpl: its unlabelled candidates match every report
    Label,           \* ImportReport.Source / metadata "query" or "source"
    Region,          \* country codes
    Offers,          \* what plugins may find and the validator may pass
    Policy,          \* scheduler.policy
    FastPercent,     \* scheduler.fast_pool_percent
    MaxFailures,     \* runtime_failure.max_failures
    RRModulus        \* BOUND: rr is kept modulo a multiple of every pool size

NoLabel   == ""      \* a candidate or a report without a source
AnyPlugin == ""      \* a request that names no plugin
AnyRegion == ""      \* a request that names no region; a candidate without one
NoCandidate == ""    \* the pick methods' "false"

Statuses == {"available", "unavailable"}

\* What a plugin reports and the validator measures of one candidate.
Offer == [fp : Fingerprint, source : Plugin, label : Label \cup {NoLabel},
          region : Region \cup {AnyRegion}, latency : Nat]

Candidate == [source : Plugin, label : Label \cup {NoLabel},
              region : Region \cup {AnyRegion}, latency : Nat,
              status : Statuses, failures : 0 .. MaxFailures]

Route == [plugin : Plugin \cup {AnyPlugin}, region : Region \cup {AnyRegion}]

ASSUME FingerprintAssumption ==
    /\ IsFiniteSet(Fingerprint)
    /\ BoxFingerprint \subseteq Fingerprint
    /\ NoCandidate \notin Fingerprint
ASSUME OffersAssumption == Offers \subseteq Offer
ASSUME BoundsAssumption ==
    /\ MaxFailures \in Nat \ {0}
    /\ FastPercent \in 1 .. 100
    /\ RRModulus \in Nat \ {0}
ASSUME RRModulusAssumption ==
    \A n \in 1 .. Cardinality(Fingerprint) : RRModulus % n = 0

VARIABLES
    items,    \* fingerprint -> candidate, for the fingerprints of the pool
    order,    \* the fingerprints in scheduling order
    rr,       \* the round-robin counter, modulo RRModulus
    dialers,  \* the fingerprints with a registered custom dialer
    evicted   \* history: candidates that have gone out of rotation, and since
              \* then were neither validated again nor removed

poolVars == <<items, order, rr, dialers, evicted>>

-----------------------------------------------------------------------------
(* Reading the pool. *)

MatchesRoute(c, route) ==
    /\ route.plugin # AnyPlugin => c.source = route.plugin
    /\ route.region # AnyRegion => c.region = route.region

IsAvailable(fp) == fp \in DOMAIN items /\ items[fp].status = "available"

OutOfRotation(its) == {fp \in DOMAIN its : its[fp].status = "unavailable"}

Eligible(route, exclude) ==
    {fp \in DOMAIN items \ exclude :
        IsAvailable(fp) /\ MatchesRoute(items[fp], route)}

Position(fp) == CHOOSE i \in DOMAIN order : order[i] = fp

\* sort.SliceStable's comparison: a measured latency beats an unknown one.
Faster(f, g) ==
    /\ items[f].latency > 0
    /\ items[g].latency > 0 => items[f].latency < items[g].latency

\* Index of fp after the stable sort of the eligible set by latency.
LatencyRank(fp, eligible) ==
    Cardinality({g \in eligible :
        \/ Faster(g, fp)
        \/ ~Faster(fp, g) /\ Position(g) < Position(fp)})

\* Mutation of FastKeep: without the lower bound of one.
FastKeepRounded(eligible, percent) == (Cardinality(eligible) * percent) \div 100

FastKeep(eligible, percent) ==
    LET share == (Cardinality(eligible) * percent) \div 100
    IN  IF share < 1 THEN 1 ELSE share

FastSet(eligible, percent) ==
    {fp \in eligible : LatencyRank(fp, eligible) < FastKeep(eligible, percent)}

-----------------------------------------------------------------------------
(* Picking.  result is the fingerprint returned, or NoCandidate.  Only the  *)
(* round-robin counter changes.                                             *)

Scan(a) == order[((rr + a) % Len(order)) + 1]

\* Mutation of PickMatchingExcluding: the counter is not advanced.
PickSameAgain(route, exclude, result) ==
    LET eligible == Eligible(route, exclude)
    IN  /\ UNCHANGED poolVars
        /\ \/ eligible = {} /\ result = NoCandidate
           \/ /\ result \in eligible
              /\ \E a \in 0 .. Len(order) - 1 :
                    /\ Scan(a) = result
                    /\ \A b \in 0 .. a - 1 : Scan(b) \notin eligible

PickMatchingExcluding(route, exclude, result) ==
    LET eligible == Eligible(route, exclude)
    IN  /\ UNCHANGED <<items, order, dialers, evicted>>
        /\ \/ /\ eligible = {} /\ result = NoCandidate
              /\ rr' = IF Policy = "round_robin"
                         THEN (rr + Len(order)) % RRModulus ELSE rr
           \/ /\ Policy = "round_robin" /\ result \in eligible
              /\ \E a \in 0 .. Len(order) - 1 :
                    /\ Scan(a) = result
                    /\ \A b \in 0 .. a - 1 : Scan(b) \notin eligible
                    /\ rr' = (rr + a + 1) % RRModulus
           \/ /\ Policy = "random" /\ result \in eligible
              /\ rr' = rr

PickMatchingPercentExcluding(route, exclude, percent, result) ==
    LET eligible == Eligible(route, exclude)
        keep     == FastKeep(eligible, percent)
    IN  \/ percent >= 100 /\ PickMatchingExcluding(route, exclude, result)
        \/ /\ percent < 100
           /\ UNCHANGED <<items, order, dialers, evicted>>
           /\ \/ eligible = {} /\ result = NoCandidate /\ rr' = rr
              \/ /\ Policy = "round_robin" /\ result \in eligible
                 /\ LatencyRank(result, eligible) = rr % keep
                 /\ rr' = (rr + 1) % RRModulus
              \/ /\ Policy = "random" /\ result \in FastSet(eligible, percent)
                 /\ rr' = rr

-----------------------------------------------------------------------------
(* Admission of validated candidates.  A batch maps fingerprints to offers. *)

\* All ways to list a set without repetition: candidates of one batch arrive
\* in the order in which the validator's workers finish.
Enumerations(S) ==
    {s \in [1 .. Cardinality(S) -> S] :
        /\ \A i, j \in DOMAIN s : s[i] = s[j] => i = j
        /\ \A x \in S : \E i \in DOMAIN s : s[i] = x}

\* The listings of S that keep the relative order of sequence s.
Agreeing(S, s) ==
    {t \in Enumerations(S) :
        \A i, j \in DOMAIN t : i < j =>
            \E a, b \in DOMAIN s : a < b /\ s[a] = t[i] /\ s[b] = t[j]}

Admitted(o) ==
    [source |-> o.source, label |-> o.label, region |-> o.region,
     latency |-> o.latency, status |-> "available", failures |-> 0]

\* Mutation of Upsert: candidates that are already there are appended again.
UpsertTwice(batch, gone) ==
    LET kept == DOMAIN items \ gone
    IN  /\ items' = [fp \in kept \cup DOMAIN batch |->
                        IF fp \in DOMAIN batch THEN Admitted(batch[fp])
                                               ELSE items[fp]]
        /\ \E s \in Agreeing(kept, order), t \in Enumerations(DOMAIN batch) :
              order' = s \o t
        /\ dialers' = (dialers \ gone) \cup (DOMAIN batch \cap BoxFingerprint)
        /\ evicted' = evicted \ (gone \cup DOMAIN batch)
        /\ UNCHANGED rr

\* Mutation of Upsert: the order is rebuilt from a map.
UpsertShuffled(batch, gone) ==
    LET kept == DOMAIN items \ gone
    IN  /\ items' = [fp \in kept \cup DOMAIN batch |->
                        IF fp \in DOMAIN batch THEN Admitted(batch[fp])
                                               ELSE items[fp]]
        /\ order' \in Enumerations(kept \cup DOMAIN batch)
        /\ dialers' = (dialers \ gone) \cup (DOMAIN batch \cap BoxFingerprint)
        /\ evicted' = evicted \ (gone \cup DOMAIN batch)
        /\ UNCHANGED rr

\* Mutation of Upsert: the dialers of removed candidates stay.
UpsertLeaking(batch, gone) ==
    LET kept == DOMAIN items \ gone
        new  == DOMAIN batch \ kept
    IN  /\ items' = [fp \in kept \cup DOMAIN batch |->
                        IF fp \in DOMAIN batch THEN Admitted(batch[fp])
                                               ELSE items[fp]]
        /\ \E s \in Agreeing(kept, order), t \in Enumerations(new) :
              order' = s \o t
        /\ dialers' = dialers \cup (DOMAIN batch \cap BoxFingerprint)
        /\ evicted' = evicted \ (gone \cup DOMAIN batch)
        /\ UNCHANGED rr

\* Drop the candidates of gone, then insert or overwrite those of the batch.
Upsert(batch, gone) ==
    LET kept == DOMAIN items \ gone
        new  == DOMAIN batch \ kept
    IN  /\ items' = [fp \in kept \cup DOMAIN batch |->
                        IF fp \in DOMAIN batch THEN Admitted(batch[fp])
                                               ELSE items[fp]]
        /\ \E s \in Agreeing(kept, order), t \in Enumerations(new) :
              order' = s \o t
        /\ dialers' = (dialers \ gone) \cup (DOMAIN batch \cap BoxFingerprint)
        /\ evicted' = evicted \ (gone \cup DOMAIN batch)
        /\ UNCHANGED rr

AddValidated(batch) == Upsert(batch, {})

\* replaced: the fingerprints of the pool for which replace(c) is true.
ReplaceValidatedMatching(batch, replaced) ==
    Upsert(batch, replaced \ DOMAIN batch)

\* candidateMatchesReportSource of internal/app/app.go.
MatchesReport(c, plugin, label) ==
    /\ c.source = plugin
    /\ \/ label = NoLabel
       \/ c.label = label
       \/ plugin \in LenientPlugin /\ c.label = NoLabel

MatchingReport(plugin, label) ==
    {fp \in DOMAIN items : MatchesReport(items[fp], plugin, label)}

\* What a plugin can find.
Findings(plugin) == {o \in Offers : o.source = plugin}

\* filterCandidatesForReport: without a match, all of the plugin's candidates.
ReportCandidates(valid, plugin, label) ==
    LET matching == {o \in valid : MatchesReport(o, plugin, label)}
    IN  IF matching # {} THEN matching ELSE valid

\* Candidates under their fingerprints: of those that share one, the last to
\* be validated remains.
Batches(found) ==
    {b \in [{o.fp : o \in found} -> found] : \A fp \in DOMAIN b : b[fp].fp = fp}

-----------------------------------------------------------------------------
(* Runtime outcomes and restart. *)

\* Mutation of MarkFailure: one failure too many is allowed.
MarkFailureLate(fp) ==
    /\ IF fp \in DOMAIN items
         THEN LET n == items[fp].failures + 1
              IN  items' = [items EXCEPT
                     ![fp].failures = IF n < MaxFailures THEN n ELSE MaxFailures,
                     ![fp].status = IF n > MaxFailures THEN "unavailable" ELSE @]
         ELSE items' = items
    /\ evicted' = evicted \cup OutOfRotation(items')
    /\ UNCHANGED <<order, rr, dialers>>

\* BOUND: the count stops at MaxFailures.  From there on only the comparison
\* with MaxFailures reads it, so larger counts are indistinguishable.
MarkFailure(fp) ==
    /\ IF fp \in DOMAIN items
         THEN LET n == IF items[fp].failures < MaxFailures
                         THEN items[fp].failures + 1 ELSE MaxFailures
              IN  items' = [items EXCEPT
                     ![fp].failures = n,
                     ![fp].status = IF n >= MaxFailures THEN "unavailable"
                                                        ELSE @]
         ELSE items' = items
    /\ evicted' = evicted \cup OutOfRotation(items')
    /\ UNCHANGED <<order, rr, dialers>>

\* Mutation of MarkSuccess: an evicted candidate comes back.
MarkSuccessReviving(fp) ==
    /\ IF fp \in DOMAIN items
         THEN items' = [items EXCEPT ![fp].failures = 0, ![fp].status = "available"]
         ELSE items' = items
    /\ UNCHANGED <<order, rr, dialers, evicted>>

MarkSuccess(fp) ==
    /\ IF IsAvailable(fp)
         THEN items' = [items EXCEPT ![fp].failures = 0]
         ELSE items' = items
    /\ UNCHANGED <<order, rr, dialers, evicted>>

\* Mutation of Loaded: sing-box candidates are taken as they were saved.
LoadedAsSaved(fp, c) == c

\* Mutation of Loaded: a status that no method of the pool knows.
LoadedPending(fp, c) ==
    IF fp \in BoxFingerprint THEN [c EXCEPT !.status = "pending"] ELSE c

\* What LoadPool makes of a saved candidate: a sing-box one lost its dialer.
Loaded(fp, c) ==
    IF fp \in BoxFingerprint THEN [c EXCEPT !.status = "unavailable"] ELSE c

\* Replace with what LoadPool returns for a pool saved as (its, ord).  The
\* history is left to the caller, who knows whether it is the pool of before.
Load(its, ord) ==
    /\ items' = [fp \in DOMAIN its |-> Loaded(fp, its[fp])]
    /\ order' = ord
    /\ rr' = 0
    /\ dialers' = {}

-----------------------------------------------------------------------------

Init ==
    /\ items = [fp \in {} |-> NoCandidate]
    /\ order = <<>>
    /\ rr = 0
    /\ dialers = {}
    /\ evicted = {}

\* Mutation of ApplyReport: a failed report replaces candidates, too.
ApplyAnyReport(valid, plugin, label, failed) ==
    \E batch \in Batches(ReportCandidates(valid, plugin, label)) :
        ReplaceValidatedMatching(batch, MatchingReport(plugin, label))

\* A report without error replaces the candidates of its source; with an
\* error, or without a report, candidates are only added.
ApplyReport(valid, plugin, label, failed) ==
    \E batch \in Batches(ReportCandidates(valid, plugin, label)) :
        IF failed
          THEN AddValidated(batch)
          ELSE ReplaceValidatedMatching(batch, MatchingReport(plugin, label))

Refresh ==
    \E plugin \in Plugin, label \in Label \cup {NoLabel}, failed \in BOOLEAN :
        \E valid \in SUBSET Findings(plugin) :
            ApplyReport(valid, plugin, label, failed)

Pick ==
    \E route \in Route, exclude \in SUBSET DOMAIN items,
       result \in Fingerprint \cup {NoCandidate} :
        \/ PickMatchingExcluding(route, exclude, result)
        \/ \E percent \in {FastPercent, 100} :
              PickMatchingPercentExcluding(route, exclude, percent, result)

Outcome == \E fp \in Fingerprint : MarkFailure(fp) \/ MarkSuccess(fp)

\* Graceful exit saves List(); the next process loads it.
Restart ==
    /\ Load(items, order)
    /\ evicted' = evicted \cup OutOfRotation(items')

Next == Refresh \/ Pick \/ Outcome \/ Restart

Spec == Init /\ [][Next]_poolVars

-----------------------------------------------------------------------------
(* Properties. *)

\* Type invariant of the four fields of Pool, and of the history.
TypeOK ==
    /\ DOMAIN items \subseteq Fingerprint
    /\ items \in [DOMAIN items -> Candidate]
    /\ order \in Seq(Fingerprint)
    /\ rr \in 0 .. RRModulus - 1
    /\ dialers \subseteq Fingerprint
    /\ evicted \subseteq Fingerprint

\* The order lists each candidate of the pool exactly once: every method walks
\* order and looks up items, so a duplicate is scheduled twice and a missing
\* entry never (pool.go 32-35, 49-57, 89-115).
OrderEnumeratesItems == order \in Enumerations(DOMAIN items)

\* A candidate in rotation has not used up its failures: MarkFailure,
\* MarkSuccess, admission and the load of a saved pool agree (pool.go 297-328).
AvailableBelowThreshold ==
    \A fp \in DOMAIN items : IsAvailable(fp) => items[fp].failures < MaxFailures

\* A sing-box candidate in rotation can be dialled: DialViaCandidate fails at
\* once without a custom dialer, and dialers are not saved (storage.go 55-61).
AvailableBoxHasDialer ==
    \A fp \in BoxFingerprint : IsAvailable(fp) => fp \in dialers

\* No dialer outlives its candidate, and only sing-box candidates have one: a
\* leaked one keeps a whole sing-box instance (pool.go 98-103).
DialersHaveItems == dialers \subseteq DOMAIN items \cap BoxFingerprint

\* The fast pool holds the fastest eligible candidates, at least one if there
\* is any and no more than its share, for every request (pool.go 222-256).
FastPoolSound ==
    \A route \in Route, exclude \in SUBSET DOMAIN items :
        LET eligible == Eligible(route, exclude)
            fast     == FastSet(eligible, FastPercent)
        IN  /\ fast = {} <=> eligible = {}
            /\ \A f \in fast, g \in eligible \ fast : ~Faster(g, f)
            /\ Cardinality(fast) > 1 =>
                 100 * Cardinality(fast) <= FastPercent * Cardinality(eligible)

\* An evicted candidate is out of rotation until a refresh has validated it
\* again: no success of an old connection, whenever it is reported, no report of
\* another source and no restart brings it back (pool.go 89-124, 297-328).
EvictedUntilValidated == \A fp \in evicted : ~IsAvailable(fp)

\* Candidates that stay keep their relative scheduling order through refreshes
\* and restarts, so a refresh does not reshuffle the rotation (pool.go 89-109).
SurvivorsKeepOrder ==
    [][\A i, j \in DOMAIN order : i < j =>
        \A a, b \in DOMAIN order' :
            order'[a] = order[i] /\ order'[b] = order[j] => a < b]_poolVars

=============================================================================
