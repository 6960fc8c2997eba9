----------------------------- MODULE PoolProofs -----------------------------
(* Proofs about Pool: its safety invariants hold for every set of           *)
(* candidates, plugins and offers, every threshold and every policy.        *)
EXTENDS Pool, FiniteSetTheorems, SequenceTheorems, TLAPS

\* The invariants of Pool that are inductive together: the threshold and the
\* dialers need the type of items, the order needs its domain.
PoolInv ==
    /\ TypeOK
    /\ OrderEnumeratesItems
    /\ AvailableBelowThreshold
    /\ AvailableBoxHasDialer
    /\ DialersHaveItems
    /\ EvictedUntilValidated

-----------------------------------------------------------------------------
(* Sequences that list a set. *)

\* A listing of a finite set is a sequence over it, as long as the set is large
\* (the order slice of pool.go).
LEMMA EnumerationIsSeq ==
    ASSUME NEW S, IsFiniteSet(S), NEW s \in Enumerations(S)
    PROVE  s \in Seq(S) /\ Len(s) = Cardinality(S)
<1>1. Cardinality(S) \in Nat
  BY FS_CardinalityType
<1>2. s \in [1 .. Cardinality(S) -> S]
  BY DEF Enumerations
<1> QED
  BY <1>1, <1>2

\* Appending a listing of new fingerprints to one of the kept fingerprints
\* lists both (the appends of pool.go 54 and 113).
LEMMA EnumerationConcat ==
    ASSUME NEW S, NEW T, IsFiniteSet(S), IsFiniteSet(T), S \cap T = {},
           NEW s \in Enumerations(S), NEW t \in Enumerations(T)
    PROVE  s \o t \in Enumerations(S \cup T)
<1> DEFINE m == Cardinality(S)
           n == Cardinality(T)
           u == s \o t
<1>1. /\ s \in Seq(S) /\ Len(s) = m
      /\ t \in Seq(T) /\ Len(t) = n
  BY EnumerationIsSeq
<1>2. m \in Nat /\ n \in Nat
  BY FS_CardinalityType
<1>3. Cardinality(S \cup T) = m + n
  <2>1. Cardinality(S \cup T) = m + n - Cardinality(S \cap T)
    BY FS_Union
  <2>2. Cardinality(S \cap T) = 0
    BY FS_EmptySet
  <2> QED
    BY <1>2, <2>1, <2>2
<1>4. /\ s \in Seq(S \cup T)
      /\ t \in Seq(S \cup T)
  BY <1>1, SeqMonotonic
<1>5. /\ u \in Seq(S \cup T)
      /\ Len(u) = m + n
      /\ \A i \in 1 .. m + n : u[i] = IF i <= m THEN s[i] ELSE t[i - m]
  <2> HIDE DEF m, n
  <2>1. /\ s \o t \in Seq(S \cup T)
        /\ Len(s \o t) = Len(s) + Len(t)
        /\ \A i \in 1 .. Len(s) + Len(t) :
             (s \o t)[i] = IF i <= Len(s) THEN s[i] ELSE t[i - Len(s)]
    BY <1>4, ConcatProperties
  <2> QED
    BY <1>1, <2>1
<1>6. u \in [1 .. m + n -> S \cup T]
  BY <1>5, LenProperties
<1>7. /\ s \in [1 .. m -> S]
      /\ t \in [1 .. n -> T]
      /\ \A i, j \in 1 .. m : s[i] = s[j] => i = j
      /\ \A i, j \in 1 .. n : t[i] = t[j] => i = j
      /\ \A x \in S : \E i \in 1 .. m : s[i] = x
      /\ \A x \in T : \E i \in 1 .. n : t[i] = x
  BY DEF Enumerations
<1> HIDE DEF m, n, u
<1>8. ASSUME NEW i \in 1 .. m + n, NEW j \in 1 .. m + n, u[i] = u[j]
      PROVE  i = j
  <2>1. i <= m => u[i] \in S
    BY <1>2, <1>5, <1>7
  <2>2. j <= m => u[j] \in S
    BY <1>2, <1>5, <1>7
  <2>3. ~(i <= m) => u[i] \in T
    BY <1>2, <1>5, <1>7
  <2>4. ~(j <= m) => u[j] \in T
    BY <1>2, <1>5, <1>7
  <2>5. i <= m <=> j <= m
    BY <1>8, <2>1, <2>2, <2>3, <2>4
  <2>6. CASE i <= m
    BY <1>2, <1>5, <1>7, <1>8, <2>5, <2>6
  <2>7. CASE ~(i <= m)
    <3>1. i - m \in 1 .. n /\ j - m \in 1 .. n /\ t[i - m] = t[j - m]
      BY <1>2, <1>5, <1>8, <2>5, <2>7
    <3>2. i - m = j - m
      BY <1>7, <3>1
    <3> QED
      BY <1>2, <3>2
  <2> QED
    BY <2>6, <2>7
<1>9. ASSUME NEW x \in S \cup T
      PROVE  \E i \in 1 .. m + n : u[i] = x
  <2>1. CASE x \in S
    <3>1. PICK i \in 1 .. m : s[i] = x
      BY <1>7, <2>1
    <3> QED
      BY <1>2, <1>5, <3>1
  <2>2. CASE x \in T
    <3>1. PICK i \in 1 .. n : t[i] = x
      BY <1>7, <2>2
    <3>2. i + m \in 1 .. m + n /\ ~(i + m <= m) /\ (i + m) - m = i
      BY <1>2
    <3>3. u[i + m] = x
      BY <1>5, <3>1, <3>2
    <3> QED
      BY <3>2, <3>3
  <2> QED
    BY <1>9, <2>1, <2>2
<1>10. DOMAIN u = 1 .. m + n
  BY <1>6
<1> QED
  BY <1>3, <1>6, <1>8, <1>9, <1>10 DEF Enumerations, u

\* A listing that keeps the order of another is a listing: the filtered order.
LEMMA AgreeingIsEnumeration ==
    ASSUME NEW S, NEW r, NEW s \in Agreeing(S, r)
    PROVE  s \in Enumerations(S)
BY DEF Agreeing

-----------------------------------------------------------------------------
(* Admission. *)

\* A batch as the app hands it to the pool: offers under their fingerprints.
IsBatch(batch) ==
    /\ DOMAIN batch \subseteq Fingerprint
    /\ \A fp \in DOMAIN batch : batch[fp] \in Offers

\* Of the validated candidates, filterCandidatesForReport passes on a batch
\* (app.go 317-333).
LEMMA ReportCandidatesIsBatch ==
    ASSUME NEW plugin, NEW label, NEW valid \in SUBSET Offers,
           NEW batch \in Batches(ReportCandidates(valid, plugin, label))
    PROVE  IsBatch(batch)
<1> DEFINE found == ReportCandidates(valid, plugin, label)
<1>1. found \subseteq Offer /\ found \subseteq Offers
  BY OffersAssumption DEF ReportCandidates
<1>2. batch \in [{o.fp : o \in found} -> found]
  BY DEF Batches
<1>3. \A o \in Offer : o.fp \in Fingerprint
  BY DEF Offer
<1> QED
  BY <1>1, <1>2, <1>3 DEF IsBatch

\* An admitted offer is a candidate in rotation with a clean record
\* (pool.go 45-48 and 75-78).
LEMMA AdmittedCandidate ==
    ASSUME NEW o \in Offers
    PROVE  /\ Admitted(o) \in Candidate
           /\ Admitted(o).status = "available"
           /\ Admitted(o).failures = 0
<1>1. o \in Offer
  BY OffersAssumption
<1>2. 0 \in 0 .. MaxFailures
  BY BoundsAssumption
<1> QED
  BY <1>1, <1>2 DEF Offer, Admitted, Candidate, Statuses

\* AddValidated and ReplaceValidatedMatching keep the invariant, whichever
\* candidates the refresh replaces (pool.go 40-124).
LEMMA UpsertInv ==
    ASSUME PoolInv, NEW batch, NEW gone, IsBatch(batch),
           Upsert(batch, gone)
    PROVE  PoolInv'
<1> DEFINE kept == DOMAIN items \ gone
           new  == DOMAIN batch \ kept
           all  == kept \cup DOMAIN batch
<1>1. /\ items' = [fp \in all |-> IF fp \in DOMAIN batch THEN Admitted(batch[fp])
                                                         ELSE items[fp]]
      /\ \E s \in Agreeing(kept, order), t \in Enumerations(new) : order' = s \o t
      /\ dialers' = (dialers \ gone) \cup (DOMAIN batch \cap BoxFingerprint)
      /\ rr' = rr
      /\ evicted' = evicted \ (gone \cup DOMAIN batch)
  BY DEF Upsert
<1>2. /\ DOMAIN items \subseteq Fingerprint
      /\ items \in [DOMAIN items -> Candidate]
      /\ rr \in 0 .. RRModulus - 1
      /\ dialers \subseteq Fingerprint
      /\ evicted \subseteq Fingerprint
  BY DEF PoolInv, TypeOK
<1>3. DOMAIN items' = all /\ all \subseteq Fingerprint
  BY <1>1, <1>2 DEF IsBatch
<1>4. \A fp \in DOMAIN batch : items'[fp] = Admitted(batch[fp])
  BY <1>1
<1>5. \A fp \in all \ DOMAIN batch :
         /\ fp \in kept
         /\ items'[fp] = items[fp]
  BY <1>1
<1>6. order' \in Enumerations(all)
  <2>1. IsFiniteSet(kept) /\ IsFiniteSet(new)
    BY <1>2, FingerprintAssumption, FS_Subset DEF IsBatch
  <2>2. PICK s \in Agreeing(kept, order), t \in Enumerations(new) : order' = s \o t
    BY <1>1
  <2>3. s \in Enumerations(kept)
    BY AgreeingIsEnumeration
  <2>4. kept \cap new = {} /\ kept \cup new = all
    OBVIOUS
  <2> HIDE DEF kept, new, all
  <2>5. s \o t \in Enumerations(kept \cup new)
    BY <2>1, <2>2, <2>3, <2>4, EnumerationConcat
  <2> QED
    BY <2>2, <2>4, <2>5
<1>7. TypeOK'
  <2>1. \A fp \in all : items'[fp] \in Candidate
    BY <1>2, <1>4, <1>5, AdmittedCandidate DEF IsBatch
  <2>2. items' \in [all -> Candidate]
    BY <1>1, <2>1
  <2>3. order' \in Seq(Fingerprint)
    <3>1. IsFiniteSet(all)
      BY <1>3, FingerprintAssumption, FS_Subset
    <3>2. order' \in Seq(all)
      BY <1>6, <3>1, EnumerationIsSeq
    <3> QED
      BY <1>3, <3>2, SeqMonotonic
  <2>4. dialers' \subseteq Fingerprint
    BY <1>1, <1>2 DEF IsBatch
  <2>5. evicted' \subseteq Fingerprint
    BY <1>1, <1>2
  <2> QED
    BY <1>1, <1>2, <1>3, <2>2, <2>3, <2>4, <2>5 DEF TypeOK
<1>8. OrderEnumeratesItems'
  BY <1>3, <1>6 DEF OrderEnumeratesItems
<1>9. AvailableBelowThreshold'
  <2> SUFFICES ASSUME NEW fp \in all, IsAvailable(fp)'
               PROVE  items'[fp].failures < MaxFailures
    BY <1>3 DEF AvailableBelowThreshold
  <2>1. CASE fp \in DOMAIN batch
    BY <1>4, <2>1, AdmittedCandidate, BoundsAssumption DEF IsBatch
  <2>2. CASE fp \notin DOMAIN batch
    BY <1>5, <2>2 DEF IsAvailable, PoolInv, AvailableBelowThreshold
  <2> QED
    BY <2>1, <2>2
<1>10. AvailableBoxHasDialer'
  <2> SUFFICES ASSUME NEW fp \in BoxFingerprint, IsAvailable(fp)'
               PROVE  fp \in dialers'
    BY DEF AvailableBoxHasDialer
  <2>1. CASE fp \in DOMAIN batch
    BY <1>1, <2>1
  <2>2. CASE fp \notin DOMAIN batch
    BY <1>1, <1>3, <1>5, <2>2 DEF IsAvailable, PoolInv, AvailableBoxHasDialer
  <2> QED
    BY <2>1, <2>2
<1>11. DialersHaveItems'
  BY <1>1, <1>3 DEF DialersHaveItems, PoolInv
<1>12. EvictedUntilValidated'
  <2> SUFFICES ASSUME NEW fp \in evicted', fp \in all
               PROVE  items'[fp].status # "available"
    BY <1>3 DEF EvictedUntilValidated, IsAvailable
  <2>1. fp \in evicted /\ fp \notin DOMAIN batch
    BY <1>1
  <2>2. fp \in DOMAIN items /\ items'[fp] = items[fp]
    BY <1>5, <2>1
  <2> QED
    BY <2>1, <2>2 DEF PoolInv, EvictedUntilValidated, IsAvailable
<1> QED
  BY <1>7, <1>8, <1>9, <1>10, <1>11, <1>12 DEF PoolInv

-----------------------------------------------------------------------------
(* Picks, outcomes and restart. *)

\* A pick moves nothing but the counter, which stays in range
\* (pool.go 217-295).
LEMMA PickInv ==
    ASSUME PoolInv, NEW route, NEW exclude, NEW percent, NEW result,
           \/ PickMatchingExcluding(route, exclude, result)
           \/ PickMatchingPercentExcluding(route, exclude, percent, result)
    PROVE  PoolInv'
<1>1. /\ rr \in Nat /\ rr \in 0 .. RRModulus - 1
      /\ Len(order) \in Nat
      /\ RRModulus \in Nat \ {0}
  BY BoundsAssumption, LenProperties DEF PoolInv, TypeOK
<1>2. \A k \in Nat : k % RRModulus \in 0 .. RRModulus - 1
  BY <1>1
<1>3. ASSUME PickMatchingExcluding(route, exclude, result)
      PROVE  UNCHANGED <<items, order, dialers, evicted>> /\ rr' \in 0 .. RRModulus - 1
  <2> USE <1>3
  <2>1. \/ rr' = rr
        \/ rr' = (rr + Len(order)) % RRModulus
        \/ \E a \in 0 .. Len(order) - 1 : rr' = (rr + a + 1) % RRModulus
    BY DEF PickMatchingExcluding
  <2>2. ASSUME NEW a \in 0 .. Len(order) - 1
        PROVE  rr + a + 1 \in Nat
    BY <1>1
  <2>3. rr + Len(order) \in Nat
    BY <1>1
  <2> QED
    BY <1>1, <1>2, <2>1, <2>2, <2>3 DEF PickMatchingExcluding
<1>4. UNCHANGED <<items, order, dialers, evicted>> /\ rr' \in 0 .. RRModulus - 1
  <2>1. CASE PickMatchingExcluding(route, exclude, result)
    BY <1>3, <2>1
  <2>2. CASE /\ UNCHANGED <<items, order, dialers, evicted>>
             /\ rr' = rr \/ rr' = (rr + 1) % RRModulus
    <3>1. rr + 1 \in Nat
      BY <1>1
    <3> QED
      BY <1>1, <1>2, <2>2, <3>1
  <2> QED
    BY <2>1, <2>2 DEF PickMatchingPercentExcluding
<1> QED
  BY <1>4 DEF PoolInv, TypeOK, OrderEnumeratesItems, AvailableBelowThreshold,
     AvailableBoxHasDialer, DialersHaveItems, EvictedUntilValidated, IsAvailable

\* Marks and restarts change candidates one by one: enough that each stays a
\* candidate, below the threshold if in rotation, and that none returns to
\* rotation (pool.go 297-328).
LEMMA RecordInv ==
    ASSUME PoolInv,
           DOMAIN items' = DOMAIN items,
           items' \in [DOMAIN items -> Candidate],
           UNCHANGED order,
           rr' \in 0 .. RRModulus - 1,
           dialers' \subseteq dialers,
           evicted' \subseteq evicted \cup OutOfRotation(items'),
           \A fp \in DOMAIN items : items'[fp].status = "available" =>
               /\ items[fp].status = "available"
               /\ items'[fp].failures < MaxFailures
               /\ fp \in dialers \cap BoxFingerprint => fp \in dialers'
    PROVE  PoolInv'
<1>1. TypeOK' /\ OrderEnumeratesItems' /\ DialersHaveItems'
  BY DEF PoolInv, TypeOK, OrderEnumeratesItems, DialersHaveItems, OutOfRotation
<1>2. AvailableBelowThreshold'
  BY DEF AvailableBelowThreshold, IsAvailable
<1>3. AvailableBoxHasDialer'
  BY DEF PoolInv, AvailableBoxHasDialer, IsAvailable
<1>4. EvictedUntilValidated'
  <2> SUFFICES ASSUME NEW fp \in evicted', fp \in DOMAIN items,
                      items'[fp].status = "available"
               PROVE  FALSE
    BY DEF EvictedUntilValidated, IsAvailable
  <2>1. fp \in evicted
    BY DEF OutOfRotation
  <2>2. IsAvailable(fp)
    BY DEF IsAvailable
  <2> QED
    BY <2>1, <2>2 DEF PoolInv, EvictedUntilValidated
<1> QED
  BY <1>1, <1>2, <1>3, <1>4 DEF PoolInv

\* MarkFailure evicts at the threshold (pool.go 297-312).
LEMMA MarkFailureInv ==
    ASSUME PoolInv, NEW fp \in Fingerprint, MarkFailure(fp)
    PROVE  PoolInv'
<1>1. /\ items \in [DOMAIN items -> Candidate]
      /\ UNCHANGED <<order, rr, dialers>>
      /\ rr \in 0 .. RRModulus - 1
      /\ evicted' = evicted \cup OutOfRotation(items')
      /\ \A g \in DOMAIN items : items[g].status = "available" =>
           items[g].failures < MaxFailures
  BY DEF PoolInv, TypeOK, MarkFailure, AvailableBelowThreshold, IsAvailable
<1>2. CASE fp \notin DOMAIN items
  <2>1. items' = items
    BY <1>2 DEF MarkFailure
  <2> QED
    BY <1>1, <2>1, RecordInv
<1>3. CASE fp \in DOMAIN items
  <2> DEFINE n == IF items[fp].failures < MaxFailures
                    THEN items[fp].failures + 1 ELSE MaxFailures
             new == [items[fp] EXCEPT
                       !.failures = n,
                       !.status = IF n >= MaxFailures THEN "unavailable" ELSE @]
  <2>1. items' = [items EXCEPT ![fp] = new]
    BY <1>3 DEF MarkFailure
  <2>2. items[fp] \in Candidate
    BY <1>1, <1>3
  <2>3. n \in 0 .. MaxFailures
    BY <2>2, BoundsAssumption DEF Candidate
  <2>4. new \in Candidate
    BY <2>2, <2>3 DEF Candidate, Statuses
  <2>5. new.status = "available" =>
           items[fp].status = "available" /\ new.failures < MaxFailures
    BY <2>2, <2>3, BoundsAssumption DEF Candidate
  <2> HIDE DEF n, new
  <2>6. /\ DOMAIN items' = DOMAIN items
        /\ items' \in [DOMAIN items -> Candidate]
        /\ items'[fp] = new
        /\ \A g \in DOMAIN items \ {fp} : items'[g] = items[g]
    BY <1>1, <1>3, <2>1, <2>4
  <2>7. \A g \in DOMAIN items : items'[g].status = "available" =>
           items[g].status = "available" /\ items'[g].failures < MaxFailures
    BY <1>1, <2>5, <2>6
  <2> QED
    BY <1>1, <2>6, <2>7, RecordInv
<1> QED
  BY <1>2, <1>3

\* MarkSuccess clears the count of a candidate in rotation (pool.go 314-328).
LEMMA MarkSuccessInv ==
    ASSUME PoolInv, NEW fp \in Fingerprint, MarkSuccess(fp)
    PROVE  PoolInv'
<1>1. /\ items \in [DOMAIN items -> Candidate]
      /\ UNCHANGED <<order, rr, dialers, evicted>>
      /\ rr \in 0 .. RRModulus - 1
  BY DEF PoolInv, TypeOK, MarkSuccess
<1>2. \A g \in DOMAIN items : items[g].status = "available" =>
         items[g].failures < MaxFailures
  BY DEF PoolInv, AvailableBelowThreshold, IsAvailable
<1>3. CASE ~IsAvailable(fp)
  BY <1>1, <1>2, <1>3, RecordInv DEF MarkSuccess
<1>4. CASE IsAvailable(fp)
  <2>1. /\ fp \in DOMAIN items
        /\ items' = [items EXCEPT ![fp].failures = 0]
    BY <1>4 DEF MarkSuccess, IsAvailable
  <2>2. [items[fp] EXCEPT !.failures = 0] \in Candidate
    BY <1>1, <2>1, BoundsAssumption DEF Candidate
  <2>3. items' \in [DOMAIN items -> Candidate]
    BY <1>1, <2>1, <2>2
  <2>4. \A g \in DOMAIN items :
           /\ items'[g].status = items[g].status
           /\ items'[g].failures = 0 \/ items'[g].failures = items[g].failures
    BY <1>1, <2>1 DEF Candidate
  <2> QED
    BY <1>1, <1>2, <2>3, <2>4, RecordInv, BoundsAssumption
<1> QED
  BY <1>3, <1>4

\* A restart takes the sing-box candidates out of rotation together with their
\* dialers (storage.go 55-61, pool.go 23-38).
LEMMA RestartInv ==
    ASSUME PoolInv, Restart
    PROVE  PoolInv'
<1>1. /\ items' = [fp \in DOMAIN items |-> Loaded(fp, items[fp])]
      /\ order' = order /\ rr' = 0 /\ dialers' = {}
      /\ evicted' = evicted \cup OutOfRotation(items')
  BY DEF Restart, Load
<1>2. items \in [DOMAIN items -> Candidate]
  BY DEF PoolInv, TypeOK
<1>3. ASSUME NEW fp \in DOMAIN items
      PROVE  /\ Loaded(fp, items[fp]) \in Candidate
             /\ Loaded(fp, items[fp]).status = "available" =>
                  fp \notin BoxFingerprint /\ Loaded(fp, items[fp]) = items[fp]
  BY <1>2 DEF Loaded, Candidate, Statuses
<1>4. items' \in [DOMAIN items -> Candidate]
  BY <1>1, <1>3
<1>5. 0 \in 0 .. RRModulus - 1
  BY BoundsAssumption
<1>6. \A fp \in DOMAIN items : items'[fp].status = "available" =>
         /\ items[fp].status = "available"
         /\ items'[fp].failures < MaxFailures
         /\ fp \notin BoxFingerprint
  BY <1>1, <1>3 DEF PoolInv, AvailableBelowThreshold, IsAvailable
<1> QED
  BY <1>1, <1>4, <1>5, <1>6, RecordInv

-----------------------------------------------------------------------------
(* The theorems. *)

LEMMA InitInv == Init => PoolInv
<1> SUFFICES ASSUME Init PROVE PoolInv
  OBVIOUS
<1>1. /\ DOMAIN items = {} /\ order = <<>> /\ rr = 0
      /\ dialers = {} /\ evicted = {}
  BY DEF Init
<1>2. TypeOK
  BY <1>1, BoundsAssumption DEF Init, TypeOK
<1>3. OrderEnumeratesItems
  BY <1>1, FS_EmptySet DEF OrderEnumeratesItems, Enumerations
<1>4. /\ AvailableBelowThreshold /\ AvailableBoxHasDialer
      /\ DialersHaveItems /\ EvictedUntilValidated
  BY <1>1 DEF AvailableBelowThreshold, AvailableBoxHasDialer, DialersHaveItems,
     EvictedUntilValidated, IsAvailable
<1> QED
  BY <1>2, <1>3, <1>4 DEF PoolInv

LEMMA NextInv == PoolInv /\ [Next]_poolVars => PoolInv'
<1> SUFFICES ASSUME PoolInv, [Next]_poolVars PROVE PoolInv'
  OBVIOUS
<1>1. CASE Refresh
  <2>1. PICK plugin \in Plugin, label \in Label \cup {NoLabel}, failed \in BOOLEAN,
             valid \in SUBSET Offers : ApplyReport(valid, plugin, label, failed)
    BY <1>1 DEF Refresh, Findings
  <2>2. PICK batch \in Batches(ReportCandidates(valid, plugin, label)) :
           \E gone : Upsert(batch, gone)
    BY <2>1 DEF ApplyReport, AddValidated, ReplaceValidatedMatching
  <2>3. IsBatch(batch)
    BY ReportCandidatesIsBatch
  <2> QED
    BY <2>2, <2>3, UpsertInv
<1>2. CASE Pick
  BY <1>2, PickInv DEF Pick
<1>3. CASE Outcome
  BY <1>3, MarkFailureInv, MarkSuccessInv DEF Outcome
<1>4. CASE Restart
  BY <1>4, RestartInv
<1>5. CASE UNCHANGED poolVars
  BY <1>5 DEF PoolInv, poolVars, TypeOK, OrderEnumeratesItems, IsAvailable,
     AvailableBelowThreshold, AvailableBoxHasDialer, DialersHaveItems,
     EvictedUntilValidated
<1> QED
  BY <1>1, <1>2, <1>3, <1>4, <1>5 DEF Next

\* The six invariants of the pool hold in every reachable state.
THEOREM PoolInvariance == Spec => []PoolInv
<1>1. Init => PoolInv
  BY InitInv
<1>2. PoolInv /\ [Next]_poolVars => PoolInv'
  BY NextInv
<1> QED
  BY <1>1, <1>2, PTL DEF Spec

\* The pool's fields keep their types (pool.go 10-17).
THEOREM PoolTypeCorrect == Spec => []TypeOK
BY PoolInvariance, PTL DEF PoolInv

\* The order slice always lists the items map once (pool.go 32-35, 49-57,
\* 89-115).
THEOREM PoolOrder == Spec => []OrderEnumeratesItems
BY PoolInvariance, PTL DEF PoolInv

\* No candidate in rotation has reached max_failures (pool.go 297-328).
THEOREM PoolEviction == Spec => []AvailableBelowThreshold
BY PoolInvariance, PTL DEF PoolInv

\* Every sing-box candidate in rotation has its dialer, across refreshes and
\* restarts (storage.go 55-61, pool.go 40-124).
THEOREM PoolBoxDialers == Spec => []AvailableBoxHasDialer
BY PoolInvariance, PTL DEF PoolInv

\* No dialer stays without its candidate (pool.go 98-103).
THEOREM PoolDialerLeak == Spec => []DialersHaveItems
BY PoolInvariance, PTL DEF PoolInv

\* A candidate that went out of rotation is not available before a refresh has
\* validated it again, whatever picks, late outcomes, refreshes of other
\* sources and restarts come between (pool.go 89-124, 297-328, storage.go 55-61).
THEOREM PoolEvictedUntilValidated == Spec => []EvictedUntilValidated
BY PoolInvariance, PTL DEF PoolInv

-----------------------------------------------------------------------------
(* The scheduling order. *)

\* A listing of a finite set holds each of its elements once.
LEMMA ListedOnce ==
    ASSUME NEW S, IsFiniteSet(S), NEW s \in Enumerations(S)
    PROVE  /\ DOMAIN s = 1 .. Len(s) /\ Len(s) \in Nat
           /\ \A i \in 1 .. Len(s) : s[i] \in S
           /\ \A i, j \in 1 .. Len(s) : s[i] = s[j] => i = j
           /\ \A x \in S : \E i \in 1 .. Len(s) : s[i] = x
<1>1. s \in Seq(S)
  BY EnumerationIsSeq
<1>2. DOMAIN s = 1 .. Len(s) /\ Len(s) \in Nat /\ s \in [1 .. Len(s) -> S]
  BY <1>1, LenProperties
<1> QED
  BY <1>2 DEF Enumerations

\* An admission that overwrites in place keeps the order of the candidates
\* that stay (pool.go 49-57 and 89-115).
LEMMA UpsertKeepsOrder ==
    ASSUME PoolInv, NEW batch, NEW gone, gone \cap DOMAIN batch = {},
           IsBatch(batch), Upsert(batch, gone),
           NEW i \in DOMAIN order, NEW j \in DOMAIN order, i < j,
           NEW a \in DOMAIN order', NEW b \in DOMAIN order',
           order'[a] = order[i], order'[b] = order[j]
    PROVE  a < b
<1> DEFINE kept == DOMAIN items \ gone
           new  == DOMAIN batch \ kept
<1>1. PICK s \in Agreeing(kept, order), t \in Enumerations(new) : order' = s \o t
  BY DEF Upsert
<1>2. /\ DOMAIN items \subseteq Fingerprint
      /\ IsFiniteSet(DOMAIN items) /\ IsFiniteSet(kept) /\ IsFiniteSet(new)
  BY FingerprintAssumption, FS_Subset DEF PoolInv, TypeOK, IsBatch
<1>3. /\ DOMAIN order = 1 .. Len(order) /\ Len(order) \in Nat
      /\ \A p \in 1 .. Len(order) : order[p] \in DOMAIN items
      /\ \A p, q \in 1 .. Len(order) : order[p] = order[q] => p = q
  BY <1>2, ListedOnce DEF PoolInv, OrderEnumeratesItems
<1>4. s \in Enumerations(kept)
  BY AgreeingIsEnumeration
<1>5. /\ s \in Seq(kept) /\ t \in Seq(new)
      /\ DOMAIN s = 1 .. Len(s) /\ Len(s) \in Nat
      /\ DOMAIN t = 1 .. Len(t) /\ Len(t) \in Nat
      /\ \A p \in 1 .. Len(t) : t[p] \in new
  BY <1>2, <1>4, EnumerationIsSeq, ListedOnce
<1>6. \A p, q \in DOMAIN s : p < q =>
         \E c, d \in DOMAIN order : c < d /\ order[c] = s[p] /\ order[d] = s[q]
  BY DEF Agreeing
<1>7. /\ DOMAIN order' = 1 .. Len(s) + Len(t)
      /\ \A p \in 1 .. Len(s) + Len(t) :
           order'[p] = IF p <= Len(s) THEN s[p] ELSE t[p - Len(s)]
  <2> HIDE DEF kept, new
  <2>1. s \in Seq(kept \cup new) /\ t \in Seq(kept \cup new)
    BY <1>5, SeqMonotonic
  <2>2. /\ s \o t \in Seq(kept \cup new)
        /\ Len(s \o t) = Len(s) + Len(t)
        /\ \A p \in 1 .. Len(s) + Len(t) :
             (s \o t)[p] = IF p <= Len(s) THEN s[p] ELSE t[p - Len(s)]
    BY <2>1, ConcatProperties
  <2> QED
    BY <1>1, <2>2, LenProperties
<1>8. ASSUME NEW p \in DOMAIN order', order'[p] \in DOMAIN items
      PROVE  p \in DOMAIN s /\ order'[p] = s[p]
  <2> SUFFICES p <= Len(s)
    BY <1>5, <1>7
  <2> SUFFICES ASSUME ~(p <= Len(s)) PROVE FALSE
    OBVIOUS
  <2>1. p - Len(s) \in 1 .. Len(t) /\ order'[p] = t[p - Len(s)]
    BY <1>5, <1>7
  <2>2. order'[p] \in DOMAIN batch /\ order'[p] \notin kept
    BY <1>5, <2>1
  <2> QED
    BY <1>8, <2>2
<1>9. a \in DOMAIN s /\ b \in DOMAIN s /\ s[a] = order[i] /\ s[b] = order[j]
  BY <1>3, <1>8
<1>10. a # b /\ a \in Nat /\ b \in Nat
  BY <1>3, <1>5, <1>9
<1>11. ASSUME b < a PROVE FALSE
  <2>1. PICK c \in DOMAIN order, d \in DOMAIN order :
           c < d /\ order[c] = order[j] /\ order[d] = order[i]
    BY <1>6, <1>9, <1>11
  <2>2. c = j /\ d = i
    BY <1>3, <2>1
  <2> QED
    BY <1>3, <2>1, <2>2
<1> QED
  BY <1>10, <1>11

\* A step that leaves the order alone keeps every position.
LEMMA SameOrder ==
    ASSUME PoolInv, UNCHANGED order,
           NEW i \in DOMAIN order, NEW j \in DOMAIN order, i < j,
           NEW a \in DOMAIN order', NEW b \in DOMAIN order',
           order'[a] = order[i], order'[b] = order[j]
    PROVE  a < b
<1>1. IsFiniteSet(DOMAIN items)
  BY FingerprintAssumption, FS_Subset DEF PoolInv, TypeOK
<1>2. \A p, q \in DOMAIN order : order[p] = order[q] => p = q
  BY <1>1, ListedOnce DEF PoolInv, OrderEnumeratesItems
<1> QED
  BY <1>2

\* No step reverses two candidates that stay in the pool.
LEMMA OrderKept ==
    ASSUME PoolInv, [Next]_poolVars,
           NEW i \in DOMAIN order, NEW j \in DOMAIN order, i < j,
           NEW a \in DOMAIN order', NEW b \in DOMAIN order',
           order'[a] = order[i], order'[b] = order[j]
    PROVE  a < b
<1>1. CASE Refresh
  <2>1. PICK plugin \in Plugin, label \in Label \cup {NoLabel}, failed \in BOOLEAN,
             valid \in SUBSET Offers : ApplyReport(valid, plugin, label, failed)
    BY <1>1 DEF Refresh, Findings
  <2>2. PICK batch \in Batches(ReportCandidates(valid, plugin, label)) :
           \E gone : gone \cap DOMAIN batch = {} /\ Upsert(batch, gone)
    BY <2>1 DEF ApplyReport, AddValidated, ReplaceValidatedMatching
  <2>3. IsBatch(batch)
    BY ReportCandidatesIsBatch
  <2> QED
    BY <2>2, <2>3, UpsertKeepsOrder
<1>2. UNCHANGED order => a < b
  BY SameOrder
<1>3. CASE Pick
  BY <1>2, <1>3 DEF Pick, PickMatchingExcluding, PickMatchingPercentExcluding
<1>4. CASE Outcome
  BY <1>2, <1>4 DEF Outcome, MarkFailure, MarkSuccess
<1>5. CASE Restart
  BY <1>2, <1>5 DEF Restart, Load
<1>6. CASE UNCHANGED poolVars
  BY <1>2, <1>6 DEF poolVars
<1> QED
  BY <1>1, <1>3, <1>4, <1>5, <1>6 DEF Next

\* A refresh or a restart does not reshuffle the rotation (pool.go 89-109).
THEOREM PoolSurvivorsKeepOrder == Spec => SurvivorsKeepOrder
<1>1. PoolInv /\ [Next]_poolVars =>
        [\A i, j \in DOMAIN order : i < j =>
            \A a, b \in DOMAIN order' :
                order'[a] = order[i] /\ order'[b] = order[j] => a < b]_poolVars
  BY OrderKept
<1> QED
  BY <1>1, PoolInvariance, PTL DEF Spec, SurvivorsKeepOrder

-----------------------------------------------------------------------------
(* The fast pool. *)

\* A set of naturals that is not empty has a least element.
LEMMA LeastNat ==
    ASSUME NEW T \in SUBSET Nat, T # {}
    PROVE  \E n \in T : \A m \in T : n <= m
<1>1. \E n \in T : \A m \in T : ~(<<m, n>> \in OpToRel(<, Nat))
  BY NatLessThanWellFounded, WFMin
<1>2. PICK n \in T : \A m \in T : ~(<<m, n>> \in OpToRel(<, Nat))
  BY <1>1
<1>3. ASSUME NEW m \in T, ~(n <= m) PROVE FALSE
  <2>1. <<m, n>> \in OpToRel(<, Nat)
    BY <1>3 DEF OpToRel
  <2> QED
    BY <1>2, <2>1
<1> QED
  BY <1>2, <1>3

\* Every candidate of the pool has one position in the order.
LEMMA PositionOf ==
    ASSUME PoolInv, NEW fp \in DOMAIN items
    PROVE  /\ Position(fp) \in DOMAIN order /\ Position(fp) \in Nat
           /\ order[Position(fp)] = fp
           /\ DOMAIN order = 1 .. Len(order) /\ Len(order) \in Nat
<1>1. IsFiniteSet(DOMAIN items)
  BY FingerprintAssumption, FS_Subset DEF PoolInv, TypeOK
<1>2. /\ DOMAIN order = 1 .. Len(order) /\ Len(order) \in Nat
      /\ \E i \in DOMAIN order : order[i] = fp
  BY <1>1, ListedOnce DEF PoolInv, OrderEnumeratesItems
<1> QED
  BY <1>2 DEF Position

\* The order of the stable sort: g comes before f (pool.go 240-252).
Ahead(g, f) ==
    \/ Faster(g, f)
    \/ ~Faster(f, g) /\ Position(g) < Position(f)

\* The stable sort by latency leaves no choice: candidates of equal latency
\* stay in scheduling order, and unknown latencies come last.
LEMMA AheadIsTotalOrder ==
    ASSUME PoolInv
    PROVE  /\ \A f \in DOMAIN items : ~Ahead(f, f)
           /\ \A f, g \in DOMAIN items : f # g => Ahead(f, g) \/ Ahead(g, f)
           /\ \A f, g, h \in DOMAIN items :
                Ahead(f, g) /\ Ahead(g, h) => Ahead(f, h)
<1>1. \A f \in DOMAIN items : items[f].latency \in Nat
  BY DEF PoolInv, TypeOK, Candidate
<1>2. \A f \in DOMAIN items : Position(f) \in Nat /\ order[Position(f)] = f
  BY PositionOf
<1>3. ASSUME NEW f \in DOMAIN items, NEW g \in DOMAIN items, f # g
      PROVE  Ahead(f, g) \/ Ahead(g, f)
  <2>1. Position(f) # Position(g)
    BY <1>2, <1>3
  <2> QED
    BY <1>1, <1>2, <2>1 DEF Ahead, Faster
<1>4. \A f \in DOMAIN items : ~Ahead(f, f)
  BY <1>1, <1>2 DEF Ahead, Faster
<1>5. \A f, g, h \in DOMAIN items : Ahead(f, g) /\ Ahead(g, h) => Ahead(f, h)
  BY <1>1, <1>2 DEF Ahead, Faster
<1> QED
  BY <1>3, <1>4, <1>5

\* The index after the sort grows along that order.
LEMMA RankFollowsOrder ==
    ASSUME PoolInv, NEW E \in SUBSET DOMAIN items
    PROVE  /\ IsFiniteSet(E)
           /\ \A f \in E : LatencyRank(f, E) \in Nat
           /\ \A f, g \in E : Ahead(g, f) =>
                LatencyRank(g, E) < LatencyRank(f, E)
           /\ \A f \in E : (\A g \in E : ~Ahead(g, f)) => LatencyRank(f, E) = 0
<1> DEFINE Before(f) == {g \in E : Ahead(g, f)}
<1>1. IsFiniteSet(E)
  BY FingerprintAssumption, FS_Subset DEF PoolInv, TypeOK
<1>2. \A f \in E : LatencyRank(f, E) = Cardinality(Before(f))
  BY DEF LatencyRank, Ahead
<1>3. \A f \in E : IsFiniteSet(Before(f)) /\ Cardinality(Before(f)) \in Nat
  BY <1>1, FS_Subset, FS_CardinalityType
<1>4. ASSUME NEW f \in E, NEW g \in E, Ahead(g, f)
      PROVE  LatencyRank(g, E) < LatencyRank(f, E)
  <2>1. Before(g) \subseteq Before(f)
    BY <1>4, AheadIsTotalOrder
  <2>2. g \in Before(f) /\ g \notin Before(g)
    BY <1>4, AheadIsTotalOrder
  <2>3. /\ Cardinality(Before(g)) <= Cardinality(Before(f))
        /\ Cardinality(Before(f)) # Cardinality(Before(g))
    <3> HIDE DEF Before
    <3> QED
      BY <1>3, <2>1, <2>2, FS_Subset
  <2> HIDE DEF Before
  <2> QED
    BY <1>2, <1>3, <2>3
<1>5. ASSUME NEW f \in E, \A g \in E : ~Ahead(g, f)
      PROVE  LatencyRank(f, E) = 0
  <2>1. Before(f) = {}
    BY <1>5
  <2> HIDE DEF Before
  <2> QED
    BY <1>2, <2>1, FS_EmptySet
<1> HIDE DEF Before
<1> QED
  BY <1>1, <1>2, <1>3, <1>4, <1>5

\* What the two cuts of the sorted list give: the share, and never zero
\* (pool.go 254-256).
LEMMA FastKeepShare ==
    ASSUME NEW E, IsFiniteSet(E), NEW percent \in 1 .. 100
    PROVE  LET keep == FastKeep(E, percent)
           IN  /\ keep \in Nat /\ keep >= 1
               /\ keep > 1 => 100 * keep <= percent * Cardinality(E)
<1>1. Cardinality(E) \in Nat
  BY FS_CardinalityType
<1> DEFINE x == Cardinality(E) * percent
<1>2. x \in Nat /\ x = percent * Cardinality(E)
  BY <1>1
<1> HIDE DEF x
<1>3. x \div 100 \in Nat /\ 100 * (x \div 100) <= x
  BY <1>2
<1> QED
  BY <1>2, <1>3 DEF FastKeep, x

\* The three promises of the fast pool for one eligible set.
LEMMA FastSetSound ==
    ASSUME PoolInv, NEW E \in SUBSET DOMAIN items, NEW percent \in 1 .. 100
    PROVE  LET fast == FastSet(E, percent)
           IN  /\ fast = {} <=> E = {}
               /\ \A f \in fast, g \in E \ fast : ~Faster(g, f)
               /\ Cardinality(fast) > 1 =>
                    100 * Cardinality(fast) <= percent * Cardinality(E)
<1> DEFINE fast == FastSet(E, percent)
           keep == FastKeep(E, percent)
           Rank(f) == LatencyRank(f, E)
<1>1. /\ IsFiniteSet(E)
      /\ \A f \in E : Rank(f) \in Nat
      /\ \A f, g \in E : Ahead(g, f) => Rank(g) < Rank(f)
      /\ \A f \in E : (\A g \in E : ~Ahead(g, f)) => Rank(f) = 0
  BY RankFollowsOrder
<1>2. /\ keep \in Nat /\ keep >= 1
      /\ keep > 1 => 100 * keep <= percent * Cardinality(E)
  BY <1>1, FastKeepShare
<1>3. fast = {f \in E : Rank(f) < keep}
  BY DEF FastSet
<1>4. \A f, g \in E : f # g => Ahead(f, g) \/ Ahead(g, f)
  BY AheadIsTotalOrder
<1>5. \A f, g \in E : Faster(g, f) => Ahead(g, f)
  BY DEF Ahead
<1> HIDE DEF fast, keep, Rank
<1>6. ASSUME E # {} PROVE fast # {}
  <2> DEFINE ranks == {Rank(f) : f \in E}
  <2>1. ranks \in SUBSET Nat /\ ranks # {} /\ \A g \in E : Rank(g) \in ranks
    BY <1>1, <1>6
  <2>2. PICK f \in E : \A n \in ranks : Rank(f) <= n
    <3>1. \A n \in ranks : \E f \in E : n = Rank(f)
      OBVIOUS
    <3> HIDE DEF ranks
    <3> QED
      BY <2>1, <3>1, LeastNat
  <2>3. ASSUME NEW g \in E, Ahead(g, f) PROVE FALSE
    <3>1. Rank(g) < Rank(f) /\ Rank(g) \in Nat /\ Rank(f) \in Nat
      BY <1>1, <2>3
    <3>2. Rank(f) <= Rank(g)
      BY <2>1, <2>2
    <3> QED
      BY <3>1, <3>2
  <2>4. Rank(f) = 0
    BY <1>1, <2>3
  <2> QED
    BY <1>2, <1>3, <2>4
<1>7. ASSUME NEW f \in fast, NEW g \in E \ fast PROVE ~Faster(g, f)
  BY <1>1, <1>2, <1>3, <1>5, <1>7
<1>8. IsFiniteSet(fast) /\ Cardinality(fast) \in Nat /\ Cardinality(fast) <= keep
  <2> DEFINE index == [f \in fast |-> Rank(f)]
  <2>1. index \in [fast -> 0 .. keep - 1]
    BY <1>1, <1>2, <1>3
  <2>2. \A f, g \in fast : index[f] = index[g] => f = g
    BY <1>1, <1>3, <1>4
  <2>3. index \in Injection(fast, 0 .. keep - 1)
    BY <2>1, <2>2 DEF Injection, IsInjective
  <2>4. IsFiniteSet(0 .. keep - 1) /\ Cardinality(0 .. keep - 1) = keep
    <3>1. 0 \in Int /\ keep - 1 \in Int /\ ~(0 > keep - 1) /\ (keep - 1) - 0 + 1 = keep
      BY <1>2
    <3> QED
      BY <3>1, FS_Interval
  <2> QED
    BY <2>3, <2>4, FS_Injection, FS_CardinalityType
<1>9. Cardinality(E) \in Nat
  BY <1>1, FS_CardinalityType
<1>10. Cardinality(fast) > 1 =>
          100 * Cardinality(fast) <= percent * Cardinality(E)
  BY <1>2, <1>8, <1>9
<1> QED
  BY <1>3, <1>6, <1>7, <1>10 DEF fast

\* The fast pool is the fastest share of the eligible candidates, for every
\* request and every percentage (pool.go 222-256).
THEOREM PoolFastPool == Spec => []FastPoolSound
<1>1. PoolInv => FastPoolSound
  <2> SUFFICES ASSUME PoolInv, NEW route \in Route, NEW exclude \in SUBSET DOMAIN items
               PROVE  LET eligible == Eligible(route, exclude)
                          fast     == FastSet(eligible, FastPercent)
                      IN  /\ fast = {} <=> eligible = {}
                          /\ \A f \in fast, g \in eligible \ fast : ~Faster(g, f)
                          /\ Cardinality(fast) > 1 => 100 * Cardinality(fast)
                                         <= FastPercent * Cardinality(eligible)
    BY DEF FastPoolSound
  <2>1. Eligible(route, exclude) \in SUBSET DOMAIN items
    BY DEF Eligible
  <2> QED
    BY <2>1, FastSetSound, BoundsAssumption
<1> QED
  BY <1>1, PoolInvariance, PTL
=============================================================================
