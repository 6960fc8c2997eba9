--------------------------- MODULE RotationProofs ---------------------------
(* Proofs about PoolRotation: under round-robin no candidate in rotation    *)
(* waits longer than one round, for every pool and every history of         *)
(* refreshes, evictions and restarts.                                       *)
EXTENDS PoolRotation, PoolProofs

-----------------------------------------------------------------------------
(* Arithmetic of the shared counter. *)

\* Division with remainder.
LEMMA DivMod ==
    ASSUME NEW x \in Nat, NEW n \in Nat \ {0}
    PROVE  /\ x \div n \in Nat
           /\ x % n \in 0 .. n - 1
           /\ x = n * (x \div n) + (x % n)
OBVIOUS

\* A remainder is unique.
LEMMA RemainderUnique ==
    ASSUME NEW n \in Nat \ {0}, NEW j \in Nat, NEW k \in Nat,
           NEW p \in 0 .. n - 1, NEW q \in 0 .. n - 1,
           n * j + p = n * k + q
    PROVE  p = q
<1>1. n * (j - k) = q - p
  OBVIOUS
<1>2. CASE j - k >= 1
  BY <1>1, <1>2, n * (j - k) >= n * 1
<1>3. CASE k - j >= 1
  BY <1>1, <1>3, n * (k - j) >= n * 1
<1> QED
  BY <1>1, <1>2, <1>3

LEMMA RemainderOf ==
    ASSUME NEW n \in Nat \ {0}, NEW k \in Nat, NEW p \in 0 .. n - 1
    PROVE  (n * k + p) % n = p
<1> DEFINE x == n * k + p
<1>1. x \in Nat
  OBVIOUS
<1> HIDE DEF x
<1>2. x = n * (x \div n) + (x % n) /\ x \div n \in Nat /\ x % n \in 0 .. n - 1
  BY <1>1, DivMod
<1>3. x % n = p
  BY <1>2, RemainderUnique DEF x
<1> QED
  BY <1>3 DEF x

\* A counter kept modulo a multiple of n scans a list of n like one that is
\* not (the % len(p.order) of pool.go 271).
LEMMA CounterWraps ==
    ASSUME NEW n \in Nat \ {0}, NEW m \in Nat \ {0}, m % n = 0,
           NEW x \in Nat, NEW y \in Nat
    PROVE  ((x % m) + y) % n = (x + y) % n
<1> DEFINE q == x \div m
           r == x % m
           k == m \div n
           s == (r + y) \div n
           t == (r + y) % n
<1>1. q \in Nat /\ r \in Nat /\ x = m * q + r
  BY DivMod
<1>2. k \in Nat /\ m = n * k
  BY DivMod
<1> HIDE DEF q, r, k
<1>3. s \in Nat /\ t \in 0 .. n - 1 /\ r + y = n * s + t
  <2>1. r + y \in Nat
    BY <1>1
  <2> QED
    BY <2>1, DivMod
<1> HIDE DEF s, t
<1>4. x + y = n * (k * q + s) + t
  <2>1. x + y = (n * k) * q + (n * s + t)
    BY <1>1, <1>2, <1>3
  <2>2. (n * k) * q = n * (k * q) /\ k * q \in Nat
    BY <1>1, <1>2
  <2>3. n * (k * q + s) = n * (k * q) + n * s
    BY <2>2, <1>3
  <2> QED
    BY <2>1, <2>2, <2>3, <1>3
<1>5. k * q + s \in Nat
  BY <1>1, <1>2, <1>3
<1>6. (x + y) % n = t
  BY <1>4, <1>5, <1>3, RemainderOf
<1> QED
  BY <1>6 DEF t, r

\* From any position of the counter, each place of the order is reached within
\* one round.
LEMMA PlaceReached ==
    ASSUME NEW n \in Nat \ {0}, NEW x \in Nat, NEW q \in 0 .. n - 1
    PROVE  \E d \in 0 .. n - 1 : (x + d) % n = q
<1> DEFINE k == x \div n
           r == x % n
<1>1. k \in Nat /\ r \in 0 .. n - 1 /\ x = n * k + r
  BY DivMod
<1> HIDE DEF k, r
<1>2. CASE r <= q
  <2>1. q - r \in 0 .. n - 1 /\ x + (q - r) = n * k + q
    BY <1>1, <1>2
  <2> QED
    BY <2>1, <1>1, RemainderOf
<1>3. CASE r > q
  <2>1. /\ n + q - r \in 0 .. n - 1
        /\ n * (k + 1) = n * k + n
        /\ k + 1 \in Nat
    BY <1>1, <1>3
  <2>2. PICK d \in 0 .. n - 1, j \in Nat : d = n + q - r /\ j = k + 1
    BY <2>1
  <2>3. x + d = n * j + q
    BY <1>1, <2>1, <2>2
  <2>4. (x + d) % n = q
    BY <2>2, <2>3, RemainderOf
  <2> QED
    BY <2>2, <2>4
<1> QED
  BY <1>1, <1>2, <1>3

-----------------------------------------------------------------------------
(* The inductive invariant: the scan has still to make d steps to a candidate *)
(* in rotation, and the picks that passed it by and those steps together are  *)
(* less than one round.                                                       *)

\* fp is d steps ahead of the counter.
AheadBy(fp, d) == d \in 0 .. Len(order) - 1 /\ Scan(d) = fp

RoundInv ==
    /\ passed \in [Fingerprint -> Nat]
    /\ \A fp \in DOMAIN items :
          IsAvailable(fp) => \E d \in Nat : AheadBy(fp, d) /\ passed[fp] + d < Len(order)

\* What the invariant of the pool says of the counter and the order.
LEMMA PoolShape ==
    ASSUME PoolInv
    PROVE  /\ rr \in Nat
           /\ Len(order) \in Nat
           /\ RRModulus \in Nat \ {0}
           /\ Len(order) # 0 => RRModulus % Len(order) = 0
           /\ \A fp \in DOMAIN items : fp \in Fingerprint /\ Len(order) # 0
<1>1. /\ IsFiniteSet(DOMAIN items)
      /\ Cardinality(DOMAIN items) <= Cardinality(Fingerprint)
      /\ Cardinality(DOMAIN items) \in Nat /\ Cardinality(Fingerprint) \in Nat
  BY FingerprintAssumption, FS_Subset, FS_CardinalityType DEF PoolInv, TypeOK
<1>2. Len(order) = Cardinality(DOMAIN items)
  BY <1>1, EnumerationIsSeq DEF PoolInv, OrderEnumeratesItems
<1>3. Len(order) # 0 => RRModulus % Len(order) = 0
  BY <1>1, <1>2, RRModulusAssumption
<1>4. \A fp \in DOMAIN items : fp \in Fingerprint /\ Len(order) # 0
  <2> TAKE fp \in DOMAIN items
  <2>1. Position(fp) \in 1 .. Len(order)
    BY PositionOf
  <2> QED
    BY <2>1, <1>1, <1>2 DEF PoolInv, TypeOK
<1> QED
  BY <1>1, <1>2, <1>3, <1>4, BoundsAssumption DEF PoolInv, TypeOK

\* Wherever the counter is, the scan reaches each candidate of the pool.
LEMMA EachIsAhead ==
    ASSUME PoolInv, NEW fp \in DOMAIN items
    PROVE  \E d \in Nat : AheadBy(fp, d) /\ d < Len(order)
<1> DEFINE n == Len(order)
           q == Position(fp) - 1
<1>1. n \in Nat \ {0} /\ rr \in Nat
  BY PoolShape
<1>2. q \in 0 .. n - 1 /\ order[q + 1] = fp
  BY PositionOf
<1> HIDE DEF q
<1>3. PICK d \in 0 .. n - 1 : (rr + d) % n = q
  BY <1>1, <1>2, PlaceReached
<1>4. AheadBy(fp, d) /\ d < Len(order) /\ d \in Nat
  BY <1>1, <1>2, <1>3 DEF AheadBy, Scan
<1> QED
  BY <1>4

\* A pick that advances the counter past a places brings the scan that much
\* nearer to everything behind them (pool.go 270-275).
LEMMA ScanMoves ==
    ASSUME PoolInv, order' = order, NEW a \in Nat, NEW e \in Nat, Len(order) # 0,
           rr' = (rr + a + 1) % RRModulus
    PROVE  Scan(e)' = Scan(a + 1 + e)
<1> DEFINE x == rr + a + 1
           n == Len(order)
<1>1. /\ n \in Nat \ {0} /\ RRModulus \in Nat \ {0} /\ rr \in Nat
      /\ RRModulus % n = 0
  BY PoolShape
<1>2. x \in Nat
  BY <1>1
<1> HIDE DEF x, n
<1>3. ((x % RRModulus) + e) % n = (x + e) % n
  <2>1. \A N, M \in Nat \ {0} : M % N = 0 =>
           \A y, z \in Nat : ((y % M) + z) % N = (y + z) % N
    BY CounterWraps
  <2>2. \A y, z \in Nat : ((y % RRModulus) + z) % n = (y + z) % n
    BY <1>1, <2>1, Zenon
  <2>3. x \in Nat /\ e \in Nat
    BY <1>2
  <2> QED
    BY <2>2, <2>3, Zenon
<1>4. x + e = rr + (a + 1 + e)
  BY <1>1 DEF x
<1>5. rr' = x % RRModulus
  BY DEF x
<1> QED
  BY <1>3, <1>4, <1>5 DEF Scan, n

\* The same for all candidates, so that it can be used of a step's outcome.
AllAhead ==
    \A fp \in DOMAIN items : \E d \in Nat : AheadBy(fp, d) /\ d < Len(order)

LEMMA AllAreAhead == PoolInv => AllAhead
BY EachIsAhead DEF AllAhead

\* A step that resets a candidate's count leaves it within one round.
LEMMA ResetKeepsRound ==
    ASSUME PoolInv', NEW fp \in DOMAIN items', passed'[fp] = 0
    PROVE  \E d \in Nat : AheadBy(fp, d)' /\ passed'[fp] + d < Len(order')
<1>1. PoolInv' => AllAhead'
  BY AllAreAhead, PTL
<1>2. PICK d \in Nat : AheadBy(fp, d)' /\ d < Len(order')
  BY <1>1 DEF AllAhead
<1> QED
  BY <1>2

-----------------------------------------------------------------------------

\* A served request counts against each candidate it passed by, and the scan
\* came at least one place nearer to it.
LEMMA ServeKeepsRound ==
    ASSUME Policy = "round_robin", PoolInv, PoolInv', RoundInv, Serve
    PROVE  RoundInv'
<1>1. PICK result \in Fingerprint \cup {NoCandidate} :
        /\ PickMatchingExcluding(AnyRoute, {}, result)
        /\ passed' = [fp \in Fingerprint |->
                        IF fp = result \/ ~IsAvailable(fp) THEN 0
                                                           ELSE passed[fp] + 1]
  BY DEF Serve
<1>2. items' = items /\ order' = order
  BY <1>1 DEF PickMatchingExcluding
<1>3. passed' \in [Fingerprint -> Nat]
  BY <1>1 DEF RoundInv
<1>4. ASSUME NEW fp \in DOMAIN items, IsAvailable(fp)
      PROVE  \E d \in Nat : AheadBy(fp, d)' /\ passed'[fp] + d < Len(order')
  <2>1. fp \in Fingerprint /\ Len(order) \in Nat \ {0} /\ Len(order) # 0
    BY PoolShape
  <2>2. CASE fp = result
    <3>1. passed'[fp] = 0 /\ fp \in DOMAIN items'
      BY <2>1, <2>2, <1>1, <1>2
    <3> QED
      BY <3>1, ResetKeepsRound
  <2>3. CASE fp # result
    <3>1. fp \in Eligible(AnyRoute, {})
      BY <1>4 DEF Eligible, MatchesRoute, AnyRoute
    <3>2. PICK a \in 0 .. Len(order) - 1 :
            /\ Scan(a) = result
            /\ \A b \in 0 .. a - 1 : Scan(b) \notin Eligible(AnyRoute, {})
            /\ rr' = (rr + a + 1) % RRModulus
      BY <1>1, <3>1 DEF PickMatchingExcluding
    <3>3. PICK d \in Nat : AheadBy(fp, d) /\ passed[fp] + d < Len(order)
      BY <1>4 DEF RoundInv
    <3>4. d > a
      <4>1. d # a
        BY <2>3, <3>2, <3>3 DEF AheadBy
      <4>2. d \notin 0 .. a - 1
        BY <3>1, <3>2, <3>3 DEF AheadBy
      <4> QED
        BY <4>1, <4>2, <3>2, <2>1
    <3> DEFINE e == d - a - 1
    <3>5. e \in Nat /\ a \in Nat /\ a + 1 + e = d
      BY <3>4, <3>2, <2>1
    <3>6. e \in 0 .. Len(order) - 1
      BY <3>5, <3>3, <2>1 DEF AheadBy
    <3>7. passed'[fp] = passed[fp] + 1 /\ passed[fp] \in Nat
      BY <1>1, <1>4, <2>1, <2>3 DEF RoundInv
    <3>8. passed'[fp] + e < Len(order)
      BY <3>3, <3>5, <3>7, <2>1
    <3> HIDE DEF e
    <3>9. Scan(e)' = fp
      BY <3>5, <3>2, <3>3, <1>2, <2>1, ScanMoves DEF AheadBy
    <3> QED
      BY <3>5, <3>6, <3>8, <3>9, <1>2 DEF AheadBy
  <2> QED
    BY <2>2, <2>3
<1> QED
  BY <1>2, <1>3, <1>4 DEF RoundInv, IsAvailable

\* Refreshes, evictions and successes never move the counter, and where the
\* order stays a candidate is as far ahead as it was.
LEMMA ChangeKeepsRound ==
    ASSUME PoolInv, PoolInv', RoundInv, Change
    PROVE  RoundInv'
<1>1. rr' = rr
  <2>1. CASE Refresh
    BY <2>1 DEF Refresh, ApplyReport, AddValidated, ReplaceValidatedMatching, Upsert
  <2>2. CASE Outcome
    BY <2>2 DEF Outcome, MarkFailure, MarkSuccess
  <2> QED
    BY <2>1, <2>2 DEF Change
<1>2. passed' = [fp \in Fingerprint |->
                   IF order' = order /\ IsAvailable(fp) THEN passed[fp] ELSE 0]
  BY DEF Change
<1>3. passed' \in [Fingerprint -> Nat]
  BY <1>2 DEF RoundInv
<1>4. ASSUME NEW fp \in DOMAIN items'
      PROVE  \E d \in Nat : AheadBy(fp, d)' /\ passed'[fp] + d < Len(order')
  <2>1. fp \in Fingerprint
    BY <1>4 DEF PoolInv, TypeOK
  <2>2. CASE order' = order /\ IsAvailable(fp)
    <3>1. passed'[fp] = passed[fp] /\ fp \in DOMAIN items
      BY <1>2, <2>1, <2>2 DEF IsAvailable
    <3>2. PICK d \in Nat : AheadBy(fp, d) /\ passed[fp] + d < Len(order)
      BY <3>1, <2>2 DEF RoundInv
    <3> QED
      BY <3>1, <3>2, <2>2, <1>1 DEF AheadBy, Scan
  <2>3. CASE ~(order' = order /\ IsAvailable(fp))
    <3>1. passed'[fp] = 0
      BY <1>2, <2>1, <2>3
    <3> QED
      BY <3>1, ResetKeepsRound
  <2> QED
    BY <2>2, <2>3
<1> QED
  BY <1>3, <1>4 DEF RoundInv

\* Other requests and restarts begin a new round for every candidate.
LEMMA BeginKeepsRound ==
    ASSUME PoolInv', Begin
    PROVE  RoundInv'
<1>1. passed' = [fp \in Fingerprint |-> 0]
  BY DEF Begin
<1>2. ASSUME NEW fp \in DOMAIN items'
      PROVE  \E d \in Nat : AheadBy(fp, d)' /\ passed'[fp] + d < Len(order')
  <2>1. passed'[fp] = 0
    BY <1>1, <1>2 DEF PoolInv, TypeOK
  <2> QED
    BY <2>1, ResetKeepsRound
<1> QED
  BY <1>1, <1>2 DEF RoundInv

-----------------------------------------------------------------------------

\* Each step of the rotation is a step of the pool.
LEMMA RotationIsPoolStep ==
    [Serve \/ Change \/ Begin]_rotationVars => [Next]_poolVars
<1>1. Serve => Pick
  BY DEF Serve, Pick, Route, AnyRoute
<1> QED
  BY <1>1 DEF Change, Begin, Next, rotationVars, poolVars

\* The invariant of the rotation, which names how far ahead of the counter each
\* candidate is (pool.go 268-278).
THEOREM RotationInvariance ==
    ASSUME Policy = "round_robin"
    PROVE  RotationSpec => [](PoolInv /\ RoundInv)
<1>1. RotationInit => PoolInv /\ RoundInv
  <2> SUFFICES ASSUME RotationInit PROVE PoolInv /\ RoundInv
    OBVIOUS
  <2>1. PoolInv
    BY InitInv DEF RotationInit
  <2>2. RoundInv
    BY DEF RotationInit, Init, RoundInv
  <2> QED
    BY <2>1, <2>2
<1>2. PoolInv /\ RoundInv /\ [Serve \/ Change \/ Begin]_rotationVars
        => (PoolInv /\ RoundInv)'
  <2> SUFFICES ASSUME PoolInv, RoundInv, [Serve \/ Change \/ Begin]_rotationVars
               PROVE  PoolInv' /\ RoundInv'
    OBVIOUS
  <2>1. PoolInv'
    BY RotationIsPoolStep, NextInv
  <2>2. CASE UNCHANGED rotationVars
    BY <2>1, <2>2 DEF rotationVars, RoundInv, AheadBy, Scan, IsAvailable
  <2>3. CASE Serve
    BY <2>1, <2>3, ServeKeepsRound
  <2>4. CASE Change
    BY <2>1, <2>4, ChangeKeepsRound
  <2>5. CASE Begin
    BY <2>1, <2>5, BeginKeepsRound
  <2> QED
    BY <2>1, <2>2, <2>3, <2>4, <2>5
<1> QED
  BY <1>1, <1>2, PTL DEF RotationSpec

\* Under round-robin no candidate in rotation is passed over for a whole round
\* while the order stays as it is, whatever is evicted or recovers meanwhile
\* (pool.go 268-278).
THEOREM RotationNoneIsSkipped ==
    ASSUME Policy = "round_robin"
    PROVE  RotationSpec => []NoneIsSkipped
<1>1. PoolInv /\ RoundInv => NoneIsSkipped
  <2> SUFFICES ASSUME PoolInv, RoundInv, NEW fp \in DOMAIN items, IsAvailable(fp)
               PROVE  passed[fp] < Len(order)
    BY DEF NoneIsSkipped
  <2>1. PICK d \in Nat : passed[fp] + d < Len(order)
    BY DEF RoundInv
  <2>2. passed[fp] \in Nat /\ Len(order) \in Nat
    BY PoolShape DEF RoundInv
  <2> QED
    BY <2>1, <2>2
<1> QED
  BY <1>1, RotationInvariance, PTL

\* What is proved of every execution of module Pool holds under every rotation.
THEOREM RotationIsPool == RotationSpec => Spec
<1>1. RotationInit => Init
  BY DEF RotationInit
<1> QED
  BY <1>1, RotationIsPoolStep, PTL DEF RotationSpec, Spec

=============================================================================
