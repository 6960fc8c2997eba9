---------------------------- MODULE RefreshProofs ----------------------------
(***************************************************************************)
(* Proofs about the modules Refresh and Validator: what a validation       *)
(* returns, for any batches, any number of workers and any cancellation;   *)
(* that the reports of a refresh add up; and which snapshots are kept, for *)
(* any plugins, sources, contents and retention.                           *)
(***************************************************************************)
EXTENDS Refresh, FiniteSetTheorems, TLAPS

-----------------------------------------------------------------------------
(* The validator on its own: one validation after the other, under a        *)
(* context that may end at any time.                                        *)

\* A candidate with the name of its source.
Entry == [item : Candidates,
          source : UNION {{f.sources[s] : s \in DOMAIN f.sources} : f \in Feeds}]

\* The context of the plugin is cancelled.
CancelContext ==
    /\ ~cancelled /\ cancelled' = TRUE
    /\ UNCHANGED <<main, batch, passing, next, worker, out>>

ValidationInit ==
    /\ main = "returned" /\ batch = <<>> /\ passing = {} /\ cancelled = FALSE
    /\ next = 1 /\ worker = <<>> /\ out = <<>>

ValidationNext ==
    \/ \E candidates \in Seq(Entry) : \E ok \in SUBSET DOMAIN candidates :
          Start(candidates, ok)
    \/ ValidatorStep \/ CancelContext

ValidationSpec == ValidationInit /\ [][ValidationNext]_validatorVars

-----------------------------------------------------------------------------
(* The inductive invariant. *)

\* The positions handed out so far.
HandedOut == 1 .. next - 1

ValidatorTypeOK ==
    /\ main \in {"sending", "waiting", "returned"}
    /\ cancelled \in BOOLEAN
    /\ batch \in Seq(Entry) /\ passing \subseteq DOMAIN batch
    /\ next \in 1 .. Len(batch) + 1
    /\ worker = [w \in DOMAIN worker |-> worker[w]]
    /\ \A w \in DOMAIN worker : worker[w] \in HandedOut \cup {Idle, Gone}
    /\ main # "returned" => out \in Seq(HandedOut)
    /\ main = "returned" => \A w \in DOMAIN worker : worker[w] = Gone

\* Where the candidates of a batch are while it is validated: each one that was
\* handed out and passes is with one worker or once among the results, unless
\* the validation is cancelled (validation.go 41-68).
Accounted ==
    main # "returned" =>
        /\ \A k \in DOMAIN out : out[k] \in passing
        /\ \A k, l \in DOMAIN out : out[k] = out[l] => k = l
        /\ \A v, w \in DOMAIN worker : worker[v] = worker[w] /\ worker[v] > 0 => v = w
        /\ \A w \in DOMAIN worker, k \in DOMAIN out : worker[w] # out[k]
        /\ ~cancelled => \A i \in passing :
              i < next => \/ \E k \in DOMAIN out : out[k] = i
                          \/ \E w \in DOMAIN worker : worker[w] = i
        /\ main = "waiting" /\ ~cancelled => next > Len(batch)

\* The inductive invariant.  A result is found where it was handed out, so that
\* Accounted needs the types of what workers hold.
ValidatorInv == ValidatorTypeOK /\ Accounted

LEMMA ValidatorInitInv == ValidationInit => ValidatorInv
<1> SUFFICES ASSUME ValidationInit PROVE ValidatorInv
  OBVIOUS
<1>1. /\ main = "returned" /\ batch = <<>> /\ passing = {} /\ cancelled = FALSE
      /\ next = 1 /\ worker = <<>>
  BY DEF ValidationInit
<1>2. next \in 1 .. Len(batch) + 1 /\ batch \in Seq(Entry)
  BY <1>1
<1>3. worker = [w \in DOMAIN worker |-> worker[w]] /\ DOMAIN worker = {}
  BY <1>1
<1> QED
  BY <1>1, <1>2, <1>3 DEF ValidatorInv, ValidatorTypeOK, Accounted

-----------------------------------------------------------------------------
(* The steps of a validation. *)

\* A validation begins with idle workers and nothing handed out
\* (validation.go 32-41).
LEMMA StartKeepsInv ==
    ASSUME ValidatorInv, NEW candidates \in Seq(Entry), NEW ok \in SUBSET DOMAIN candidates,
           Start(candidates, ok)
    PROVE  ValidatorInv'
<1>1. candidates \in Seq(Entry)
  OBVIOUS
<1>2. next' = 1 /\ batch' = candidates /\ passing' = ok /\ cancelled' \in BOOLEAN
  BY DEF Start, ValidatorInv, ValidatorTypeOK
<1>3. CASE SkipValidation \/ candidates = <<>>
  <2>1. main' = "returned" /\ worker' = <<>>
    BY <1>3 DEF Start
  <2> QED
    BY <1>1, <1>2, <2>1 DEF ValidatorInv, ValidatorTypeOK, Accounted, HandedOut
<1>4. CASE ~(SkipValidation \/ candidates = <<>>)
  <2>1. /\ main' = "sending" /\ out' = <<>>
        /\ worker' = [w \in 1 .. WorkerCount(Len(candidates)) |-> Idle]
    BY <1>4 DEF Start
  <2>2. /\ worker' = [w \in DOMAIN worker' |-> worker'[w]]
        /\ \A w \in DOMAIN worker' : worker'[w] = Idle
    BY <2>1
  <2>3. ValidatorTypeOK'
    BY <1>1, <1>2, <2>1, <2>2 DEF ValidatorTypeOK, HandedOut
  <2>4. Accounted'
    <3>1. \A i \in ok : i \in Nat /\ i >= 1
      BY <1>1
    <3> QED
      BY <1>2, <2>1, <2>2, <3>1 DEF Accounted, Idle
  <2> QED
    BY <2>3, <2>4 DEF ValidatorInv
<1> QED
  BY <1>3, <1>4

\* A candidate is handed to an idle worker (validation.go 61-66).
LEMMA HandKeepsInv ==
    ASSUME ValidatorInv, NEW w \in DOMAIN worker, Hand(w)
    PROVE  ValidatorInv'
<1> USE DEF Idle, Gone
<1>1. /\ next \in Nat /\ next >= 1 /\ next <= Len(batch) /\ Len(batch) \in Nat
      /\ worker' = [worker EXCEPT ![w] = next] /\ next' = next + 1
      /\ main = "sending" /\ UNCHANGED <<main, batch, passing, cancelled, out>>
  BY DEF Hand, ValidatorInv, ValidatorTypeOK
<1>2. /\ DOMAIN worker' = DOMAIN worker
      /\ \A v \in DOMAIN worker : worker'[v] = IF v = w THEN next ELSE worker[v]
      /\ worker' = [v \in DOMAIN worker' |-> worker'[v]]
  BY <1>1 DEF ValidatorInv, ValidatorTypeOK
<1>3. /\ out \in Seq(HandedOut) /\ HandedOut \subseteq HandedOut' /\ next \in HandedOut'
      /\ \A v \in DOMAIN worker : worker[v] \in HandedOut \cup {0, -1}
  BY <1>1 DEF ValidatorInv, ValidatorTypeOK, HandedOut
<1>4. out' \in Seq(HandedOut')
  BY <1>1, <1>3
<1>5. ValidatorTypeOK'
  BY <1>1, <1>2, <1>3, <1>4 DEF ValidatorInv, ValidatorTypeOK
<1>6. \A k \in DOMAIN out : out[k] \in HandedOut
  BY <1>3
<1>7. next \notin HandedOut /\ HandedOut \subseteq Nat
  BY <1>1 DEF HandedOut
<1>8. Accounted'
  <2>1. \A u, v \in DOMAIN worker' : worker'[u] = worker'[v] /\ worker'[u] > 0 => u = v
    BY <1>1, <1>2, <1>3, <1>7 DEF ValidatorInv, Accounted
  <2>2. \A v \in DOMAIN worker', k \in DOMAIN out' : worker'[v] # out'[k]
    BY <1>1, <1>2, <1>6, <1>7 DEF ValidatorInv, Accounted
  <2>3. ~cancelled => \A i \in passing : i < next' =>
            (\E k \in DOMAIN out : out[k] = i) \/ (\E v \in DOMAIN worker : worker'[v] = i)
    <3> SUFFICES ASSUME ~cancelled, NEW i \in passing, i < next + 1
                 PROVE  (\E k \in DOMAIN out : out[k] = i)
                          \/ (\E v \in DOMAIN worker : worker'[v] = i)
      BY <1>1
    <3>1. i \in Nat
      BY DEF ValidatorInv, ValidatorTypeOK
    <3>2. CASE i = next
      BY <1>2, <3>2
    <3>3. CASE i < next
      <4>1. (\E k \in DOMAIN out : out[k] = i) \/ (\E v \in DOMAIN worker : worker[v] = i)
        BY <1>1, <3>3 DEF ValidatorInv, Accounted
      <4>2. \A v \in DOMAIN worker : worker[v] = i => v # w
        <5>1. i >= 1 /\ worker[w] = 0
          BY DEF ValidatorInv, ValidatorTypeOK, Hand
        <5> QED
          BY <5>1
      <4> QED
        BY <1>2, <4>1, <4>2
    <3> QED
      BY <1>1, <3>1, <3>2, <3>3
  <2> QED
    BY <1>1, <1>2, <2>1, <2>2, <2>3 DEF ValidatorInv, Accounted
<1> QED
  BY <1>5, <1>8 DEF ValidatorInv

\* The sending loop ends with all candidates handed out, or cancelled
\* (validation.go 61-68).
LEMMA StopKeepsInv ==
    ASSUME ValidatorInv, StopSending
    PROVE  ValidatorInv'
<1>1. /\ main = "sending" /\ main' = "waiting"
      /\ cancelled \/ next > Len(batch)
      /\ UNCHANGED <<batch, passing, cancelled, next, worker, out>>
  BY DEF StopSending
<1>2. HandedOut' = HandedOut
  BY <1>1 DEF HandedOut
<1>3. ValidatorTypeOK'
  BY <1>1, <1>2 DEF ValidatorInv, ValidatorTypeOK
<1>4. Accounted'
  <2>1. main' = "waiting" /\ ~cancelled' => next' > Len(batch')
    BY <1>1
  <2> QED
    BY <1>1, <2>1 DEF ValidatorInv, Accounted
<1> QED
  BY <1>3, <1>4 DEF ValidatorInv

\* A worker passes its candidate on (validation.go 52-56).
LEMMA PassesKeepsInv ==
    ASSUME ValidatorInv, NEW w \in DOMAIN worker, Passes(w), main # "returned"
    PROVE  ValidatorInv'
<1> USE DEF Idle, Gone
<1> DEFINE x == worker[w]
<1>1. /\ x \in passing /\ out' = Append(out, x) /\ worker' = [worker EXCEPT ![w] = 0]
      /\ UNCHANGED <<main, batch, passing, cancelled, next>>
  BY DEF Passes
<1>2. /\ DOMAIN worker' = DOMAIN worker
      /\ \A v \in DOMAIN worker : worker'[v] = IF v = w THEN 0 ELSE worker[v]
      /\ worker' = [v \in DOMAIN worker' |-> worker'[v]]
  BY <1>1 DEF ValidatorInv, ValidatorTypeOK
<1>3. /\ out \in Seq(HandedOut) /\ HandedOut' = HandedOut /\ HandedOut \subseteq Nat
      /\ x \in Nat /\ x >= 1 /\ next \in Nat
      /\ \A v \in DOMAIN worker : worker[v] \in HandedOut \cup {0, -1}
  BY <1>1 DEF ValidatorInv, ValidatorTypeOK, HandedOut
<1>4. x \in HandedOut
  BY <1>3
<1>5. /\ out' \in Seq(HandedOut) /\ DOMAIN out' = 1 .. Len(out) + 1 /\ Len(out) \in Nat
      /\ DOMAIN out = 1 .. Len(out)
      /\ \A k \in 1 .. Len(out) : out'[k] = out[k]
      /\ out'[Len(out) + 1] = x
  <2> HIDE DEF x
  <2> QED
    BY <1>1, <1>3, <1>4
<1>6. ValidatorTypeOK'
  BY <1>1, <1>2, <1>3, <1>5 DEF ValidatorInv, ValidatorTypeOK
<1>7. Accounted'
  <2>1. \A k \in DOMAIN out' : out'[k] \in passing
    BY <1>1, <1>5 DEF ValidatorInv, Accounted
  <2>2. \A k, l \in DOMAIN out' : out'[k] = out'[l] => k = l
    BY <1>5 DEF ValidatorInv, Accounted
  <2>3. \A u, v \in DOMAIN worker' : worker'[u] = worker'[v] /\ worker'[u] > 0 => u = v
    BY <1>2 DEF ValidatorInv, Accounted
  <2>4. \A v \in DOMAIN worker', k \in DOMAIN out' : worker'[v] # out'[k]
    <3> SUFFICES ASSUME NEW v \in DOMAIN worker, NEW k \in DOMAIN out'
                 PROVE  worker'[v] # out'[k]
      BY <1>2
    <3>1. out'[k] \in Nat /\ out'[k] >= 1
      BY <1>3, <1>5 DEF HandedOut
    <3>2. CASE v = w
      BY <1>2, <3>1, <3>2
    <3>3. CASE v # w /\ k \in DOMAIN out
      BY <1>2, <1>5, <3>3 DEF ValidatorInv, Accounted
    <3>4. CASE v # w /\ k = Len(out) + 1
      BY <1>2, <1>3, <1>5, <3>4 DEF ValidatorInv, Accounted
    <3> QED
      BY <1>5, <3>2, <3>3, <3>4
  <2>5. ~cancelled => \A i \in passing : i < next =>
            (\E k \in DOMAIN out' : out'[k] = i) \/ (\E v \in DOMAIN worker : worker'[v] = i)
    BY <1>2, <1>5 DEF ValidatorInv, Accounted
  <2> QED
    BY <1>1, <1>2, <2>1, <2>2, <2>3, <2>4, <2>5 DEF ValidatorInv, Accounted
<1> QED
  BY <1>6, <1>7 DEF ValidatorInv

\* A worker drops its candidate or ends: it no longer holds one that passes,
\* unless the validation is cancelled (validation.go 44-53, 83-165).
LEMMA FreeKeepsInv ==
    ASSUME ValidatorInv, NEW w \in DOMAIN worker, NEW free \in {Idle, Gone},
           worker' = [worker EXCEPT ![w] = free],
           worker[w] \notin passing \/ cancelled, main # "returned",
           UNCHANGED <<main, batch, passing, cancelled, next, out>>
    PROVE  ValidatorInv'
<1> USE DEF Idle, Gone
<1>1. /\ DOMAIN worker' = DOMAIN worker
      /\ \A v \in DOMAIN worker : worker'[v] = IF v = w THEN free ELSE worker[v]
      /\ worker' = [v \in DOMAIN worker' |-> worker'[v]]
  BY DEF ValidatorInv, ValidatorTypeOK
<1>2. HandedOut' = HandedOut
  BY DEF HandedOut
<1>3. ValidatorTypeOK'
  BY <1>1, <1>2 DEF ValidatorInv, ValidatorTypeOK
<1>4. Accounted'
  <2>1. \A u, v \in DOMAIN worker' : worker'[u] = worker'[v] /\ worker'[u] > 0 => u = v
    BY <1>1 DEF ValidatorInv, Accounted
  <2>2. \A v \in DOMAIN worker', k \in DOMAIN out : worker'[v] # out[k]
    <3> SUFFICES ASSUME NEW v \in DOMAIN worker, NEW k \in DOMAIN out
                 PROVE  worker'[v] # out[k]
      BY <1>1
    <3>1. out[k] \in Nat /\ out[k] >= 1
      <4>1. out \in Seq(HandedOut) /\ next \in Nat
        BY DEF ValidatorInv, ValidatorTypeOK
      <4> QED
        BY <4>1 DEF HandedOut
    <3> QED
      BY <1>1, <3>1 DEF ValidatorInv, Accounted
  <2>3. ~cancelled => \A i \in passing : i < next =>
            (\E k \in DOMAIN out : out[k] = i) \/ (\E v \in DOMAIN worker : worker'[v] = i)
    BY <1>1 DEF ValidatorInv, Accounted
  <2> QED
    BY <1>1, <2>1, <2>2, <2>3 DEF ValidatorInv, Accounted
<1> QED
  BY <1>3, <1>4 DEF ValidatorInv

\* The workers are gone, and the results are read (validation.go 69-75).
LEMMA ReturnKeepsInv ==
    ASSUME ValidatorInv, Return
    PROVE  ValidatorInv'
<1>1. /\ main' = "returned" /\ UNCHANGED <<batch, passing, cancelled, next, worker, out>>
      /\ \A w \in DOMAIN worker : worker[w] = Gone
  BY DEF Return
<1>2. HandedOut' = HandedOut
  BY <1>1 DEF HandedOut
<1> QED
  BY <1>1, <1>2 DEF ValidatorInv, ValidatorTypeOK, Accounted

\* The context ends, after which results may be missing.
LEMMA CancelKeepsInv ==
    ASSUME ValidatorInv, CancelContext
    PROVE  ValidatorInv'
<1>1. cancelled' = TRUE /\ UNCHANGED <<main, batch, passing, next, worker, out>>
  BY DEF CancelContext
<1>2. HandedOut' = HandedOut
  BY <1>1 DEF HandedOut
<1> QED
  BY <1>1, <1>2 DEF ValidatorInv, ValidatorTypeOK, Accounted

LEMMA ValidatorStepKeepsInv == ASSUME ValidatorInv, ValidatorStep PROVE ValidatorInv'
<1>1. ASSUME NEW w \in DOMAIN worker, Hand(w) \/ Passes(w) \/ Fails(w) \/ Exit(w)
      PROVE  ValidatorInv'
  <2>1. main # "returned" \/ worker[w] = -1
    BY DEF ValidatorInv, ValidatorTypeOK, Gone
  <2>2. \A i \in DOMAIN batch : i # 0 /\ i # -1
    BY DEF ValidatorInv, ValidatorTypeOK
  <2>3. CASE Hand(w)
    BY <2>3, HandKeepsInv
  <2>4. CASE Passes(w)
    <3>1. worker[w] \in DOMAIN batch
      BY <2>4 DEF Passes, ValidatorInv, ValidatorTypeOK
    <3> QED
      BY <2>1, <2>4, <2>2, <3>1, PassesKeepsInv
  <2>5. CASE Fails(w)
    <3>1. main # "returned"
      BY <2>1, <2>5, <2>2 DEF Fails
    <3> QED
      BY <2>5, <3>1, FreeKeepsInv DEF Fails
  <2>6. CASE Exit(w)
    <3>1. worker[w] \notin passing
      BY <2>6, <2>2 DEF Exit, Idle, ValidatorInv, ValidatorTypeOK
    <3> QED
      BY <2>6, <3>1, FreeKeepsInv DEF Exit, Idle
  <2> QED
    BY <1>1, <2>3, <2>4, <2>5, <2>6
<1> QED
  BY <1>1, StopKeepsInv, ReturnKeepsInv DEF ValidatorStep

LEMMA ValidatorAside == ASSUME ValidatorInv, UNCHANGED validatorVars PROVE ValidatorInv'
<1>1. HandedOut' = HandedOut
  BY DEF HandedOut, validatorVars
<1> QED
  BY <1>1 DEF ValidatorInv, ValidatorTypeOK, Accounted, validatorVars

LEMMA ValidatorNextInv == ValidatorInv /\ [ValidationNext]_validatorVars => ValidatorInv'
BY StartKeepsInv, ValidatorStepKeepsInv, CancelKeepsInv, ValidatorAside DEF ValidationNext

\* The inductive invariant holds in every reachable state.
THEOREM ValidationInvariance == ValidationSpec => []ValidatorInv
BY ValidatorInitInv, ValidatorNextInv, PTL DEF ValidationSpec

\* No candidate is lost or doubled between the sending loop, the workers and the
\* results (validation.go 41-68).
THEOREM ValidationAccounted == ValidationSpec => []Accounted
BY ValidationInvariance, PTL DEF ValidatorInv

-----------------------------------------------------------------------------
(* The refinement of ValidateOnce. *)

\* How often the candidate at position i is returned.
Returned(i) == {k \in DOMAIN out : out[k] = i}

\* A step of a validation under way changes nothing for its caller
\* (validation.go 41-68).
LEMMA InsideStutters ==
    ASSUME main # "returned", main' # "returned", UNCHANGED <<batch, passing, cancelled>>
    PROVE  UNCHANGED Once!vars
BY DEF Once!vars

\* When a validation returns, each candidate that passes is among the results once,
\* and no other (validation.go 69-76).
LEMMA ReturnRefines ==
    ASSUME ValidatorInv, Return
    PROVE  Once!Return
<1> DEFINE kept == {out[k] : k \in DOMAIN out}
<1>1. /\ main = "waiting" /\ main' = "returned"
      /\ UNCHANGED <<batch, passing, cancelled, next, out>>
      /\ \A w \in DOMAIN worker : worker[w] = Gone
  BY DEF Return
<1>2. kept \in SUBSET passing
  BY <1>1 DEF ValidatorInv, Accounted
<1>3. ~cancelled => kept = passing
  <2> SUFFICES ASSUME ~cancelled, NEW i \in passing
               PROVE  \E k \in DOMAIN out : out[k] = i
    BY <1>2
  <2>1. i \in Nat /\ i >= 1 /\ i <= Len(batch) /\ next > Len(batch) /\ next \in Nat
    BY <1>1 DEF ValidatorInv, ValidatorTypeOK, Accounted
  <2>2. i < next /\ i # -1
    BY <2>1, <1>1 DEF ValidatorInv, ValidatorTypeOK
  <2> QED
    BY <1>1, <2>2 DEF ValidatorInv, Accounted, Gone
<1>4. \A i \in DOMAIN batch : Cardinality(Returned(i)) = IF i \in kept THEN 1 ELSE 0
  <2> TAKE i \in DOMAIN batch
  <2>1. CASE i \in kept
    <3>1. PICK k \in DOMAIN out : out[k] = i
      BY <2>1
    <3>2. Returned(i) = {k}
      BY <1>1, <3>1 DEF Returned, ValidatorInv, Accounted
    <3> QED
      BY <2>1, <3>2, FS_Singleton
  <2>2. CASE i \notin kept
    <3>1. Returned(i) = {}
      BY <2>2 DEF Returned
    <3> QED
      BY <2>2, <3>1, FS_EmptySet
  <2> QED
    BY <2>1, <2>2
<1>5. [i \in DOMAIN batch' |-> IF main' = "returned"
                               THEN Cardinality({k \in DOMAIN out' : out'[k] = i}) ELSE 0]
        = [i \in DOMAIN batch |-> IF i \in kept THEN 1 ELSE 0]
  BY <1>1, <1>4 DEF Returned
<1> HIDE DEF kept
<1> QED
  BY <1>1, <1>2, <1>3, <1>5 DEF Once!Return

\* A validation begins, or has nothing to do (validation.go 25-31).
LEMMA StartRefines ==
    ASSUME NEW candidates \in Seq(Entry), NEW ok \in SUBSET DOMAIN candidates,
           Start(candidates, ok)
    PROVE  Once!Begin \/ Once!Skip
<1>1. /\ main = "returned" /\ batch' = candidates /\ passing' = ok
      /\ UNCHANGED cancelled
  BY DEF Start
<1>2. CASE SkipValidation \/ candidates = <<>>
  <2>1. main' = "returned" /\ out' = [i \in DOMAIN candidates |-> i]
    BY <1>2 DEF Start
  <2>2. \A i \in DOMAIN candidates : Cardinality({k \in DOMAIN out' : out'[k] = i}) = 1
    <3> TAKE i \in DOMAIN candidates
    <3>1. {k \in DOMAIN out' : out'[k] = i} = {i}
      BY <2>1
    <3> QED
      BY <3>1, FS_Singleton
  <2> QED
    BY <1>1, <2>1, <2>2 DEF Once!Skip
<1>3. CASE ~(SkipValidation \/ candidates = <<>>)
  <2>1. main' = "sending"
    BY <1>3 DEF Start
  <2> QED
    BY <1>1, <2>1 DEF Once!Begin
<1> QED
  BY <1>2, <1>3

LEMMA CancelRefines ==
    ASSUME CancelContext
    PROVE  Once!Cancel
BY DEF CancelContext, Once!Cancel

LEMMA ValidatorStepRefines ==
    ASSUME ValidatorInv, ValidatorStep
    PROVE  Once!Return \/ UNCHANGED Once!vars
<1>1. ASSUME NEW w \in DOMAIN worker, Hand(w) \/ Passes(w) \/ Fails(w) \/ Exit(w)
      PROVE  UNCHANGED Once!vars
  <2>1. main # "returned"
    <3>1. \A i \in DOMAIN batch : i # -1
      BY DEF ValidatorInv, ValidatorTypeOK
    <3> QED
      BY <1>1, <3>1 DEF Hand, Passes, Fails, Exit, ValidatorInv, ValidatorTypeOK, Gone
  <2>2. UNCHANGED <<main, batch, passing, cancelled>>
    BY <1>1 DEF Hand, Passes, Fails, Exit
  <2> QED
    BY <2>1, <2>2, InsideStutters
<1>2. CASE StopSending
  BY <1>2, InsideStutters DEF StopSending
<1>3. CASE Return
  BY <1>3, ReturnRefines
<1> QED
  BY <1>1, <1>2, <1>3 DEF ValidatorStep

LEMMA StepRefines ==
    ValidatorInv /\ [ValidationNext]_validatorVars => [Once!Next]_(Once!vars)
<1> SUFFICES ASSUME ValidatorInv, [ValidationNext]_validatorVars
             PROVE  [Once!Next]_(Once!vars)
  OBVIOUS
<1>1. CASE UNCHANGED validatorVars
  BY <1>1 DEF validatorVars, Once!vars
<1> QED
  BY <1>1, StartRefines, ValidatorStepRefines, CancelRefines DEF ValidationNext, Once!Next

\* The safety part of ImplementsValidation: whatever the batches, the number of
\* workers and their interleaving, each candidate that passes is returned exactly
\* once, and when the validation is cancelled none that does not
\* (validation.go 41-75).
THEOREM ValidationRefines == ValidationSpec => Once!Safety
<1>1. ValidationInit => Once!Init
  BY DEF ValidationInit, Once!Init
<1> QED
  BY <1>1, StepRefines, ValidationInvariance, PTL
     DEF ValidationSpec, Once!Safety

-----------------------------------------------------------------------------
(* The snapshots.                                                           *)

\* The directory of the report being applied.
CurrentDir == Directory(reports[current].source)

\* How many snapshots more than Keep a directory may hold.
Surplus(d) == killed + (IF stage = "prune" /\ d = CurrentDir THEN 1 ELSE 0)

\* What is kept are the newest: no file is missing between two that are there.
Gapless(kept, times) == \A t \in kept : \A u \in times : u > t => u \in kept

\* A directory that held the snapshots times, of which kept are left.
DirectoryOK(kept, times, surplus) ==
    /\ kept \subseteq times /\ Gapless(kept, times)
    /\ Newest(Keep, times) \subseteq kept
    /\ kept \subseteq Newest(Keep + surplus, times)

\* The inductive invariant.  RecentSnapshotsKept allows a surplus in every
\* directory at any time, so that pruning one would say nothing of the others.
SnapshotInv ==
    /\ clock \in Nat /\ killed \in Nat
    /\ DOMAIN files = DOMAIN written
    /\ \A d \in DOMAIN written :
         written[d] \subseteq 1 .. clock /\ DirectoryOK(files[d], written[d], Surplus(d))
    /\ \A i \in DOMAIN reports : "source" \in DOMAIN reports[i]

-----------------------------------------------------------------------------
(* The newest of a set of times.                                            *)

Later(t, times) == {u \in times : u > t}

LEMMA KeepType == Keep \in Nat \ {0}
BY RefreshAssumption DEF Keep

LEMMA LaterFinite ==
    ASSUME NEW c \in Nat, NEW times \in SUBSET (1 .. c), NEW t
    PROVE  IsFiniteSet(Later(t, times)) /\ Cardinality(Later(t, times)) \in Nat
<1>1. IsFiniteSet(1 .. c)
  BY FS_Interval
<1>2. Later(t, times) \in SUBSET (1 .. c)
  BY DEF Later
<1> QED
  BY <1>1, <1>2, FS_Subset, FS_CardinalityType

LEMMA NewestLater ==
    ASSUME NEW n, NEW times
    PROVE  Newest(n, times) = {t \in times : Cardinality(Later(t, times)) < n}
BY DEF Newest, Later

\* More are among the newer ones when more are asked for.
LEMMA NewestGrows ==
    ASSUME NEW c \in Nat, NEW times \in SUBSET (1 .. c), NEW m \in Int, NEW n \in Int, m <= n
    PROVE  Newest(m, times) \subseteq Newest(n, times)
<1> SUFFICES ASSUME NEW t \in times, Cardinality(Later(t, times)) < m
             PROVE  Cardinality(Later(t, times)) < n
  BY NewestLater
<1> QED
  BY LaterFinite

\* Of the newest ones none is missing.
LEMMA NewestGapless ==
    ASSUME NEW c \in Nat, NEW times \in SUBSET (1 .. c), NEW n \in Int
    PROVE  Gapless(Newest(n, times), times)
<1> SUFFICES ASSUME NEW t \in times, Cardinality(Later(t, times)) < n,
                    NEW u \in times, u > t
             PROVE  Cardinality(Later(u, times)) < n
  BY NewestLater DEF Gapless
<1>1. \A v \in times : v > u => v > t
  OBVIOUS
<1>2. Later(u, times) \in SUBSET Later(t, times)
  BY <1>1 DEF Later
<1>3. /\ IsFiniteSet(Later(t, times)) /\ Cardinality(Later(t, times)) \in Nat
      /\ Cardinality(Later(u, times)) \in Nat
  BY LaterFinite
<1>4. Cardinality(Later(u, times)) <= Cardinality(Later(t, times))
  BY <1>2, <1>3, FS_Subset
<1> QED
  BY <1>3, <1>4

\* A new snapshot, later than all there have been.
LEMMA NewestAfterAdd ==
    ASSUME NEW c \in Nat, NEW times \in SUBSET (1 .. c), NEW t \in times,
           NEW n \in Int, NEW m \in Int, m = n + 1
    PROVE  t \in Newest(m, times \cup {c + 1}) <=> t \in Newest(n, times)
<1>1. Later(t, times \cup {c + 1}) = Later(t, times) \cup {c + 1} /\ c + 1 \notin Later(t, times)
  BY DEF Later
<1>2. Cardinality(Later(t, times \cup {c + 1})) = Cardinality(Later(t, times)) + 1
  BY <1>1, LaterFinite, FS_AddElement
<1>3. Cardinality(Later(t, times)) \in Nat
  BY LaterFinite
<1>4. Cardinality(Later(t, times \cup {c + 1})) < m <=> Cardinality(Later(t, times)) < n
  BY <1>2, <1>3
<1>5. t \in Newest(m, times \cup {c + 1})
        <=> Cardinality(Later(t, times \cup {c + 1})) < m
  BY NewestLater, Zenon
<1>6. t \in Newest(n, times) <=> Cardinality(Later(t, times)) < n
  BY NewestLater, Zenon
<1> QED
  BY <1>4, <1>5, <1>6, Zenon

\* The new snapshot is added to what is kept, and there may be one too many.
LEMMA AddedDirectory ==
    ASSUME NEW c \in Nat, NEW times \in SUBSET (1 .. c), NEW kept, NEW surplus \in Nat,
           DirectoryOK(kept, times, surplus)
    PROVE  DirectoryOK(kept \cup {c + 1}, times \cup {c + 1}, surplus + 1)
<1> DEFINE all == times \cup {c + 1}
           now == kept \cup {c + 1}
<1> USE KeepType
<1>1. now \subseteq all /\ Gapless(now, all)
  BY DEF DirectoryOK, Gapless
<1>2. Newest(Keep, all) \subseteq now
  <2> SUFFICES ASSUME NEW t \in times, t \in Newest(Keep, all)
               PROVE  t \in kept
    BY NewestLater
  <2>1. PICK n \in Int : Keep = n + 1
    BY Keep - 1 \in Int, Keep = (Keep - 1) + 1
  <2>2. t \in Newest(n, times)
    BY <2>1, NewestAfterAdd
  <2>3. Newest(n, times) \subseteq Newest(Keep, times)
    BY <2>1, NewestGrows, Keep \in Int, n <= n + 1
  <2> QED
    BY <2>2, <2>3 DEF DirectoryOK
<1>3. now \subseteq Newest(Keep + (surplus + 1), all)
  <2> DEFINE few == Keep + surplus
             many == Keep + (surplus + 1)
  <2>1. few \in Int /\ many \in Int /\ many = few + 1 /\ many > 0
    OBVIOUS
  <2>2. ASSUME NEW t \in kept PROVE t \in Newest(many, all)
    <3>1. t \in times /\ t \in Newest(few, times)
      BY DEF DirectoryOK
    <3> HIDE DEF few, many
    <3> QED
      BY <2>1, <3>1, NewestAfterAdd
  <2>3. Later(c + 1, all) = {}
    <3>1. \A u \in all : u \in Int /\ ~(u > c + 1)
      OBVIOUS
    <3> QED
      BY <3>1 DEF Later
  <2>4. c + 1 \in Newest(many, all)
    BY <2>1, <2>3, FS_EmptySet, NewestLater
  <2> QED
    BY <2>2, <2>4
<1> QED
  BY <1>1, <1>2, <1>3 DEF DirectoryOK

\* Pruning keeps the newest of all that were written, whatever the surplus was.
LEMMA PrunedDirectory ==
    ASSUME NEW c \in Nat, NEW times \in SUBSET (1 .. c), NEW kept, NEW surplus \in Nat,
           NEW more \in Nat, DirectoryOK(kept, times, surplus)
    PROVE  DirectoryOK(Newest(Keep, kept), times, more)
<1> USE KeepType
<1>1. \A t \in kept : Later(t, kept) = Later(t, times)
  BY DEF DirectoryOK, Gapless, Later
<1>2. Newest(Keep, kept) = Newest(Keep, times)
  BY <1>1, NewestLater DEF DirectoryOK
<1>3. Newest(Keep, times) \subseteq Newest(Keep + more, times)
  BY NewestGrows
<1>4. Gapless(Newest(Keep, times), times) /\ Newest(Keep, times) \subseteq times
  <2>1. Keep \in Int
    OBVIOUS
  <2> QED
    BY <2>1, NewestGapless, NewestLater
<1> QED
  BY <1>2, <1>3, <1>4 DEF DirectoryOK

LEMMA LooserDirectory ==
    ASSUME NEW c \in Nat, NEW times \in SUBSET (1 .. c), NEW kept, NEW surplus \in Nat,
           NEW more \in Nat, surplus <= more, DirectoryOK(kept, times, surplus)
    PROVE  DirectoryOK(kept, times, more)
<1>1. Keep + surplus \in Int /\ Keep + more \in Int /\ Keep + surplus <= Keep + more
  BY KeepType
<1>2. Newest(Keep + surplus, times) \subseteq Newest(Keep + more, times)
  BY <1>1, NewestGrows
<1> QED
  BY <1>2 DEF DirectoryOK

-----------------------------------------------------------------------------
(* The steps of a refresh.                                                  *)

\* A step that writes and removes no snapshot keeps the invariant, whatever it
\* does to the reports between two snapshots.
LEMMA OtherKeepsInv ==
    ASSUME SnapshotInv, UNCHANGED <<files, written, clock>>,
           killed' \in Nat, \A d \in DOMAIN written : Surplus(d)' = Surplus(d),
           \A i \in DOMAIN reports' : "source" \in DOMAIN reports'[i]
    PROVE  SnapshotInv'
BY DEF SnapshotInv, DirectoryOK, Gapless, Newest, Keep

LEMMA SurplusType == ASSUME SnapshotInv, NEW d PROVE Surplus(d) \in Nat
BY DEF SnapshotInv, Surplus

\* The import of the sources makes the reports (app.go 249-262).
LEMMA FetchKeepsInv ==
    ASSUME SnapshotInv, Fetch
    PROVE  SnapshotInv'
<1>1. \A i \in DOMAIN reports' : "source" \in DOMAIN reports'[i]
  <2>1. \A plugin, source, content : "source" \in DOMAIN Report(plugin, source, content)
    BY DEF Report
  <2>2. PICK contents : reports' = [s \in DOMAIN feed.sources |->
                            Report(feed.plugin, feed.sources[s], contents[s])]
    BY DEF Fetch
  <2> QED
    BY <2>1, <2>2
<1>2. \A d : Surplus(d)' = Surplus(d)
  BY DEF Fetch, Surplus
<1>3. UNCHANGED <<files, written, clock, killed>>
  BY DEF Fetch
<1>4. killed' \in Nat
  BY <1>3 DEF SnapshotInv
<1> QED
  BY <1>1, <1>2, <1>3, <1>4, OtherKeepsInv

\* The report keeps its source while its count is filled in, so that the
\* snapshot that is written and the one that is pruned are in one directory.
LEMMA ApplyOneSources ==
    ASSUME SnapshotInv, ApplyOne
    PROVE  /\ Directory(reports[current].source) = SafeName(<<feed'.plugin, "-">> \o
                                                    reports'[current].source)
           /\ \A i \in DOMAIN reports' : "source" \in DOMAIN reports'[i]
<1>1. PICK n : reports' = [reports EXCEPT ![current].validated = n]
  BY DEF ApplyOne
<1>2. \A i \in DOMAIN reports' :
         "source" \in DOMAIN reports'[i] /\ reports'[i].source = reports[i].source
  BY <1>1 DEF SnapshotInv
<1>3. reports'[current].source = reports[current].source
  BY <1>1, <1>2
<1>4. feed' = feed
  BY DEF ApplyOne
<1> QED
  BY <1>2, <1>3, <1>4 DEF Directory

\* One report: its snapshot is written, or not (app.go 273-284, storage.go 75-93).
LEMMA ApplyOneKeepsInv ==
    ASSUME SnapshotInv, ApplyOne
    PROVE  SnapshotInv'
<1>1. CASE stage' = "prune"
  <2> DEFINE dir == CurrentDir
             old == IF dir \in DOMAIN files THEN files[dir] ELSE {}
             all == IF dir \in DOMAIN written THEN written[dir] ELSE {}
  <2>1. /\ clock' = clock + 1 /\ stage = "apply" /\ UNCHANGED <<current, killed>>
        /\ files' = [d \in DOMAIN files \cup {dir} |->
                        IF d = dir THEN old \cup {clock'} ELSE files[d]]
        /\ written' = [d \in DOMAIN written \cup {dir} |->
                        IF d = dir THEN all \cup {clock'} ELSE written[d]]
    BY <1>1 DEF ApplyOne, CurrentDir
  <2>2. CurrentDir' = dir
    BY <2>1, ApplyOneSources DEF CurrentDir, Directory
  <2>3. /\ clock \in Nat /\ killed \in Nat /\ DOMAIN files = DOMAIN written
        /\ \A d \in DOMAIN written : /\ written[d] \in SUBSET (1 .. clock)
                                     /\ DirectoryOK(files[d], written[d], killed)
    BY <2>1 DEF SnapshotInv, Surplus
  <2>4. all \in SUBSET (1 .. clock) /\ DirectoryOK(old, all, killed)
    BY <2>3 DEF DirectoryOK, Gapless, Newest
  <2>5. DirectoryOK(old \cup {clock + 1}, all \cup {clock + 1}, killed + 1)
    <3> HIDE DEF old, all
    <3> QED
      BY <2>3, <2>4, AddedDirectory
  <2>6. \A d \in DOMAIN written' :
           /\ written'[d] \subseteq 1 .. clock'
           /\ DirectoryOK(files'[d], written'[d], killed + IF d = dir THEN 1 ELSE 0)
    <3> HIDE DEF old, all, dir
    <3>1. \A n \in Nat : n + 0 = n
      OBVIOUS
    <3>2. TAKE d \in DOMAIN written'
    <3>3. CASE d = dir
      <4>1. written'[d] = all \cup {clock + 1} /\ files'[d] = old \cup {clock + 1}
        BY <2>1, <2>3, <3>3
      <4>2. all \cup {clock + 1} \subseteq 1 .. clock'
        BY <2>1, <2>3, <2>4
      <4> QED
        BY <2>1, <2>5, <3>3, <4>1, <4>2
    <3>4. CASE d # dir
      <4>1. /\ d \in DOMAIN written /\ written'[d] = written[d] /\ files'[d] = files[d]
        BY <2>1, <2>3, <3>4
      <4>2. 1 .. clock \subseteq 1 .. clock'
        BY <2>1, <2>3
      <4> QED
        BY <2>3, <3>1, <3>4, <4>1, <4>2
    <3> QED
      BY <3>3, <3>4
  <2>7. \A d : Surplus(d)' = killed + IF d = dir THEN 1 ELSE 0
    BY <1>1, <2>1, <2>2 DEF Surplus
  <2>8. \A d \in DOMAIN written' : DirectoryOK(files[d], written[d], Surplus(d))'
    <3> HIDE DEF old, all, dir
    <3> QED
      BY <2>6, <2>7 DEF DirectoryOK, Gapless, Newest, Keep
  <2>9. /\ clock' \in Nat /\ killed' \in Nat /\ DOMAIN files' = DOMAIN written'
        /\ \A d \in DOMAIN written' : written'[d] \subseteq 1 .. clock'
        /\ \A i \in DOMAIN reports' : "source" \in DOMAIN reports'[i]
    <3> HIDE DEF old, all, dir
    <3>1. clock' \in Nat /\ killed' \in Nat /\ DOMAIN files' = DOMAIN written'
      BY <2>1, <2>3
    <3>2. \A d \in DOMAIN written' : written'[d] \subseteq 1 .. clock'
      BY <2>6
    <3>3. \A i \in DOMAIN reports' : "source" \in DOMAIN reports'[i]
      BY ApplyOneSources
    <3> QED
      BY <3>1, <3>2, <3>3
  <2> QED
    BY <2>8, <2>9 DEF SnapshotInv
<1>2. CASE UNCHANGED <<stage, files, written, clock>>
  <2>1. stage = "apply" /\ stage' = "apply" /\ killed' = killed
    BY <1>2 DEF ApplyOne
  <2>2. \A d : Surplus(d)' = Surplus(d)
    BY <2>1 DEF Surplus
  <2>3. killed' \in Nat
    BY <2>1 DEF SnapshotInv
  <2> QED
    BY <1>2, <2>2, <2>3, ApplyOneSources, OtherKeepsInv
<1> QED
  BY <1>1, <1>2 DEF ApplyOne

\* The directory that has just got a snapshot is pruned (storage.go 109-126).
LEMMA PruneKeepsInv ==
    ASSUME SnapshotInv, Prune
    PROVE  SnapshotInv'
<1>1. /\ stage = "prune" /\ stage' = "apply"
      /\ UNCHANGED <<written, clock, killed, reports>>
      /\ files' = [files EXCEPT ![CurrentDir] = Newest(Keep, @)]
  BY DEF Prune, CurrentDir
<1>2. clock \in Nat /\ killed \in Nat /\ DOMAIN files = DOMAIN written
  BY DEF SnapshotInv
<1>3. ASSUME NEW d \in DOMAIN written
      PROVE  DirectoryOK(files'[d], written[d], killed)
  <2>1. /\ written[d] \in SUBSET (1 .. clock) /\ Surplus(d) \in Nat
        /\ DirectoryOK(files[d], written[d], Surplus(d))
    BY <1>3, SurplusType DEF SnapshotInv
  <2>2. CASE d = CurrentDir
    <3>1. files'[d] = Newest(Keep, files[d])
      BY <1>1, <1>2, <1>3, <2>2
    <3> QED
      BY <1>2, <2>1, <3>1, PrunedDirectory
  <2>3. CASE d # CurrentDir
    <3>1. files'[d] = files[d] /\ Surplus(d) = killed
      BY <1>1, <1>2, <1>3, <2>3 DEF Surplus
    <3> QED
      BY <2>1, <3>1
  <2> QED
    BY <2>2, <2>3
<1>4. \A d : Surplus(d)' = killed
  BY <1>1, <1>2 DEF Surplus
<1>5. \A d \in DOMAIN written' : DirectoryOK(files[d], written[d], Surplus(d))'
  BY <1>1, <1>3, <1>4 DEF DirectoryOK, Gapless, Newest, Keep
<1> QED
  BY <1>1, <1>2, <1>5 DEF SnapshotInv

\* A process that is killed between writing and pruning leaves one more file
\* behind (app.go 121-137).
LEMMA RestartKeepsInv ==
    ASSUME SnapshotInv, Restart
    PROVE  SnapshotInv'
<1>1. /\ stage' = "wait" /\ reports' = <<>> /\ UNCHANGED <<files, written, clock>>
      /\ killed' = killed + (IF stage = "prune" THEN 1 ELSE 0)
  BY DEF Restart
<1>2. clock \in Nat /\ killed \in Nat /\ DOMAIN files = DOMAIN written
  BY DEF SnapshotInv
<1>3. killed' \in Nat /\ \A d : Surplus(d)' = killed' /\ Surplus(d) <= killed'
  BY <1>1, <1>2 DEF Surplus
<1>4. ASSUME NEW d \in DOMAIN written
      PROVE  DirectoryOK(files[d], written[d], killed')
  <2>1. /\ written[d] \in SUBSET (1 .. clock) /\ Surplus(d) \in Nat
        /\ DirectoryOK(files[d], written[d], Surplus(d))
    BY <1>4, SurplusType DEF SnapshotInv
  <2> QED
    BY <1>2, <1>3, <2>1, LooserDirectory
<1>5. \A d \in DOMAIN written' : DirectoryOK(files[d], written[d], Surplus(d))'
  BY <1>1, <1>3, <1>4 DEF DirectoryOK, Gapless, Newest, Keep
<1> QED
  BY <1>1, <1>2, <1>3, <1>5 DEF SnapshotInv

-----------------------------------------------------------------------------

LEMMA SnapshotInit == RefreshInit => SnapshotInv
BY DEF RefreshInit, SnapshotInv

LEMMA SnapshotNext ==
    ASSUME SnapshotInv, [RefreshNext]_vars
    PROVE  SnapshotInv'
<1>1. ASSUME UNCHANGED <<files, written, clock, killed, reports>>,
             \A d : Surplus(d)' = Surplus(d)
      PROVE  SnapshotInv'
  BY <1>1, OtherKeepsInv DEF SnapshotInv
<1>2. CASE Fetch
  BY <1>2, FetchKeepsInv
<1>3. CASE Validated
  <2>1. stage # "prune" /\ stage' # "prune"
        /\ UNCHANGED <<files, written, clock, killed, reports>>
    BY <1>3 DEF Validated
  <2> QED
    BY <1>1, <2>1 DEF Surplus
<1>4. CASE ApplyOne
  BY <1>4, ApplyOneKeepsInv
<1>5. CASE Prune
  BY <1>5, PruneKeepsInv
<1>6. CASE Finish
  <2>1. /\ stage # "prune" /\ stage' # "prune" /\ reports' = <<>>
        /\ UNCHANGED <<files, written, clock, killed>>
    BY <1>6 DEF Finish
  <2>2. \A d : Surplus(d)' = Surplus(d)
    BY <2>1 DEF Surplus
  <2>3. killed' \in Nat
    BY <2>1 DEF SnapshotInv
  <2> QED
    BY <2>1, <2>2, <2>3, OtherKeepsInv
<1>7. CASE Quit
  <2>1. stage # "prune" /\ stage' # "prune"
        /\ UNCHANGED <<files, written, clock, killed, reports>>
    BY <1>7 DEF Quit
  <2> QED
    BY <1>1, <2>1 DEF Surplus
<1>8. CASE UNCHANGED refreshVars
  BY <1>1, <1>8 DEF refreshVars, Surplus, CurrentDir, Directory
<1>9. CASE Restart
  BY <1>9, RestartKeepsInv
<1> QED
  BY <1>2, <1>3, <1>4, <1>5, <1>6, <1>7, <1>8, <1>9 DEF RefreshNext, Cancel, vars

\* The invariant of the snapshots holds in every reachable state, whatever the
\* sources are called and offer and however often the process is killed.
THEOREM RefreshInvariance == RefreshSpec => []SnapshotInv
BY SnapshotInit, SnapshotNext, PTL DEF RefreshSpec

\* The most recent snapshots are never pruned, and the older ones never pile up,
\* for any retention (storage.go 24-29, 75-97, 109-126).
THEOREM RefreshSnapshots == RefreshSpec => []RecentSnapshotsKept
<1>1. SnapshotInv => RecentSnapshotsKept
  <2> SUFFICES ASSUME SnapshotInv, NEW d \in DOMAIN files
               PROVE  /\ Newest(Keep, written[d]) \subseteq files[d]
                      /\ files[d] \subseteq Newest(Keep + 1 + killed, written[d])
    BY DEF RecentSnapshotsKept
  <2>1. /\ written[d] \in SUBSET (1 .. clock) /\ clock \in Nat /\ killed \in Nat
        /\ DirectoryOK(files[d], written[d], Surplus(d))
    BY DEF SnapshotInv
  <2>2. Keep + Surplus(d) \in Int /\ Keep + 1 + killed \in Int
        /\ Keep + Surplus(d) <= Keep + 1 + killed
    BY <2>1, KeepType DEF Surplus
  <2>3. Newest(Keep + Surplus(d), written[d]) \subseteq Newest(Keep + 1 + killed, written[d])
    BY <2>1, <2>2, NewestGrows
  <2> QED
    BY <2>1, <2>3 DEF DirectoryOK
<1> QED
  BY <1>1, RefreshInvariance, PTL

-----------------------------------------------------------------------------
(* What is imported. *)

\* The items of a report, and the lines of it that are candidates.
LEMMA ItemsOf ==
    ASSUME NEW content \in Content \cup {Unreadable}
    PROVE  /\ IsFiniteSet(Items(content)) /\ IsFiniteSet(Good(content))
           /\ Cardinality(Items(content)) \in Nat /\ Cardinality(Good(content)) \in Nat
           /\ Good(content) \subseteq Items(content)
           /\ \A i \in Items(content) :
                 i \in Nat /\ (content[i] \notin Candidates <=> content[i] = "bad")
<1>1. /\ Len(content) \in Nat /\ DOMAIN content = 1 .. Len(content)
      /\ \A i \in DOMAIN content :
            content[i] \in Candidates \cup {"bad", "ignored", "toolong", "unreadable"}
  <2>1. CASE content = Unreadable
    BY <2>1 DEF Unreadable
  <2>2. CASE content \in Content
    <3>1. content \in Seq(Candidates \cup {"bad", "ignored", "toolong"})
      BY <2>2, RefreshAssumption
    <3> QED
      BY <3>1
  <2> QED
    BY <2>1, <2>2
<1>2. IsFiniteSet(DOMAIN content)
  BY <1>1, FS_Interval
<1>3. Items(content) \in SUBSET DOMAIN content /\ Good(content) \in SUBSET Items(content)
  BY DEF Items, Good, Read
<1>4. IsFiniteSet(Items(content)) /\ IsFiniteSet(Good(content))
  BY <1>2, <1>3, FS_Subset
<1>5. ASSUME NEW i \in Items(content)
      PROVE  i \in Nat /\ (content[i] \notin Candidates <=> content[i] = "bad")
  <2>1. i \in 1 .. Len(content) /\ i \in 1 .. i
    BY <1>1, <1>3
  <2>2. content[i] \notin {"ignored", "toolong", "unreadable"}
    BY <2>1 DEF Items, Read
  <2> QED
    BY <1>1, <2>1, <2>2, RefreshAssumption
<1> QED
  BY <1>3, <1>4, <1>5, FS_CardinalityType

\* Each item that counts is imported or skipped (singbox.go 98-126; fofa.go
\* 40-127; fpl.go 32-107).
LEMMA ItemsAddUp ==
    ASSUME NEW content \in Content \cup {Unreadable}
    PROVE  Cardinality(Items(content)) = Cardinality(Good(content))
              + Cardinality({i \in Items(content) : content[i] = "bad"})
<1> DEFINE bad == {i \in Items(content) : content[i] = "bad"}
<1>1. Items(content) = Good(content) \cup bad /\ Good(content) \cap bad = {}
  BY ItemsOf DEF Good
<1>2. IsFiniteSet(bad) /\ bad \in SUBSET Items(content)
  BY ItemsOf, FS_Subset
<1>3. Cardinality(bad) \in Nat
  BY <1>2, FS_CardinalityType
<1> HIDE DEF bad
<1>4. Cardinality(Items(content))
        = Cardinality(Good(content)) + Cardinality(bad) - Cardinality(Good(content) \cap bad)
  BY <1>1, <1>2, ItemsOf, FS_Union
<1>5. Cardinality(Good(content) \cap bad) = 0
  BY <1>1, FS_EmptySet
<1>6. Cardinality(Items(content)) = Cardinality(Good(content)) + Cardinality(bad)
  BY <1>3, <1>4, <1>5, ItemsOf
<1> QED
  BY <1>6 DEF bad

\* The sources' names.
LEMMA SourcesType ==
    ASSUME feed \in Feeds
    PROVE  /\ feed.sources \in Seq(Seq(STRING)) /\ Len(feed.sources) \in Nat
           /\ DOMAIN feed.sources = 1 .. Len(feed.sources)
BY RefreshAssumption

\* What the sources offer, as Fetch chooses it.
Contents == [DOMAIN feed.sources -> Content \cup {Unreadable}]

LEMMA FoundFinite ==
    ASSUME feed \in Feeds, NEW contents \in Contents
    PROVE  /\ IsFiniteSet(Found(contents)) /\ Cardinality(Found(contents)) \in Nat
           /\ \A p \in Found(contents) :
                 /\ p[1] \in DOMAIN feed.sources /\ p[2] \in Good(contents[p[1]])
                 /\ p = <<p[1], p[2]>>
<1> DEFINE Part(s) == {s} \X Good(contents[s])
           parts == {Part(s) : s \in DOMAIN contents}
           f == [s \in DOMAIN contents |-> Part(s)]
<1>1. DOMAIN contents = DOMAIN feed.sources /\ IsFiniteSet(DOMAIN contents)
  BY SourcesType, FS_Interval DEF Contents
<1>2. ASSUME NEW s \in DOMAIN contents PROVE IsFiniteSet(Part(s))
  <2>1. contents[s] \in Content \cup {Unreadable}
    BY <1>1 DEF Contents
  <2> QED
    BY <2>1, ItemsOf, FS_Singleton, FS_Product
<1>3. f \in Surjection(DOMAIN contents, parts)
  BY DEF Surjection
<1>4. IsFiniteSet(parts)
  <2> HIDE DEF f, parts
  <2> QED
    BY <1>1, <1>3, FS_Surjection
<1>5. IsFiniteSet(UNION parts)
  <2>1. \A T \in parts : IsFiniteSet(T)
    BY <1>2
  <2> HIDE DEF parts
  <2> QED
    BY <1>4, <2>1, FS_UNION
<1>6. Found(contents) = UNION parts
  BY DEF Found
<1>7. ASSUME NEW p \in Found(contents)
      PROVE  /\ p[1] \in DOMAIN feed.sources /\ p[2] \in Good(contents[p[1]])
             /\ p = <<p[1], p[2]>>
  <2>1. PICK s \in DOMAIN contents : p \in Part(s)
    BY <1>6
  <2> QED
    BY <1>1, <2>1
<1> QED
  BY <1>5, <1>6, <1>7, FS_CardinalityType

\* A listing goes through all of it once.
LEMMA ListingIsBijection ==
    ASSUME feed \in Feeds, NEW contents \in Contents,
           NEW listing \in Listings(Found(contents))
    PROVE  /\ DOMAIN listing = 1 .. Cardinality(Found(contents))
           /\ \A k \in DOMAIN listing : listing[k] \in Found(contents)
           /\ \A j, k \in DOMAIN listing : listing[j] = listing[k] => j = k
           /\ \A p \in Found(contents) : \E k \in DOMAIN listing : listing[k] = p
<1> DEFINE found == Found(contents)
           n == Cardinality(found)
<1>1. /\ listing \in [1 .. n -> found] /\ DOMAIN listing = 1 .. n
      /\ \A j, k \in DOMAIN listing : j < k => Before(listing[j], listing[k])
  BY DEF Listings
<1>2. n \in Nat /\ IsFiniteSet(found) /\ found = Found(contents)
  BY FoundFinite
<1> HIDE DEF n, found
<1>3. ASSUME NEW p \in found PROVE ~Before(p, p)
  <2>1. p[1] \in Nat /\ p[2] \in Nat
    <3>1. p[1] \in DOMAIN feed.sources /\ p[2] \in Good(contents[p[1]])
      BY <1>2, FoundFinite
    <3>2. contents[p[1]] \in Content \cup {Unreadable}
      BY <3>1 DEF Contents
    <3> QED
      BY <3>1, <3>2, ItemsOf, SourcesType
  <2> QED
    BY <2>1 DEF Before
<1>4. ASSUME NEW j \in DOMAIN listing, NEW k \in DOMAIN listing, listing[j] = listing[k]
      PROVE  j = k
  <2>1. j \in Nat /\ k \in Nat /\ listing[j] \in found
    BY <1>1, <1>2
  <2>2. ~(j < k) /\ ~(k < j)
    BY <1>1, <1>3, <1>4, <2>1
  <2> QED
    BY <2>1, <2>2
<1>5. listing \in Injection(1 .. n, found)
  BY <1>1, <1>4 DEF Injection, IsInjective
<1>6. Cardinality(1 .. n) = n /\ n = Cardinality(found)
  BY <1>2, FS_Interval DEF n
<1>7. listing \in Surjection(1 .. n, found)
  <2>1. Cardinality(1 .. n) = Cardinality(found) <=> listing \in Surjection(1 .. n, found)
    BY <1>2, <1>5, FS_Injection
  <2> QED
    BY <1>6, <2>1
<1> QED
  BY <1>1, <1>2, <1>4, <1>7 DEF Surjection, n

\* What is imported are candidates, and of a source that shares its name with no
\* other as many as its report says (app.go 255-262).
LEMMA ImportedOwn ==
    ASSUME feed \in Feeds, NEW contents \in Contents,
           NEW listing \in Listings(Found(contents)), NEW i \in DOMAIN feed.sources,
           \A j \in DOMAIN feed.sources : feed.sources[j] = feed.sources[i] => j = i
    PROVE  Cardinality({k \in DOMAIN listing : feed.sources[listing[k][1]] = feed.sources[i]})
              = Cardinality(Good(contents[i]))
<1> DEFINE own == {k \in DOMAIN listing : feed.sources[listing[k][1]] = feed.sources[i]}
           good == Good(contents[i])
           at == [k \in own |-> listing[k][2]]
<1>1. ASSUME NEW k \in own
      PROVE  /\ k \in DOMAIN listing /\ listing[k] = <<i, listing[k][2]>>
             /\ listing[k][2] \in good
  <2>1. /\ listing[k][1] \in DOMAIN feed.sources
        /\ listing[k] = <<listing[k][1], listing[k][2]>>
        /\ listing[k][2] \in Good(contents[listing[k][1]])
    BY ListingIsBijection, FoundFinite
  <2>2. listing[k][1] = i
    BY <2>1
  <2> QED
    BY <2>1, <2>2
<1>2. ASSUME NEW x \in good PROVE \E k \in own : listing[k][2] = x
  <2>1. <<i, x>> \in Found(contents)
    BY DEF Found, Contents
  <2>2. PICK k \in DOMAIN listing : listing[k] = <<i, x>>
    BY <2>1, ListingIsBijection
  <2> QED
    BY <2>2
<1>3. \A j, k \in own : listing[j][2] = listing[k][2] => j = k
  <2> TAKE j \in own, k \in own
  <2> HAVE listing[j][2] = listing[k][2]
  <2>1. listing[j] = listing[k]
    BY <1>1
  <2> QED
    BY <1>1, <2>1, ListingIsBijection
<1>4. IsFiniteSet(own)
  <2>1. IsFiniteSet(DOMAIN listing)
    BY ListingIsBijection, FoundFinite, FS_Interval
  <2> QED
    BY <2>1, FS_Subset
<1> HIDE DEF own, good
<1>5. at \in Bijection(own, good)
  <2>1. at \in [own -> good]
    BY <1>1
  <2>2. \A x \in good : \E k \in own : at[k] = x
    BY <1>2
  <2>3. \A j, k \in own : at[j] = at[k] => j = k
    BY <1>3
  <2> HIDE DEF at
  <2> QED
    BY <2>1, <2>2, <2>3 DEF Bijection, Injection, Surjection, IsInjective
<1>6. ExistsBijection(own, good)
  BY <1>5 DEF ExistsBijection
<1>7. Cardinality(own) = Cardinality(good)
  BY <1>4, <1>6, FS_Bijection
<1> QED
  BY <1>7 DEF own, good

-----------------------------------------------------------------------------
(* The reports. *)

\* What a validation has returned: each candidate at most once, and unless it
\* was skipped none that does not pass, and all that do if it was not cancelled.
ResultsOK ==
    main = "returned" =>
        /\ out \in Seq(DOMAIN batch)
        /\ \A k, l \in DOMAIN out : out[k] = out[l] => k = l
        /\ ~SkipValidation /\ ~cancelled =>
              /\ \A k \in DOMAIN out : out[k] \in passing
              /\ \A i \in passing : \E k \in DOMAIN out : out[k] = i

StageOK ==
    /\ feed \in Feeds
    /\ stage \in {"wait", "validate", "apply", "prune", "stopped"}
    /\ stage # "validate" => main = "returned"
    /\ stage \in {"wait", "stopped"} => batch = <<>> /\ out = <<>> /\ reports = <<>>
    /\ stage \in {"wait", "validate", "stopped"} => current = 0
    /\ stage \in {"apply", "prune"} => current \in 1 .. Len(reports) + 1
    /\ stage = "prune" => current <= Len(reports)
    /\ status.degraded \in BOOLEAN

DirectoriesOK == \A d \in DOMAIN files : \A i \in DOMAIN d : d[i] \notin {"/", "\\", ":", " "}

ReportType == [source : Seq(STRING), total : Nat, skipped : Nat, imported : Nat,
               validated : Nat, error : BOOLEAN]

\* The candidates of the source at s, which may have the name of another.
Own(s) == {k \in DOMAIN batch : batch[k].source = feed.sources[s]}
Alone(s) == \A j \in DOMAIN feed.sources : feed.sources[j] = feed.sources[s] => j = s

\* The reports that are filled in.
Applied == IF stage = "prune" THEN current ELSE current - 1

CountOK(s) ==
    \/ /\ reports[s].validated \in 1 .. reports[s].imported
       /\ ~cancelled /\ ~SkipValidation =>
             reports[s].validated = Cardinality(Own(s) \cap passing)
    \/ reports[s].validated = Len(out) /\ Own(s) \cap ToSet(out) = {}

ReportsOK ==
    stage \in {"validate", "apply", "prune"} =>
        /\ reports \in Seq(ReportType) /\ DOMAIN reports = DOMAIN feed.sources
        /\ \A s \in DOMAIN reports :
              /\ reports[s].source = feed.sources[s]
              /\ reports[s].total = reports[s].imported + reports[s].skipped
              /\ Alone(s) => reports[s].imported = Cardinality(Own(s))
              /\ Alone(s) /\ s <= Applied => CountOK(s)

\* The inductive invariant.  What a report counts depends on what the validation
\* has returned, and that on what its workers held.
ReportInv == ValidatorInv /\ ResultsOK /\ StageOK /\ DirectoriesOK /\ ReportsOK

LEMMA BatchIsSequence ==
    ASSUME ValidatorInv
    PROVE  Len(batch) \in Nat /\ DOMAIN batch = 1 .. Len(batch)
BY DEF ValidatorInv, ValidatorTypeOK

\* A validation under way has something to do, one that has returned has not.
LEMMA StepIsInside ==
    ASSUME ValidatorInv, ValidatorStep
    PROVE  main # "returned" /\ UNCHANGED <<batch, passing, cancelled>>
<1>1. CASE StopSending \/ Return
  BY <1>1 DEF StopSending, Return
<1>2. ASSUME NEW w \in DOMAIN worker, Hand(w) \/ Passes(w) \/ Fails(w) \/ Exit(w)
      PROVE  main # "returned" /\ UNCHANGED <<batch, passing, cancelled>>
  <2>1. \A i \in DOMAIN batch : i # -1
    BY DEF ValidatorInv, ValidatorTypeOK
  <2> QED
    BY <1>2, <2>1 DEF Hand, Passes, Fails, Exit, ValidatorInv, ValidatorTypeOK, Gone
<1> QED
  BY <1>1, <1>2 DEF ValidatorStep

\* The results when the workers are gone (validation.go 69-76).
LEMMA ReturnGivesResults ==
    ASSUME ValidatorInv, Return
    PROVE  ResultsOK'
<1>1. /\ main = "waiting" /\ main' = "returned"
      /\ UNCHANGED <<batch, passing, cancelled, next, out>>
      /\ \A w \in DOMAIN worker : worker[w] = Gone
  BY DEF Return
<1>2. /\ out \in Seq(HandedOut) /\ HandedOut \subseteq DOMAIN batch
      /\ next \in 1 .. Len(batch) + 1 /\ Len(batch) \in Nat /\ DOMAIN batch = 1 .. Len(batch)
  BY <1>1 DEF ValidatorInv, ValidatorTypeOK, HandedOut
<1>3. out \in Seq(DOMAIN batch)
  BY <1>2
<1>4. /\ \A k, l \in DOMAIN out : out[k] = out[l] => k = l
      /\ \A k \in DOMAIN out : out[k] \in passing
  BY <1>1 DEF ValidatorInv, Accounted
<1>5. ~cancelled => \A i \in passing : \E k \in DOMAIN out : out[k] = i
  <2> SUFFICES ASSUME ~cancelled, NEW i \in passing
               PROVE  \E k \in DOMAIN out : out[k] = i
    OBVIOUS
  <2>1. i \in DOMAIN batch /\ i < next /\ i # -1
    <3>1. i \in DOMAIN batch /\ next > Len(batch)
      BY <1>1 DEF ValidatorInv, ValidatorTypeOK, Accounted
    <3> QED
      BY <1>2, <3>1
  <2> QED
    BY <1>1, <2>1 DEF ValidatorInv, Accounted, Gone
<1> QED
  BY <1>1, <1>3, <1>4, <1>5 DEF ResultsOK

\* How many of a source's candidates a validation has returned.
LEMMA FilteredCount ==
    ASSUME ValidatorInv, ResultsOK, main = "returned", NEW s,
           Cardinality(Own(s)) \in Nat
    PROVE  LET n == Cardinality(Filtered(feed.sources[s])) IN
           /\ n \in Nat
           /\ \/ /\ n \in 1 .. Cardinality(Own(s))
                 /\ ~cancelled /\ ~SkipValidation => n = Cardinality(Own(s) \cap passing)
              \/ n = Len(out) /\ Own(s) \cap ToSet(out) = {}
<1> DEFINE own == {k \in DOMAIN out : batch[out[k]].source = feed.sources[s]}
           some == {out[k] : k \in own}
           f == [k \in own |-> out[k]]
<1>1. /\ out \in Seq(DOMAIN batch) /\ Len(out) \in Nat /\ DOMAIN out = 1 .. Len(out)
      /\ \A k \in DOMAIN out : out[k] \in DOMAIN batch
      /\ \A k, l \in DOMAIN out : out[k] = out[l] => k = l
  BY DEF ResultsOK
<1>2. IsFiniteSet(DOMAIN out) /\ Cardinality(DOMAIN out) = Len(out)
  <2> DEFINE n == Len(out)
  <2>1. n \in Nat /\ DOMAIN out = 1 .. n
    BY <1>1
  <2> HIDE DEF n
  <2>2. IsFiniteSet(1 .. n) /\ Cardinality(1 .. n) = n
    BY <2>1, FS_Interval
  <2> QED
    BY <2>1, <2>2 DEF n
<1>3. Filtered(feed.sources[s]) = IF own # {} THEN own ELSE DOMAIN out
  BY DEF Filtered
<1>4. CASE own = {}
  <2>1. Own(s) \cap ToSet(out) = {}
    BY <1>1, <1>4 DEF Own, ToSet
  <2> QED
    BY <1>1, <1>2, <1>3, <1>4, <2>1
<1>5. CASE own # {}
  <2>1. IsFiniteSet(own) /\ Cardinality(own) \in Nat /\ Cardinality(own) # 0
    BY <1>2, <1>5, FS_Subset, FS_CardinalityType, FS_EmptySet
  <2>2. f \in Bijection(own, some)
    <3>1. f \in [own -> some] /\ \A x \in some : \E k \in own : f[k] = x
      OBVIOUS
    <3>2. \A k, l \in own : f[k] = f[l] => k = l
      BY <1>1
    <3> HIDE DEF f
    <3> QED
      BY <3>1, <3>2 DEF Bijection, Injection, Surjection, IsInjective
  <2>3. IsFiniteSet(some) /\ Cardinality(some) = Cardinality(own)
    <3> HIDE DEF f, own, some
    <3>1. ExistsBijection(own, some)
      BY <2>2 DEF ExistsBijection
    <3> QED
      BY <2>1, <3>1, FS_Bijection
  <2>4. some \in SUBSET Own(s) /\ IsFiniteSet(Own(s))
    <3>1. some \in SUBSET Own(s)
      BY <1>1 DEF Own
    <3>2. IsFiniteSet(DOMAIN batch)
      BY BatchIsSequence, FS_Interval
    <3> QED
      BY <3>1, <3>2, FS_Subset DEF Own
  <2>5. Cardinality(some) <= Cardinality(Own(s))
    <3> HIDE DEF some
    <3> QED
      BY <2>4, FS_Subset
  <2>6. ~cancelled /\ ~SkipValidation => some = Own(s) \cap passing
    BY <1>1 DEF ResultsOK, Own
  <2>7. Cardinality(own) \in 1 .. Cardinality(Own(s))
    <3> HIDE DEF own, some
    <3> QED
      BY <2>1, <2>3, <2>5
  <2>8. ~cancelled /\ ~SkipValidation => Cardinality(own) = Cardinality(Own(s) \cap passing)
    <3> HIDE DEF own, some
    <3> QED
      BY <2>3, <2>6
  <2> HIDE DEF own
  <2> QED
    BY <1>3, <1>5, <2>1, <2>7, <2>8
<1> QED
  BY <1>4, <1>5

\* A step that leaves the results, the reports and their stage alone keeps what
\* is known of them; cancelling only asks for less.
LEMMA ReportsAside ==
    ASSUME ReportInv, ValidatorInv', UNCHANGED <<main, batch, passing, out>>,
           cancelled => cancelled',
           UNCHANGED <<feed, stage, reports, current, status>>, DirectoriesOK'
    PROVE  ReportInv'
<1>1. ResultsOK'
  BY DEF ReportInv, ResultsOK
<1>2. StageOK'
  BY DEF ReportInv, StageOK
<1>3. \A s : (Own(s)' = Own(s)) /\ (Alone(s)' <=> Alone(s))
  BY DEF Own, Alone
<1>4. Applied' = Applied
  BY DEF Applied
<1>5. \A s : CountOK(s) => CountOK(s)'
  BY <1>3 DEF CountOK
<1>6. ReportsOK'
  BY <1>3, <1>4, <1>5 DEF ReportInv, ReportsOK
<1> QED
  BY <1>1, <1>2, <1>6 DEF ReportInv

LEMMA DirectoriesAside ==
    ASSUME DirectoriesOK, DOMAIN files' = DOMAIN files
    PROVE  DirectoriesOK'
BY DEF DirectoriesOK

\* Nothing is left of a refresh.
LEMMA ClearedReports ==
    ASSUME ReportInv, feed' = feed, stage' = "wait", main' = "returned",
           batch' = <<>>, passing' = {}, cancelled' \in BOOLEAN, next' = 1, worker' = <<>>,
           out' = <<>>, reports' = <<>>, current' = 0, status'.degraded \in BOOLEAN,
           files' = files
    PROVE  ReportInv'
<1>1. ValidatorInv'
  <2>1. next' \in 1 .. Len(batch') + 1 /\ batch' \in Seq(Entry)
    OBVIOUS
  <2>2. worker' = [w \in DOMAIN worker' |-> worker'[w]] /\ DOMAIN worker' = {}
    OBVIOUS
  <2> QED
    BY <2>1, <2>2 DEF ValidatorInv, ValidatorTypeOK, Accounted
<1>2. ResultsOK'
  BY DEF ResultsOK
<1>3. StageOK'
  BY DEF ReportInv, StageOK
<1>4. DirectoriesOK' /\ ReportsOK'
  BY DirectoriesAside DEF ReportInv, ReportsOK
<1> QED
  BY <1>1, <1>2, <1>3, <1>4 DEF ReportInv

\* The import and the start of the validation (app.go 249-263).
LEMMA FetchGivesReports ==
    ASSUME ReportInv, Fetch
    PROVE  ReportInv'
<1>1. /\ stage = "wait" /\ stage' = "validate" /\ main = "returned" /\ current = 0
      /\ feed \in Feeds /\ UNCHANGED <<feed, current, status, files>>
  BY DEF Fetch, ReportInv, StageOK
<1>2. PICK contents \in Contents :
         /\ reports' = [s \in DOMAIN feed.sources |->
                           Report(feed.plugin, feed.sources[s], contents[s])]
         /\ \E listing \in Listings(Found(contents)) : \E ok \in SUBSET DOMAIN listing :
               Start(Imported(contents, listing), ok)
  BY DEF Fetch, Contents, Offered
<1>3. PICK listing \in Listings(Found(contents)) :
         \E ok \in SUBSET DOMAIN listing : Start(Imported(contents, listing), ok)
  BY <1>2
<1>4. PICK ok \in SUBSET DOMAIN listing : Start(Imported(contents, listing), ok)
  BY <1>3
<1> DEFINE candidates == Imported(contents, listing)
           n == Cardinality(Found(contents))
<1>5. n \in Nat /\ DOMAIN listing = 1 .. n /\ DOMAIN candidates = 1 .. n
  BY <1>1, FoundFinite, ListingIsBijection DEF Imported
<1>6. candidates \in Seq(Entry)
  <2>1. ASSUME NEW k \in 1 .. n PROVE candidates[k] \in Entry
    <3>1. /\ listing[k][1] \in DOMAIN feed.sources
          /\ listing[k][2] \in Good(contents[listing[k][1]])
      BY <1>1, <1>5, FoundFinite, ListingIsBijection
    <3>2. contents[listing[k][1]][listing[k][2]] \in Candidates
      BY <3>1 DEF Good
    <3>3. feed.sources[listing[k][1]]
             \in UNION {{f.sources[s] : s \in DOMAIN f.sources} : f \in Feeds}
      BY <1>1, <3>1
    <3> QED
      BY <1>5, <3>2, <3>3 DEF Entry, Imported
  <2>2. candidates = [k \in 1 .. n |-> candidates[k]]
    BY <1>5 DEF Imported
  <2> HIDE DEF candidates, n
  <2> QED
    BY <1>5, <2>1, <2>2
<1>7. ok \in SUBSET DOMAIN candidates
  BY <1>5
<1>8. ValidatorInv'
  <2> HIDE DEF candidates
  <2>1. Start(candidates, ok)
    BY <1>4 DEF candidates
  <2> QED
    BY <1>6, <1>7, <2>1, StartKeepsInv DEF ReportInv
<1>9. batch' = candidates /\ passing' = ok /\ UNCHANGED cancelled
  BY <1>4 DEF Start
<1>10. ResultsOK'
  <2>1. CASE main' = "returned"
    <3>1. /\ SkipValidation \/ candidates = <<>>
          /\ out' = [i \in DOMAIN candidates |-> i]
      BY <1>4, <2>1 DEF Start
    <3>2. out' = [i \in 1 .. n |-> i] /\ DOMAIN batch' = 1 .. n
      BY <1>5, <1>9, <3>1
    <3>3. out' \in Seq(DOMAIN batch')
      <4> HIDE DEF n
      <4> QED
        BY <1>5, <3>2
    <3>4. ~SkipValidation => passing' = {}
      <4> HIDE DEF candidates
      <4> QED
        BY <1>7, <1>9, <3>1
    <3>5. /\ \A k, l \in DOMAIN out' : out'[k] = out'[l] => k = l
          /\ DOMAIN out' = DOMAIN batch'
      BY <3>2
    <3>6. ~SkipValidation => DOMAIN out' = {}
      <4> HIDE DEF candidates, n
      <4> QED
        BY <1>9, <3>1, <3>5
    <3> HIDE DEF candidates, n
    <3> QED
      BY <3>3, <3>4, <3>5, <3>6 DEF ResultsOK
  <2> QED
    BY <2>1 DEF ResultsOK
<1>11. StageOK'
  BY <1>1 DEF ReportInv, StageOK
<1>12. /\ reports' = [s \in DOMAIN feed.sources |->
                         Report(feed.plugin, feed.sources[s], contents[s])]
       /\ DOMAIN reports' = DOMAIN feed'.sources
  BY <1>1, <1>2
<1>13. ASSUME NEW s \in DOMAIN feed.sources
       PROVE  /\ reports'[s] \in ReportType
              /\ reports'[s].source = feed'.sources[s]
              /\ reports'[s].total = reports'[s].imported + reports'[s].skipped
              /\ Alone(s)' => reports'[s].imported = Cardinality(Own(s)')
  <2>1. contents[s] \in Content \cup {Unreadable} /\ feed.sources[s] \in Seq(STRING)
    BY <1>1, SourcesType DEF Contents
  <2> DEFINE bad == {i \in Items(contents[s]) : contents[s][i] = "bad"}
  <2>2. Cardinality(bad) \in Nat
    BY <2>1, ItemsOf, FS_Subset, FS_CardinalityType
  <2>3. /\ reports'[s].source = feed.sources[s]
        /\ reports'[s].total = Cardinality(Items(contents[s]))
        /\ reports'[s].imported = Cardinality(Good(contents[s]))
        /\ reports'[s].skipped = Cardinality(bad)
        /\ reports'[s] = [source |-> feed.sources[s],
                          total |-> Cardinality(Items(contents[s])),
                          skipped |-> Cardinality(bad),
                          imported |-> Cardinality(Good(contents[s])),
                          validated |-> 0, error |-> reports'[s].error]
        /\ reports'[s].error \in BOOLEAN
    BY <1>12 DEF Report
  <2>4. Cardinality(Items(contents[s])) = Cardinality(Good(contents[s])) + Cardinality(bad)
    BY <2>1, ItemsAddUp
  <2> HIDE DEF bad
  <2>5. reports'[s] \in ReportType
    BY <2>1, <2>2, <2>3, ItemsOf DEF ReportType
  <2>6. ASSUME Alone(s)' PROVE reports'[s].imported = Cardinality(Own(s)')
    <3>1. \A j \in DOMAIN feed.sources : feed.sources[j] = feed.sources[s] => j = s
      BY <1>1, <2>6 DEF Alone
    <3>2. Own(s)' = {k \in DOMAIN listing : feed.sources[listing[k][1]] = feed.sources[s]}
      BY <1>1, <1>9 DEF Own, Imported
    <3>3. Cardinality({k \in DOMAIN listing : feed.sources[listing[k][1]] = feed.sources[s]})
             = Cardinality(Good(contents[s]))
      BY <1>1, <3>1, ImportedOwn
    <3> QED
      BY <2>3, <3>2, <3>3
  <2> QED
    BY <1>1, <2>3, <2>4, <2>5, <2>6
<1>14. ReportsOK'
  <2>1. reports' \in Seq(ReportType)
    <3>1. /\ Len(feed.sources) \in Nat /\ DOMAIN feed.sources = 1 .. Len(feed.sources)
          /\ \A s \in DOMAIN feed.sources : reports'[s] \in ReportType
      BY <1>1, <1>13, SourcesType
    <3>2. reports' = [s \in DOMAIN feed.sources |-> reports'[s]]
      BY <1>12
    <3> QED
      BY <3>1, <3>2
  <2>2. Applied' = -1
    BY <1>1 DEF Applied
  <2>3. \A s \in DOMAIN reports' : s \in Nat
    BY <1>1, <1>12, SourcesType
  <2>4. ASSUME NEW s \in DOMAIN reports'
        PROVE  /\ reports'[s].source = feed'.sources[s]
               /\ reports'[s].total = reports'[s].imported + reports'[s].skipped
               /\ Alone(s)' => reports'[s].imported = Cardinality(Own(s)')
               /\ ~(s <= Applied')
    BY <1>1, <1>12, <1>13, <2>2, <2>3
  <2> QED
    BY <1>12, <2>1, <2>4 DEF ReportsOK
<1> QED
  BY <1>1, <1>8, <1>10, <1>11, <1>14, DirectoriesAside DEF ReportInv

\* The workers do not touch the reports (validation.go 41-76).
LEMMA StepKeepsReports ==
    ASSUME ReportInv, ValidatorStep, UNCHANGED refreshVars
    PROVE  ReportInv'
<1>1. main # "returned" /\ UNCHANGED <<batch, passing, cancelled>> /\ stage = "validate"
  BY StepIsInside DEF ReportInv, StageOK
<1>2. UNCHANGED <<feed, stage, reports, current, status, files>>
  BY DEF refreshVars
<1>3. ValidatorInv'
  BY ValidatorStepKeepsInv DEF ReportInv
<1>4. ResultsOK'
  <2>1. CASE Return
    BY <2>1, ReturnGivesResults DEF ReportInv
  <2>2. CASE ~Return
    <3>1. main' # "returned"
      BY <1>1, <2>2 DEF ValidatorStep, StopSending, Hand, Passes, Fails, Exit
    <3> QED
      BY <3>1 DEF ResultsOK
  <2> QED
    BY <2>1, <2>2
<1>5. StageOK'
  BY <1>1, <1>2 DEF ReportInv, StageOK
<1>6. ReportsOK'
  <2>1. \A s : (Own(s)' = Own(s)) /\ (Alone(s)' <=> Alone(s))
    BY <1>1, <1>2 DEF Own, Alone
  <2>2. Applied = -1 /\ Applied' = -1
    BY <1>1, <1>2 DEF Applied, ReportInv, StageOK
  <2>3. \A s \in DOMAIN reports : s \in Nat
    BY <1>1, SourcesType DEF ReportInv, ReportsOK, StageOK
  <2> QED
    BY <1>1, <1>2, <2>1, <2>2, <2>3 DEF ReportInv, ReportsOK
<1> QED
  BY <1>2, <1>3, <1>4, <1>5, <1>6, DirectoriesAside DEF ReportInv

\* The validation has returned and the reports are filled in one by one.
LEMMA ValidatedKeepsReports ==
    ASSUME ReportInv, Validated
    PROVE  ReportInv'
<1>1. /\ stage = "validate" /\ stage' = "apply" /\ main = "returned" /\ current' = 1
      /\ UNCHANGED <<validatorVars, feed, reports, status, files>>
  BY DEF Validated
<1>2. UNCHANGED <<main, batch, passing, cancelled, out>>
  BY <1>1 DEF validatorVars
<1>3. reports \in Seq(ReportType) /\ Len(reports) \in Nat /\ DOMAIN reports = 1 .. Len(reports)
  BY <1>1 DEF ReportInv, ReportsOK
<1>4. StageOK'
  <2>1. current' \in 1 .. Len(reports') + 1
    BY <1>1, <1>3
  <2> QED
    BY <1>1, <1>2, <2>1 DEF ReportInv, StageOK
<1>5. ReportsOK'
  <2>1. Applied' = 0 /\ \A s \in DOMAIN reports : ~(s <= 0)
    BY <1>1, <1>3 DEF Applied
  <2>2. \A s : (Own(s)' = Own(s)) /\ (Alone(s)' <=> Alone(s))
    BY <1>1, <1>2 DEF Own, Alone
  <2> QED
    BY <1>1, <2>1, <2>2 DEF ReportInv, ReportsOK
<1>6. ResultsOK'
  BY <1>2 DEF ReportInv, ResultsOK
<1> QED
  BY <1>1, <1>4, <1>5, <1>6, ValidatorAside, DirectoriesAside DEF ReportInv

\* No separator and no space is left in the name of a directory
\* (storage.go 174-180).
LEMMA NamesAreSafe ==
    ASSUME NEW source, NEW i \in DOMAIN Directory(source)
    PROVE  Directory(source)[i] \notin {"/", "\\", ":", " "}
BY DEF Directory, SafeName

\* The count of one report: the candidates of its source that were returned, or
\* all of them (app.go 272-284, 317-333).
LEMMA ApplyOneKeepsReports ==
    ASSUME ReportInv, ApplyOne
    PROVE  ReportInv'
<1>1. /\ stage = "apply" /\ current <= Len(reports) /\ main = "returned"
      /\ UNCHANGED <<validatorVars, feed, status>>
  BY DEF ApplyOne, ReportInv, StageOK
<1>2. UNCHANGED <<main, batch, passing, cancelled, out>>
  BY <1>1 DEF validatorVars
<1>3. /\ reports \in Seq(ReportType) /\ Len(reports) \in Nat
      /\ DOMAIN reports = 1 .. Len(reports) /\ DOMAIN reports = DOMAIN feed.sources
      /\ current \in DOMAIN reports
      /\ \A s \in DOMAIN reports : reports[s] \in ReportType
  BY <1>1 DEF ReportInv, ReportsOK, StageOK
<1> DEFINE n == Cardinality(Filtered(feed.sources[current]))
<1>4. /\ reports' = [reports EXCEPT ![current].validated = n]
      /\ reports[current].source = feed.sources[current]
  <2>1. reports[current].source = feed.sources[current]
    BY <1>1, <1>3 DEF ReportInv, ReportsOK
  <2> QED
    BY <2>1 DEF ApplyOne
<1>5. Cardinality(Own(current)) \in Nat
  <2>1. IsFiniteSet(DOMAIN batch)
    BY BatchIsSequence, FS_Interval DEF ReportInv
  <2>2. Own(current) \in SUBSET DOMAIN batch
    BY DEF Own
  <2> QED
    BY <2>1, <2>2, FS_Subset, FS_CardinalityType
<1>6. /\ n \in Nat
      /\ \/ /\ n \in 1 .. Cardinality(Own(current))
            /\ ~cancelled /\ ~SkipValidation => n = Cardinality(Own(current) \cap passing)
         \/ n = Len(out) /\ Own(current) \cap ToSet(out) = {}
  BY <1>1, <1>5, FilteredCount DEF ReportInv
<1> HIDE DEF n
<1>7. /\ reports' \in Seq(ReportType) /\ DOMAIN reports' = DOMAIN reports
      /\ Len(reports') = Len(reports)
      /\ \A s \in DOMAIN reports :
            /\ reports'[s].source = reports[s].source
            /\ reports'[s].total = reports[s].total
            /\ reports'[s].skipped = reports[s].skipped
            /\ reports'[s].imported = reports[s].imported
            /\ reports'[s].validated = IF s = current THEN n ELSE reports[s].validated
  <2>1. [reports[current] EXCEPT !.validated = n] \in ReportType
    BY <1>3, <1>6 DEF ReportType
  <2>2. reports' = [reports EXCEPT ![current] = [reports[current] EXCEPT !.validated = n]]
    BY <1>3, <1>4
  <2>3. reports' \in Seq(ReportType) /\ DOMAIN reports' = DOMAIN reports
        /\ Len(reports') = Len(reports)
    BY <1>3, <2>1, <2>2
  <2>4. ASSUME NEW s \in DOMAIN reports
        PROVE  /\ reports'[s].source = reports[s].source
               /\ reports'[s].total = reports[s].total
               /\ reports'[s].skipped = reports[s].skipped
               /\ reports'[s].imported = reports[s].imported
               /\ reports'[s].validated = IF s = current THEN n ELSE reports[s].validated
    <3>1. CASE s = current
      BY <1>3, <2>2, <3>1 DEF ReportType
    <3>2. CASE s # current
      BY <1>3, <2>2, <3>2
    <3> QED
      BY <3>1, <3>2
  <2> QED
    BY <2>3, <2>4
<1>8. \A s : (Own(s)' = Own(s)) /\ (Alone(s)' <=> Alone(s))
  BY <1>1, <1>2 DEF Own, Alone
<1>9. /\ \/ stage' = "prune" /\ current' = current
         \/ stage' = "apply" /\ current' = current + 1
      /\ current \in 1 .. Len(reports)
      /\ Applied' = current /\ Applied = current - 1
  BY <1>1, <1>3 DEF ApplyOne, Applied
<1>10. StageOK'
  <2>1. current' \in 1 .. Len(reports') + 1 /\ (stage' = "prune" => current' <= Len(reports'))
    BY <1>3, <1>7, <1>9
  <2> QED
    BY <1>1, <1>2, <1>9, <2>1 DEF ReportInv, StageOK
<1>11. ReportsOK'
  <2>1. ASSUME NEW s \in DOMAIN reports, Alone(s), s <= current
        PROVE  CountOK(s)'
    <3>1. s \in Nat /\ reports[s].imported = Cardinality(Own(s))
      BY <1>1, <1>3, <2>1 DEF ReportInv, ReportsOK
    <3>2. CASE s = current
      BY <1>2, <1>6, <1>7, <1>8, <3>1, <3>2 DEF CountOK
    <3>3. CASE s # current
      <4>1. s <= Applied
        BY <1>9, <2>1, <3>1, <3>3
      <4>2. CountOK(s)
        BY <1>1, <2>1, <4>1 DEF ReportInv, ReportsOK
      <4> QED
        BY <1>2, <1>7, <1>8, <3>3, <4>2 DEF CountOK
    <3> QED
      BY <3>2, <3>3
  <2>2. ASSUME NEW s \in DOMAIN reports
        PROVE  /\ reports'[s].source = feed'.sources[s]
               /\ reports'[s].total = reports'[s].imported + reports'[s].skipped
               /\ Alone(s)' => reports'[s].imported = Cardinality(Own(s)')
               /\ Alone(s)' /\ s <= Applied' => CountOK(s)'
    BY <1>1, <1>7, <1>8, <1>9, <2>1 DEF ReportInv, ReportsOK
  <2> QED
    BY <1>1, <1>3, <1>7, <2>2 DEF ReportsOK
<1>12. DirectoriesOK'
  <2>1. DOMAIN files' \subseteq DOMAIN files \cup {Directory(reports[current].source)}
    BY DEF ApplyOne
  <2> QED
    BY <2>1, NamesAreSafe DEF ReportInv, DirectoriesOK
<1>13. ResultsOK'
  BY <1>2 DEF ReportInv, ResultsOK
<1> QED
  BY <1>1, <1>10, <1>11, <1>12, <1>13, ValidatorAside DEF ReportInv

\* Pruning goes on to the next report (storage.go 93-97; app.go 284).
LEMMA PruneKeepsReports ==
    ASSUME ReportInv, Prune
    PROVE  ReportInv'
<1>1. /\ stage = "prune" /\ stage' = "apply" /\ current' = current + 1 /\ main = "returned"
      /\ UNCHANGED <<validatorVars, feed, reports, status>> /\ DOMAIN files' = DOMAIN files
  BY DEF Prune, ReportInv, StageOK
<1>2. UNCHANGED <<main, batch, passing, cancelled, out>>
  BY <1>1 DEF validatorVars
<1>3. /\ current \in 1 .. Len(reports) + 1 /\ current <= Len(reports) /\ Len(reports) \in Nat
  BY <1>1 DEF ReportInv, ReportsOK, StageOK
<1>4. StageOK'
  <2>1. current' \in 1 .. Len(reports') + 1
    BY <1>1, <1>3
  <2> QED
    BY <1>1, <1>2, <2>1 DEF ReportInv, StageOK
<1>5. ReportsOK'
  <2>1. Applied' = Applied
    BY <1>1, <1>3 DEF Applied
  <2>2. \A s : (Own(s)' = Own(s)) /\ (Alone(s)' <=> Alone(s)) /\ (CountOK(s)' <=> CountOK(s))
    BY <1>1, <1>2 DEF Own, Alone, CountOK
  <2> QED
    BY <1>1, <2>1, <2>2 DEF ReportInv, ReportsOK
<1>6. ResultsOK'
  BY <1>2 DEF ReportInv, ResultsOK
<1> QED
  BY <1>1, <1>4, <1>5, <1>6, ValidatorAside, DirectoriesAside DEF ReportInv

LEMMA ReportInit == RefreshInit => ReportInv
<1> SUFFICES ASSUME RefreshInit PROVE ReportInv
  OBVIOUS
<1>1. ValidationInit
  BY DEF RefreshInit, ValidationInit
<1>2. ResultsOK
  BY DEF RefreshInit, ResultsOK
<1>3. StageOK
  BY DEF RefreshInit, StageOK, NotRefreshed
<1>4. DirectoriesOK /\ ReportsOK
  BY DEF RefreshInit, DirectoriesOK, ReportsOK
<1> QED
  BY <1>1, <1>2, <1>3, <1>4, ValidatorInitInv DEF ReportInv

LEMMA ReportNext ==
    ASSUME ReportInv, [RefreshNext]_vars
    PROVE  ReportInv'
<1>1. CASE Finish
  <2>1. cancelled' \in BOOLEAN /\ main' = "returned"
    BY <1>1 DEF Finish, ReportInv, StageOK, ValidatorInv, ValidatorTypeOK
  <2>2. status'.degraded \in BOOLEAN
    BY <1>1 DEF Finish
  <2> QED
    BY <1>1, <2>1, <2>2, ClearedReports DEF Finish
<1>2. CASE Restart
  <2>1. status'.degraded \in BOOLEAN /\ cancelled' \in BOOLEAN
    BY <1>2 DEF Restart, NotRefreshed
  <2> QED
    BY <1>2, <2>1, ClearedReports DEF Restart
<1>3. CASE Cancel
  <2>1. CancelContext
    BY <1>3 DEF Cancel, CancelContext
  <2>2. ValidatorInv'
    BY <2>1, CancelKeepsInv DEF ReportInv
  <2>3. /\ UNCHANGED <<main, batch, passing, out, feed, stage, reports, current, status, files>>
        /\ cancelled' = TRUE
    BY <1>3 DEF Cancel, refreshVars
  <2> QED
    BY <2>2, <2>3, ReportsAside, DirectoriesAside DEF ReportInv
<1>4. CASE Quit
  <2>1. /\ stage = "wait" /\ stage' = "stopped" /\ DOMAIN files' = DOMAIN files
        /\ UNCHANGED <<validatorVars, feed, reports, current, status>>
    BY <1>4 DEF Quit
  <2>2. UNCHANGED <<main, batch, passing, cancelled, out>>
    BY <2>1 DEF validatorVars
  <2>3. ResultsOK' /\ StageOK' /\ ReportsOK'
    BY <2>1, <2>2 DEF ReportInv, ResultsOK, StageOK, ReportsOK
  <2> QED
    BY <2>1, <2>3, ValidatorAside, DirectoriesAside DEF ReportInv
<1>5. CASE UNCHANGED vars
  <2>1. UNCHANGED validatorVars
    BY <1>5 DEF vars
  <2>2. UNCHANGED <<main, batch, passing, cancelled, out, feed, stage, reports, current,
                    status, files>>
    BY <1>5 DEF vars, validatorVars, refreshVars
  <2> QED
    BY <2>1, <2>2, ReportsAside, ValidatorAside, DirectoriesAside DEF ReportInv
<1> QED
  BY <1>1, <1>2, <1>3, <1>4, <1>5, FetchGivesReports, ValidatedKeepsReports,
     ApplyOneKeepsReports, PruneKeepsReports, StepKeepsReports DEF RefreshNext

\* What is known of validation and reports holds in every reachable state, for
\* any plugins, contents and number of workers (app.go 249-293).
THEOREM ReportInvariance == RefreshSpec => []ReportInv
BY ReportInit, ReportNext, PTL DEF RefreshSpec

\* The numbers of the reports add up, whatever the sources offer, in whatever
\* order the workers finish and whenever the refresh is cancelled or killed
\* (app.go 263-284, 317-333; singbox.go 98-126; fofa.go 40-127; fpl.go 32-107).
THEOREM RefreshReports == RefreshSpec => []ReportsAddUp
<1>1. ASSUME ReportInv PROVE ReportsAddUp
  <2>1. CASE stage \in {"wait", "stopped"}
    BY <1>1, <2>1 DEF ReportInv, StageOK, ReportsAddUp
  <2>2. CASE stage \in {"validate", "apply", "prune"}
    <3>1. /\ DOMAIN reports = DOMAIN feed.sources
          /\ \A s \in DOMAIN reports :
                /\ reports[s].source = feed.sources[s]
                /\ reports[s].total = reports[s].imported + reports[s].skipped
                /\ Alone(s) => reports[s].imported = Cardinality(Own(s))
                /\ Alone(s) /\ s <= Applied => CountOK(s)
      BY <1>1, <2>2 DEF ReportInv, ReportsOK
    <3>2. \A s \in DOMAIN reports : OnlyOne(s) => Alone(s)
      BY <3>1 DEF OnlyOne, Alone
    <3>3. \A s \in DOMAIN reports : s < current => s <= Applied
      <4>1. \A s \in DOMAIN reports : s \in Nat
        BY <1>1, <3>1, SourcesType DEF ReportInv, StageOK
      <4>2. current \in Int
        BY <1>1, <2>2 DEF ReportInv, StageOK, ReportsOK
      <4> QED
        BY <4>1, <4>2 DEF Applied
    <3>4. \A s \in DOMAIN reports :
             {k \in DOMAIN batch : batch[k].source = reports[s].source} = Own(s)
      BY <3>1 DEF Own
    <3>5. \A s \in DOMAIN reports : OnlyOne(s) =>
             /\ reports[s].imported = Cardinality(Own(s))
             /\ s < current => CountOK(s)
      BY <3>1, <3>2, <3>3
    <3> QED
      BY <3>1, <3>4, <3>5 DEF ReportsAddUp, CountOK
  <2> QED
    BY <1>1, <2>1, <2>2 DEF ReportInv, StageOK
<1> QED
  BY <1>1, ReportInvariance, PTL

\* Every variable of a refresh has its type; above all, no name of a source leads
\* out of the directory of the snapshots (storage.go 168-180).
THEOREM RefreshTypeCorrect == RefreshSpec => []RefreshTypeOK
<1>1. ASSUME ReportInv, SnapshotInv PROVE RefreshTypeOK
  <2>1. /\ Len(batch) \in Nat /\ DOMAIN batch = 1 .. Len(batch)
        /\ next \in 1 .. Len(batch) + 1 /\ HandedOut \subseteq DOMAIN batch
        /\ passing \subseteq DOMAIN batch /\ main \in {"sending", "waiting", "returned"}
    BY <1>1 DEF ReportInv, ValidatorInv, ValidatorTypeOK, HandedOut
  <2>2. \A i \in DOMAIN batch : batch[i].item \in Candidates
    <3>1. \A i \in DOMAIN batch : batch[i] \in Entry
      BY <1>1 DEF ReportInv, ValidatorInv, ValidatorTypeOK
    <3> QED
      BY <3>1 DEF Entry
  <2>3. ToSet(out) \subseteq DOMAIN batch
    <3>1. out \in Seq(HandedOut) \/ out \in Seq(DOMAIN batch)
      BY <1>1 DEF ReportInv, ResultsOK, ValidatorInv, ValidatorTypeOK
    <3> QED
      BY <2>1, <3>1 DEF ToSet
  <2>4. \A w \in DOMAIN worker : worker[w] \in {Idle, Gone} \cup DOMAIN batch
    BY <1>1, <2>1 DEF ReportInv, ValidatorInv, ValidatorTypeOK
  <2>5. current \in 0 .. Len(reports) + 1
    <3>1. CASE stage \in {"wait", "stopped"}
      BY <1>1, <3>1 DEF ReportInv, StageOK
    <3>2. CASE stage \in {"validate", "apply", "prune"}
      <4>1. Len(reports) \in Nat
        BY <1>1, <3>2 DEF ReportInv, ReportsOK
      <4> QED
        BY <1>1, <3>2, <4>1 DEF ReportInv, StageOK
    <3> QED
      BY <1>1, <3>1, <3>2 DEF ReportInv, StageOK
  <2>6. /\ stage \in {"wait", "validate", "apply", "prune", "stopped"}
        /\ status.degraded \in BOOLEAN
        /\ \A d \in DOMAIN files : \A i \in DOMAIN d : d[i] \notin {"/", "\\", ":", " "}
    BY <1>1 DEF ReportInv, StageOK, DirectoriesOK
  <2>7. /\ DOMAIN files = DOMAIN written
        /\ \A d \in DOMAIN files : files[d] \subseteq written[d] /\ written[d] \subseteq 1 .. clock
    BY <1>1 DEF SnapshotInv, DirectoryOK
  <2> QED
    BY <2>1, <2>2, <2>3, <2>4, <2>5, <2>6, <2>7 DEF RefreshTypeOK
<1> QED
  BY <1>1, ReportInvariance, RefreshInvariance, PTL

-----------------------------------------------------------------------------
(* The refinement of ValidateOnce by the refreshes. *)

LEMMA OnceInit ==
    ASSUME main = "returned", batch = <<>>, passing = {}, cancelled = FALSE
    PROVE  Once!Init
BY DEF Once!Init

LEMMA OnceAside == ASSUME UNCHANGED validatorVars PROVE UNCHANGED Once!vars
BY DEF validatorVars, Once!vars

\* What a refresh does to the validator's variables is a step of the caller.
LEMMA RefreshStepRefines ==
    ASSUME ReportInv, [RefreshNext]_vars
    PROVE  [Once!Next]_(Once!vars)
<1>1. CASE Fetch
  <2>1. PICK contents \in Contents :
           \E listing \in Listings(Found(contents)) : \E ok \in SUBSET DOMAIN listing :
              Start(Imported(contents, listing), ok)
    BY <1>1 DEF Fetch, Contents, Offered
  <2>2. PICK listing \in Listings(Found(contents)) :
           \E ok \in SUBSET DOMAIN listing : Start(Imported(contents, listing), ok)
    BY <2>1
  <2>3. PICK ok \in SUBSET DOMAIN listing : Start(Imported(contents, listing), ok)
    BY <2>2
  <2>4. batch' = Imported(contents, listing) /\ ValidatorInv'
    BY <1>1, <2>3, FetchGivesReports DEF Start, ReportInv
  <2>5. Imported(contents, listing) \in Seq(Entry)
        /\ ok \in SUBSET DOMAIN Imported(contents, listing)
    BY <2>4 DEF ValidatorInv, ValidatorTypeOK, Imported
  <2> QED
    BY <2>3, <2>5, StartRefines DEF Once!Next
<1>2. CASE ValidatorStep
  BY <1>2, ValidatorStepRefines DEF ReportInv, Once!Next
<1>3. CASE Cancel
  BY <1>3, CancelRefines DEF Cancel, CancelContext, Once!Next
<1>4. CASE Finish
  <2>1. /\ main = "returned" /\ main' = "returned" /\ UNCHANGED cancelled
        /\ batch' = <<>> /\ passing' = {} /\ DOMAIN batch' = {}
    BY <1>4 DEF Finish, ReportInv, StageOK
  <2> QED
    BY <2>1 DEF Once!Skip, Once!Next
<1>5. CASE Restart
  <2>1. main' = "returned" /\ batch' = <<>> /\ passing' = {} /\ cancelled' = FALSE
    BY <1>5 DEF Restart
  <2> QED
    BY <2>1 DEF Once!Init, Once!Restart, Once!Next
<1>6. CASE UNCHANGED validatorVars
  BY <1>6, OnceAside
<1> QED
  BY <1>1, <1>2, <1>3, <1>4, <1>5, <1>6
     DEF RefreshNext, Validated, ApplyOne, Prune, Quit, vars

\* The safety part of ImplementsValidation, for refreshes: across cancellations,
\* restarts and batches of any size, what a refresh gets from the workers is what
\* a validation promises (validation.go 25-76; app.go 263).
THEOREM RefreshRefines == RefreshSpec => Once!Safety
<1>1. RefreshInit => Once!Init
  BY OnceInit DEF RefreshInit
<1> QED
  BY <1>1, RefreshStepRefines, ReportInvariance, PTL DEF RefreshSpec, Once!Safety

-----------------------------------------------------------------------------
(* A validation never gets stuck. *)

\* While candidates are handed out there is a worker, and none has gone.
WorkersOK ==
    main = "sending" => 1 \in DOMAIN worker /\ \A w \in DOMAIN worker : worker[w] # Gone

\* A worker that holds a candidate finds room for it among the results, for as
\* many fit as there are candidates (validation.go 37, 59).
ResultsFit ==
    \A w \in DOMAIN worker : main # "returned" /\ worker[w] > 0 => Len(out) < OutCapacity

\* The loop, wg.Wait and the workers do not wait for each other in a circle: at
\* least one of them can go on, whatever the concurrency and the batch, and
\* whether the context has ended or not.  This is what the end of a validation
\* rests on (validation.go 33-75).
SomeoneGoesOn ==
    main # "returned" =>
        \/ main = "sending" /\ (next > Len(batch) \/ \E w \in DOMAIN worker : worker[w] = Idle)
        \/ main = "waiting" /\ \/ \A w \in DOMAIN worker : worker[w] = Gone
                               \/ \E w \in DOMAIN worker : worker[w] = Idle
        \/ \E w \in DOMAIN worker :
              /\ worker[w] \in DOMAIN batch
              /\ worker[w] \in passing => Len(out) < OutCapacity

LEMMA MinOfTwo ==
    ASSUME NEW a \in Int, NEW b \in Int
    PROVE  Min({a, b}) \in {a, b}
<1>1. \E x \in {a, b} : \A y \in {a, b} : x <= y
  OBVIOUS
<1> QED
  BY <1>1 DEF Min

\* There is a worker for a batch that is not empty, also when concurrency is not
\* positive (validation.go 33-36).
LEMMA WorkersForBatch == ASSUME NEW n \in Nat \ {0} PROVE WorkerCount(n) \in Nat \ {0}
<1> DEFINE c == IF Concurrency <= 0 THEN 50 ELSE Concurrency
<1>1. c \in Nat \ {0}
  BY ValidatorAssumption
<1> HIDE DEF c
<1>2. Min({c, n}) \in {c, n}
  BY <1>1, MinOfTwo
<1>3. WorkerCount(n) = Min({c, n})
  BY DEF WorkerCount, c
<1> QED
  BY <1>1, <1>2, <1>3

LEMMA StartGivesWorkers ==
    ASSUME NEW candidates \in Seq(Entry), NEW ok, Start(candidates, ok)
    PROVE  WorkersOK'
<1>1. SUFFICES ASSUME main' = "sending"
               PROVE  1 \in DOMAIN worker' /\ \A w \in DOMAIN worker' : worker'[w] # Gone
  BY DEF WorkersOK
<1>2. /\ candidates # <<>>
      /\ worker' = [w \in 1 .. WorkerCount(Len(candidates)) |-> Idle]
  BY <1>1 DEF Start
<1>3. Len(candidates) \in Nat \ {0}
  BY <1>2
<1>4. WorkerCount(Len(candidates)) \in Nat \ {0}
  BY <1>3, WorkersForBatch
<1>5. DOMAIN worker' = 1 .. WorkerCount(Len(candidates))
      /\ \A w \in DOMAIN worker' : worker'[w] = Idle
  BY <1>2
<1>6. Idle # Gone
  BY DEF Idle, Gone
<1> QED
  BY <1>4, <1>5, <1>6

LEMMA ValidatorStepKeepsWorkers ==
    ASSUME ValidatorInv, WorkersOK, ValidatorStep
    PROVE  WorkersOK'
<1>1. SUFFICES ASSUME main' = "sending" PROVE WorkersOK'
  BY DEF WorkersOK
<1>2. ~StopSending /\ ~Return /\ \A w \in DOMAIN worker : ~Exit(w)
  BY <1>1 DEF StopSending, Return, Exit
<1>3. PICK w \in DOMAIN worker : Hand(w) \/ Passes(w) \/ Fails(w)
  BY <1>2 DEF ValidatorStep
<1>4. /\ main = "sending" /\ next # Gone
      /\ worker' = [worker EXCEPT ![w] = next] \/ worker' = [worker EXCEPT ![w] = Idle]
  BY <1>1, <1>3 DEF Hand, Passes, Fails, ValidatorInv, ValidatorTypeOK, Gone
<1>5. Idle # Gone
  BY DEF Idle, Gone
<1>6. DOMAIN worker' = DOMAIN worker /\ \A v \in DOMAIN worker' : worker'[v] # Gone
  BY <1>4, <1>5 DEF WorkersOK
<1> QED
  BY <1>4, <1>6 DEF WorkersOK

LEMMA StepKeepsWorkers ==
    ASSUME ReportInv, ReportInv', WorkersOK, [RefreshNext]_vars
    PROVE  WorkersOK'
<1>1. CASE Fetch
  <2>1. PICK contents \in Contents :
           \E listing \in Listings(Found(contents)) : \E ok \in SUBSET DOMAIN listing :
              Start(Imported(contents, listing), ok)
    BY <1>1 DEF Fetch, Contents, Offered
  <2>2. PICK listing \in Listings(Found(contents)) :
           \E ok \in SUBSET DOMAIN listing : Start(Imported(contents, listing), ok)
    BY <2>1
  <2>3. PICK ok \in SUBSET DOMAIN listing : Start(Imported(contents, listing), ok)
    BY <2>2
  <2>4. Imported(contents, listing) \in Seq(Entry)
    BY <2>3 DEF Start, ReportInv, ValidatorInv, ValidatorTypeOK
  <2> QED
    BY <2>3, <2>4, StartGivesWorkers
<1>2. CASE ValidatorStep
  BY <1>2, ValidatorStepKeepsWorkers DEF ReportInv
<1>3. CASE Finish
  <2>1. main' = "returned"
    BY <1>3 DEF Finish, ReportInv, StageOK
  <2> QED
    BY <2>1 DEF WorkersOK
<1>4. CASE Restart
  BY <1>4 DEF Restart, WorkersOK
<1>5. CASE UNCHANGED <<main, worker>>
  BY <1>5 DEF WorkersOK
<1> QED
  BY <1>1, <1>2, <1>3, <1>4, <1>5
     DEF RefreshNext, Validated, ApplyOne, Prune, Cancel, Quit, vars, validatorVars

\* The results and what a worker holds are different positions of the batch.
LEMMA RoomForResult ==
    ASSUME ValidatorInv, main # "returned", NEW w \in DOMAIN worker, worker[w] > 0
    PROVE  Len(out) < OutCapacity
<1>1. PICK n, m, i : n = Len(out) /\ m = Len(batch) /\ i = worker[w]
  OBVIOUS
<1>2. /\ m \in Nat /\ n \in Nat /\ HandedOut \subseteq 1 .. m
      /\ out \in Seq(HandedOut) /\ DOMAIN out = 1 .. n
  BY <1>1 DEF ValidatorInv, ValidatorTypeOK, HandedOut
<1>3. i \in 1 .. m
  BY <1>1, <1>2 DEF ValidatorInv, ValidatorTypeOK, Idle, Gone
<1> DEFINE others == (1 .. m) \ {i}
<1>4. \A k \in 1 .. n : out[k] \in others
  <2>1. \A k \in DOMAIN out : worker[w] # out[k]
    BY DEF ValidatorInv, Accounted
  <2>2. \A k \in DOMAIN out : out[k] \in HandedOut
    BY <1>2
  <2>3. \A k \in 1 .. n : out[k] \in 1 .. m
    BY <1>2, <2>2
  <2> QED
    BY <1>1, <1>2, <2>1, <2>3
<1>5. \A k, l \in 1 .. n : out[k] = out[l] => k = l
  BY <1>2 DEF ValidatorInv, Accounted
<1>6. IsFiniteSet(1 .. m) /\ Cardinality(1 .. m) = m /\ Cardinality(1 .. n) = n
  <2>1. 1 \in Int /\ m \in Int /\ n \in Int
    BY <1>2
  <2>2. /\ IsFiniteSet(1 .. m) /\ Cardinality(1 .. m) = IF 1 > m THEN 0 ELSE m - 1 + 1
        /\ Cardinality(1 .. n) = IF 1 > n THEN 0 ELSE n - 1 + 1
    BY <2>1, FS_Interval
  <2>3. /\ (IF 1 > m THEN 0 ELSE m - 1 + 1) = m
        /\ (IF 1 > n THEN 0 ELSE n - 1 + 1) = n
    BY <1>2
  <2> QED
    BY <2>2, <2>3
<1>7. IsFiniteSet(others) /\ Cardinality(others) = m - 1
  BY <1>3, <1>6, FS_RemoveElement
<1> HIDE DEF others
<1>8. n <= m - 1
  <2>1. PICK f : f = [k \in 1 .. n |-> out[k]]
    OBVIOUS
  <2>2. f \in [1 .. n -> others] /\ \A k, l \in 1 .. n : f[k] = f[l] => k = l
    BY <1>4, <1>5, <2>1
  <2>3. f \in Injection(1 .. n, others)
    BY <2>2 DEF Injection, IsInjective
  <2>4. Cardinality(1 .. n) <= Cardinality(others)
    BY <1>7, <2>3, FS_Injection
  <2> QED
    BY <1>6, <1>7, <2>4
<1> QED
  BY <1>1, <1>2, <1>8 DEF OutCapacity

\* Whatever a batch, the number of workers and a cancellation: a worker is never
\* blocked by the channel of results, and a validation that has not returned can
\* go on (validation.go 33-75).
THEOREM ValidationGoesOn == RefreshSpec => [](ResultsFit /\ SomeoneGoesOn)
<1>1. RefreshInit => WorkersOK
  BY DEF RefreshInit, WorkersOK
<1>2. ASSUME ReportInv, WorkersOK
      PROVE  ResultsFit /\ SomeoneGoesOn
  <2>1. ValidatorInv
    BY <1>2 DEF ReportInv
  <2>2. ResultsFit
    BY <2>1, RoomForResult DEF ResultsFit
  <2>3. SomeoneGoesOn
    <3>1. SUFFICES ASSUME main # "returned", \A w \in DOMAIN worker : worker[w] # Idle,
                          \E w \in DOMAIN worker : worker[w] # Gone
                   PROVE  \E w \in DOMAIN worker : /\ worker[w] \in DOMAIN batch
                                                   /\ Len(out) < OutCapacity
      BY <1>2, <2>1 DEF SomeoneGoesOn, WorkersOK, ValidatorInv, ValidatorTypeOK
    <3>2. PICK w \in DOMAIN worker : worker[w] # Gone
      BY <3>1
    <3>3. worker[w] \in HandedOut
      BY <2>1, <3>1, <3>2 DEF ValidatorInv, ValidatorTypeOK
    <3>4. worker[w] \in DOMAIN batch /\ worker[w] > 0
      BY <2>1, <3>3 DEF ValidatorInv, ValidatorTypeOK, HandedOut
    <3> QED
      BY <2>2, <3>1, <3>4 DEF ResultsFit
  <2> QED
    BY <2>2, <2>3
<1>3. ReportInv /\ ReportInv' /\ WorkersOK /\ [RefreshNext]_vars => WorkersOK'
  BY StepKeepsWorkers
<1> QED
  BY <1>1, <1>2, <1>3, ReportInvariance, PTL DEF RefreshSpec
=============================================================================
