----------------------------- MODULE Validator -----------------------------
(***************************************************************************)
(* Validator.Validate (internal/validation/validation.go): a goroutine     *)
(* hands the candidates to a pool of workers through an unbuffered channel, *)
(* the workers send those that pass into a buffered one.                    *)
(*                                                                         *)
(* Candidates are known by their position in the batch, since a batch may   *)
(* hold one several times.  A check ends within its timeout; its outcome is *)
(* chosen beforehand, and a cancelled check may fail all the same.          *)
(***************************************************************************)
EXTENDS Integers, Sequences, FiniteSets, FiniteSetsExt

CONSTANTS
    Concurrency,      \* validation.concurrency, or the cap of plugin singbox
    SkipValidation    \* validation.skip_validation

ASSUME ValidatorAssumption == Concurrency \in Int /\ SkipValidation \in BOOLEAN

VARIABLES
    main,        \* where Validate is: "sending", "waiting" or "returned"
    batch,       \* the candidates, in order
    passing,     \* positions of those that pass their check
    cancelled,   \* the context has ended
    next,        \* position of the next candidate to hand out
    worker,      \* worker -> position it checks, Idle or Gone
    out          \* the channel of results: positions

validatorVars == <<main, batch, passing, cancelled, next, worker, out>>

Idle == 0
Gone == -1

WorkerCount(n) == Min({IF Concurrency <= 0 THEN 50 ELSE Concurrency, n})

\* Mutation of OutCapacity: a buffer for one result of each worker.
OutCapacityWorkers == WorkerCount(Len(batch))

OutCapacity == Len(batch)

Start(candidates, ok) ==
    /\ main = "returned"
    /\ batch' = candidates /\ passing' = ok
    /\ next' = 1
    /\ IF SkipValidation \/ candidates = <<>>
         THEN /\ main' = "returned"
              /\ worker' = <<>>
              /\ out' = [i \in DOMAIN candidates |-> i]
         ELSE /\ main' = "sending"
              /\ worker' = [w \in 1 .. WorkerCount(Len(candidates)) |-> Idle]
              /\ out' = <<>>
    /\ UNCHANGED cancelled

\* The select of the sending loop takes either case if both are ready.
Hand(w) ==
    /\ main = "sending" /\ next <= Len(batch)
    /\ worker[w] = Idle
    /\ worker' = [worker EXCEPT ![w] = next]
    /\ next' = next + 1
    /\ UNCHANGED <<main, batch, passing, cancelled, out>>

\* The loop is over or left; the channel is closed.
StopSending ==
    /\ main = "sending"
    /\ cancelled \/ next > Len(batch)
    /\ main' = "waiting"
    /\ UNCHANGED <<batch, passing, cancelled, next, worker, out>>

Passes(w) ==
    /\ worker[w] \in passing /\ Len(out) < OutCapacity
    /\ out' = Append(out, worker[w])
    /\ worker' = [worker EXCEPT ![w] = Idle]
    /\ UNCHANGED <<main, batch, passing, cancelled, next>>

Fails(w) ==
    /\ worker[w] \in DOMAIN batch
    /\ worker[w] \notin passing \/ cancelled
    /\ worker' = [worker EXCEPT ![w] = Idle]
    /\ UNCHANGED <<main, batch, passing, cancelled, next, out>>

Exit(w) ==
    /\ main = "waiting" /\ worker[w] = Idle
    /\ worker' = [worker EXCEPT ![w] = Gone]
    /\ UNCHANGED <<main, batch, passing, cancelled, next, out>>

\* wg.Wait; then the results are read from the channel.
Return ==
    /\ main = "waiting" /\ \A w \in DOMAIN worker : worker[w] = Gone
    /\ main' = "returned"
    /\ UNCHANGED <<batch, passing, cancelled, next, worker, out>>

ValidatorStep ==
    \/ StopSending \/ Return
    \/ \E w \in DOMAIN worker : Hand(w) \/ Passes(w) \/ Fails(w) \/ Exit(w)

-----------------------------------------------------------------------------

\* The validator as its caller sees it.
Once == INSTANCE ValidateOnce WITH
    running <- main # "returned",
    times <- [i \in DOMAIN batch |->
                IF main = "returned" THEN Cardinality({k \in DOMAIN out : out[k] = i})
                ELSE 0]

\* Validation ends, in every interleaving of workers and cancellation, and
\* returns each candidate that passes exactly once; when it is cancelled it may
\* miss some but never returns one that does not pass
\* (validation.go 41-75; app.go 263).
ImplementsValidation == Once!Spec
=============================================================================
