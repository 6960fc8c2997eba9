---------------------------- MODULE ValidateOnce ----------------------------
(***************************************************************************)
(* What a validation promises (internal/validation/validation.go): it       *)
(* returns candidates it was given, none more often than it was given;      *)
(* without a cancellation it returns exactly those that pass, and with one  *)
(* it returns none that does not.  And it ends.                             *)
(***************************************************************************)
EXTENDS Integers

VARIABLES
    running,     \* a validation is under way
    cancelled,   \* the context of the refresh has ended
    batch,       \* the candidates to validate, in order
    passing,     \* the positions in batch of those that pass their check
    times        \* position in batch -> how often it is returned

vars == <<running, cancelled, batch, passing, times>>

Init == ~running /\ ~cancelled /\ batch = <<>> /\ passing = {} /\ times = <<>>

\* A refresh hands over what its plugin has found.
Begin ==
    /\ ~running /\ running'
    /\ passing' \subseteq DOMAIN batch'
    /\ times' = [i \in DOMAIN batch' |-> 0]
    /\ UNCHANGED cancelled

Cancel == cancelled' /\ UNCHANGED <<running, batch, passing, times>>

Return ==
    /\ running /\ ~running'
    /\ \E kept \in SUBSET passing :
         /\ ~cancelled => kept = passing
         /\ times' = [i \in DOMAIN batch |-> IF i \in kept THEN 1 ELSE 0]
    /\ UNCHANGED <<cancelled, batch, passing>>

\* Nothing is validated: all that was found is taken, or nothing was found.
Skip ==
    /\ ~running /\ ~running'
    /\ times' = [i \in DOMAIN batch' |-> 1]
    /\ passing' \subseteq DOMAIN batch'
    /\ UNCHANGED cancelled

\* The process is started anew.
Restart == Init'

Next == Begin \/ Cancel \/ Return \/ Skip \/ Restart

Safety == Init /\ [][Next]_vars

\* A validation that has begun ends.
Ends == running ~> ~running

Spec == Safety /\ Ends
=============================================================================
