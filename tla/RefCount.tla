------------------------------ MODULE RefCount ------------------------------
(***************************************************************************)
(* What a lazily started, shared resource promises its users: it runs as   *)
(* long as anybody uses it, and it may stop only when nobody does.         *)
(***************************************************************************)
CONSTANT User

VARIABLES running, users

vars == <<running, users>>

Init == running = FALSE /\ users = {}

Acquire(u) == u \notin users /\ users' = users \cup {u} /\ running' = TRUE

Release(u) == u \in users /\ users' = users \ {u} /\ running' \in BOOLEAN
              /\ (running' = running \/ users' = {})

Stop == users = {} /\ running' = FALSE /\ UNCHANGED users

Next == Stop \/ \E u \in User : Acquire(u) \/ Release(u)

Spec == Init /\ [][Next]_vars
=============================================================================
