----------------------------- MODULE LazyDialer -----------------------------
(***************************************************************************)
(* The lazy dialer of one sing-box outbound (lazyOutboundDialer in         *)
(* internal/plugins/singbox/singbox.go): it starts a sing-box instance for *)
(* the first dial, counts the dials and connections that use it, and       *)
(* closes it after an idle time, or earlier when a refresh resets it.      *)
(*                                                                         *)
(* Methods run under lazyOutboundDialer.mu, so each is one step; dialling  *)
(* and the run of a timer's callback are not covered by the lock.  Time is *)
(* counted in ticks.  Close, which only tests call, and the hint to the    *)
(* garbage collector after an idle close are left out.                     *)
(***************************************************************************)
EXTENDS Integers, FiniteSets

CONSTANTS
    User,        \* DialContext calls and the connections they return
    IdleAfter,   \* idleAfter, in ticks
    CallbackCap  \* BOUND: callbacks that wait for the lock at one time

ASSUME LazyAssumption ==
    /\ IsFiniteSet(User)
    /\ IdleAfter \in Nat
    /\ CallbackCap \in Nat \ {0}

Off == -1   \* no timer, or one that has fired

VARIABLES
    box,        \* whether an instance runs (box and outbound are set)
    active,     \* the use count
    age,        \* ticks since lastUsed, at most IdleAfter
    timer,      \* ticks until the timer fires, or Off
    callbacks,  \* calls of closeIfIdle that have not got the lock yet
    pc          \* user -> "idle", "dialing", "open" or "closed"

vars == <<box, active, age, timer, callbacks, pc>>

\* closeLocked
CloseBox == box' = FALSE /\ timer' = Off

\* acquire and ensureLocked: a running instance is shared, otherwise one is
\* started, which may fail.
Acquire(u) ==
    /\ pc[u] = "idle"
    /\ timer' = Off
    /\ \/ /\ box' = TRUE
          /\ active' = active + 1
          /\ age' = 0
          /\ pc' = [pc EXCEPT ![u] = "dialing"]
       \/ ~box /\ UNCHANGED <<box, active, age, pc>>
    /\ UNCHANGED callbacks

\* Mutation of Release: an error path and a deferred call both release.
ReleaseTwice(next) ==
    /\ active' = active - 2
    /\ age' = 0
    /\ pc' = next
    /\ IF active' = 0 /\ box
         THEN IF IdleAfter = 0 THEN CloseBox
              ELSE timer' = IdleAfter /\ UNCHANGED box
         ELSE UNCHANGED <<box, timer>>
    /\ UNCHANGED callbacks

\* Mutation of Release: the idle timer is not armed.
ReleaseUnwatched(next) ==
    /\ active' = IF active > 0 THEN active - 1 ELSE active
    /\ age' = 0
    /\ pc' = next
    /\ IF active' = 0 /\ box /\ IdleAfter = 0 THEN CloseBox
                                              ELSE UNCHANGED <<box, timer>>
    /\ UNCHANGED callbacks

\* release: the last user arms the idle timer.
Release(next) ==
    /\ active' = IF active > 0 THEN active - 1 ELSE active
    /\ age' = 0
    /\ pc' = next
    /\ IF active' = 0 /\ box
         THEN IF IdleAfter = 0 THEN CloseBox
              ELSE timer' = IdleAfter /\ UNCHANGED box
         ELSE UNCHANGED <<box, timer>>
    /\ UNCHANGED callbacks

DialSucceeds(u) ==
    /\ pc[u] = "dialing"
    /\ pc' = [pc EXCEPT ![u] = "open"]
    /\ UNCHANGED <<box, active, age, timer, callbacks>>

DialFails(u) == pc[u] = "dialing" /\ Release([pc EXCEPT ![u] = "idle"])

\* Mutation of Close: every call releases.
CloseAgain(u) ==
    pc[u] \in {"open", "closed"} /\ Release([pc EXCEPT ![u] = "closed"])

\* managedSingBoxConn.Close, which several goroutines may call.
Close(u) ==
    \/ pc[u] = "open" /\ Release([pc EXCEPT ![u] = "closed"])
    \/ pc[u] = "closed" /\ UNCHANGED vars

\* The connection is dropped; the slot can stand for a later dial.
Forget(u) ==
    /\ pc[u] = "closed"
    /\ pc' = [pc EXCEPT ![u] = "idle"]
    /\ UNCHANGED <<box, active, age, timer, callbacks>>

\* The timer fires: its callback starts to wait for the lock.
Fire ==
    /\ timer = 0
    /\ callbacks < CallbackCap
    /\ timer' = Off
    /\ callbacks' = callbacks + 1
    /\ UNCHANGED <<box, active, age, pc>>

\* Mutation of CloseIfIdle: the idle time must be exceeded.
CloseIfIdleLonger ==
    /\ callbacks > 0
    /\ callbacks' = callbacks - 1
    /\ IF active = 0 /\ box /\ age > IdleAfter THEN CloseBox
                                               ELSE UNCHANGED <<box, timer>>
    /\ UNCHANGED <<active, age, pc>>

CloseIfIdle ==
    /\ callbacks > 0
    /\ callbacks' = callbacks - 1
    /\ IF active = 0 /\ box /\ age >= IdleAfter THEN CloseBox
                                                ELSE UNCHANGED <<box, timer>>
    /\ UNCHANGED <<active, age, pc>>

\* Mutation of ResetIdleCache: connections in use are not spared.
ResetCache == CloseBox /\ UNCHANGED <<active, age, callbacks, pc>>

\* After each validation, and when a refresh removes the candidate.
ResetIdleCache ==
    /\ IF active = 0 THEN CloseBox ELSE UNCHANGED <<box, timer>>
    /\ UNCHANGED <<active, age, callbacks, pc>>

Tick ==
    /\ age' = IF age < IdleAfter THEN age + 1 ELSE age
    /\ timer' = IF timer > 0 THEN timer - 1 ELSE timer
    /\ UNCHANGED <<box, active, callbacks, pc>>

Init ==
    /\ box = FALSE
    /\ active = 0
    /\ age = 0
    /\ timer = Off
    /\ callbacks = 0
    /\ pc = [u \in User |-> "idle"]

UserStep(u) ==
    Acquire(u) \/ DialSucceeds(u) \/ DialFails(u) \/ Close(u) \/ Forget(u)

Next ==
    \/ \E u \in User : UserStep(u)
    \/ Fire \/ CloseIfIdle \/ ResetIdleCache \/ Tick

\* Time passes, the runtime fires timers and runs their callbacks.
Fairness == WF_vars(Tick) /\ WF_vars(Fire) /\ WF_vars(CloseIfIdle)

Spec == Init /\ [][Next]_vars /\ Fairness

-----------------------------------------------------------------------------
(* Properties. *)

Users == {u \in User : pc[u] \in {"dialing", "open"}}

\* Type invariant of the dialer.
TypeOK ==
    /\ box \in BOOLEAN
    /\ active \in Nat
    /\ age \in 0 .. IdleAfter
    /\ timer \in {Off} \cup 0 .. IdleAfter
    /\ callbacks \in 0 .. CallbackCap
    /\ pc \in [User -> {"idle", "dialing", "open", "closed"}]

\* The use count is exact: every failed dial and every connection, however
\* often it is closed, gives back what it took (singbox.go 251-278, 315-325,
\* 392-402).
ActiveCountsUsers == active = Cardinality(Users)

\* The instance runs while a dial or a connection uses it, and stops only when
\* none does: neither a late timer nor a reset cuts a connection off
\* (singbox.go 327-366).
SharedBox == INSTANCE RefCount WITH running <- box, users <- Users
ImplementsRefCount == SharedBox!Spec

\* An unused instance is never forgotten: its timer is armed or about to run,
\* although acquire stops timers that may have fired (singbox.go 264-278,
\* 341-366).
IdleBoxIsWatched ==
    box /\ active = 0 => timer # Off \/ (callbacks > 0 /\ age >= IdleAfter)

\* An unused instance is closed unless it is used again (singbox.go 341-366).
IdleBoxCloses == (box /\ Users = {}) ~> (~box \/ Users # {})
=============================================================================
