------------------------------ MODULE Forward ------------------------------
(***************************************************************************)
(* Forwarding over one dialled connection (internal/proxy/server.go):      *)
(* tunnel, with its two copying goroutines, the early-failure timer and the *)
(* verdict on the candidate, and the plain HTTP exchange of handleHTTP.    *)
(*                                                                         *)
(* The ends of a connection are the client and the upstream; each may      *)
(* close at any time or stay open and silent for ever.  A chunk of data is *)
(* read and written in two steps, and only whether anything was written    *)
(* matters.  The early-failure window is positive, as config.Check demands. *)
(***************************************************************************)
EXTENDS Integers

DoneCapacity == 2   \* buffer of the channel done

End  == {"client", "upstream"}
Peer(e) == IF e = "client" THEN "upstream" ELSE "client"

VARIABLES
    open,       \* end -> it has not closed its side
    deadline,   \* end -> an expired deadline is set on our connection to it
    released,   \* the handler has returned and closed both connections
    copier,     \* end -> state of the goroutine that copies from that end
    bytes,      \* whether a byte was written in either direction
    done,       \* signals in the channel
    timer,      \* "off", "armed" or "fired"
    main,       \* where tunnel or handleHTTP is
    early,      \* earlyClosed
    failures,   \* calls of MarkFailure
    successes   \* calls of MarkSuccess

vars == <<open, deadline, released, copier, bytes, done, timer, main, early,
          failures, successes>>

\* A read or write on the connection to e cannot go on.
Broken(e) == deadline[e] \/ released

-----------------------------------------------------------------------------
(* The goroutine that copies from end e to its peer.                        *)

\* A read returns data.
Take(e) ==
    /\ copier[e] = "reading"
    /\ copier' = [copier EXCEPT ![e] = "writing"]
    /\ UNCHANGED <<open, deadline, released, bytes, done, timer, main, early,
                   failures, successes>>

Read(e) == open[e] /\ ~Broken(e) /\ Take(e)

ReadFails(e) ==
    /\ copier[e] = "reading" /\ (~open[e] \/ Broken(e))
    /\ copier' = [copier EXCEPT ![e] = "ended"]
    /\ UNCHANGED <<open, deadline, released, bytes, done, timer, main, early,
                   failures, successes>>

\* A write to a closed peer may still be accepted by the kernel.
Write(e) ==
    /\ copier[e] = "writing"
    /\ \/ /\ ~Broken(Peer(e))
          /\ bytes' = TRUE
          /\ copier' = [copier EXCEPT ![e] = "reading"]
       \/ /\ ~open[Peer(e)] \/ Broken(Peer(e))
          /\ copier' = [copier EXCEPT ![e] = "ended"]
          /\ UNCHANGED bytes
    /\ UNCHANGED <<open, deadline, released, done, timer, main, early,
                   failures, successes>>

\* Mutation of Interrupt: the other goroutine is not interrupted.
InterruptNone(e) ==
    /\ copier[e] = "ended"
    /\ copier' = [copier EXCEPT ![e] = "signal"]
    /\ UNCHANGED <<open, deadline, released, bytes, done, timer, main, early,
                   failures, successes>>

\* SetDeadline(now) on the destination interrupts the other goroutine's read.
Interrupt(e) ==
    /\ copier[e] = "ended"
    /\ deadline' = [deadline EXCEPT ![Peer(e)] = TRUE]
    /\ copier' = [copier EXCEPT ![e] = "signal"]
    /\ UNCHANGED <<open, released, bytes, done, timer, main, early, failures,
                   successes>>

\* Mutation of Signal: the channel has no buffer.
SignalUnbuffered(e) ==
    /\ copier[e] = "signal" /\ done = 0 /\ main \in {"select", "second"}
    /\ done' = done + 1
    /\ copier' = [copier EXCEPT ![e] = "gone"]
    /\ UNCHANGED <<open, deadline, released, bytes, timer, main, early, failures,
                   successes>>

Signal(e) ==
    /\ copier[e] = "signal" /\ done < DoneCapacity
    /\ done' = done + 1
    /\ copier' = [copier EXCEPT ![e] = "gone"]
    /\ UNCHANGED <<open, deadline, released, bytes, timer, main, early, failures,
                   successes>>

Copy(e) == Read(e) \/ ReadFails(e) \/ Write(e) \/ Interrupt(e) \/ Signal(e)

-----------------------------------------------------------------------------
(* The tunnel. *)

FireTimer ==
    /\ timer = "armed"
    /\ timer' = "fired"
    /\ UNCHANGED <<open, deadline, released, copier, bytes, done, main, early,
                   failures, successes>>

FirstDone ==
    /\ main = "select" /\ done > 0
    /\ done' = done - 1
    /\ early' = TRUE
    /\ timer' = "off"
    /\ main' = "judge"
    /\ UNCHANGED <<open, deadline, released, copier, bytes, failures, successes>>

WindowOver ==
    /\ main = "select" /\ timer = "fired"
    /\ timer' = "off"
    /\ main' = "judge"
    /\ UNCHANGED <<open, deadline, released, copier, bytes, done, early, failures,
                   successes>>

\* Mutation of Judge: success is not recorded before the tunnel ends.
JudgeFailure ==
    /\ main = "judge"
    /\ failures' = IF early /\ ~bytes THEN failures + 1 ELSE failures
    /\ main' = "second"
    /\ UNCHANGED <<open, deadline, released, copier, bytes, done, timer, early,
                   successes>>

\* bytes is read for the failure and, if need be, again for the success.
Judge ==
    /\ main = "judge"
    /\ \/ early /\ ~bytes /\ failures' = failures + 1 /\ UNCHANGED successes
       \/ bytes /\ successes' = successes + 1 /\ UNCHANGED failures
       \/ ~early /\ ~bytes /\ UNCHANGED <<failures, successes>>
    /\ main' = "second"
    /\ UNCHANGED <<open, deadline, released, copier, bytes, done, timer, early>>

SecondDone ==
    /\ main = "second" /\ done > 0
    /\ done' = done - 1
    /\ main' = "final"
    /\ UNCHANGED <<open, deadline, released, copier, bytes, timer, early, failures,
                   successes>>

\* The last look at bytes; then the handler returns and closes both ends.
Final ==
    /\ main = "final"
    /\ successes' = IF bytes THEN successes + 1 ELSE successes
    /\ main' = "returned"
    /\ released' = TRUE
    /\ UNCHANGED <<open, deadline, copier, bytes, done, timer, early, failures>>

Tunnel == FirstDone \/ WindowOver \/ Judge \/ SecondDone \/ Final

-----------------------------------------------------------------------------
(* The plain HTTP exchange: write the request, read the response, write it  *)
(* to the client.  Bodies are copied, so a write also reads the other end.  *)
(* An upstream may close right behind its response, which is read later.    *)

HTTPSucceeds(from, to) ==
    /\ main = from
    /\ main' = to
    /\ IF to = "returned"
         THEN successes' = successes + 1 /\ released' = TRUE
         ELSE UNCHANGED <<successes, released>>
    /\ UNCHANGED <<open, deadline, copier, bytes, done, timer, early, failures>>

\* Mutation of HTTPFails: the handler goes on after a failed write.
HTTPFailsOn(from) ==
    /\ main = from
    /\ failures' = failures + 1
    /\ main' = IF from = "request" THEN "response" ELSE "returned"
    /\ released' = (main' = "returned")
    /\ UNCHANGED <<open, deadline, copier, bytes, done, timer, early, successes>>

\* An end has gone, or has sent a message or a body that cannot be read.
HTTPFails(from) ==
    /\ main = from
    /\ failures' = failures + 1
    /\ main' = "returned"
    /\ released' = TRUE
    /\ UNCHANGED <<open, deadline, copier, bytes, done, timer, early, successes>>

HTTP ==
    \/ HTTPSucceeds("request", "response")
    \/ HTTPSucceeds("response", "reply")
    \/ HTTPSucceeds("reply", "returned")
    \/ \E m \in {"request", "response", "reply"} : HTTPFails(m)

-----------------------------------------------------------------------------

Leave(e) ==
    /\ open[e]
    /\ open' = [open EXCEPT ![e] = FALSE]
    /\ UNCHANGED <<deadline, released, copier, bytes, done, timer, main, early,
                   failures, successes>>

Init ==
    /\ open = [e \in End |-> TRUE]
    /\ deadline = [e \in End |-> FALSE]
    /\ released = FALSE
    /\ bytes = FALSE
    /\ done = 0
    /\ early = FALSE
    /\ failures = 0
    /\ successes = 0
    /\ \/ /\ main = "select"
          /\ copier = [e \in End |-> "reading"]
          /\ timer = "armed"
       \/ /\ main = "request"
          /\ copier = [e \in End |-> "gone"]
          /\ timer = "off"

Terminated ==
    main = "returned" /\ (\A e \in End : copier[e] = "gone") /\ UNCHANGED vars

Next ==
    \/ \E e \in End : Copy(e) \/ Leave(e)
    \/ FireTimer \/ Tunnel \/ HTTP \/ Terminated

\* Goroutines run and timers fire.  The ends of the connection need not send
\* anything or close, and a silent upstream may keep an HTTP exchange waiting;
\* but what is written to an end is taken, so that no write blocks for ever.
Fairness ==
    /\ \A e \in End : WF_vars(ReadFails(e) \/ Write(e) \/ Interrupt(e) \/ Signal(e))
    /\ WF_vars(FireTimer) /\ WF_vars(Tunnel)
    /\ \A m \in {"request", "response", "reply"} :
         WF_vars(main = m /\ ~open["upstream"] /\ HTTP)

Spec == Init /\ [][Next]_vars /\ Fairness

-----------------------------------------------------------------------------
(* Properties. *)

\* Type invariant of one forwarded connection.
TypeOK ==
    /\ open \in [End -> BOOLEAN] /\ deadline \in [End -> BOOLEAN]
    /\ copier \in [End -> {"reading", "writing", "ended", "signal", "gone"}]
    /\ {released, bytes, early} \subseteq BOOLEAN
    /\ done \in 0 .. DoneCapacity
    /\ timer \in {"off", "armed", "fired"}
    /\ main \in {"dialing", "select", "judge", "second", "final",
                 "request", "response", "reply", "returned"}
    /\ failures \in 0 .. 1 /\ successes \in 0 .. 2

\* When either end closes, a tunnel ends: the goroutine that notices interrupts
\* the other one (server.go 359-368, 392).
TunnelEnds ==
    \A e \in End :
        (main \in {"select", "judge", "second", "final"} /\ ~open[e])
            ~> main = "returned"

\* No copying goroutine stays behind when the handler has returned, also when
\* the window was over first and one signal is never received (server.go
\* 358-368, 384, 392).
NoCopierStays ==
    main = "returned" ~> \A e \in End : copier[e] = "gone"

\* A candidate that has carried data gets its success by the end of the window,
\* even if the connection stays open for ever: its failures are forgotten
\* (server.go 370-391).
ServingIsCredited == (main = "select" /\ bytes) ~> successes > 0

\* A tunnel that ends early charges its candidate only if the upstream has
\* closed, never because the client went away (server.go 359-363, 387-388).
ClientAbortNotCharged == early /\ failures > 0 => ~open["upstream"]
=============================================================================
