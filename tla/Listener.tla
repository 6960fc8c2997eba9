------------------------------ MODULE Listener ------------------------------
(***************************************************************************)
(* The listener of internal/proxy/server.go: the accept loop, the handler  *)
(* of each connection up to the point where data is forwarded, the set of  *)
(* tracked connections, and the shutdown through Close and Wait.           *)
(*                                                                         *)
(* A handler reads from its client in several stages; a stage ends when    *)
(* the client has sent what it asks for, and fails when the read does.     *)
(* Which candidate is dialled is the subject of module Dispatch, and how   *)
(* data is forwarded that of module Forward: here a dial may succeed or    *)
(* fail, and a tunnel ends when either side does.                          *)
(***************************************************************************)
EXTENDS FiniteSets

CONSTANTS
    Conn,            \* connections that clients may open
    AuthEnabled      \* cfg.Auth.Enabled

ASSUME ListenerAssumption == AuthEnabled \in BOOLEAN

Closers == {"watcher", "main"}   \* who calls Close: the goroutine of Start, runServe

NoConn == "none"
ASSUME NoConnAssumption == NoConn \notin Conn

VARIABLES
    ready,       \* the listening socket is open
    backlog,     \* connections that are established and not yet accepted
    shutting,    \* shuttingDown
    cancelled,   \* the context of the server is done
    closer,      \* closer -> where its call of Close is
    loop,        \* where acceptLoop is
    accepted,    \* the connection acceptLoop holds
    stage,       \* connection -> where its handler is
    limit,       \* connection -> it has a read deadline
    ours,        \* connections whose socket we have not closed
    theirs,      \* connections whose client has not closed them
    conns,       \* the map of tracked connections
    wg,          \* handlers counted in the wait group
    waiter,      \* the goroutine of Wait
    main,        \* where runServe is
    due          \* handlers counted when Wait began

lifecycle == <<ready, shutting, cancelled, closer>>
accepting == <<loop, accepted>>
waiting   == <<waiter, main, due>>
vars == <<lifecycle, backlog, accepting, stage, limit, ours, theirs, conns, wg,
          waiting>>

\* Stages in which a handler reads the first request of its client.
Handshake == {"peek", "greeting", "login", "command", "first"}

\* Stages in which it reads from the client at all.
Reading == Handshake \cup {"next"}

\* Stages from the handler's start until it closes the connection.
Working == Reading \cup {"start", "dial", "dialPlain", "tunnel", "exchange", "leave"}

-----------------------------------------------------------------------------
(* The clients. *)

Connect(c) ==
    /\ ready /\ stage[c] = "new" /\ c \notin backlog
    /\ backlog' = backlog \cup {c}
    /\ theirs' = theirs \cup {c}
    /\ UNCHANGED <<lifecycle, accepting, stage, limit, ours, conns, wg, waiting>>

Hangup(c) ==
    /\ c \in theirs
    /\ theirs' = theirs \ {c}
    /\ UNCHANGED <<lifecycle, backlog, accepting, stage, limit, ours, conns, wg,
                   waiting>>

-----------------------------------------------------------------------------
(* acceptLoop.  Other errors of Accept are logged and tried again.          *)

Accept(c) ==
    /\ loop = "accept" /\ ready /\ c \in backlog
    /\ backlog' = backlog \ {c}
    /\ accepted' = c
    /\ ours' = ours \cup {c}
    /\ stage' = [stage EXCEPT ![c] = "accepted"]
    /\ loop' = "track"
    /\ UNCHANGED <<lifecycle, limit, theirs, conns, wg, waiting>>

\* Mutation of Track: the connection is not remembered.
TrackNot ==
    /\ loop = "track"
    /\ loop' = "count"
    /\ UNCHANGED <<lifecycle, backlog, accepted, stage, limit, ours, theirs, conns,
                   wg, waiting>>

Track ==
    /\ loop = "track"
    /\ conns' = conns \cup {accepted}
    /\ loop' = "count"
    /\ UNCHANGED <<lifecycle, backlog, accepted, stage, limit, ours, theirs, wg,
                   waiting>>

\* Mutation of Count: the accept loop keeps the connection.
CountKeeping ==
    /\ loop = "count"
    /\ wg' = wg \cup {accepted}
    /\ stage' = [stage EXCEPT ![accepted] = "start"]
    /\ loop' = "accept"
    /\ UNCHANGED <<lifecycle, backlog, accepted, limit, ours, theirs, conns, waiting>>

\* wg.Add(1), and the goroutine of the handler.
Count ==
    /\ loop = "count"
    /\ wg' = wg \cup {accepted}
    /\ stage' = [stage EXCEPT ![accepted] = "start"]
    /\ accepted' = NoConn
    /\ loop' = "accept"
    /\ UNCHANGED <<lifecycle, backlog, limit, ours, theirs, conns, waiting>>

LoopEnds ==
    /\ loop = "accept" /\ ~ready /\ shutting
    /\ loop' = "ended"
    /\ UNCHANGED <<lifecycle, backlog, accepted, stage, limit, ours, theirs, conns,
                   wg, waiting>>

AcceptLoop == (\E c \in Conn : Accept(c)) \/ Track \/ Count \/ LoopEnds

-----------------------------------------------------------------------------
(* The handler of a connection. *)

Goto(c, there) ==
    /\ stage' = [stage EXCEPT ![c] = there]
    /\ UNCHANGED <<lifecycle, backlog, accepting, ours, theirs, conns, wg, waiting>>

\* Mutation of Start: no read deadline is set.
StartUntimed(c) == stage[c] = "start" /\ Goto(c, "peek") /\ UNCHANGED limit

\* config.Check demands a positive handshake timeout.
Start(c) ==
    /\ stage[c] = "start"
    /\ Goto(c, "peek")
    /\ limit' = limit \cup {c}

\* The client has sent what the stage reads; the deadline is still ahead.
Heard(c) == c \in ours /\ c \in theirs

\* The first byte decides between SOCKS and HTTP.
Peek(c) ==
    /\ stage[c] = "peek" /\ Heard(c)
    /\ \E protocol \in {"greeting", "first"} : Goto(c, protocol)
    /\ UNCHANGED limit

\* The methods the client offers; one of them may be the one required.
Greeting(c) ==
    /\ stage[c] = "greeting" /\ Heard(c)
    /\ \E next \in {IF AuthEnabled THEN "login" ELSE "command", "leave"} :
         Goto(c, next)
    /\ UNCHANGED limit

\* readSocksAuth and authenticate.
Login(c) ==
    /\ stage[c] = "login" /\ Heard(c)
    /\ \E next \in {"command", "leave"} : Goto(c, next)
    /\ UNCHANGED limit

\* The target; the read deadline is removed before the dial.
Command(c) ==
    /\ stage[c] = "command" /\ Heard(c)
    /\ \/ Goto(c, "leave") /\ UNCHANGED limit
       \/ Goto(c, "dial") /\ limit' = limit \ {c}

\* http.ReadRequest, the credentials, and the target: CONNECT or a plain
\* request.  A request without a host is refused after the deadline is gone.
Request(c) ==
    /\ stage[c] \in {"first", "next"} /\ Heard(c)
    /\ \/ Goto(c, "leave") /\ limit' \in {limit, limit \ {c}}
       \/ /\ \E next \in {"dial", "dialPlain"} : Goto(c, next)
          /\ limit' = limit \ {c}

\* A read fails: the client has closed, we have, or the deadline has passed.
ReadFails(c) ==
    /\ stage[c] \in Reading
    /\ c \notin ours \/ c \notin theirs \/ c \in limit
    /\ Goto(c, "leave")
    /\ UNCHANGED limit

\* dialScheduled.  It is bounded by the time-outs of its attempts, and a dial
\* that has got through may still succeed after the context is cancelled.
Dialled(c) ==
    /\ stage[c] \in {"dial", "dialPlain"}
    /\ \/ Goto(c, IF stage[c] = "dial" THEN "tunnel" ELSE "exchange")
       \/ Goto(c, "leave")
    /\ UNCHANGED limit

\* Module Forward: a tunnel ends when one of its ends does.
TunnelEnds(c) ==
    /\ stage[c] = "tunnel"
    /\ Goto(c, "leave")
    /\ UNCHANGED limit

\* The upstream answers a plain request, or fails; then the next request is
\* read, without a deadline, unless the client asked to close.
Answered(c) ==
    /\ stage[c] = "exchange"
    /\ \E next \in (IF Heard(c) THEN {"next", "leave"} ELSE {"leave"}) : Goto(c, next)
    /\ UNCHANGED limit

\* The deferred calls: conn.Close, then untrackConn, then wg.Done.  What the
\* client does no longer matters, and it is taken to be gone.
CloseConn(c) ==
    /\ stage[c] = "leave"
    /\ stage' = [stage EXCEPT ![c] = "untrack"]
    /\ ours' = ours \ {c}
    /\ theirs' = theirs \ {c}
    /\ limit' = limit \ {c}
    /\ UNCHANGED <<lifecycle, backlog, accepting, conns, wg, waiting>>

Untrack(c) ==
    /\ stage[c] = "untrack"
    /\ stage' = [stage EXCEPT ![c] = "done"]
    /\ conns' = conns \ {c}
    /\ UNCHANGED <<lifecycle, backlog, accepting, limit, ours, theirs, wg, waiting>>

\* The last handler to go wakes the goroutine of Wait.
Done(c) ==
    /\ stage[c] = "done"
    /\ stage' = [stage EXCEPT ![c] = "gone"]
    /\ wg' = wg \ {c}
    /\ waiter' = IF waiter = "waiting" /\ wg' = {} THEN "woken" ELSE waiter
    /\ UNCHANGED <<lifecycle, backlog, accepting, limit, ours, theirs, conns, main,
                   due>>

Handler(c) ==
    \/ Start(c) \/ Peek(c) \/ Greeting(c) \/ Login(c) \/ Command(c) \/ Request(c)
    \/ ReadFails(c) \/ Dialled(c) \/ TunnelEnds(c) \/ Answered(c)
    \/ CloseConn(c) \/ Untrack(c) \/ Done(c)

-----------------------------------------------------------------------------
(* The shutdown. *)

\* The signal cancels the context of runServe, and with it that of the server.
Signal ==
    /\ main = "serving"
    /\ main' = "close"
    /\ cancelled' = TRUE
    /\ UNCHANGED <<ready, shutting, closer, backlog, accepting, stage, limit, ours,
                   theirs, conns, wg, waiter, due>>

\* Close: first the flag, then the listening socket, which resets the backlog.
CloseStores(x) ==
    /\ closer[x] = "idle"
    /\ x = "watcher" => cancelled
    /\ x = "main" => main = "close"
    /\ closer' = [closer EXCEPT ![x] = "stored"]
    /\ shutting' = TRUE
    /\ UNCHANGED <<ready, cancelled, backlog, accepting, stage, limit, ours, theirs,
                   conns, wg, waiting>>

CloseListener(x) ==
    /\ closer[x] = "stored"
    /\ closer' = [closer EXCEPT ![x] = "closed"]
    /\ ready' = FALSE
    /\ backlog' = {}
    /\ UNCHANGED <<shutting, cancelled, accepting, stage, limit, ours, theirs, conns,
                   wg, waiting>>

Close(x) == CloseStores(x) \/ CloseListener(x)

\* pm.Stop takes its time, then Wait begins.
BeginWait ==
    /\ main = "close" /\ closer["main"] = "closed"
    /\ main' = "grace"
    /\ waiter' = "begun"
    /\ due' = wg
    /\ UNCHANGED <<lifecycle, backlog, accepting, stage, limit, ours, theirs, conns, wg>>

\* Mutation of ForceCloseActive: the connections are left alone.
ForceNone ==
    /\ main = "grace"
    /\ main' = "final"
    /\ UNCHANGED <<lifecycle, backlog, accepting, stage, limit, ours, theirs, conns,
                   wg, waiter, due>>

\* The grace period is over: forceCloseActive.
ForceCloseActive ==
    /\ main = "grace"
    /\ ours' = ours \ conns
    /\ main' = "final"
    /\ UNCHANGED <<lifecycle, backlog, accepting, stage, limit, theirs, conns, wg,
                   waiter, due>>

\* Wait returns: all handlers are gone, or two more seconds have passed.
WaitReturns ==
    /\ main \in {"grace", "final"}
    /\ waiter = "over" \/ main = "final"
    /\ main' = "waited"
    /\ UNCHANGED <<lifecycle, backlog, accepting, stage, limit, ours, theirs, conns,
                   wg, waiter, due>>

MainStep == Signal \/ BeginWait \/ ForceCloseActive \/ WaitReturns

\* The goroutine of Wait.  A handler counted between the moment the group is
\* empty and the moment wg.Wait returns is a reuse of the group, which panics.
Waiter ==
    /\ \/ waiter = "begun" /\ waiter' = (IF wg = {} THEN "over" ELSE "waiting")
                           /\ UNCHANGED main
       \/ waiter = "woken" /\ wg = {} /\ waiter' = "over" /\ UNCHANGED main
       \/ waiter = "woken" /\ wg # {} /\ waiter' = "over" /\ main' = "panicked"
    /\ UNCHANGED <<lifecycle, backlog, accepting, stage, limit, ours, theirs, conns,
                   wg, due>>

-----------------------------------------------------------------------------

Init ==
    /\ ready = TRUE /\ shutting = FALSE /\ cancelled = FALSE
    /\ closer = [x \in Closers |-> "idle"]
    /\ backlog = {}
    /\ loop = "accept" /\ accepted = NoConn
    /\ stage = [c \in Conn |-> "new"]
    /\ limit = {} /\ ours = {} /\ theirs = {}
    /\ conns = {} /\ wg = {}
    /\ waiter = "off" /\ main = "serving" /\ due = {}

Running == main # "panicked"

\* After Wait the process exits; a panic ends it as well.
Terminated == main \in {"waited", "panicked"} /\ UNCHANGED vars

Next ==
    \/ Terminated
    \/ /\ Running
       /\ \/ \E c \in Conn : Connect(c) \/ Hangup(c) \/ Handler(c)
          \/ AcceptLoop \/ MainStep \/ Waiter
          \/ \E x \in Closers : Close(x)

\* Goroutines run, deadlines pass and dials end.  Clients need not send anything
\* nor close, upstreams need not answer, and the signal need not come.
Fairness ==
    /\ WF_vars(Running /\ AcceptLoop)
    /\ WF_vars(Running /\ (BeginWait \/ ForceCloseActive \/ WaitReturns))
    /\ WF_vars(Running /\ Waiter)
    /\ \A x \in Closers : WF_vars(Running /\ Close(x))
    /\ \A c \in Conn :
         WF_vars(/\ Running
                 /\ \/ Start(c) \/ ReadFails(c) \/ Dialled(c)
                    \/ (~Heard(c) /\ TunnelEnds(c))
                    \/ CloseConn(c) \/ Untrack(c) \/ Done(c))

Spec == Init /\ [][Next]_vars /\ Fairness

-----------------------------------------------------------------------------
(* Properties. *)

\* Type invariant of the listener.
ListenerTypeOK ==
    /\ ready \in BOOLEAN /\ shutting \in BOOLEAN /\ cancelled \in BOOLEAN
    /\ closer \in [Closers -> {"idle", "stored", "closed"}]
    /\ loop \in {"accept", "track", "count", "ended"}
    /\ accepted \in (IF loop \in {"track", "count"} THEN Conn ELSE {NoConn})
    /\ stage \in [Conn -> Working \cup {"new", "accepted", "untrack", "done", "gone"}]
    /\ backlog \subseteq Conn /\ limit \subseteq Conn /\ ours \subseteq Conn
    /\ theirs \subseteq Conn /\ conns \subseteq Conn /\ wg \subseteq Conn
    /\ due \subseteq Conn
    /\ waiter \in {"off", "begun", "waiting", "woken", "over"}
    /\ main \in {"serving", "close", "grace", "final", "waited", "panicked"}

\* When Wait returns, no connection whose handler was counted before Wait began
\* is open any more, although the accept loop, the handlers and the shutdown
\* change the tracked connections and the wait group concurrently
\* (server.go 85-105, 118-124).
WaitLeavesNoneOpen == main = "waited" => due \cap ours = {}

\* The handlers that were counted when Wait began end after their connections
\* were closed, except one that waits for an upstream to answer a plain request
\* (server.go 99-101, 120-124, 278).
HandlersEnd ==
    \A c \in Conn :
        (main = "final" /\ c \in due)
            ~> (stage[c] \in {"gone", "exchange"} \/ main = "panicked")

\* A client that never completes its first request is dropped, whatever stage of
\* the handshake it stops in (server.go 130-137, 145-200, 239).
SilentClientDropped ==
    \A c \in Conn :
        (stage[c] \in Handshake) ~> (stage[c] \notin Handshake \/ main = "panicked")
=============================================================================
