----------------------------- MODULE Connection -----------------------------
(***************************************************************************)
(* One connection to an upstream from dial to end: the handshakes of       *)
(* internal/proxy/upstream.go, by which a candidate is asked to connect to *)
(* the target, followed by the forwarding of module Forward.               *)
(*                                                                         *)
(* The upstream is not trusted: it may give a wrong answer in any step,    *)
(* answer early, late or not at all, close at any time, and send data      *)
(* right behind the answer that ends the handshake.  An answer is what one *)
(* read of the handshake takes from the connection, a chunk what one read  *)
(* of the tunnel does.                                                     *)
(***************************************************************************)
EXTENDS Forward, Sequences
LOCAL INSTANCE SequencesExt

CONSTANTS Data   \* the chunks the upstream sends after the handshake, in order

ASSUME DataAssumption == Data \in Seq(STRING)

VARIABLES
    protocol,    \* of the candidate; "custom" is one with a dialer of its own
    dial,        \* where DialViaCandidate is
    sock,        \* the connection to the upstream
    limit,       \* a deadline is set on it
    script,      \* what the upstream has still to send
    sent,        \* what it has sent and we have not read
    ahead,       \* what the buffered reader of dialHTTPProxy holds
    wrapped,     \* dial returned a bufferedConn
    chunk,       \* what the goroutine that copies from the upstream holds
    received     \* the chunks written to the client

dialVars == <<protocol, dial, sock, limit>>
wire     == <<script, sent, ahead, wrapped, chunk, received>>
connectionVars == <<vars, dialVars, wire>>

-----------------------------------------------------------------------------
(* The handshake.  Each step writes a request or reads an answer.           *)

Writes == {"writeConnect", "writeMethods", "writeAuth", "writeRequest"}
Reads  == {"readResponse", "readMethod", "readAuth", "readReply", "readAddress",
           "readPort"}

First == [http |-> "writeConnect", socks5 |-> "writeMethods", custom |-> "done"]

\* The step that follows an answer; readMethod may be asked for credentials.
After(step, answer) ==
    CASE step = "writeConnect" -> "readResponse"
      [] step = "readResponse" -> "done"
      [] step = "writeMethods" -> "readMethod"
      [] step = "readMethod"   -> IF answer = "auth" THEN "writeAuth" ELSE "writeRequest"
      [] step = "writeAuth"    -> "readAuth"
      [] step = "readAuth"     -> "writeRequest"
      [] step = "writeRequest" -> "readReply"
      [] step = "readReply"    -> "readAddress"
      [] step = "readAddress"  -> "readPort"
      [] step = "readPort"     -> "done"

Understood(step, answer) ==
    answer = "good" \/ (step = "readMethod" /\ answer = "auth")

\* The dial has returned: a tunnel, or a plain HTTP exchange.
Forwarding ==
    \/ main' = "select" /\ copier' = [e \in End |-> "reading"] /\ timer' = "armed"
    \/ main' = "request" /\ UNCHANGED <<copier, timer>>

\* The deadline is removed with the last step of a handshake.
Advance(next) ==
    /\ dial' = next
    /\ IF next = "done"
         THEN /\ limit' = FALSE
              /\ deadline' = [deadline EXCEPT !["upstream"] = FALSE]
              /\ Forwarding
         ELSE UNCHANGED <<limit, deadline, main, copier, timer>>
    /\ UNCHANGED <<protocol, sock, open, released, bytes, done, early, failures,
                   successes>>

\* Mutation of Fail: the connection is forgotten.
FailOpen ==
    /\ dial' = "failed"
    /\ UNCHANGED <<vars, protocol, sock, limit, script, ahead, wrapped, chunk, received>>

\* Every error path closes the connection.
Fail ==
    /\ dial' = "failed"
    /\ sock' = "closed"
    /\ UNCHANGED <<vars, protocol, limit, script, ahead, wrapped, chunk, received>>

\* The TCP connection; a candidate with its own dialer is connected by it.
Connect ==
    /\ dial = "connect"
    /\ \/ /\ sock' = "open"
          /\ dial' = First[protocol]
          /\ IF protocol = "custom"
               THEN Forwarding /\ UNCHANGED limit
               ELSE limit' = TRUE /\ UNCHANGED <<main, copier, timer>>
       \/ /\ dial' = "failed"
          /\ UNCHANGED <<sock, limit, main, copier, timer>>
    /\ UNCHANGED <<protocol, open, deadline, released, bytes, done, early, failures,
                   successes, wire>>

\* A write fails if the upstream has gone or the deadline has passed; a request
\* may also not fit: credentials or a host name of more than 255 bytes.
WriteStep ==
    /\ dial \in Writes
    /\ \/ Advance(After(dial, "good")) /\ ~deadline["upstream"] /\ UNCHANGED wire
       \/ /\ ~open["upstream"] \/ deadline["upstream"] \/ dial \in {"writeAuth", "writeRequest"}
          /\ Fail /\ UNCHANGED sent

\* Mutation of ReadHTTP: what was read ahead is dropped with the reader.
ReadHTTPUnwrapped ==
    /\ dial = "readResponse" /\ sent # <<>> /\ ~deadline["upstream"]
    /\ IF Understood(dial, sent[1])
         THEN /\ \E n \in 1 .. Len(sent) :
                   /\ ahead' = SubSeq(sent, 2, n)
                   /\ sent' = SubSeq(sent, n + 1, Len(sent))
              /\ Advance("done")
              /\ UNCHANGED <<script, wrapped, chunk, received>>
         ELSE Fail /\ sent' = Tail(sent)

\* The response is read through a buffer, which may take more than the response;
\* then the connection is returned with the buffer.
ReadHTTP ==
    /\ dial = "readResponse" /\ sent # <<>> /\ ~deadline["upstream"]
    /\ IF Understood(dial, sent[1])
         THEN /\ \E n \in 1 .. Len(sent) :
                   /\ ahead' = SubSeq(sent, 2, n)
                   /\ sent' = SubSeq(sent, n + 1, Len(sent))
              /\ wrapped' = (ahead' # <<>>)
              /\ Advance("done")
              /\ UNCHANGED <<script, chunk, received>>
         ELSE Fail /\ sent' = Tail(sent)

\* SOCKS answers are read to the byte.
ReadSOCKS ==
    /\ dial \in Reads \ {"readResponse"} /\ sent # <<>> /\ ~deadline["upstream"]
    /\ sent' = Tail(sent)
    /\ IF Understood(dial, sent[1])
         THEN Advance(After(dial, sent[1]))
              /\ UNCHANGED <<script, ahead, wrapped, chunk, received>>
         ELSE Fail

ReadBroken ==
    /\ dial \in Reads
    /\ ~open["upstream"] \/ deadline["upstream"]
    /\ Fail /\ UNCHANGED sent

\* The deadline of the dial passes.
Expire ==
    /\ limit /\ sock = "open" /\ ~deadline["upstream"]
    /\ deadline' = [deadline EXCEPT !["upstream"] = TRUE]
    /\ UNCHANGED <<open, released, copier, bytes, done, timer, main, early, failures,
                   successes, dialVars, wire>>

Dial == Connect \/ WriteStep \/ ReadHTTP \/ ReadSOCKS \/ ReadBroken

-----------------------------------------------------------------------------
(* The upstream, and the tunnel with what it reads.                         *)

Send ==
    /\ sock = "open" /\ open["upstream"] /\ script # <<>>
    /\ sent' = Append(sent, Head(script))
    /\ script' = Tail(script)
    /\ UNCHANGED <<vars, dialVars, ahead, wrapped, chunk, received>>

\* What bufferedConn has read ahead, it returns whatever has become of the
\* connection; then it reads on from there.  What the upstream has sent before it
\* closed can still be read.
Buffered == wrapped /\ ahead # <<>>

ReadUpstream ==
    /\ Take("upstream")
    /\ \/ /\ Buffered
          /\ chunk' = <<Head(ahead)>> /\ ahead' = Tail(ahead)
          /\ UNCHANGED sent
       \/ /\ ~Buffered /\ sent # <<>> /\ ~Broken("upstream")
          /\ chunk' = <<Head(sent)>> /\ sent' = Tail(sent)
          /\ UNCHANGED ahead
    /\ UNCHANGED <<dialVars, script, wrapped, received>>

\* A read fails only when there is nothing left in the buffer.
CopyFails(e) == ReadFails(e) /\ ~(e = "upstream" /\ Buffered)

WriteUpstream ==
    /\ Write("upstream")
    /\ received' = IF copier'["upstream"] = "reading" THEN received \o chunk ELSE received
    /\ chunk' = <<>>
    /\ UNCHANGED <<dialVars, script, sent, ahead, wrapped>>

\* When the handler returns, the deferred up.Close closes the connection.
Release == sock' = IF released' THEN "closed" ELSE sock

Forwards ==
    \/ ReadUpstream \/ WriteUpstream
    \/ /\ \/ Read("client") \/ Write("client") \/ FireTimer
          \/ \E e \in End : CopyFails(e) \/ Interrupt(e) \/ Signal(e)
       /\ UNCHANGED <<dialVars, wire>>
    \/ /\ Tunnel \/ HTTP
       /\ Release
       /\ UNCHANGED <<protocol, dial, limit, wire>>

-----------------------------------------------------------------------------

\* The right answers, by protocol: for SOCKS5 the method, the reply, the address
\* and the port, and one more if the method asks for credentials.
Right == [http   |-> {<<"good">>},
          socks5 |-> {<<"good", "good", "good", "good">>,
                      <<"auth", "good", "good", "good", "good">>},
          custom |-> {<<>>}]

\* The most answers the upstream gives before one that can be wrong.
BeforeWrong == [http |-> 0, socks5 |-> 2, custom |-> -1]

\* What the upstream may send for a protocol: it answers as the handshake asks
\* for, or does so until it gives one wrong answer; then it sends the data.
Wrong(a, n) == SubSeq(a, 1, n) \o <<"bad">>
Scripts(p) ==
    {a \o Data : a \in Right[p]}
    \cup UNION {{Wrong(a, n) \o Data : n \in 0 .. BeforeWrong[p]} : a \in Right[p]}

ConnectionInit ==
    /\ open = [e \in End |-> TRUE]
    /\ deadline = [e \in End |-> FALSE]
    /\ released = FALSE /\ bytes = FALSE /\ done = 0 /\ early = FALSE
    /\ failures = 0 /\ successes = 0
    /\ main = "dialing" /\ copier = [e \in End |-> "gone"] /\ timer = "off"
    /\ protocol \in {"http", "socks5", "custom"}
    /\ dial = "connect" /\ sock = "none" /\ limit = FALSE
    /\ script \in Scripts(protocol)
    /\ sent = <<>> /\ ahead = <<>> /\ wrapped = FALSE /\ chunk = <<>> /\ received = <<>>

ConnectionEnded ==
    /\ dial = "failed" \/ (main = "returned" /\ \A e \in End : copier[e] = "gone")
    /\ UNCHANGED connectionVars

ConnectionNext ==
    \/ Dial \/ Expire \/ Send \/ Forwards
    \/ \E e \in End : Leave(e) /\ UNCHANGED <<dialVars, wire>>
    \/ ConnectionEnded

\* As in module Forward; dials run and their deadlines pass, and a read returns
\* if there are data.
ConnectionFairness ==
    /\ WF_connectionVars(Dial) /\ WF_connectionVars(Expire)
    /\ WF_connectionVars(ReadUpstream \/ WriteUpstream)
    /\ \A e \in End :
         WF_connectionVars(/\ CopyFails(e) \/ Interrupt(e) \/ Signal(e)
                           /\ UNCHANGED <<dialVars, wire>>)
    /\ WF_connectionVars(Write("client") /\ UNCHANGED <<dialVars, wire>>)
    /\ WF_connectionVars(FireTimer /\ UNCHANGED <<dialVars, wire>>)
    /\ WF_connectionVars(Tunnel /\ Release /\ UNCHANGED <<protocol, dial, limit, wire>>)

ConnectionSpec == ConnectionInit /\ [][ConnectionNext]_connectionVars /\ ConnectionFairness

-----------------------------------------------------------------------------
(* Properties. *)

\* Type invariant of a connection.
ConnectionTypeOK ==
    /\ TypeOK
    /\ protocol \in DOMAIN First
    /\ dial \in Writes \cup Reads \cup {"connect", "done", "failed"}
    /\ sock \in {"none", "open", "closed"}
    /\ {limit, wrapped} \subseteq BOOLEAN
    /\ \A queue \in {script, sent, ahead, chunk, received} :
          \A i \in DOMAIN queue : queue[i] \in {"good", "auth", "bad"} \cup ToSet(Data)

\* The connection to the upstream has one owner: a dial that fails, in whatever
\* step and for whatever reason, leaves none open; one that succeeds hands over
\* an open one without a deadline, so that the tunnel is only ever interrupted
\* by its own goroutines; and the handler closes it when it returns
\* (upstream.go 40-205; server.go 206, 251, 266, 356-368).
DialOwnsConnection ==
    /\ dial = "failed" => sock # "open"
    /\ dial = "done" => /\ sock = IF released THEN "closed" ELSE "open"
                        /\ deadline["upstream"] => copier["client"] \in {"signal", "gone"}

\* What the client receives is what the upstream sent after the handshake, from
\* the first byte on and without a gap, also when it was read ahead with the
\* response to CONNECT (upstream.go 62-77, 247-252; server.go 364-368).
ReadAheadKept == IsPrefix(received, Data)

=============================================================================
