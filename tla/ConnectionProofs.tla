-------------------------- MODULE ConnectionProofs --------------------------
(***************************************************************************)
(* Proofs about module Connection: who owns the connection to an upstream, *)
(* and that no byte of it is lost, for whatever the upstream sends.        *)
(***************************************************************************)
EXTENDS Connection, SequenceTheorems, TLAPS
LOCAL INSTANCE SequencesExt

\* What the handshake and the forwarding need of each other's state.
Handshaking == dial \in Writes \cup Reads

ControlOK ==
    /\ dial \in Writes \cup Reads \cup {"connect", "done", "failed"}
    /\ protocol \in {"http", "socks5", "custom"}
    /\ deadline \in [End -> BOOLEAN] /\ released \in BOOLEAN
    /\ copier \in [End -> {"reading", "writing", "ended", "signal", "gone"}]

\* Before and during a handshake nothing is forwarded; the deadline of the dial
\* exists only while the handshake lasts.
PhasesApart ==
    /\ dial = "connect" => sock = "none" /\ ~limit /\ ~deadline["upstream"]
    /\ Handshaking => sock = "open"
    /\ dial # "done" => /\ main = "dialing" /\ ~released
                        /\ \A e \in End : copier[e] = "gone"
    /\ dial = "done" => main # "dialing" /\ ~limit

\* The inductive invariant.  DialOwnsConnection needs to know where a connection
\* can be open or have a deadline before the dial has returned.
ConnectionInv == ControlOK /\ PhasesApart /\ DialOwnsConnection

-----------------------------------------------------------------------------

\* A step that leaves alone everything the invariant mentions keeps it.
LEMMA AsideKeepsInv ==
    ASSUME ConnectionInv,
           UNCHANGED <<dialVars, deadline, released, copier, main>>
    PROVE  ConnectionInv'
BY DEF ConnectionInv, ControlOK, PhasesApart, Handshaking, DialOwnsConnection, dialVars

-----------------------------------------------------------------------------
(* The dial. *)

\* A dial that fails during the handshake closes the connection (upstream.go
\* 47-75, 92-205).
LEMMA FailKeepsInv ==
    ASSUME ConnectionInv, Handshaking, Fail
    PROVE  ConnectionInv'
<1>1. /\ dial' = "failed" /\ sock' = "closed" /\ dial # "done"
      /\ UNCHANGED <<protocol, deadline, released, copier, main>>
  BY DEF Fail, vars, Handshaking, Writes, Reads
<1> QED
  BY <1>1 DEF ConnectionInv, ControlOK, PhasesApart, Handshaking, Writes, Reads,
              DialOwnsConnection

\* A step of the handshake that succeeds is followed by another or by the
\* forwarding, for which the deadline is removed (upstream.go 73, 204).
LEMMA AdvanceKeepsInv ==
    ASSUME ConnectionInv, Handshaking,
           NEW next \in Writes \cup Reads \cup {"done"}, Advance(next)
    PROVE  ConnectionInv'
<1>1. /\ dial' = next /\ sock' = "open" /\ ~released /\ UNCHANGED <<protocol, released>>
      /\ deadline \in [End -> BOOLEAN] /\ main = "dialing"
      /\ \A e \in End : copier[e] = "gone"
  BY DEF Advance, ConnectionInv, ControlOK, PhasesApart, Handshaking, Writes, Reads
<1>2. CASE next = "done"
  <2>1. /\ ~limit' /\ main' \in {"select", "request"}
        /\ copier' = [e \in End |-> "reading"] \/ copier' = copier
        /\ deadline' = [deadline EXCEPT !["upstream"] = FALSE]
    BY <1>2 DEF Advance, Forwarding
  <2>2. deadline' \in [End -> BOOLEAN] /\ ~deadline'["upstream"]
    BY <2>1, <1>1 DEF End
  <2>3. ControlOK'
    BY <1>1, <1>2, <2>1, <2>2 DEF ConnectionInv, ControlOK
  <2>4. PhasesApart' /\ DialOwnsConnection'
    BY <1>1, <1>2, <2>1, <2>2 DEF PhasesApart, Handshaking, Writes, Reads,
                                  DialOwnsConnection
  <2> QED
    BY <2>3, <2>4 DEF ConnectionInv
<1>3. CASE next \in Writes \cup Reads
  <2>1. next # "done" /\ next # "connect" /\ next # "failed"
    BY <1>3 DEF Writes, Reads
  <2>2. UNCHANGED <<deadline, main, copier>>
    BY <2>1 DEF Advance
  <2> QED
    BY <1>1, <1>3, <2>1, <2>2 DEF ConnectionInv, ControlOK, PhasesApart, Handshaking,
                                  DialOwnsConnection
<1> QED
  BY <1>2, <1>3

\* What follows a step of the handshake is such a step, or the end of it.
LEMMA AfterType ==
    ASSUME NEW step \in Writes \cup Reads, NEW answer
    PROVE  After(step, answer) \in Writes \cup Reads \cup {"done"}
BY DEF After, Writes, Reads

LEMMA ConnectKeepsInv ==
    ASSUME ConnectionInv, Connect
    PROVE  ConnectionInv'
<1>1. /\ dial = "connect" /\ UNCHANGED <<protocol, deadline, released>>
      /\ sock = "none" /\ ~limit /\ ~deadline["upstream"] /\ ~released
      /\ main = "dialing" /\ \A e \in End : copier[e] = "gone"
  BY DEF Connect, ConnectionInv, PhasesApart
<1>2. CASE protocol = "custom" /\ dial' = First[protocol]
  <2>1. /\ dial' = "done" /\ sock' = "open" /\ ~limit' /\ main' \in {"select", "request"}
        /\ copier' = [e \in End |-> "reading"] \/ copier' = copier
    BY <1>1, <1>2 DEF Connect, Forwarding, First
  <2>2. ControlOK'
    BY <1>1, <2>1 DEF ConnectionInv, ControlOK
  <2> QED
    BY <1>1, <2>1, <2>2 DEF ConnectionInv, PhasesApart, Handshaking, Writes, Reads,
                            DialOwnsConnection
<1>3. CASE protocol # "custom" /\ dial' = First[protocol]
  <2>1. dial' \in {"writeConnect", "writeMethods"}
    BY <1>3 DEF First, ConnectionInv, ControlOK
  <2>2. sock' = "open" /\ UNCHANGED <<main, copier>>
    BY <1>1, <1>3, <2>1 DEF Connect
  <2> QED
    BY <1>1, <2>1, <2>2 DEF ConnectionInv, ControlOK, PhasesApart, Handshaking, Writes,
                            Reads, DialOwnsConnection
<1>4. CASE dial' = "failed" /\ UNCHANGED <<sock, limit, main, copier>>
  BY <1>1, <1>4 DEF ConnectionInv, ControlOK, PhasesApart, Handshaking, Writes, Reads,
                    DialOwnsConnection
<1> QED
  BY <1>2, <1>3, <1>4 DEF Connect

\* Every step of a dial keeps the invariant.
LEMMA DialKeepsInv ==
    ASSUME ConnectionInv, Dial
    PROVE  ConnectionInv'
<1>1. CASE Connect
  BY <1>1, ConnectKeepsInv
<1>2. CASE WriteStep
  BY <1>2, AfterType, AdvanceKeepsInv, FailKeepsInv DEF WriteStep, Handshaking
<1>3. CASE ReadHTTP
  BY <1>3, AdvanceKeepsInv, FailKeepsInv DEF ReadHTTP, Handshaking, Reads
<1>4. CASE ReadSOCKS
  BY <1>4, AfterType, AdvanceKeepsInv, FailKeepsInv DEF ReadSOCKS, Handshaking
<1>5. CASE ReadBroken
  BY <1>5, FailKeepsInv DEF ReadBroken, Handshaking
<1> QED
  BY <1>1, <1>2, <1>3, <1>4, <1>5 DEF Dial

\* The deadline passes only while a handshake lasts.
LEMMA ExpireKeepsInv ==
    ASSUME ConnectionInv, Expire
    PROVE  ConnectionInv'
<1>1. Handshaking
  BY DEF Expire, ConnectionInv, ControlOK, PhasesApart, DialOwnsConnection, Handshaking
<1>2. dial # "done" /\ dial # "connect" /\ dial # "failed"
  BY <1>1 DEF Handshaking, Writes, Reads
<1>3. /\ deadline' = [deadline EXCEPT !["upstream"] = TRUE]
      /\ UNCHANGED <<released, copier, main, protocol, dial, sock, limit>>
  BY DEF Expire, dialVars
<1> QED
  BY <1>2, <1>3 DEF ConnectionInv, ControlOK, PhasesApart, Handshaking, DialOwnsConnection

-----------------------------------------------------------------------------
(* The forwarding. *)

\* The copying goroutines: only the one that has seen the client's end sets a
\* deadline on the connection to the upstream, and it copies nothing more
\* (server.go 358-368).
LEMMA CopiersKeepInv ==
    ASSUME ConnectionInv, NEW e \in End, UNCHANGED dialVars,
           Take(e) \/ ReadFails(e) \/ Write(e) \/ Interrupt(e) \/ Signal(e)
    PROVE  ConnectionInv'
<1>1. /\ copier[e] # "gone" /\ UNCHANGED <<released, main, protocol, dial, sock, limit>>
      /\ copier \in [End -> {"reading", "writing", "ended", "signal", "gone"}]
      /\ deadline \in [End -> BOOLEAN]
  BY DEF ConnectionInv, ControlOK, Take, ReadFails, Write, Interrupt, Signal, dialVars
<1>2. dial = "done" /\ main # "dialing" /\ ~limit
  BY <1>1 DEF ConnectionInv, PhasesApart
<1>3. \E there \in {"reading", "writing", "ended", "signal", "gone"} :
         /\ copier' = [copier EXCEPT ![e] = there]
         /\ copier[e] = "signal" => there = "gone"
  BY DEF Take, ReadFails, Write, Interrupt, Signal
<1>4. /\ copier' \in [End -> {"reading", "writing", "ended", "signal", "gone"}]
      /\ copier["client"] \in {"signal", "gone"} => copier'["client"] \in {"signal", "gone"}
  BY <1>1, <1>3 DEF End
<1>5. /\ deadline' \in [End -> BOOLEAN]
      /\ deadline'["upstream"] => deadline["upstream"] \/ copier'["client"] = "signal"
  <2>1. CASE Interrupt(e)
    BY <1>1, <2>1 DEF Interrupt, Peer, End
  <2>2. CASE UNCHANGED deadline
    BY <1>1, <2>2
  <2> QED
    BY <2>1, <2>2 DEF Take, ReadFails, Write, Signal
<1>6. ControlOK' /\ PhasesApart'
  BY <1>1, <1>2, <1>4, <1>5 DEF ConnectionInv, ControlOK, PhasesApart, Handshaking, Writes,
                                Reads
<1>7. DialOwnsConnection'
  BY <1>1, <1>2, <1>4, <1>5 DEF ConnectionInv, DialOwnsConnection
<1> QED
  BY <1>6, <1>7 DEF ConnectionInv

\* The handler closes the connection in the step in which it returns, and only
\* then (server.go 206, 251, 266).
LEMMA HandlerKeepsInv ==
    ASSUME ConnectionInv, Tunnel \/ HTTP, Release, UNCHANGED <<protocol, dial, limit>>
    PROVE  ConnectionInv'
<1>1. /\ main # "dialing" /\ main' # "dialing" /\ UNCHANGED <<copier, deadline>>
      /\ released' = released \/ released' = TRUE
  BY DEF Tunnel, FirstDone, WindowOver, Judge, SecondDone, Final, HTTP, HTTPSucceeds,
         HTTPFails
<1>2. dial = "done" /\ ~limit
  BY <1>1 DEF ConnectionInv, PhasesApart
<1>3. released \in BOOLEAN /\ sock = IF released THEN "closed" ELSE "open"
  BY <1>2 DEF ConnectionInv, ControlOK, DialOwnsConnection
<1>4. sock' = IF released' THEN "closed" ELSE "open"
  BY <1>1, <1>3 DEF Release
<1>5. ControlOK' /\ PhasesApart'
  BY <1>1, <1>2, <1>3 DEF ConnectionInv, ControlOK, PhasesApart, Handshaking, Writes, Reads
<1>6. DialOwnsConnection'
  BY <1>1, <1>2, <1>4 DEF ConnectionInv, DialOwnsConnection
<1> QED
  BY <1>5, <1>6 DEF ConnectionInv

LEMMA ForwardsKeepInv ==
    ASSUME ConnectionInv, Forwards
    PROVE  ConnectionInv'
<1>1. "upstream" \in End /\ "client" \in End
  BY DEF End
<1>2. CASE ReadUpstream
  BY <1>1, <1>2, CopiersKeepInv DEF ReadUpstream
<1>3. CASE WriteUpstream
  BY <1>1, <1>3, CopiersKeepInv DEF WriteUpstream
<1>4. CASE FireTimer /\ UNCHANGED dialVars
  BY <1>4, AsideKeepsInv DEF FireTimer
<1>5. ASSUME NEW e \in End, UNCHANGED dialVars,
             Take(e) \/ ReadFails(e) \/ Write(e) \/ Interrupt(e) \/ Signal(e)
      PROVE  ConnectionInv'
  BY <1>5, CopiersKeepInv
<1>6. CASE (Tunnel \/ HTTP) /\ Release /\ UNCHANGED <<protocol, dial, limit>>
  BY <1>6, HandlerKeepsInv
<1> QED
  BY <1>1, <1>2, <1>3, <1>4, <1>5, <1>6 DEF Forwards, Read, CopyFails

-----------------------------------------------------------------------------

LEMMA InitInv == ConnectionInit => ConnectionInv
BY DEF ConnectionInit, ConnectionInv, ControlOK, PhasesApart, Handshaking, Writes, Reads,
       DialOwnsConnection, End

LEMMA NextInv ==
    ASSUME ConnectionInv, [ConnectionNext]_connectionVars
    PROVE  ConnectionInv'
<1>1. CASE Dial
  BY <1>1, DialKeepsInv
<1>2. CASE Expire
  BY <1>2, ExpireKeepsInv
<1>3. CASE Send
  BY <1>3, AsideKeepsInv DEF Send, vars
<1>4. CASE Forwards
  BY <1>4, ForwardsKeepInv
<1>5. ASSUME NEW e \in End, Leave(e), UNCHANGED dialVars
      PROVE  ConnectionInv'
  BY <1>5, AsideKeepsInv DEF Leave
<1>6. CASE UNCHANGED connectionVars
  BY <1>6, AsideKeepsInv DEF connectionVars, vars
<1> QED
  BY <1>1, <1>2, <1>3, <1>4, <1>5, <1>6 DEF ConnectionNext, ConnectionEnded

\* The invariant of a connection holds in every reachable state, for any data.
THEOREM ConnectionInvariance == ConnectionSpec => []ConnectionInv
BY InitInv, NextInv, PTL DEF ConnectionSpec

\* The connection to an upstream has one owner at all times, whatever the
\* upstream answers, in whatever step it fails (upstream.go 40-205; server.go
\* 206, 251, 266, 356-368).
THEOREM ConnectionOwned == ConnectionSpec => []DialOwnsConnection
BY ConnectionInvariance, PTL DEF ConnectionInv

-----------------------------------------------------------------------------
(* What an upstream has still to say. *)

Word == {"good", "auth", "bad"} \cup {Data[i] : i \in DOMAIN Data}

\* How many answers a handshake waits for from a step on, if the next is first.
Left(step, first) ==
    CASE step \in {"writeConnect", "readResponse", "readPort"} -> 1
      [] step = "readAddress" -> 2
      [] step \in {"readReply", "writeRequest"} -> 3
      [] step \in {"writeAuth", "readAuth"} -> 4
      [] step \in {"writeMethods", "readMethod"} -> IF first = "auth" THEN 5 ELSE 4
      [] OTHER -> 0

\* In what is still to come from the upstream the data follow the answers that
\* the handshake waits for, unless one of these is wrong.
AnswersOK(step, stream) ==
    LET n    == Len(stream) - Len(Data)
        left == Left(step, stream[1])
    IN  /\ n \in Nat /\ \A j \in 1 .. Len(Data) : stream[n + j] = Data[j]
        /\ n = left \/ \E k \in 1 .. left : k <= n /\ stream[k] = "bad"

LEMMA DataType == Data \in Seq(Word) /\ Len(Data) \in Nat /\ DOMAIN Data = 1 .. Len(Data)
<1>1. Data \in Seq(STRING)
  BY DataAssumption
<1>2. Data \in [1 .. Len(Data) -> Word] /\ Len(Data) \in Nat
  BY <1>1 DEF Word
<1> QED
  BY <1>1, <1>2

\* A request is written: the same answers are to come (upstream.go 55-61, 100-205).
LEMMA AnswersAfterWrite ==
    ASSUME NEW step \in Writes, NEW stream, AnswersOK(step, stream)
    PROVE  AnswersOK(After(step, "good"), stream)
<1>1. Left(After(step, "good"), stream[1]) = Left(step, stream[1])
  BY DEF Left, After, Writes
<1> QED
  BY <1>1 DEF AnswersOK

\* An answer is read and understood: it was one, and the others are to come
\* (upstream.go 62-72, 111-205).
LEMMA AnswersAfterRead ==
    ASSUME NEW step \in Reads, NEW stream \in Seq(Word), AnswersOK(step, stream),
           Understood(step, stream[1])
    PROVE  stream # <<>> /\ AnswersOK(After(step, stream[1]), Tail(stream))
<1> DEFINE n    == Len(stream) - Len(Data)
           left == Left(step, stream[1])
           next == After(step, stream[1])
           rest == Tail(stream)
<1>1. /\ n \in Nat /\ \A j \in 1 .. Len(Data) : stream[n + j] = Data[j]
      /\ n = left \/ \E k \in 1 .. left : k <= n /\ stream[k] = "bad"
  BY DEF AnswersOK
<1>2. left \in Nat /\ left >= 1
  BY DEF Left, Reads
<1>3. \A first : Left(next, first) = left - 1
  <2>1. CASE step = "readMethod" /\ stream[1] = "auth"
    BY <2>1 DEF Left, After
  <2>2. CASE step = "readMethod" /\ stream[1] = "good"
    BY <2>2 DEF Left, After
  <2>3. CASE step = "readResponse"
    BY <2>3 DEF Left, After
  <2>4. CASE step = "readAuth"
    BY <2>4 DEF Left, After
  <2>5. CASE step = "readReply"
    BY <2>5 DEF Left, After
  <2>6. CASE step = "readAddress"
    BY <2>6 DEF Left, After
  <2>7. CASE step = "readPort"
    BY <2>7 DEF Left, After
  <2> QED
    BY <2>1, <2>2, <2>3, <2>4, <2>5, <2>6, <2>7 DEF Reads, Understood
<1>4. stream[1] # "bad"
  BY DEF Understood
<1>5. Len(Data) \in Nat /\ Len(stream) \in Nat /\ n >= 1 /\ Len(stream) >= 1
  BY <1>1, <1>2, DataType
<1>6. stream # <<>>
  BY <1>5
<1>7. /\ rest \in Seq(Word) /\ Len(rest) = Len(stream) - 1
      /\ \A i \in 1 .. Len(rest) : rest[i] = stream[i + 1]
  BY <1>6, HeadTailProperties
<1> HIDE DEF left, next, rest
<1>8. Len(rest) - Len(Data) = n - 1 /\ n - 1 \in Nat
  BY <1>1, <1>5, <1>7
<1>9. \A j \in 1 .. Len(Data) : rest[(n - 1) + j] = Data[j]
  <2> TAKE j \in 1 .. Len(Data)
  <2>1. (n - 1) + j \in 1 .. Len(rest) /\ ((n - 1) + j) + 1 = n + j
    BY <1>1, <1>5, <1>7
  <2> QED
    BY <1>1, <1>7, <2>1
<1>10. n - 1 = left - 1 \/ \E k \in 1 .. left - 1 : k <= n - 1 /\ rest[k] = "bad"
  <2>1. CASE n = left
    BY <2>1
  <2>2. CASE \E k \in 1 .. left : k <= n /\ stream[k] = "bad"
    <3>1. PICK k \in 1 .. left : k <= n /\ stream[k] = "bad"
      BY <2>2
    <3>2. k # 1
      BY <1>4, <3>1
    <3>3. k - 1 \in 1 .. left - 1 /\ k - 1 <= n - 1 /\ k - 1 \in 1 .. Len(rest)
          /\ (k - 1) + 1 = k
      BY <1>1, <1>2, <1>5, <1>7, <3>1, <3>2
    <3> QED
      BY <1>7, <3>1, <3>3
  <2> QED
    BY <1>1, <2>1, <2>2
<1>11. AnswersOK(next, rest)
  <2> HIDE DEF n
  <2> QED
    BY <1>3, <1>8, <1>9, <1>10 DEF AnswersOK
<1> QED
  BY <1>6, <1>11 DEF next, rest

\* When the handshake waits for nothing more, what is to come is the data.
LEMMA AnswersAtEnd ==
    ASSUME NEW stream \in Seq(Word), AnswersOK("done", stream)
    PROVE  stream = Data
<1>1. Left("done", stream[1]) = 0
  BY DEF Left
<1>2. /\ Len(stream) - Len(Data) = 0
      /\ \A j \in 1 .. Len(Data) : stream[0 + j] = Data[j]
  BY <1>1 DEF AnswersOK
<1>3. Len(stream) \in Nat /\ Len(Data) \in Nat /\ Data \in Seq(Word)
  BY DataType
<1> QED
  BY <1>2, <1>3, SeqEqual

-----------------------------------------------------------------------------
(* The wire.                                                                *)

Stream == sent \o script

\* The step whose answer is next.
Step == IF dial = "connect" THEN First[protocol] ELSE dial

WireTypeOK ==
    /\ script \in Seq(Word) /\ sent \in Seq(Word) /\ ahead \in Seq(Word)
    /\ chunk \in Seq(Word) /\ received \in Seq(Word)
    /\ limit \in BOOLEAN /\ wrapped \in BOOLEAN

\* Before the dial returns nothing is held or passed on, and the answers come
\* first.
HandshakeOK ==
    dial # "done" =>
        /\ ahead = <<>> /\ ~wrapped /\ chunk = <<>> /\ received = <<>>
        /\ dial # "failed" => AnswersOK(Step, Stream)

\* What the goroutine that copies from the upstream has still to pass on.
Rest == chunk \o (ahead \o Stream)

\* Afterwards nothing is lost between the wire, the buffer of the response, the
\* copying goroutine and the client, as long as that goroutine copies.
FlowOK ==
    dial = "done" =>
        /\ \E rest \in Seq(Word) :
              /\ received \o rest = Data
              /\ copier["upstream"] \in {"reading", "writing"} => rest = Rest
        /\ ahead # <<>> => wrapped
        /\ copier["upstream"] = "reading" => chunk = <<>>

\* The inductive invariant of the data.  ReadAheadKept alone is not one: it says
\* nothing of what the client has not yet received.
WireInv == WireTypeOK /\ HandshakeOK /\ FlowOK

LEMMA Associative ==
    \A s, t, u \in Seq(Word) : (s \o t) \o u = s \o (t \o u)
BY ConcatAssociative, SMTT(30)

LEMMA StreamType == ASSUME WireTypeOK PROVE Stream \in Seq(Word)
BY ConcatProperties DEF WireTypeOK, Stream

\* The upstream sends: what is to come stays the same.
LEMMA SendKeepsStream ==
    ASSUME WireTypeOK, Send
    PROVE  sent' \in Seq(Word) /\ script' \in Seq(Word) /\ Stream' = Stream
<1>1. /\ script # <<>> /\ sent' = Append(sent, Head(script)) /\ script' = Tail(script)
      /\ sent \in Seq(Word) /\ script \in Seq(Word)
  BY DEF Send, WireTypeOK
<1>2. /\ Head(script) \in Word /\ Tail(script) \in Seq(Word)
      /\ script = <<Head(script)>> \o Tail(script)
  BY <1>1
<1>3. sent' = sent \o <<Head(script)>> /\ sent' \in Seq(Word)
  BY <1>1, <1>2, AppendIsConcat, AppendProperties
<1>4. (sent \o <<Head(script)>>) \o Tail(script) = sent \o (<<Head(script)>> \o Tail(script))
  <2>1. sent \in Seq(Word) /\ <<Head(script)>> \in Seq(Word) /\ Tail(script) \in Seq(Word)
    BY <1>1, <1>2
  <2> QED
    BY <2>1, Associative
<1> QED
  BY <1>1, <1>2, <1>3, <1>4 DEF Stream

\* One answer or chunk is taken from the wire.
LEMMA TakeFromStream ==
    ASSUME WireTypeOK, sent # <<>>, sent' = Tail(sent), UNCHANGED script
    PROVE  /\ sent' \in Seq(Word) /\ Stream # <<>> /\ Stream[1] = sent[1]
           /\ Stream' = Tail(Stream)
           /\ Head(sent) = sent[1] /\ sent[1] \in Word
           /\ Stream = <<sent[1]>> \o Stream'
<1>1. /\ sent \in Seq(Word) /\ script \in Seq(Word)
      /\ Len(sent) \in Nat /\ Len(sent) >= 1 /\ Len(script) \in Nat
  BY DEF WireTypeOK
<1>2. /\ Tail(sent) \in Seq(Word) /\ sent[1] \in Word /\ Head(sent) = sent[1]
      /\ sent = <<sent[1]>> \o Tail(sent)
  BY <1>1
<1>3. <<sent[1]>> \in Seq(Word)
  BY <1>2
<1>4. (<<sent[1]>> \o Tail(sent)) \o script = <<sent[1]>> \o (Tail(sent) \o script)
  <2>1. <<sent[1]>> \in Seq(Word) /\ Tail(sent) \in Seq(Word) /\ script \in Seq(Word)
    BY <1>1, <1>2, <1>3
  <2> QED
    BY <2>1, Associative
<1>5. Stream = <<sent[1]>> \o Stream' /\ Stream' \in Seq(Word)
  BY <1>1, <1>2, <1>4, ConcatProperties DEF Stream
<1>6. \A x \in Word, t \in Seq(Word) :
         (<<x>> \o t) # <<>> /\ (<<x>> \o t)[1] = x /\ Tail(<<x>> \o t) = t
  OBVIOUS
<1> QED
  BY <1>2, <1>5, <1>6

\* A step that reads and writes nothing of the wire keeps the invariant.
LEMMA AsideKeepsWire ==
    ASSUME WireInv, UNCHANGED <<wire, protocol, dial>>, limit' \in BOOLEAN,
           copier'["upstream"] \in {"reading", "writing"} =>
               copier["upstream"] \in {"reading", "writing"},
           copier'["upstream"] = "reading" => copier["upstream"] = "reading"
    PROVE  WireInv'
<1>1. /\ UNCHANGED <<script, sent, ahead, wrapped, chunk, received, protocol, dial>>
      /\ Stream' = Stream /\ Rest' = Rest /\ Step' = Step
  BY DEF wire, Stream, Rest, Step
<1>2. WireTypeOK'
  BY <1>1 DEF WireInv, WireTypeOK
<1>3. HandshakeOK'
  BY <1>1 DEF WireInv, HandshakeOK
<1>4. FlowOK'
  BY <1>1 DEF WireInv, FlowOK
<1> QED
  BY <1>2, <1>3, <1>4 DEF WireInv

\* A handshake that fails has passed nothing on.
LEMMA FailKeepsWire ==
    ASSUME WireInv, Handshaking, Fail, sent' \in Seq(Word)
    PROVE  WireInv'
<1>1. /\ dial' = "failed" /\ dial # "done"
      /\ UNCHANGED <<limit, script, ahead, wrapped, chunk, received>>
  BY DEF Fail, Handshaking, Writes, Reads
<1>2. WireTypeOK'
  BY <1>1 DEF WireInv, WireTypeOK
<1>3. HandshakeOK' /\ FlowOK'
  BY <1>1 DEF WireInv, HandshakeOK, FlowOK
<1> QED
  BY <1>2, <1>3 DEF WireInv

\* A handshake that goes on waits for the rest of the answers; one that is over
\* has left the data on the wire.
LEMMA AdvanceKeepsWire ==
    ASSUME WireInv, Handshaking, NEW next \in Writes \cup Reads \cup {"done"},
           Advance(next), UNCHANGED <<ahead, wrapped, chunk, received>>,
           sent' \in Seq(Word), script' \in Seq(Word), AnswersOK(next, Stream')
    PROVE  WireInv'
<1>1. /\ dial' = next /\ dial # "done" /\ dial # "failed" /\ limit' \in BOOLEAN
      /\ next # "connect" /\ next # "failed"
  BY DEF Advance, Handshaking, Writes, Reads, WireInv, WireTypeOK
<1>2. WireTypeOK'
  BY <1>1 DEF WireInv, WireTypeOK
<1>3. ahead' = <<>> /\ chunk' = <<>> /\ received' = <<>> /\ ~wrapped'
  BY <1>1 DEF WireInv, HandshakeOK
<1>4. HandshakeOK'
  BY <1>1, <1>3 DEF HandshakeOK, Step
<1>5. FlowOK'
  <2> SUFFICES ASSUME next = "done" PROVE FlowOK'
    BY <1>1 DEF FlowOK
  <2>1. Stream' \in Seq(Word)
    BY ConcatProperties DEF Stream
  <2>2. Stream' = Data
    BY <2>1, AnswersAtEnd
  <2>3. Rest' = Data /\ received' \o Data = Data
    BY <1>3, <2>2, DataType, ConcatEmptySeq DEF Rest
  <2> QED
    BY <1>3, <2>3, DataType DEF FlowOK
<1> QED
  BY <1>2, <1>4, <1>5 DEF WireInv

\* The buffer of the response holds what the reader took beyond it, and the
\* connection is returned with the buffer (upstream.go 62-77).
LEMMA ReadHTTPKeepsWire ==
    ASSUME WireInv, ReadHTTP
    PROVE  WireInv'
<1>1. /\ dial = "readResponse" /\ sent # <<>> /\ Step = dial /\ Handshaking
      /\ ahead = <<>> /\ ~wrapped /\ chunk = <<>> /\ received = <<>>
      /\ AnswersOK("readResponse", Stream)
  BY DEF ReadHTTP, Step, Handshaking, Reads, WireInv, HandshakeOK
<1>2. /\ sent \in Seq(Word) /\ script \in Seq(Word) /\ Stream \in Seq(Word)
      /\ Len(sent) \in Nat /\ Len(sent) >= 1
  BY <1>1, StreamType DEF WireInv, WireTypeOK
<1>3. CASE ~Understood(dial, sent[1])
  <2>1. Fail /\ sent' = Tail(sent)
    BY <1>3 DEF ReadHTTP
  <2>2. sent' \in Seq(Word)
    BY <1>1, <1>2, <2>1
  <2> QED
    BY <1>1, <2>1, <2>2, FailKeepsWire
<1>4. CASE Understood(dial, sent[1])
  <2>1. PICK m \in 1 .. Len(sent) :
           ahead' = SubSeq(sent, 2, m) /\ sent' = SubSeq(sent, m + 1, Len(sent))
    BY <1>4 DEF ReadHTTP
  <2>2. /\ wrapped' = (ahead' # <<>>) /\ Advance("done")
        /\ UNCHANGED <<script, chunk, received>>
    BY <1>4 DEF ReadHTTP
  <2>3. dial' = "done" /\ limit' = FALSE
    BY <2>2 DEF Advance
  <2>4. sent = <<sent[1]>> \o Tail(sent) /\ Tail(sent) \in Seq(Word) /\ <<sent[1]>> \in Seq(Word)
    BY <1>1, <1>2
  <2>5. Stream = <<sent[1]>> \o (Tail(sent) \o script)
    <3>1. (<<sent[1]>> \o Tail(sent)) \o script = <<sent[1]>> \o (Tail(sent) \o script)
      BY <1>2, <2>4, Associative
    <3>2. Stream = (<<sent[1]>> \o Tail(sent)) \o script
      BY <2>4 DEF Stream
    <3> QED
      BY <3>1, <3>2
  <2>6. Tail(sent) \o script \in Seq(Word)
    BY <1>2, <2>4, ConcatProperties
  <2>7. Stream[1] = sent[1] /\ Tail(Stream) = Tail(sent) \o script
    <3>1. \A x \in Word, t \in Seq(Word) : (<<x>> \o t)[1] = x /\ Tail(<<x>> \o t) = t
      OBVIOUS
    <3> QED
      BY <1>1, <1>2, <2>5, <2>6, <3>1
  <2>8. AnswersOK("done", Tail(sent) \o script)
    <3>1. "readResponse" \in Reads /\ After("readResponse", Stream[1]) = "done"
      BY DEF Reads, After
    <3> QED
      BY <1>1, <1>2, <1>4, <2>7, <3>1, AnswersAfterRead
  <2>9. Tail(sent) \o script = Data
    BY <2>6, <2>8, AnswersAtEnd
  <2>10. ahead' \o sent' = Tail(sent) /\ ahead' \in Seq(Word) /\ sent' \in Seq(Word)
    <3>1. 2 \in 1 .. Len(sent) + 1 /\ m \in 2 - 1 .. Len(sent) /\ Len(sent) \in m .. Len(sent)
      BY <1>2
    <3>2. SubSeq(sent, 2, m) \o SubSeq(sent, m + 1, Len(sent)) = SubSeq(sent, 2, Len(sent))
      BY <1>2, <3>1, ConcatAdjacentSubSeq
    <3>3. Tail(sent) = SubSeq(sent, 2, Len(sent))
      BY <1>1, <1>2, TailIsSubSeq
    <3>4. SubSeq(sent, 2, m) \in Seq(Word) /\ SubSeq(sent, m + 1, Len(sent)) \in Seq(Word)
      BY <1>2, <3>1
    <3> QED
      BY <2>1, <3>2, <3>3, <3>4
  <2>11. ahead' \o (sent' \o script') = Data
    <3>1. script' = script /\ script' \in Seq(Word)
      BY <1>2, <2>2
    <3>2. (ahead' \o sent') \o script' = ahead' \o (sent' \o script')
      BY <2>10, <3>1, Associative
    <3> QED
      BY <2>9, <2>10, <3>1, <3>2
  <2>12. Rest' = Data /\ received' \o Data = Data /\ chunk' = <<>>
    BY <1>1, <2>2, <2>11, DataType, ConcatEmptySeq DEF Rest, Stream
  <2>13. WireTypeOK'
    BY <1>1, <1>2, <2>2, <2>3, <2>10 DEF WireInv, WireTypeOK
  <2>14. HandshakeOK' /\ FlowOK'
    BY <2>2, <2>3, <2>12, DataType DEF HandshakeOK, FlowOK
  <2> QED
    BY <2>13, <2>14 DEF WireInv
<1> QED
  BY <1>3, <1>4

\* Every step of a dial keeps the data in order (upstream.go 40-205).
LEMMA DialKeepsWire ==
    ASSUME ConnectionInv, WireInv, Dial
    PROVE  WireInv'
<1>1. CASE Connect
  <2>1. /\ dial = "connect" /\ UNCHANGED <<protocol, wire>> /\ AnswersOK(Step, Stream)
        /\ limit' \in BOOLEAN
    BY <1>1 DEF Connect, WireInv, HandshakeOK, WireTypeOK
  <2>2. /\ UNCHANGED <<script, sent, ahead, wrapped, chunk, received>>
        /\ Stream' = Stream /\ Step = First[protocol]
    BY <2>1 DEF wire, Stream, Step
  <2>3. WireTypeOK'
    BY <2>1, <2>2 DEF WireInv, WireTypeOK
  <2>4. ahead' = <<>> /\ chunk' = <<>> /\ received' = <<>> /\ ~wrapped'
    BY <2>1, <2>2 DEF WireInv, HandshakeOK
  <2>5. CASE dial' = "failed"
    BY <2>3, <2>4, <2>5 DEF WireInv, HandshakeOK, FlowOK
  <2>6. CASE dial' = First[protocol] /\ dial' # "done"
    <3>1. Step' = First[protocol]
      BY <2>1, <2>6 DEF Step, First, ConnectionInv, ControlOK
    <3>2. AnswersOK(Step', Stream')
      BY <2>1, <2>2, <3>1
    <3>3. HandshakeOK'
      BY <2>4, <3>2 DEF HandshakeOK
    <3>4. FlowOK'
      BY <2>6 DEF FlowOK
    <3> QED
      BY <2>3, <3>3, <3>4 DEF WireInv
  <2>7. CASE dial' = First[protocol] /\ dial' = "done"
    <3>1. AnswersOK("done", Stream)
      BY <2>1, <2>2, <2>7
    <3>2. Stream = Data
      BY <3>1, StreamType, AnswersAtEnd DEF WireInv
    <3>3. Rest' = Data /\ received' \o Data = Data
      BY <2>2, <2>4, <3>2, DataType, ConcatEmptySeq DEF Rest
    <3>4. HandshakeOK'
      BY <2>7 DEF HandshakeOK
    <3>5. FlowOK'
      <4>1. Data \in Seq(Word) /\ received' \o Data = Data /\ Data = Rest'
        BY <3>3, DataType
      <4> QED
        BY <2>4, <4>1 DEF FlowOK
    <3> QED
      BY <2>3, <3>4, <3>5 DEF WireInv
  <2> QED
    BY <1>1, <2>5, <2>6, <2>7 DEF Connect
<1>2. CASE WriteStep
  <2>1. dial \in Writes /\ Handshaking /\ dial # "connect" /\ dial # "done" /\ dial # "failed"
    BY <1>2 DEF WriteStep, Handshaking, Writes
  <2>2. CASE Fail /\ UNCHANGED sent
    BY <2>1, <2>2, FailKeepsWire DEF WireInv, WireTypeOK
  <2>3. CASE Advance(After(dial, "good")) /\ UNCHANGED wire
    <3>1. Stream' = Stream /\ UNCHANGED <<script, sent, ahead, wrapped, chunk, received>>
      BY <2>3 DEF wire, Stream
    <3>2. AnswersOK(After(dial, "good"), Stream)
      BY <2>1, AnswersAfterWrite DEF WireInv, HandshakeOK, Step
    <3>3. After(dial, "good") \in Writes \cup Reads \cup {"done"}
      BY <2>1, AfterType
    <3>4. sent' \in Seq(Word) /\ script' \in Seq(Word)
      BY <3>1 DEF WireInv, WireTypeOK
    <3> QED
      BY <2>1, <2>3, <3>1, <3>2, <3>3, <3>4, AdvanceKeepsWire
  <2> QED
    BY <1>2, <2>2, <2>3 DEF WriteStep
<1>3. CASE ReadHTTP
  BY <1>3, ReadHTTPKeepsWire
<1>4. CASE ReadSOCKS
  <2>1. /\ dial \in Reads /\ Handshaking /\ dial # "connect" /\ dial # "done"
        /\ dial # "failed" /\ sent # <<>> /\ sent' = Tail(sent)
    BY <1>4 DEF ReadSOCKS, Handshaking, Reads
  <2>2. sent' \in Seq(Word)
    BY <2>1 DEF WireInv, WireTypeOK
  <2>3. CASE Fail
    BY <2>1, <2>2, <2>3, FailKeepsWire
  <2>4. CASE /\ Understood(dial, sent[1]) /\ Advance(After(dial, sent[1]))
             /\ UNCHANGED <<script, ahead, wrapped, chunk, received>>
    <3>1. /\ Stream[1] = sent[1] /\ Stream' = Tail(Stream) /\ Stream \in Seq(Word)
          /\ script' \in Seq(Word)
      BY <2>1, <2>4, TakeFromStream, StreamType DEF WireInv, WireTypeOK
    <3>2. AnswersOK(After(dial, sent[1]), Stream')
      BY <2>1, <2>4, <3>1, AnswersAfterRead DEF WireInv, HandshakeOK, Step
    <3>3. After(dial, sent[1]) \in Writes \cup Reads \cup {"done"}
      BY <2>1, AfterType
    <3> QED
      BY <2>1, <2>2, <2>4, <3>1, <3>2, <3>3, AdvanceKeepsWire
  <2> QED
    BY <1>4, <2>3, <2>4 DEF ReadSOCKS
<1>5. CASE ReadBroken
  BY <1>5, FailKeepsWire DEF ReadBroken, Handshaking, WireInv, WireTypeOK
<1> QED
  BY <1>1, <1>2, <1>3, <1>4, <1>5 DEF Dial

\* bufferedConn reads its buffer before the wire (upstream.go 247-252).
LEMMA ReadKeepsWire ==
    ASSUME ConnectionInv, WireInv, ReadUpstream
    PROVE  WireInv'
<1>1. /\ copier["upstream"] = "reading" /\ copier'["upstream"] = "writing"
      /\ UNCHANGED <<protocol, dial, sock, limit, script, wrapped, received>>
  BY DEF ReadUpstream, Take, dialVars, ConnectionInv, ControlOK, End
<1>2. dial = "done" /\ dial' = "done"
  BY <1>1 DEF ConnectionInv, PhasesApart, End
<1>3. /\ chunk = <<>> /\ (ahead # <<>> => wrapped)
      /\ WireTypeOK /\ ahead \in Seq(Word) /\ Stream \in Seq(Word)
      /\ received \o Rest = Data /\ Rest \in Seq(Word) /\ received \in Seq(Word)
  BY <1>1, <1>2, StreamType DEF WireInv, FlowOK, WireTypeOK
<1>4. Rest = ahead \o Stream
  BY <1>3, ConcatProperties, ConcatEmptySeq DEF Rest
<1>5. WireTypeOK' /\ (ahead' # <<>> => wrapped') /\ Rest' = Rest
  <2>1. CASE Buffered
    <3>1. chunk' = <<Head(ahead)>> /\ ahead' = Tail(ahead) /\ UNCHANGED sent
      BY <2>1 DEF ReadUpstream
    <3>2. /\ ahead = chunk' \o ahead' /\ chunk' \in Seq(Word) /\ ahead' \in Seq(Word)
      BY <1>3, <2>1, <3>1 DEF Buffered
    <3>3. Stream' = Stream
      BY <1>1, <3>1 DEF Stream
    <3>4. (chunk' \o ahead') \o Stream = chunk' \o (ahead' \o Stream)
      <4>1. chunk' \in Seq(Word) /\ ahead' \in Seq(Word) /\ Stream \in Seq(Word)
        BY <1>3, <3>2
      <4> QED
        BY <4>1, Associative
    <3> QED
      BY <1>1, <1>4, <2>1, <3>1, <3>2, <3>3, <3>4 DEF Rest, WireInv, WireTypeOK, Buffered
  <2>2. CASE ~Buffered
    <3>1. /\ sent # <<>> /\ chunk' = <<Head(sent)>> /\ sent' = Tail(sent) /\ UNCHANGED ahead
      BY <2>2 DEF ReadUpstream
    <3>2. ahead = <<>>
      BY <1>3, <2>2 DEF Buffered
    <3>3. /\ Stream = <<sent[1]>> \o Stream' /\ sent' \in Seq(Word) /\ sent[1] \in Word
          /\ chunk' = <<sent[1]>>
      BY <1>1, <1>3, <3>1, TakeFromStream
    <3>4. Stream' \in Seq(Word) /\ <<sent[1]>> \in Seq(Word)
      BY <1>1, <1>3, <3>3, ConcatProperties DEF Stream, WireTypeOK
    <3>5. ahead \o Stream = Stream /\ ahead' \o Stream' = Stream'
      BY <1>3, <3>1, <3>2, <3>4, ConcatEmptySeq
    <3> QED
      BY <1>1, <1>3, <1>4, <3>1, <3>2, <3>3, <3>4, <3>5 DEF Rest, WireTypeOK
  <2> QED
    BY <2>1, <2>2
<1>6. HandshakeOK' /\ FlowOK'
  BY <1>1, <1>2, <1>3, <1>5 DEF HandshakeOK, FlowOK
<1> QED
  BY <1>5, <1>6 DEF WireInv

\* A chunk is written to the client, or the goroutine ends (server.go 360-366).
LEMMA WriteKeepsWire ==
    ASSUME ConnectionInv, WireInv, WriteUpstream
    PROVE  WireInv'
<1>1. /\ copier["upstream"] = "writing" /\ copier'["upstream"] \in {"reading", "ended"}
      /\ UNCHANGED <<protocol, dial, sock, limit, script, sent, ahead, wrapped>>
      /\ chunk' = <<>>
      /\ received' = IF copier'["upstream"] = "reading" THEN received \o chunk ELSE received
  BY DEF WriteUpstream, Write, dialVars, ConnectionInv, ControlOK, End
<1>2. dial = "done" /\ dial' = "done"
  BY <1>1 DEF ConnectionInv, PhasesApart, End
<1>3. /\ chunk \in Seq(Word) /\ ahead \in Seq(Word) /\ Stream \in Seq(Word)
      /\ received \o Rest = Data /\ Rest \in Seq(Word) /\ received \in Seq(Word)
      /\ (ahead # <<>> => wrapped)
  BY <1>1, <1>2, StreamType DEF WireInv, FlowOK, WireTypeOK
<1>4. Stream' = Stream /\ ahead \o Stream \in Seq(Word)
  BY <1>1, <1>3, ConcatProperties DEF Stream
<1>5. received' \in Seq(Word)
  BY <1>1, <1>3, ConcatProperties
<1>6. WireTypeOK'
  BY <1>1, <1>5 DEF WireInv, WireTypeOK
<1>7. CASE copier'["upstream"] = "reading"
  <2>1. Rest' = ahead \o Stream
    BY <1>1, <1>4, ConcatEmptySeq DEF Rest
  <2>2. (received \o chunk) \o (ahead \o Stream) = received \o (chunk \o (ahead \o Stream))
    <3>1. PICK rest : rest = ahead \o Stream
      OBVIOUS
    <3>2. received \in Seq(Word) /\ chunk \in Seq(Word) /\ rest \in Seq(Word)
      BY <1>3, <1>4, <3>1
    <3>3. (received \o chunk) \o rest = received \o (chunk \o rest)
      BY <3>2, Associative
    <3> QED
      BY <3>1, <3>3
  <2>3. received' \o Rest' = Data /\ Rest' \in Seq(Word)
    BY <1>1, <1>3, <1>4, <1>7, <2>1, <2>2 DEF Rest
  <2> QED
    BY <1>1, <1>2, <1>3, <1>6, <2>3 DEF WireInv, HandshakeOK, FlowOK
<1>8. CASE copier'["upstream"] = "ended"
  BY <1>1, <1>2, <1>3, <1>6, <1>8 DEF WireInv, HandshakeOK, FlowOK
<1> QED
  BY <1>1, <1>7, <1>8

\* The other steps of the forwarding never let the goroutine that copies from the
\* upstream go on: what it has not passed on stays where it is.
LEMMA ForwardsKeepWire ==
    ASSUME ConnectionInv, WireInv, Forwards
    PROVE  WireInv'
<1>1. copier \in [End -> {"reading", "writing", "ended", "signal", "gone"}]
      /\ limit \in BOOLEAN /\ "upstream" \in End
  BY DEF ConnectionInv, ControlOK, WireInv, WireTypeOK, End
<1>2. CASE ReadUpstream
  BY <1>2, ReadKeepsWire
<1>3. CASE WriteUpstream
  BY <1>3, WriteKeepsWire
<1>4. ASSUME NEW e \in End, UNCHANGED <<dialVars, wire>>,
             \/ e = "client" /\ (Take(e) \/ Write(e))
             \/ ReadFails(e) \/ Interrupt(e) \/ Signal(e)
      PROVE  WireInv'
  <2>1. \E there \in {"reading", "writing", "ended", "signal", "gone"} :
           /\ copier' = [copier EXCEPT ![e] = there]
           /\ e = "client" \/ there \notin {"reading", "writing"}
    BY <1>4 DEF Take, Write, ReadFails, Interrupt, Signal
  <2>2. copier'["upstream"] = copier["upstream"]
          \/ copier'["upstream"] \notin {"reading", "writing"}
    BY <1>1, <2>1 DEF End
  <2> QED
    BY <1>1, <1>4, <2>2, AsideKeepsWire DEF dialVars
<1>5. CASE FireTimer /\ UNCHANGED <<dialVars, wire>>
  BY <1>1, <1>5, AsideKeepsWire DEF FireTimer, dialVars
<1>6. CASE (Tunnel \/ HTTP) /\ UNCHANGED <<protocol, dial, limit, wire>>
  <2>1. UNCHANGED copier
    BY <1>6 DEF Tunnel, FirstDone, WindowOver, Judge, SecondDone, Final, HTTP,
                HTTPSucceeds, HTTPFails
  <2> QED
    BY <1>1, <1>6, <2>1, AsideKeepsWire
<1>7. "client" \in End
  BY DEF End
<1> QED
  BY <1>2, <1>3, <1>4, <1>5, <1>6, <1>7 DEF Forwards, Read, CopyFails

LEMMA WireNext ==
    ASSUME ConnectionInv, WireInv, [ConnectionNext]_connectionVars
    PROVE  WireInv'
<1>1. limit \in BOOLEAN
  BY DEF WireInv, WireTypeOK
<1>2. CASE Dial
  BY <1>2, DialKeepsWire
<1>3. CASE Expire
  BY <1>1, <1>3, AsideKeepsWire DEF Expire, dialVars
<1>4. CASE Send
  <2>1. /\ UNCHANGED <<protocol, dial, limit, copier, ahead, wrapped, chunk, received>>
        /\ sent' \in Seq(Word) /\ script' \in Seq(Word) /\ Stream' = Stream
    BY <1>4, SendKeepsStream DEF Send, WireInv, vars, dialVars
  <2>2. Rest' = Rest /\ Step' = Step
    BY <2>1 DEF Rest, Step
  <2>3. WireTypeOK'
    BY <2>1 DEF WireInv, WireTypeOK
  <2>4. HandshakeOK'
    BY <2>1, <2>2 DEF WireInv, HandshakeOK
  <2>5. FlowOK'
    BY <2>1, <2>2 DEF WireInv, FlowOK
  <2> QED
    BY <2>3, <2>4, <2>5 DEF WireInv
<1>5. CASE Forwards
  BY <1>5, ForwardsKeepWire
<1>6. ASSUME NEW e \in End, Leave(e), UNCHANGED <<dialVars, wire>>
      PROVE  WireInv'
  BY <1>1, <1>6, AsideKeepsWire DEF Leave, dialVars
<1>7. CASE UNCHANGED connectionVars
  BY <1>1, <1>7, AsideKeepsWire DEF connectionVars, vars, dialVars
<1> QED
  BY <1>2, <1>3, <1>4, <1>5, <1>6, <1>7 DEF ConnectionNext, ConnectionEnded

\* The answers of a script come before its data, and of those a handshake waits
\* for only a wrong one is missing (upstream.go 40-205).
LEMMA ScriptAnswers ==
    ASSUME NEW a \in Seq(Word), NEW p \in {"http", "socks5", "custom"},
           \/ Len(a) = Left(First[p], a[1])
           \/ \E k \in 1 .. Left(First[p], a[1]) : k <= Len(a) /\ a[k] = "bad",
           Len(a) = 0 => p = "custom"
    PROVE  a \o Data \in Seq(Word) /\ AnswersOK(First[p], a \o Data)
<1> DEFINE stream == a \o Data
<1>1. /\ Len(a) \in Nat /\ Data \in Seq(Word) /\ Len(Data) \in Nat
  BY DataType
<1>2. /\ stream \in Seq(Word) /\ Len(stream) = Len(a) + Len(Data)
      /\ \A i \in 1 .. Len(a) + Len(Data) :
           stream[i] = IF i <= Len(a) THEN a[i] ELSE Data[i - Len(a)]
  BY <1>1, ConcatProperties
<1> HIDE DEF stream
<1>3. Left(First[p], stream[1]) = Left(First[p], a[1])
  <2>1. CASE p = "custom"
    BY <2>1 DEF Left, First
  <2>2. CASE Len(a) # 0
    <3>1. stream[1] = a[1]
      BY <1>1, <1>2, <2>2
    <3> QED
      BY <3>1
  <2> QED
    BY <2>1, <2>2
<1>4. Len(stream) - Len(Data) = Len(a)
  BY <1>1, <1>2
<1>5. ASSUME NEW j \in 1 .. Len(Data) PROVE stream[Len(a) + j] = Data[j]
  <2>1. Len(a) + j \in 1 .. Len(a) + Len(Data) /\ ~(Len(a) + j <= Len(a))
        /\ (Len(a) + j) - Len(a) = j
    BY <1>1
  <2> QED
    BY <1>2, <2>1
<1>6. \A k \in 1 .. Left(First[p], a[1]) : k <= Len(a) => stream[k] = a[k]
  BY <1>1, <1>2
<1>7. AnswersOK(First[p], stream)
  BY <1>1, <1>3, <1>4, <1>5, <1>6 DEF AnswersOK
<1> QED
  BY <1>2, <1>7 DEF stream

LEMMA RightAnswers ==
    ASSUME NEW p \in {"http", "socks5", "custom"}, NEW a \in Right[p]
    PROVE  /\ a \in Seq(Word) /\ Len(a) = Left(First[p], a[1])
           /\ Len(a) = 0 => p = "custom"
           /\ BeforeWrong[p] \in Int /\ BeforeWrong[p] < Len(a)
           /\ p # "custom" => BeforeWrong[p] < Left(First[p], "bad")
           /\ p = "custom" => BeforeWrong[p] < 0
<1>1. CASE p = "http"
  <2>1. a = <<"good">>
    BY <1>1 DEF Right
  <2> QED
    BY <1>1, <2>1 DEF BeforeWrong, First, Left, Word
<1>2. CASE p = "custom"
  <2>1. a = <<>>
    BY <1>2 DEF Right
  <2> QED
    BY <1>2, <2>1 DEF BeforeWrong, First, Left, Word
<1>3. CASE p = "socks5"
  <2>1. CASE a = <<"good", "good", "good", "good">>
    BY <1>3, <2>1 DEF BeforeWrong, First, Left, Word
  <2>2. CASE a = <<"auth", "good", "good", "good", "good">>
    BY <1>3, <2>2 DEF BeforeWrong, First, Left, Word
  <2> QED
    BY <1>3, <2>1, <2>2 DEF Right
<1> QED
  BY <1>1, <1>2, <1>3

LEMMA WrongAnswer ==
    ASSUME NEW a \in Seq(Word), NEW n \in Nat, n < Len(a)
    PROVE  /\ Wrong(a, n) \in Seq(Word) /\ Len(Wrong(a, n)) = n + 1
           /\ Wrong(a, n)[n + 1] = "bad"
           /\ n > 0 => Wrong(a, n)[1] = a[1]
<1> DEFINE start == SubSeq(a, 1, n)
<1>1. /\ start \in Seq(Word) /\ Len(start) = n
      /\ \A i \in 1 .. n : start[i] = a[i]
  OBVIOUS
<1>2. <<"bad">> \in Seq(Word) /\ Len(<<"bad">>) = 1 /\ <<"bad">>[1] = "bad"
  BY DEF Word
<1> HIDE DEF start
<1>3. Wrong(a, n) = start \o <<"bad">>
  BY DEF Wrong, start
<1>4. /\ start \o <<"bad">> \in Seq(Word) /\ Len(start \o <<"bad">>) = n + 1
      /\ \A i \in 1 .. n + 1 :
           (start \o <<"bad">>)[i] = IF i <= n THEN start[i] ELSE <<"bad">>[i - n]
  BY <1>1, <1>2, ConcatProperties
<1>5. (start \o <<"bad">>)[n + 1] = "bad"
  BY <1>2, <1>4
<1>6. n > 0 => (start \o <<"bad">>)[1] = a[1]
  BY <1>1, <1>4
<1> QED
  BY <1>3, <1>4, <1>5, <1>6

LEMMA ScriptsOK ==
    ASSUME NEW p \in {"http", "socks5", "custom"}, NEW sc \in Scripts(p)
    PROVE  sc \in Seq(Word) /\ AnswersOK(First[p], sc)
<1>1. \/ \E a \in Right[p] : sc = a \o Data
      \/ \E a \in Right[p] : \E n \in 0 .. BeforeWrong[p] : sc = Wrong(a, n) \o Data
  BY DEF Scripts
<1>2. CASE \E a \in Right[p] : sc = a \o Data
  BY <1>2, RightAnswers, ScriptAnswers
<1>3. ASSUME NEW a \in Right[p], NEW n \in 0 .. BeforeWrong[p],
             sc = Wrong(a, n) \o Data
      PROVE  sc \in Seq(Word) /\ AnswersOK(First[p], sc)
  <2>1. /\ a \in Seq(Word) /\ n \in Nat /\ n < Len(a) /\ p # "custom"
        /\ Len(a) = Left(First[p], a[1])
        /\ n < Left(First[p], "bad")
    <3>1. /\ a \in Seq(Word) /\ Len(a) = Left(First[p], a[1])
          /\ BeforeWrong[p] \in Int /\ BeforeWrong[p] < Len(a)
          /\ p # "custom" => BeforeWrong[p] < Left(First[p], "bad")
          /\ p = "custom" => BeforeWrong[p] < 0
      BY RightAnswers
    <3>2. Left(First[p], "bad") \in Int /\ Len(a) \in Nat
      BY <3>1 DEF Left
    <3>3. n \in Nat /\ n <= BeforeWrong[p]
      BY <3>1
    <3> QED
      BY <3>1, <3>2, <3>3
  <2>2. PICK b : b = Wrong(a, n)
    OBVIOUS
  <2>3. /\ b \in Seq(Word) /\ Len(b) = n + 1 /\ b[n + 1] = "bad"
        /\ n > 0 => b[1] = a[1]
    <3>1. /\ Wrong(a, n) \in Seq(Word) /\ Len(Wrong(a, n)) = n + 1
          /\ Wrong(a, n)[n + 1] = "bad"
          /\ n > 0 => Wrong(a, n)[1] = a[1]
      BY <2>1, WrongAnswer
    <3> QED
      BY <2>2, <3>1
  <2>4. n + 1 \in 1 .. Left(First[p], b[1])
    <3>1. Left(First[p], a[1]) \in Int /\ Left(First[p], "bad") \in Int
      BY DEF Left
    <3>2. CASE n > 0
      BY <2>1, <2>3, <3>1, <3>2
    <3>3. CASE n = 0
      BY <2>1, <2>3, <3>1, <3>3
    <3> QED
      BY <2>1, <3>2, <3>3
  <2>5. sc = b \o Data
    BY <1>3, <2>2
  <2>6. \E k \in 1 .. Left(First[p], b[1]) : k <= Len(b) /\ b[k] = "bad"
    <3>1. n + 1 <= Len(b)
      BY <2>1, <2>3
    <3> QED
      BY <2>3, <2>4, <3>1
  <2>7. Len(b) # 0
    BY <2>1, <2>3
  <2> QED
    BY <2>3, <2>5, <2>6, <2>7, ScriptAnswers
<1> QED
  BY <1>1, <1>2, <1>3

LEMMA WireInit == ConnectionInit => WireInv
<1> SUFFICES ASSUME ConnectionInit PROVE WireInv
  OBVIOUS
<1>1. /\ protocol \in {"http", "socks5", "custom"} /\ script \in Scripts(protocol)
      /\ dial = "connect" /\ limit = FALSE /\ wrapped = FALSE
      /\ sent = <<>> /\ ahead = <<>> /\ chunk = <<>> /\ received = <<>>
  BY DEF ConnectionInit
<1>2. script \in Seq(Word) /\ AnswersOK(First[protocol], script)
  BY <1>1, ScriptsOK
<1>3. <<>> \in Seq(Word) /\ Stream = script
  BY <1>1, <1>2, ConcatEmptySeq DEF Stream
<1> QED
  BY <1>1, <1>2, <1>3 DEF WireInv, WireTypeOK, HandshakeOK, FlowOK, Step

\* No byte of the upstream is lost, doubled or taken for an answer on its way to
\* the client, for any data and however much of it is read ahead
\* (upstream.go 40-205, 247-252; server.go 356-368).
THEOREM ConnectionReadAhead == ConnectionSpec => []ReadAheadKept
<1>1. ASSUME WireInv PROVE ReadAheadKept
  <2>1. received \in Seq(Word) /\ Data \in Seq(Word)
    BY <1>1, DataType DEF WireInv, WireTypeOK
  <2>2. \E rest \in Seq(Word) : received \o rest = Data
    <3>1. CASE dial = "done"
      BY <1>1, <3>1 DEF WireInv, FlowOK
    <3>2. CASE dial # "done"
      BY <1>1, <2>1, <3>2, ConcatEmptySeq DEF WireInv, HandshakeOK
    <3> QED
      BY <3>1, <3>2
  <2>3. PICK rest \in Seq(Word) : received \o rest = Data
    BY <2>2
  <2>4. /\ Len(received) \in Nat /\ Len(Data) = Len(received) + Len(rest)
        /\ Len(rest) \in Nat
        /\ \A i \in 1 .. Len(received) : Data[i] = received[i]
    BY <2>1, <2>3, ConcatProperties
  <2>5. SubSeq(received, 1, Len(received)) = SubSeq(Data, 1, Len(received))
    BY <2>1, <2>4
  <2> QED
    BY <2>4, <2>5 DEF ReadAheadKept, IsPrefix
<1>2. ConnectionInit => WireInv
  BY WireInit
<1>3. ConnectionInv /\ WireInv /\ [ConnectionNext]_connectionVars => WireInv'
  BY WireNext
<1> QED
  BY <1>1, <1>2, <1>3, ConnectionInvariance, PTL DEF ConnectionSpec

-----------------------------------------------------------------------------
(* Type correctness. *)

\* What TypeOK says of the forwarding and ControlOK does not; and how often the
\* candidate can have been charged and credited by where the handler is.
ForwardTypeOK ==
    /\ open \in [End -> BOOLEAN] /\ bytes \in BOOLEAN /\ early \in BOOLEAN
    /\ done \in 0 .. DoneCapacity /\ timer \in {"off", "armed", "fired"}
    /\ main \in {"dialing", "select", "judge", "second", "final", "request", "response",
                 "reply", "returned"}
    /\ sock \in {"none", "open", "closed"}

CountsOK ==
    /\ failures \in 0 .. 1 /\ successes \in 0 .. 2
    /\ main \in {"dialing", "select", "judge", "request", "response", "reply"}
         => failures = 0 /\ successes = 0
    /\ main \in {"second", "final"} => successes <= 1

ForwardInv == ForwardTypeOK /\ CountsOK

LEMMA ForwardAside ==
    ASSUME ForwardInv,
           UNCHANGED <<open, bytes, early, done, timer, main, failures, successes>>,
           sock' \in {"none", "open", "closed"}
    PROVE  ForwardInv'
BY DEF ForwardInv, ForwardTypeOK, CountsOK

\* A dial that returns finds nothing counted.
LEMMA DialKeepsForward ==
    ASSUME ForwardInv, ConnectionInv, Dial
    PROVE  ForwardInv'
<1>1. dial # "done" /\ main = "dialing"
  <2>1. dial # "done"
    BY DEF Dial, Connect, WriteStep, ReadHTTP, ReadSOCKS, ReadBroken, Writes, Reads
  <2> QED
    BY <2>1 DEF ConnectionInv, PhasesApart
<1>2. /\ UNCHANGED <<open, bytes, early, done, failures, successes>>
      /\ \/ UNCHANGED <<main, timer>>
         \/ main' = "select" /\ timer' = "armed"
         \/ main' = "request" /\ UNCHANGED timer
      /\ sock' \in {sock, "open", "closed"}
  <2>1. CASE Connect
    BY <2>1 DEF Connect, Forwarding
  <2>2. ASSUME NEW next, Advance(next)
        PROVE  <1>2!:
    BY <2>2 DEF Advance, Forwarding
  <2>3. ASSUME Fail PROVE <1>2!:
    BY <2>3 DEF Fail, vars
  <2> QED
    BY <2>1, <2>2, <2>3 DEF Dial, WriteStep, ReadHTTP, ReadSOCKS, ReadBroken
<1> QED
  BY <1>1, <1>2 DEF ForwardInv, ForwardTypeOK, CountsOK

LEMMA CopiersKeepForward ==
    ASSUME ForwardInv, NEW e \in End,
           Take(e) \/ ReadFails(e) \/ Write(e) \/ Interrupt(e) \/ Signal(e),
           UNCHANGED sock
    PROVE  ForwardInv'
<1>1. CASE Signal(e)
  BY <1>1 DEF Signal, ForwardInv, ForwardTypeOK, CountsOK, DoneCapacity
<1>2. CASE Take(e)
  BY <1>2 DEF Take, ForwardInv, ForwardTypeOK, CountsOK
<1>3. CASE ReadFails(e)
  BY <1>3 DEF ReadFails, ForwardInv, ForwardTypeOK, CountsOK
<1>4. CASE Write(e)
  BY <1>4 DEF Write, ForwardInv, ForwardTypeOK, CountsOK
<1>5. CASE Interrupt(e)
  BY <1>5 DEF Interrupt, ForwardInv, ForwardTypeOK, CountsOK
<1> QED
  BY <1>1, <1>2, <1>3, <1>4, <1>5

\* The handler counts at most once before the tunnel has ended and once after
\* (server.go 274-290, 386-394).
LEMMA HandlerKeepsForward ==
    ASSUME ForwardInv, Tunnel \/ HTTP, Release
    PROVE  ForwardInv'
<1> USE DEF Release
<1>1. CASE FirstDone
  BY <1>1 DEF FirstDone, ForwardInv, ForwardTypeOK, CountsOK, DoneCapacity
<1>2. CASE WindowOver
  BY <1>2 DEF WindowOver, ForwardInv, ForwardTypeOK, CountsOK
<1>3. CASE Judge
  BY <1>3 DEF Judge, ForwardInv, ForwardTypeOK, CountsOK
<1>4. CASE SecondDone
  BY <1>4 DEF SecondDone, ForwardInv, ForwardTypeOK, CountsOK, DoneCapacity
<1>5. CASE Final
  BY <1>5 DEF Final, ForwardInv, ForwardTypeOK, CountsOK
<1>6. CASE HTTP
  BY <1>6 DEF HTTP, HTTPSucceeds, HTTPFails, ForwardInv, ForwardTypeOK, CountsOK
<1> QED
  BY <1>1, <1>2, <1>3, <1>4, <1>5, <1>6 DEF Tunnel

LEMMA ForwardNext ==
    ASSUME ForwardInv, ConnectionInv, [ConnectionNext]_connectionVars
    PROVE  ForwardInv'
<1>1. CASE Dial
  BY <1>1, DialKeepsForward
<1>2. CASE Expire
  BY <1>2, ForwardAside DEF Expire, dialVars, ForwardInv, ForwardTypeOK
<1>3. CASE Send
  BY <1>3, ForwardAside DEF Send, vars, dialVars, ForwardInv, ForwardTypeOK
<1>4. CASE Forwards
  <2>1. "upstream" \in End /\ "client" \in End
    BY DEF End
  <2>2. CASE FireTimer /\ UNCHANGED sock
    BY <2>2 DEF FireTimer, ForwardInv, ForwardTypeOK, CountsOK
  <2> QED
    BY <1>4, <2>1, <2>2, CopiersKeepForward, HandlerKeepsForward
       DEF Forwards, ReadUpstream, WriteUpstream, Read, CopyFails, dialVars
<1>5. ASSUME NEW e \in End, Leave(e), UNCHANGED sock PROVE ForwardInv'
  BY <1>5 DEF Leave, ForwardInv, ForwardTypeOK, CountsOK
<1>6. CASE UNCHANGED connectionVars
  BY <1>6, ForwardAside DEF connectionVars, vars, dialVars, ForwardInv, ForwardTypeOK
<1> QED
  BY <1>1, <1>2, <1>3, <1>4, <1>5, <1>6 DEF ConnectionNext, ConnectionEnded, dialVars

\* The forwarding's part of the type, and its counts, hold in every reachable
\* state (server.go 274-290, 356-395).
THEOREM ConnectionForward == ConnectionSpec => []ForwardInv
<1>1. ASSUME ConnectionInit PROVE ForwardInv
  <2>1. /\ open = [e \in End |-> TRUE] /\ main = "dialing" /\ timer = "off" /\ done = 0
        /\ bytes = FALSE /\ early = FALSE /\ failures = 0 /\ successes = 0
        /\ sock = "none"
    BY <1>1 DEF ConnectionInit
  <2>2. ForwardTypeOK
    <3>1. open \in [End -> BOOLEAN]
      BY <2>1
    <3>2. done \in 0 .. DoneCapacity
      BY <2>1 DEF DoneCapacity
    <3> QED
      BY <2>1, <3>1, <3>2 DEF ForwardTypeOK
  <2>3. CountsOK
    BY <2>1 DEF CountsOK
  <2> QED
    BY <2>2, <2>3 DEF ForwardInv
<1> QED
  BY <1>1, ForwardNext, ConnectionInvariance, PTL DEF ConnectionSpec

LEMMA WireAlways == ConnectionSpec => []WireInv
BY WireInit, WireNext, ConnectionInvariance, PTL DEF ConnectionSpec

\* Every variable of a connection has its type; above all, a candidate is
\* charged at most once for a connection and credited at most twice
\* (server.go 274-290, 356-395).
THEOREM ConnectionTypeCorrect == ConnectionSpec => []ConnectionTypeOK
<1>1. ASSUME ConnectionInv, WireInv, ForwardInv PROVE ConnectionTypeOK
  <2>1. TypeOK
    BY <1>1 DEF TypeOK, ConnectionInv, ControlOK, ForwardInv, ForwardTypeOK, CountsOK
  <2>2. /\ protocol \in DOMAIN First
        /\ dial \in Writes \cup Reads \cup {"connect", "done", "failed"}
    BY <1>1 DEF ConnectionInv, ControlOK, First
  <2>3. sock \in {"none", "open", "closed"}
    BY <1>1 DEF ForwardInv, ForwardTypeOK
  <2>4. {limit, wrapped} \subseteq BOOLEAN
    BY <1>1 DEF WireInv, WireTypeOK
  <2>5. Word = {"good", "auth", "bad"} \cup ToSet(Data)
    BY DEF Word, ToSet
  <2>6. ASSUME NEW queue \in {script, sent, ahead, chunk, received}, NEW i \in DOMAIN queue
        PROVE  queue[i] \in Word
    BY <1>1 DEF WireInv, WireTypeOK
  <2> QED
    BY <2>1, <2>2, <2>3, <2>4, <2>5, <2>6 DEF ConnectionTypeOK
<1> QED
  BY <1>1, ConnectionInvariance, WireAlways, ConnectionForward, PTL

-----------------------------------------------------------------------------
(* A connection forwards as module Forward does. *)

\* What the upstream has sent can be read after it has closed, and what was read
\* ahead of it whatever becomes of the connection; module Forward, which keeps no
\* data, reads only from open ends (upstream.go 247-252).
TakesRest ==
    /\ Take("upstream")
    /\ Buffered \/ (sent # <<>> /\ ~Broken("upstream"))

\* A step of the tunnel that the wire allows is a step of Forward, but for these
\* reads.
LEMMA ForwardsIsNext ==
    ASSUME Forwards
    PROVE  Next \/ TakesRest
<1>1. "client" \in End /\ "upstream" \in End
  BY DEF End
<1> QED
  BY <1>1 DEF Forwards, ReadUpstream, WriteUpstream, CopyFails, Next, Copy, TakesRest

\* Once the dial has returned, each step of the connection is one of module
\* Forward, for its deadline is gone, or reads the rest of what the upstream sent;
\* and the dial that returns leaves what the forwarding begins with, but that an
\* end may have closed already (upstream.go 73, 204, 247-252; server.go 206-211,
\* 251-266).
HandsOver ==
    /\ dial = "done" => Next \/ TakesRest
    /\ dial # "done" /\ dial' = "done" =>
         /\ ~deadline'["upstream"] /\ sock' = "open" /\ failures' = 0 /\ successes' = 0
         /\ \/ /\ main' = "select" /\ timer' = "armed"
               /\ \A e \in End : copier'[e] = "reading"
            \/ main' = "request" /\ \A e \in End : copier'[e] = "gone"

LEMMA DialHandsOver ==
    ASSUME ConnectionInv, ForwardInv, ConnectionInv', Dial
    PROVE  HandsOver
<1>1. /\ dial # "done" /\ main = "dialing" /\ ~released
      /\ failures = 0 /\ successes = 0 /\ \A e \in End : copier[e] = "gone"
  <2>1. dial # "done"
    BY DEF Dial, Connect, WriteStep, ReadHTTP, ReadSOCKS, ReadBroken, Writes, Reads
  <2> QED
    BY <2>1 DEF ConnectionInv, PhasesApart, ForwardInv, CountsOK
<1>2. \/ dial' # "done"
      \/ Forwarding /\ UNCHANGED <<released, failures, successes>>
  <2>1. CASE Connect
    BY <2>1 DEF Connect, First, ConnectionInv, ControlOK
  <2>2. ASSUME NEW next, Advance(next)
        PROVE  <1>2!:
    BY <2>2 DEF Advance
  <2>3. ASSUME Fail PROVE <1>2!:
    BY <2>3 DEF Fail
  <2> QED
    BY <2>1, <2>2, <2>3 DEF Dial, WriteStep, ReadHTTP, ReadSOCKS, ReadBroken
<1>3. SUFFICES ASSUME dial' = "done"
               PROVE  /\ ~deadline'["upstream"] /\ sock' = "open"
                      /\ failures' = 0 /\ successes' = 0
                      /\ \/ /\ main' = "select" /\ timer' = "armed"
                            /\ \A e \in End : copier'[e] = "reading"
                         \/ main' = "request" /\ \A e \in End : copier'[e] = "gone"
  BY <1>1 DEF HandsOver
<1>4. Forwarding /\ ~released' /\ failures' = 0 /\ successes' = 0
  BY <1>1, <1>2, <1>3
<1>5. \/ /\ main' = "select" /\ timer' = "armed"
         /\ \A e \in End : copier'[e] = "reading"
      \/ main' = "request" /\ \A e \in End : copier'[e] = "gone"
  BY <1>1, <1>4 DEF Forwarding
<1>6. sock' = "open" /\ (deadline'["upstream"] => copier'["client"] \in {"signal", "gone"})
  BY <1>3, <1>4 DEF ConnectionInv, DialOwnsConnection
<1>7. ~deadline'["upstream"]
  <2>1. CASE Connect
    BY <2>1 DEF Connect, ConnectionInv, PhasesApart
  <2>2. ASSUME NEW next, Advance(next)
        PROVE  ~deadline'["upstream"]
    BY <1>3, <2>2 DEF Advance, ConnectionInv, ControlOK, End
  <2>3. ~Fail
    BY <1>3 DEF Fail
  <2> QED
    BY <2>1, <2>2, <2>3 DEF Dial, WriteStep, ReadHTTP, ReadSOCKS, ReadBroken
<1> QED
  BY <1>4, <1>5, <1>6, <1>7

LEMMA StepHandsOver ==
    ASSUME ConnectionInv, ForwardInv, ConnectionInv', [ConnectionNext]_connectionVars
    PROVE  [HandsOver]_vars
<1>1. SUFFICES ASSUME ~UNCHANGED vars PROVE HandsOver
  OBVIOUS
<1>2. CASE Dial
  BY <1>2, DialHandsOver
<1>3. CASE Expire
  <2>1. dial # "done" /\ dial' = dial
    BY <1>3 DEF Expire, dialVars, ConnectionInv, PhasesApart
  <2> QED
    BY <2>1 DEF HandsOver
<1>4. CASE Forwards
  <2>1. dial' = dial /\ (Next \/ TakesRest)
    BY <1>4, ForwardsIsNext DEF Forwards, ReadUpstream, WriteUpstream, dialVars
  <2> QED
    BY <2>1 DEF HandsOver
<1>5. ASSUME NEW e \in End, Leave(e) /\ UNCHANGED <<dialVars, wire>>
      PROVE  HandsOver
  BY <1>5 DEF HandsOver, Next, dialVars
<1> QED
  BY <1>1, <1>2, <1>3, <1>4, <1>5
  DEF ConnectionNext, ConnectionEnded, Send, connectionVars

\* What holds of every step of a tunnel or an exchange in module Forward holds of
\* every step of a connection after its dial, whatever the upstream has sent
\* before (server.go 206-211, 251-290, 356-395).
THEOREM ConnectionHandsOver == ConnectionSpec => [][HandsOver]_vars
<1>1. ConnectionInv /\ ForwardInv /\ ConnectionInv' /\ [ConnectionNext]_connectionVars
        => [HandsOver]_vars
  BY StepHandsOver
<1> QED
  BY <1>1, ConnectionInvariance, ConnectionForward, PTL DEF ConnectionSpec

-----------------------------------------------------------------------------
(* The signals of the copying goroutines. *)

InTunnel == main \in {"select", "judge", "second", "final"}

\* How many of the two goroutines have sent their signal.
Sent == (IF copier["client"] = "gone" THEN 1 ELSE 0)
          + (IF copier["upstream"] = "gone" THEN 1 ELSE 0)

\* How many signals tunnel has received: one if it saw the end of the first
\* goroutine before the window was over, and one more at the end.
Taken == (IF early THEN 1 ELSE 0) + (IF main = "final" THEN 1 ELSE 0)

\* Every signal is in the channel or has been received; and a goroutine that is
\* done with its copy has interrupted the other one, whatever tunnel is at.
SignalInv ==
    /\ main = "dialing" => done = 0
    /\ main \in {"dialing", "select"} => ~early
    /\ InTunnel => Sent = done + Taken
    /\ done <= Sent
    /\ \A e \in End : InTunnel /\ copier[e] \in {"signal", "gone"} => deadline[Peer(e)]

\* Nobody waits in vain in the tunnel: a goroutine never blocks on its signal, for
\* the channel has room, also when the first one is not received; tunnel waits
\* for a signal only while one is in the channel or a goroutine has yet to send
\* it; and none of the two blocks in a read once the other one is done.  This is
\* what TunnelEnds and NoCopierStays rest on (server.go 358-368, 373-384, 392).
NobodyWaitsInVain ==
    /\ \A e \in End : copier[e] = "signal" => done < DoneCapacity
    /\ main \in {"select", "second"} /\ done = 0 => \E e \in End : copier[e] # "gone"
    /\ \A e \in End : InTunnel /\ copier[e] \in {"signal", "gone"} => Broken(Peer(e))

LEMMA SignalAside ==
    ASSUME SignalInv, UNCHANGED <<main, copier, done, early, deadline>>
    PROVE  SignalInv'
BY DEF SignalInv, InTunnel, Sent, Taken

\* Until the dial has returned there is nothing to signal.
LEMMA DialKeepsSignals ==
    ASSUME ConnectionInv, SignalInv, ConnectionInv', ForwardInv, ForwardInv', Dial
    PROVE  SignalInv'
<1>1. /\ dial # "done" /\ main = "dialing" /\ ~early /\ done = 0
      /\ \A e \in End : copier[e] = "gone"
  <2>1. dial # "done"
    BY DEF Dial, Connect, WriteStep, ReadHTTP, ReadSOCKS, ReadBroken, Writes, Reads
  <2> QED
    BY <2>1 DEF ConnectionInv, PhasesApart, SignalInv
<1>2. /\ UNCHANGED <<done, early>>
      /\ \/ UNCHANGED <<main, copier>>
         \/ main' = "select" /\ copier' = [e \in End |-> "reading"]
         \/ main' = "request" /\ UNCHANGED copier
  <2>1. CASE Connect
    BY <2>1 DEF Connect, Forwarding
  <2>2. ASSUME NEW next, Advance(next)
        PROVE  <1>2!:
    BY <2>2 DEF Advance, Forwarding
  <2>3. ASSUME Fail PROVE <1>2!:
    BY <2>3 DEF Fail, vars
  <2> QED
    BY <2>1, <2>2, <2>3 DEF Dial, WriteStep, ReadHTTP, ReadSOCKS, ReadBroken
<1>3. CASE main' = "select" /\ copier' = [e \in End |-> "reading"]
  <2>1. \A e \in End : copier'[e] = "reading"
    BY <1>3
  <2>2. Sent' = 0
    BY <2>1 DEF Sent, End
  <2> QED
    BY <1>1, <1>2, <1>3, <2>1, <2>2 DEF SignalInv, Taken
<1>4. CASE UNCHANGED copier /\ main' \in {"dialing", "request"}
  <2>1. Sent' = 2
    BY <1>1, <1>4 DEF Sent, End
  <2> QED
    BY <1>1, <1>2, <1>4, <2>1 DEF SignalInv, InTunnel
<1> QED
  BY <1>1, <1>2, <1>3, <1>4

\* The goroutines that copy (server.go 359-368).
LEMMA CopiersKeepSignals ==
    ASSUME ConnectionInv, ForwardInv, SignalInv, NEW e \in End,
           Take(e) \/ ReadFails(e) \/ Write(e) \/ Interrupt(e) \/ Signal(e)
    PROVE  SignalInv'
<1>1. /\ copier \in [End -> {"reading", "writing", "ended", "signal", "gone"}]
      /\ deadline \in [End -> BOOLEAN] /\ End = {"client", "upstream"}
      /\ Peer(e) \in End /\ Peer(e) # e
  BY DEF ConnectionInv, ControlOK, End, Peer
<1>2. UNCHANGED <<main, early>>
  BY DEF Take, ReadFails, Write, Interrupt, Signal
<1>3. CASE Take(e) \/ ReadFails(e) \/ Write(e)
  <2>1. PICK state \in {"reading", "writing", "ended"} :
          copier' = [copier EXCEPT ![e] = state]
    BY <1>3 DEF Take, ReadFails, Write
  <2>2. copier[e] \in {"reading", "writing"} /\ UNCHANGED <<done, deadline>>
    BY <1>3 DEF Take, ReadFails, Write
  <2>3. Sent' = Sent
    BY <1>1, <2>1, <2>2 DEF Sent
  <2>4. \A f \in End : copier'[f] \in {"signal", "gone"} => copier[f] = copier'[f]
    BY <1>1, <2>1
  <2> QED
    BY <1>2, <2>2, <2>3, <2>4 DEF SignalInv, InTunnel, Taken
<1>4. CASE Interrupt(e)
  <2>1. /\ copier[e] = "ended" /\ copier' = [copier EXCEPT ![e] = "signal"]
        /\ deadline' = [deadline EXCEPT ![Peer(e)] = TRUE] /\ UNCHANGED done
    BY <1>4 DEF Interrupt
  <2>2. Sent' = Sent
    BY <1>1, <2>1 DEF Sent
  <2>3. \A f \in End : f # e => copier'[f] = copier[f]
    BY <1>1, <2>1
  <2>4. deadline'[Peer(e)] /\ \A f \in End : deadline[f] => deadline'[f]
    BY <1>1, <2>1
  <2>5. ASSUME NEW f \in End, InTunnel', copier'[f] \in {"signal", "gone"}
        PROVE  deadline'[Peer(f)]
    <3>1. CASE f = e
      BY <2>4, <3>1
    <3>2. CASE f # e
      <4>1. InTunnel /\ copier[f] \in {"signal", "gone"} /\ Peer(f) \in End
        BY <1>2, <2>3, <2>5, <3>2 DEF InTunnel, End, Peer
      <4> QED
        BY <2>4, <4>1 DEF SignalInv
    <3> QED
      BY <3>1, <3>2
  <2> QED
    BY <1>2, <2>1, <2>2, <2>5 DEF SignalInv, InTunnel, Taken
<1>5. CASE Signal(e)
  <2>1. /\ copier[e] = "signal" /\ copier' = [copier EXCEPT ![e] = "gone"]
        /\ done' = done + 1 /\ UNCHANGED deadline
    BY <1>5 DEF Signal
  <2>2. Sent' = Sent + 1 /\ copier'[e] = "gone"
    BY <1>1, <2>1 DEF Sent
  <2>3. \A f \in End : f # e => copier'[f] = copier[f]
    BY <1>1, <2>1
  <2>4. main # "dialing"
    BY <2>1 DEF ConnectionInv, PhasesApart
  <2>5. ASSUME NEW f \in End, InTunnel', copier'[f] \in {"signal", "gone"}
        PROVE  deadline'[Peer(f)]
    <3>1. InTunnel /\ copier[f] \in {"signal", "gone"}
      BY <1>2, <2>1, <2>3, <2>5 DEF InTunnel
    <3> QED
      BY <2>1, <3>1 DEF SignalInv
  <2>6. Sent \in 0 .. 2
    BY DEF Sent
  <2>7. done \in Nat
    BY DEF ForwardInv, ForwardTypeOK, DoneCapacity
  <2>8. (InTunnel => Sent' = done' + Taken') /\ done' <= Sent'
    BY <1>2, <2>1, <2>2, <2>6, <2>7 DEF SignalInv, InTunnel, Taken
  <2> QED
    BY <1>2, <2>4, <2>5, <2>8 DEF SignalInv, InTunnel
<1> QED
  BY <1>3, <1>4, <1>5

\* tunnel takes at most one signal for the first goroutine and one for the second
\* (server.go 373-392).
LEMMA HandlerKeepsSignals ==
    ASSUME SignalInv, ForwardInv, Tunnel \/ HTTP
    PROVE  SignalInv'
<1>1. UNCHANGED <<copier, deadline>> /\ Sent' = Sent
  BY DEF Tunnel, FirstDone, WindowOver, Judge, SecondDone, Final, HTTP, HTTPSucceeds,
         HTTPFails, Sent
<1>2. done \in Nat /\ Sent \in Nat
  BY DEF ForwardInv, ForwardTypeOK, DoneCapacity, Sent
<1>3. CASE FirstDone
  BY <1>1, <1>2, <1>3 DEF FirstDone, SignalInv, InTunnel, Taken
<1>4. CASE WindowOver \/ Judge
  BY <1>1, <1>4 DEF WindowOver, Judge, SignalInv, InTunnel, Taken
<1>5. CASE SecondDone
  BY <1>1, <1>2, <1>5 DEF SecondDone, SignalInv, InTunnel, Taken
<1>6. CASE Final
  BY <1>1, <1>6 DEF Final, SignalInv, InTunnel
<1>7. CASE HTTP
  BY <1>1, <1>7 DEF HTTP, HTTPSucceeds, HTTPFails, SignalInv, InTunnel
<1> QED
  BY <1>3, <1>4, <1>5, <1>6, <1>7 DEF Tunnel

LEMMA SignalNext ==
    ASSUME ConnectionInv, ConnectionInv', ForwardInv, ForwardInv', SignalInv,
           [ConnectionNext]_connectionVars
    PROVE  SignalInv'
<1>1. CASE Dial
  BY <1>1, DialKeepsSignals
<1>2. CASE Expire
  <2>1. main = "dialing" /\ UNCHANGED <<main, done, early, copier>>
    BY <1>2 DEF Expire, ConnectionInv, PhasesApart
  <2>2. Sent' = Sent
    BY <2>1 DEF Sent
  <2> QED
    BY <2>1, <2>2 DEF SignalInv, InTunnel
<1>3. CASE Forwards
  <2>1. "upstream" \in End /\ "client" \in End
    BY DEF End
  <2>2. CASE FireTimer
    BY <2>2, SignalAside DEF FireTimer
  <2> QED
    BY <1>3, <2>1, <2>2, CopiersKeepSignals, HandlerKeepsSignals
       DEF Forwards, ReadUpstream, WriteUpstream, Read, CopyFails
<1>4. ASSUME NEW e \in End, Leave(e) PROVE SignalInv'
  BY <1>4, SignalAside DEF Leave
<1>5. CASE Send \/ UNCHANGED connectionVars
  BY <1>5, SignalAside DEF Send, connectionVars, vars
<1> QED
  BY <1>1, <1>2, <1>3, <1>4, <1>5 DEF ConnectionNext, ConnectionEnded

LEMMA SignalInit == ConnectionInit => SignalInv
<1> SUFFICES ASSUME ConnectionInit PROVE SignalInv
  OBVIOUS
<1>1. main = "dialing" /\ done = 0 /\ early = FALSE /\ \A e \in End : copier[e] = "gone"
  BY DEF ConnectionInit
<1>2. Sent = 2
  BY <1>1 DEF Sent, End
<1> QED
  BY <1>1, <1>2 DEF SignalInv, InTunnel

\* No deadlock between tunnel and its goroutines: every wait in it can end
\* (server.go 356-395).
THEOREM ConnectionSignals == ConnectionSpec => []NobodyWaitsInVain
<1>1. ASSUME ConnectionInv, ForwardInv, SignalInv
      PROVE  NobodyWaitsInVain
  <2>1. ASSUME NEW e \in End, copier[e] = "signal"
        PROVE  done < DoneCapacity
    BY <1>1, <2>1 DEF SignalInv, Sent, End, DoneCapacity, ForwardInv, ForwardTypeOK
  <2>2. ASSUME main \in {"select", "second"}, done = 0, \A e \in End : copier[e] = "gone"
        PROVE  FALSE
    BY <1>1, <2>2 DEF SignalInv, InTunnel, Taken, Sent, End
  <2> QED
    BY <1>1, <2>1, <2>2 DEF NobodyWaitsInVain, SignalInv, Broken
<1> QED
  BY <1>1, SignalInit, SignalNext, ConnectionInvariance, ConnectionForward, PTL
  DEF ConnectionSpec

=============================================================================
