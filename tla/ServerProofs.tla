---------------------------- MODULE ServerProofs ----------------------------
(***************************************************************************)
(* Proofs about modules Listener and Server: the listener for any set of   *)
(* connections, and the start of the server for any configuration file.    *)
(***************************************************************************)
EXTENDS Server, SequenceTheorems, TLAPS
LOCAL INSTANCE SequencesExt

\* Where a connection is with respect to the accept loop: a handler works only
\* on a connection that is tracked and counted.
StagesAgree ==
    \A c \in Conn :
        /\ stage[c] \in Working => c \in conns /\ c \in wg
        /\ c \in wg => stage[c] \in Working \cup {"untrack", "done"}
        /\ c \in ours => stage[c] \in Working \cup {"accepted"}
        /\ c \in backlog => stage[c] = "new"
        /\ c \in due => stage[c] \notin {"new", "accepted"}

\* The connection the accept loop holds.
LoopHolds ==
    /\ loop \in {"track", "count"} => stage[accepted] = "accepted"
    /\ loop = "count" => accepted \in conns

\* From the moment Wait may return, what it waited for is closed.
DueClosed ==
    main \in {"final", "waited"} \/ waiter \in {"woken", "over"} => due \cap ours = {}

\* The inductive invariant.  WaitLeavesNoneOpen alone is not one: that Wait may
\* return says nothing about a handler between its first step and its last.
ListenerInv == ListenerTypeOK /\ StagesAgree /\ LoopHolds /\ DueClosed

-----------------------------------------------------------------------------
(* The handlers. *)

\* A handler that works on its connection keeps the invariant, whatever it does
\* next (server.go 128-292).
LEMMA WorkKeepsInv ==
    ASSUME ListenerInv, NEW c \in Conn, stage[c] \in Working,
           NEW there \in Working, Goto(c, there), limit' \subseteq Conn
    PROVE  ListenerInv'
<1> USE DEF Goto, lifecycle, accepting, waiting
<1>1. /\ stage' \in [Conn -> Working \cup {"new", "accepted", "untrack", "done", "gone"}]
      /\ \A d \in Conn : stage'[d] = stage[d] \/ (stage[d] \in Working /\ stage'[d] \in Working)
  BY DEF ListenerInv, ListenerTypeOK
<1>2. ListenerTypeOK'
  BY <1>1 DEF ListenerInv, ListenerTypeOK
<1>3. StagesAgree'
  BY <1>1 DEF ListenerInv, StagesAgree, Working, Reading, Handshake
<1>4. LoopHolds'
  <2>1. loop \in {"track", "count"} => accepted # c /\ accepted \in Conn
    BY DEF ListenerInv, ListenerTypeOK, LoopHolds, Working, Reading, Handshake
  <2> QED
    BY <2>1 DEF ListenerInv, ListenerTypeOK, LoopHolds
<1>5. DueClosed'
  BY DEF ListenerInv, DueClosed
<1> QED
  BY <1>2, <1>3, <1>4, <1>5 DEF ListenerInv

\* Every step of a handler up to the closing of its connection is such work.
LEMMA HandlerWorks ==
    ASSUME ListenerInv, NEW c \in Conn,
           \/ Start(c) \/ Peek(c) \/ Greeting(c) \/ Login(c) \/ Command(c) \/ Request(c)
           \/ ReadFails(c) \/ Dialled(c) \/ TunnelEnds(c) \/ Answered(c)
    PROVE  ListenerInv'
<1>1. limit \subseteq Conn
  BY DEF ListenerInv, ListenerTypeOK
<1>2. /\ stage[c] \in Working /\ limit' \subseteq Conn
      /\ \E there \in Working : Goto(c, there)
  BY <1>1 DEF Start, Peek, Greeting, Login, Command, Request, ReadFails, Dialled,
              TunnelEnds, Answered, Working, Reading, Handshake
<1> QED
  BY <1>2, WorkKeepsInv

\* The deferred calls take a connection out of every set in the right order
\* (server.go 120-124, 129).
LEMMA LeavingKeepsInv ==
    ASSUME ListenerInv, NEW c \in Conn, CloseConn(c) \/ Untrack(c) \/ Done(c)
    PROVE  ListenerInv'
<1> USE DEF lifecycle, accepting, waiting
<1>1. ASSUME NEW from, NEW to, stage[c] = from, stage' = [stage EXCEPT ![c] = to],
             from \in {"leave", "untrack", "done"}, UNCHANGED accepting,
             to \in {"untrack", "done", "gone"}, conns' \in {conns, conns \ {c}}
      PROVE  /\ LoopHolds'
             /\ stage' \in [Conn -> Working \cup {"new", "accepted", "untrack", "done", "gone"}]
  <2>1. loop \in {"track", "count"} => accepted # c /\ accepted \in Conn
    BY <1>1 DEF ListenerInv, ListenerTypeOK, LoopHolds, Working, Reading, Handshake
  <2> QED
    BY <1>1, <2>1 DEF ListenerInv, ListenerTypeOK, LoopHolds
<1>2. CASE CloseConn(c)
  <2> USE <1>2 DEF CloseConn
  <2>1. LoopHolds' /\ ListenerTypeOK'
    BY <1>1 DEF ListenerInv, ListenerTypeOK
  <2>2. StagesAgree'
    BY DEF ListenerInv, ListenerTypeOK, StagesAgree, Working, Reading, Handshake
  <2>3. DueClosed'
    BY DEF ListenerInv, DueClosed
  <2> QED
    BY <2>1, <2>2, <2>3 DEF ListenerInv
<1>3. CASE Untrack(c)
  <2> USE <1>3 DEF Untrack
  <2>1. LoopHolds' /\ ListenerTypeOK'
    BY <1>1 DEF ListenerInv, ListenerTypeOK
  <2>2. StagesAgree'
    BY DEF ListenerInv, ListenerTypeOK, StagesAgree, Working, Reading, Handshake
  <2>3. DueClosed'
    BY DEF ListenerInv, DueClosed
  <2> QED
    BY <2>1, <2>2, <2>3 DEF ListenerInv
<1>4. CASE Done(c)
  <2> USE <1>4 DEF Done
  <2>1. LoopHolds' /\ ListenerTypeOK'
    BY <1>1 DEF ListenerInv, ListenerTypeOK
  <2>2. StagesAgree'
    BY DEF ListenerInv, ListenerTypeOK, StagesAgree, Working, Reading, Handshake
  <2>3. DueClosed'
    \* What Wait waited for has left the group before, or is c; neither is open.
    <3>1. c \notin ours
      BY DEF ListenerInv, StagesAgree, Working, Reading, Handshake
    <3>2. \A d \in due \cap ours : d \in wg
      BY DEF ListenerInv, ListenerTypeOK, StagesAgree
    <3> QED
      BY <3>1, <3>2 DEF ListenerInv, DueClosed
  <2> QED
    BY <2>1, <2>2, <2>3 DEF ListenerInv
<1> QED
  BY <1>2, <1>3, <1>4

-----------------------------------------------------------------------------
(* The clients, the accept loop and the shutdown. *)

\* What the clients do touches no part of the invariant but the backlog.
LEMMA ClientKeepsInv ==
    ASSUME ListenerInv, NEW c \in Conn, Connect(c) \/ Hangup(c)
    PROVE  ListenerInv'
<1> USE DEF ListenerInv, Connect, Hangup, lifecycle, accepting, waiting
<1>1. ListenerTypeOK'
  BY DEF ListenerTypeOK
<1>2. StagesAgree'
  BY DEF StagesAgree
<1>3. LoopHolds' /\ DueClosed'
  BY DEF LoopHolds, DueClosed
<1> QED
  BY <1>1, <1>2, <1>3

\* A connection is tracked before it is counted, and counted before its handler
\* runs (server.go 108-126).
LEMMA AcceptLoopKeepsInv ==
    ASSUME ListenerInv, AcceptLoop
    PROVE  ListenerInv'
<1> USE DEF lifecycle, accepting, waiting
<1>1. ASSUME NEW c \in Conn, Accept(c)
      PROVE  ListenerInv'
  <2> USE <1>1 DEF Accept
  <2>1. stage[c] = "new" /\ c \notin due /\ c \notin wg
    BY DEF ListenerInv, StagesAgree, Working, Reading, Handshake
  <2>2. ListenerTypeOK'
    BY DEF ListenerInv, ListenerTypeOK
  <2>3. StagesAgree'
    BY <2>1 DEF ListenerInv, ListenerTypeOK, StagesAgree, Working, Reading, Handshake
  <2>4. LoopHolds' /\ DueClosed'
    BY <2>1 DEF ListenerInv, ListenerTypeOK, LoopHolds, DueClosed
  <2> QED
    BY <2>2, <2>3, <2>4 DEF ListenerInv
<1>2. CASE Track
  <2> USE <1>2 DEF Track
  <2>1. ListenerTypeOK' /\ LoopHolds' /\ DueClosed'
    BY DEF ListenerInv, ListenerTypeOK, LoopHolds, DueClosed
  <2>2. StagesAgree'
    BY DEF ListenerInv, StagesAgree
  <2> QED
    BY <2>1, <2>2 DEF ListenerInv
<1>3. CASE Count
  <2> USE <1>3 DEF Count
  <2>1. accepted \in Conn /\ accepted \in conns /\ stage[accepted] = "accepted"
    BY DEF ListenerInv, ListenerTypeOK, LoopHolds
  <2>2. ListenerTypeOK' /\ LoopHolds' /\ DueClosed'
    BY <2>1 DEF ListenerInv, ListenerTypeOK, LoopHolds, DueClosed, Working
  <2>3. StagesAgree'
    BY <2>1 DEF ListenerInv, ListenerTypeOK, StagesAgree, Working, Reading, Handshake
  <2> QED
    BY <2>2, <2>3 DEF ListenerInv
<1>4. CASE LoopEnds
  BY <1>4 DEF LoopEnds, ListenerInv, ListenerTypeOK, StagesAgree, LoopHolds, DueClosed
<1> QED
  BY <1>1, <1>2, <1>3, <1>4 DEF AcceptLoop

\* Closing what is tracked closes what Wait waits for (server.go 63-71, 85-106;
\* app.go 152-158).
LEMMA ShutdownKeepsInv ==
    ASSUME ListenerInv, MainStep \/ Waiter \/ (\E x \in Closers : Close(x))
    PROVE  ListenerInv'
<1> USE DEF lifecycle, accepting, waiting
<1>1. CASE Signal
  BY <1>1 DEF Signal, ListenerInv, ListenerTypeOK, StagesAgree, LoopHolds, DueClosed
<1>2. CASE BeginWait
  <2> USE <1>2 DEF BeginWait
  <2>1. ListenerTypeOK' /\ LoopHolds' /\ DueClosed'
    BY DEF ListenerInv, ListenerTypeOK, LoopHolds, DueClosed
  <2>2. StagesAgree'
    BY DEF ListenerInv, StagesAgree, Working, Reading, Handshake
  <2> QED
    BY <2>1, <2>2 DEF ListenerInv
<1>3. CASE ForceCloseActive
  <2> USE <1>3 DEF ForceCloseActive
  <2>1. due \cap ours \subseteq conns
    BY DEF ListenerInv, ListenerTypeOK, StagesAgree
  <2>2. ListenerTypeOK' /\ LoopHolds' /\ DueClosed'
    BY <2>1 DEF ListenerInv, ListenerTypeOK, LoopHolds, DueClosed
  <2>3. StagesAgree'
    BY DEF ListenerInv, StagesAgree
  <2> QED
    BY <2>2, <2>3 DEF ListenerInv
<1>4. CASE WaitReturns
  BY <1>4 DEF WaitReturns, ListenerInv, ListenerTypeOK, StagesAgree, LoopHolds, DueClosed
<1>5. CASE Waiter
  <2> USE <1>5 DEF Waiter
  <2>1. wg = {} => due \cap ours = {}
    BY DEF ListenerInv, ListenerTypeOK, StagesAgree
  <2>2. ListenerTypeOK' /\ LoopHolds' /\ DueClosed'
    BY <2>1 DEF ListenerInv, ListenerTypeOK, LoopHolds, DueClosed
  <2>3. StagesAgree'
    BY DEF ListenerInv, StagesAgree
  <2> QED
    BY <2>2, <2>3 DEF ListenerInv
<1>6. ASSUME NEW x \in Closers, Close(x)
      PROVE  ListenerInv'
  <2>1. /\ closer' \in [Closers -> {"idle", "stored", "closed"}]
        /\ shutting' \in BOOLEAN /\ ready' \in BOOLEAN /\ cancelled' = cancelled
        /\ backlog' \subseteq backlog
        /\ UNCHANGED <<accepting, stage, limit, ours, theirs, conns, wg, waiting>>
    <3>1. CASE CloseStores(x)
      BY <3>1 DEF CloseStores, ListenerInv, ListenerTypeOK
    <3>2. CASE CloseListener(x)
      BY <3>2 DEF CloseListener, ListenerInv, ListenerTypeOK
    <3> QED
      BY <1>6, <3>1, <3>2 DEF Close
  <2>2. ListenerTypeOK'
    BY <2>1 DEF ListenerInv, ListenerTypeOK
  <2>3. StagesAgree' /\ LoopHolds' /\ DueClosed'
    BY <2>1 DEF ListenerInv, StagesAgree, LoopHolds, DueClosed
  <2> QED
    BY <2>2, <2>3 DEF ListenerInv
<1> QED
  BY <1>1, <1>2, <1>3, <1>4, <1>5, <1>6 DEF MainStep

-----------------------------------------------------------------------------
(* The theorems. *)

\* The inductive invariant holds in every reachable state of the listener,
\* whatever clients, handlers and the shutdown do (server.go 43-292).
THEOREM ListenerInvariance == Spec => []ListenerInv
<1>1. Init => ListenerInv
  BY DEF Init, ListenerInv, ListenerTypeOK, StagesAgree, LoopHolds, DueClosed, Working,
         Reading, Handshake
<1>2. ListenerInv /\ [Next]_vars => ListenerInv'
  <2> SUFFICES ASSUME ListenerInv, [Next]_vars
               PROVE  ListenerInv'
    OBVIOUS
  <2>1. CASE UNCHANGED vars
    BY <2>1 DEF vars, lifecycle, accepting, waiting, ListenerInv, ListenerTypeOK,
                StagesAgree, LoopHolds, DueClosed
  <2>2. ASSUME NEW c \in Conn, Connect(c) \/ Hangup(c) \/ Handler(c)
        PROVE  ListenerInv'
    BY <2>2, ClientKeepsInv, HandlerWorks, LeavingKeepsInv DEF Handler
  <2>3. CASE AcceptLoop
    BY <2>3, AcceptLoopKeepsInv
  <2>4. CASE MainStep \/ Waiter \/ (\E x \in Closers : Close(x))
    BY <2>4, ShutdownKeepsInv
  <2> QED
    BY <2>1, <2>2, <2>3, <2>4 DEF Next, Terminated
<1> QED
  BY <1>1, <1>2, PTL DEF Spec

\* Type correctness of the listener (server.go 25-37).
THEOREM ListenerTypeCorrect == Spec => []ListenerTypeOK
<1>1. ListenerInv => ListenerTypeOK
  BY DEF ListenerInv
<1> QED
  BY <1>1, ListenerInvariance, PTL

\* For any number of connections: what was counted when Wait began is closed
\* when it returns (server.go 85-105, 118-124).
THEOREM ListenerWaitCloses == Spec => []WaitLeavesNoneOpen
<1>1. ListenerInv => WaitLeavesNoneOpen
  BY DEF ListenerInv, DueClosed, WaitLeavesNoneOpen
<1> QED
  BY <1>1, ListenerInvariance, PTL

-----------------------------------------------------------------------------
(* The configuration. *)

\* The sections of a plugin have no default of their own, and the URL that is
\* filled in is not empty (config.go 274-280, 339-374).
LEMMA Fixpoints ==
    /\ \A s \in Flag : s \in Setting /\ s # "url" /\ Zero[s] = FALSE /\ Default[s] = FALSE
    /\ "url" \in Setting /\ Zero["url"] = ""
    /\ \A strategy : DefaultURL(strategy) # ""
    /\ \A s : Section(s) = "any" \/ Section(s) \in Flag
BY DEF Flag, Setting, Zero, Default, DefaultURL, Section

\* A second ApplyDefaults, which Check makes, changes nothing (config.go 258-376
\* and 378-380).
LEMMA DefaultsOnce ==
    ASSUME NEW c, IsConfiguration(c)
    PROVE  ApplyDefaults(ApplyDefaults(c)) = ApplyDefaults(c)
<1> DEFINE d == ApplyDefaults(c)
<1>1. \A s \in Setting :
        d[s] = IF s = "url" /\ c[s] = "" THEN DefaultURL(c.strategy)
               ELSE IF c[s] = Zero[s] /\ (Section(s) = "any" \/ c[Section(s)])
                      THEN Default[s]
               ELSE c[s]
  BY DEF ApplyDefaults
<1>2. d = [s \in Setting |-> d[s]]
  BY DEF ApplyDefaults
<1> HIDE DEF d
<1>3. \A s \in Flag : d[s] = c[s]
  BY <1>1, Fixpoints DEF IsConfiguration
<1>4. ASSUME NEW s \in Setting
      PROVE  ApplyDefaults(d)[s] = d[s]
  <2>1. ApplyDefaults(d)[s] =
          IF s = "url" /\ d[s] = "" THEN DefaultURL(d.strategy)
          ELSE IF d[s] = Zero[s] /\ (Section(s) = "any" \/ d[Section(s)]) THEN Default[s]
          ELSE d[s]
    BY DEF ApplyDefaults
  <2>2. CASE s = "url"
    BY <2>1, <2>2, <1>1, Fixpoints
  <2>3. CASE s # "url"
    <3>1. Section(s) = "any" \/ d[Section(s)] = c[Section(s)]
      BY <1>3, Fixpoints
    <3> QED
      BY <2>1, <2>3, <3>1, <1>1
  <2> QED
    BY <2>2, <2>3
<1>5. ApplyDefaults(d) = [s \in Setting |-> ApplyDefaults(d)[s]]
  BY DEF ApplyDefaults
<1> QED
  BY <1>2, <1>4, <1>5 DEF d

\* The defaults have the types of the settings (config.go 258-376).
LEMMA DefaultsTyped ==
    ASSUME NEW c, IsConfiguration(c)
    PROVE  IsConfiguration(ApplyDefaults(c))
<1> DEFINE d == ApplyDefaults(c)
<1>1. \A s \in Setting : s # "url" => d[s] \in {c[s], Default[s]}
  BY DEF ApplyDefaults
<1>2. d = [s \in Setting |-> d[s]]
  BY DEF ApplyDefaults
<1> HIDE DEF d
<1>3. /\ \A s \in Number : s \in Setting /\ s # "url" /\ Default[s] \in Int
      /\ \A s \in Flag : s \in Setting /\ s # "url" /\ Default[s] \in BOOLEAN
      /\ "sources" \in Setting
      /\ Default.sources \in Seq([type : STRING, named : BOOLEAN, url : BOOLEAN,
                                  path : BOOLEAN])
  BY DEF Number, Flag, Setting, Default, Zero
<1>4. "username" \in Setting /\ Default.username \in Seq(ToSet(Default.username))
  <2>1. "username" \in Setting /\ Default.username = <<"aio">>
    BY DEF Setting, Default, Zero
  <2>2. <<"aio">> \in Seq(ToSet(<<"aio">>))
    BY DEF ToSet
  <2> QED
    BY <2>1, <2>2
<1> QED
  BY <1>1, <1>2, <1>3, <1>4 DEF IsConfiguration, d

-----------------------------------------------------------------------------
(* The parts of a user name. *)

LEMMA Associative ==
    ASSUME NEW T
    PROVE  \A s, t, u \in Seq(T) : (s \o t) \o u = s \o (t \o u)
BY ConcatAssociative, SMTT(30)

\* What a slice of a text is, token by token.
LEMMA Slice ==
    ASSUME NEW T, NEW text \in Seq(T), NEW m \in Nat \ {0}, NEW n \in 0 .. Len(text),
           NEW part \in Seq(T), n = m - 1 + Len(part),
           \A i \in 1 .. Len(part) : part[i] = text[m - 1 + i]
    PROVE  SubSeq(text, m, n) = part
<1>1. Len(text) \in Nat /\ Len(part) \in Nat /\ n \in Int /\ m \in Int
  OBVIOUS
<1>2. \A i \in m .. n : text[i] \in T
  BY <1>1
<1>3. PICK s : s = SubSeq(text, m, n)
  OBVIOUS
<1>4. /\ s \in Seq(T) /\ Len(s) = (IF m <= n THEN n - m + 1 ELSE 0)
      /\ \A i \in 1 .. n - m + 1 : s[i] = text[m + i - 1]
  BY <1>1, <1>2, <1>3, SubSeqProperties
<1>5. Len(s) = Len(part)
  BY <1>1, <1>4
<1>6. ASSUME NEW i \in 1 .. Len(part)
      PROVE  s[i] = part[i]
  <2>1. i \in 1 .. n - m + 1 /\ m + i - 1 = m - 1 + i
    BY <1>1
  <2> QED
    BY <1>4, <2>1
<1> QED
  BY <1>3, <1>4, <1>5, <1>6, SeqEqual

\* A part ends at the only place where it may.
LEMMA PartEnds ==
    ASSUME NEW T, NEW text \in Seq(T), NEW i \in {0} \cup Cuts(text, "~"),
           NEW j, Stops(text, "~", i, j)
    PROVE  /\ j \in 1 .. Len(text) + 1
           /\ Split(text, "~")[i] = SubSeq(text, i + 1, j - 1)
<1>1. j \in 1 .. Len(text) + 1
  BY DEF Stops, Cuts
<1>2. \A k \in 1 .. Len(text) + 1 : Stops(text, "~", i, k) => k = j
  BY <1>1 DEF Stops, Cuts
<1>3. (CHOOSE k \in 1 .. Len(text) + 1 : Stops(text, "~", i, k)) = j
  BY <1>1, <1>2
<1> QED
  BY <1>1, <1>3 DEF Split

\* Every part of a text has an end.
HasEnds(text) == \A i \in {0} \cup Cuts(text, "~") : \E j : Stops(text, "~", i, j)

\* text is head, a separator and part.
Joins(T, text, head, part) ==
    LET n == Len(head)
    IN  /\ text \in Seq(T) /\ Len(text) = n + 1 + Len(part)
        /\ \A i \in 1 .. n : text[i] = head[i]
        /\ text[n + 1] = "~"
        /\ \A i \in n + 2 .. Len(text) : text[i] = part[i - (n + 1)]

\* Joining a part to a text makes such a text.
LEMMA Joining ==
    ASSUME NEW T, "~" \in T, NEW head \in Seq(T), NEW part \in Seq(T)
    PROVE  Joins(T, head \o <<"~">> \o part, head, part)
<1>1. PICK h : h = head \o <<"~">>
  OBVIOUS
<1>2. PICK n : n = Len(head)
  OBVIOUS
<1>3. h \in Seq(T) /\ Len(h) = n + 1 /\ h[n + 1] = "~" /\ \A i \in 1 .. n : h[i] = head[i]
  BY <1>1, <1>2
<1>4. n \in Nat /\ Len(part) \in Nat
  BY <1>2
<1>5. PICK text : text = h \o part
  OBVIOUS
<1>6. /\ text \in Seq(T) /\ Len(text) = n + 1 + Len(part)
      /\ \A i \in 1 .. n + 1 + Len(part) :
            text[i] = IF i <= n + 1 THEN h[i] ELSE part[i - (n + 1)]
  BY <1>3, <1>5, ConcatProperties
<1>7. /\ \A i \in 1 .. n : text[i] = head[i]
      /\ text[n + 1] = "~"
      /\ \A i \in n + 2 .. Len(text) : text[i] = part[i - (n + 1)]
  BY <1>3, <1>4, <1>6
<1> QED
  BY <1>1, <1>2, <1>5, <1>6, <1>7 DEF Joins

\* A part appended to a user name leaves those before it as they are.
LEMMA PartAppended ==
    ASSUME NEW T, "~" \in T, NEW head \in Seq(T), NEW part \in Seq(T \ {"~"}),
           HasEnds(head), NEW text, Joins(T, text, head, part)
    PROVE  /\ Cuts(text, "~") = Cuts(head, "~") \cup {Len(head) + 1}
           /\ HasEnds(text)
           /\ \A i \in {0} \cup Cuts(head, "~") : Split(text, "~")[i] = Split(head, "~")[i]
           /\ Split(text, "~")[Len(head) + 1] = part
<1>0. ASSUME NEW i \in {0} \cup Cuts(text, "~"), NEW j, Stops(text, "~", i, j)
      PROVE  Split(text, "~")[i] = SubSeq(text, i + 1, j - 1)
  <2>1. text \in Seq(T)
    BY DEF Joins
  <2> QED
    BY <1>0, <2>1, PartEnds
<1> DEFINE n == Len(head)
<1>1. /\ n \in Nat /\ Len(part) \in Nat /\ part \in Seq(T)
      /\ \A i \in 1 .. Len(part) : part[i] # "~"
  OBVIOUS
<1>2. /\ text \in Seq(T) /\ Len(text) = n + 1 + Len(part)
      /\ \A i \in 1 .. n : text[i] = head[i]
      /\ text[n + 1] = "~"
      /\ \A i \in n + 2 .. Len(text) : text[i] = part[i - (n + 1)]
  BY DEF Joins
<1>3. Cuts(text, "~") = Cuts(head, "~") \cup {n + 1}
  <2>1. \A i \in n + 2 .. Len(text) : text[i] # "~"
    BY <1>1, <1>2
  <2> HIDE DEF n
  <2> QED
    BY <1>1, <1>2, <2>1 DEF Cuts, n
<1>4. ASSUME NEW i \in {0} \cup Cuts(head, "~")
      PROVE  /\ \E j : Stops(text, "~", i, j)
             /\ Split(text, "~")[i] = Split(head, "~")[i]
  <2>1. PICK j : Stops(head, "~", i, j)
    BY DEF HasEnds
  <2>2. j \in 1 .. n + 1 /\ i \in 0 .. n /\ i < j
    BY <1>1, <2>1 DEF Stops, Cuts
  <2>3. Stops(text, "~", i, j)
    <3>1. j \in Cuts(text, "~")
      BY <1>3, <2>1 DEF Stops
    <3> QED
      BY <1>1, <1>3, <2>1, <2>2, <3>1 DEF Stops
  <2>4. SubSeq(text, i + 1, j - 1) = SubSeq(head, i + 1, j - 1)
    <3>1. \A k \in i + 1 .. j - 1 : text[k] = head[k] /\ head[k] \in T
      <4>1. \A k \in i + 1 .. j - 1 : k \in 1 .. n
        BY <1>1, <2>2
      <4>2. \A k \in 1 .. n : head[k] \in T
        OBVIOUS
      <4> QED
        BY <1>2, <4>1, <4>2
    <3> DEFINE a == SubSeq(text, i + 1, j - 1)
               b == SubSeq(head, i + 1, j - 1)
               m == (j - 1) - (i + 1) + 1
    <3>2. /\ a \in Seq(T) /\ Len(a) = IF i + 1 <= j - 1 THEN m ELSE 0
          /\ \A k \in 1 .. m : a[k] = text[i + 1 + k - 1]
      BY <2>2, <3>1, SubSeqProperties
    <3>3. /\ b \in Seq(T) /\ Len(b) = IF i + 1 <= j - 1 THEN m ELSE 0
          /\ \A k \in 1 .. m : b[k] = head[i + 1 + k - 1]
      BY <2>2, <3>1, SubSeqProperties
    <3> HIDE DEF a, b
    <3>4. \A k \in 1 .. Len(a) : a[k] = b[k]
      <4>1. \A k \in 1 .. Len(a) : k \in 1 .. m /\ i + 1 + k - 1 \in i + 1 .. j - 1
        BY <2>2, <3>2
      <4> QED
        BY <3>1, <3>2, <3>3, <4>1
    <3>5. a = b
      BY <3>2, <3>3, <3>4, SeqEqual
    <3> QED
      BY <3>5 DEF a, b
  <2>5. Split(head, "~")[i] = SubSeq(head, i + 1, j - 1)
    BY <2>1, PartEnds
  <2>6. Split(text, "~")[i] = SubSeq(text, i + 1, j - 1)
    <3>1. i \in {0} \cup Cuts(text, "~")
      BY <1>3
    <3> QED
      BY <1>0, <2>3, <3>1
  <2> QED
    BY <2>3, <2>4, <2>5, <2>6
<1>5. /\ Stops(text, "~", n + 1, Len(text) + 1)
      /\ Split(text, "~")[n + 1] = part
  <2>1. Stops(text, "~", n + 1, Len(text) + 1)
    <3>1. n + 1 < Len(text) + 1 /\ n + 1 \in Nat
      BY <1>1, <1>2
    <3>2. \A k \in Cuts(head, "~") \cup {n + 1} : k <= n + 1 /\ k \in Nat
      BY <1>1 DEF Cuts
    <3>3. \A k \in Cuts(text, "~") : ~(n + 1 < k /\ k < Len(text) + 1)
      BY <1>3, <3>1, <3>2
    <3> QED
      BY <3>1, <3>3 DEF Stops
  <2> DEFINE a == SubSeq(text, n + 2, Len(text))
  <2>2. Split(text, "~")[n + 1] = a
    <3>1. PICK i, j : i = n + 1 /\ j = Len(text) + 1
      OBVIOUS
    <3>2. i \in {0} \cup Cuts(text, "~") /\ Stops(text, "~", i, j)
      BY <1>3, <2>1, <3>1
    <3>3. Split(text, "~")[i] = SubSeq(text, i + 1, j - 1)
      BY <1>0, <3>2
    <3>4. i + 1 = n + 2 /\ j - 1 = Len(text)
      BY <1>1, <1>2, <3>1
    <3> QED
      BY <3>1, <3>3, <3>4
  <2>3. a = part
    <3> HIDE DEF n
    <3>1. PICK m : m = n + 2
      OBVIOUS
    <3>2. m \in Nat \ {0} /\ m - 1 = n + 1 /\ Len(text) \in Nat /\ Len(text) = m - 1 + Len(part)
      BY <1>1, <1>2, <3>1
    <3>3. \A i \in 1 .. Len(part) : part[i] = text[m - 1 + i]
      <4> SUFFICES ASSUME NEW i \in 1 .. Len(part) PROVE part[i] = text[m - 1 + i]
        OBVIOUS
      <4>1. PICK k : k = m - 1 + i
        OBVIOUS
      <4>2. k \in n + 2 .. Len(text) /\ k - (n + 1) = i
        BY <1>1, <3>1, <3>2, <4>1
      <4> QED
        BY <1>2, <4>1, <4>2
    <3>4. SubSeq(text, m, Len(text)) = part
      BY <1>1, <1>2, <3>2, <3>3, Slice
    <3> QED
      BY <3>1, <3>4
  <2> QED
    BY <2>1, <2>2, <2>3
<1>6. HasEnds(text)
  BY <1>3, <1>4, <1>5 DEF HasEnds
<1> QED
  BY <1>3, <1>4, <1>5, <1>6

\* A key, "=" and a value are taken apart as they were put together.
LEMMA KeyAndValue ==
    ASSUME NEW T, NEW k \in Key, k \in T, "=" \in T, NEW v \in Seq(T),
           NEW part, part = <<k, "=">> \o v
    PROVE  /\ KeyValue(part) = [key |-> <<k>>, val |-> v]
           /\ Contains(part, "=")
           /\ part[1] = k
<1>1. /\ part \in Seq(T) /\ Len(part) = 2 + Len(v) /\ part[1] = k /\ part[2] = "="
      /\ \A i \in 1 .. Len(v) : part[2 + i] = v[i]
  <2>1. PICK h : h = <<k, "=">>
    OBVIOUS
  <2>2. h \in Seq(T) /\ Len(h) = 2 /\ h[1] = k /\ h[2] = "="
    BY <2>1
  <2>3. part = h \o v
    BY <2>1
  <2>4. /\ part \in Seq(T) /\ Len(part) = 2 + Len(v)
        /\ \A i \in 1 .. 2 + Len(v) : part[i] = IF i <= 2 THEN h[i] ELSE v[i - 2]
    BY <2>2, <2>3, ConcatProperties
  <2>5. Len(v) \in Nat
    OBVIOUS
  <2> QED
    BY <2>2, <2>4, <2>5
<1>2. k # "=" /\ Len(v) \in Nat
  BY DEF Key
<1>3. SelectInSeq(part, LAMBDA t : t = "=") = 2
  <2> DEFINE I == {i \in 1 .. Len(part) : part[i] = "="}
  <2>1. 2 \in I /\ \A i \in I : 2 <= i /\ i \in Int
    BY <1>1, <1>2
  <2>2. (CHOOSE x \in I : \A y \in I : x <= y) = 2
    <3>1. \A x \in I : (\A y \in I : x <= y) => x = 2
      BY <2>1
    <3> QED
      BY <2>1, <3>1
  <2>3. SelectInSeq(part, LAMBDA t : t = "=") = IF I # {} THEN Min(I) ELSE 0
    BY DEF SelectInSeq
  <2> QED
    BY <2>1, <2>2, <2>3 DEF Min
<1>4. SubSeq(part, 1, 2 - 1) = <<k>>
  <2>1. PICK b : b = <<k>>
    OBVIOUS
  <2>2. b \in Seq(T) /\ Len(b) = 1 /\ b[1] = part[1]
    BY <1>1, <2>1
  <2>3. 1 \in 0 .. Len(part) /\ 1 = 1 - 1 + Len(b) /\ 2 - 1 = 1 /\ 1 - 1 + 1 = 1
    BY <1>1, <1>2, <2>2
  <2>4. \A i \in 1 .. Len(b) : b[i] = part[1 - 1 + i]
    BY <2>2, <2>3
  <2>5. SubSeq(part, 1, 1) = b
    BY <1>1, <2>2, <2>3, <2>4, Slice
  <2> QED
    BY <2>1, <2>3, <2>5
<1>5. SubSeq(part, 2 + 1, Len(part)) = v
  <2>1. 3 - 1 = 2 /\ 2 + 1 = 3 /\ Len(part) = 3 - 1 + Len(v) /\ Len(part) \in Nat
    BY <1>1, <1>2
  <2>2. \A i \in 1 .. Len(v) : v[i] = part[3 - 1 + i]
    BY <1>1, <2>1
  <2> QED
    BY <1>1, <2>1, <2>2, Slice
<1>6. Fold(Lower, <<k>>) = <<k>>
  BY WordAssumption DEF Fold
<1>7. Contains(part, "=")
  BY <1>1, <1>2 DEF Contains
<1> QED
  BY <1>1, <1>3, <1>4, <1>5, <1>6, <1>7 DEF KeyValue

-----------------------------------------------------------------------------
(* The structured form. *)

\* The texts of a wish are free of the separator of the parts.
Writable(T, w) ==
    /\ {"~", "="} \cup Key \subseteq T
    /\ \A k \in Key : Text(w, k) \in Seq(T \ {"~"})

\* name is the credential, and one part for each key of keys that w says
\* something for.
Spells(T, name, credential, w, keys) ==
    LET parts == Split(name, "~")
    IN  /\ name \in Seq(T)
        /\ HasEnds(name)
        /\ parts[0] = credential
        /\ \A i \in Cuts(name, "~") :
              \E k \in keys : Text(w, k) # <<>> /\ parts[i] = <<k, "=">> \o Text(w, k)
        /\ \A k \in keys : Text(w, k) # <<>> =>
              \E i \in Cuts(name, "~") : parts[i] = <<k, "=">> \o Text(w, k)
        /\ \A i, j \in Cuts(name, "~") : i # j => parts[i][1] # parts[j][1]

\* The credential is the start of every name.
LEMMA SpellsNothing ==
    ASSUME NEW T, NEW w, NEW credential \in Seq(T), ~Contains(credential, "~")
    PROVE  Spells(T, credential, credential, w, {})
<1>1. Cuts(credential, "~") = {}
  BY DEF Cuts, Contains
<1>2. Stops(credential, "~", 0, Len(credential) + 1)
  BY <1>1 DEF Stops
<1>3. Split(credential, "~")[0] = credential
  <2>1. PICK j : j = Len(credential) + 1
    OBVIOUS
  <2>2. Split(credential, "~")[0] = SubSeq(credential, 0 + 1, j - 1)
    BY <1>2, <2>1, PartEnds
  <2>3. 0 + 1 = 1 /\ j - 1 = Len(credential)
    BY <2>1
  <2> QED
    BY <2>2, <2>3, SubSeqFull
<1> QED
  BY <1>1, <1>2, <1>3 DEF Spells, HasEnds

\* A part for one more key.
LEMMA SpellsMore ==
    ASSUME NEW T, NEW w, Writable(T, w), NEW credential, NEW keys \in SUBSET Key,
           NEW k \in Key \ keys, NEW name, Spells(T, name, credential, w, keys)
    PROVE  Spells(T, name \o Part(w, k), credential, w, keys \cup {k})
<1>0. \A s, t, u \in Seq(T) : (s \o t) \o u = s \o (t \o u)
  BY Associative, SMTT(30)
<1>1. CASE Text(w, k) = <<>>
  <2>1. name \o Part(w, k) = name
    <3>1. name \in Seq(T) /\ Part(w, k) = <<>>
      BY <1>1 DEF Part, Spells
    <3> QED
      BY <3>1, ConcatEmptySeq
  <2> QED
    BY <1>1, <2>1 DEF Spells
<1>2. CASE Text(w, k) # <<>>
  <2> DEFINE parts == Split(name, "~")
  <2>0. /\ HasEnds(name)
        /\ parts[0] = credential
        /\ \A i \in Cuts(name, "~") :
              \E l \in keys : Text(w, l) # <<>> /\ parts[i] = <<l, "=">> \o Text(w, l)
        /\ \A l \in keys : Text(w, l) # <<>> =>
              \E i \in Cuts(name, "~") : parts[i] = <<l, "=">> \o Text(w, l)
        /\ \A i, j \in Cuts(name, "~") : i # j => parts[i][1] # parts[j][1]
    BY DEF Spells
  <2> HIDE DEF parts
  <2>1. PICK part : part = <<k, "=">> \o Text(w, k)
    OBVIOUS
  <2>2. /\ "~" \in T /\ k \in T /\ "=" \in T /\ name \in Seq(T)
        /\ Text(w, k) \in Seq(T \ {"~"})
    BY DEF Writable, Spells
  <2>3. part \in Seq(T \ {"~"})
    <3>1. k # "~" /\ "=" # "~"
      BY DEF Key
    <3>2. <<k, "=">> \in Seq(T \ {"~"})
      BY <2>2, <3>1
    <3> QED
      BY <2>1, <2>2, <3>2, ConcatProperties
  <2>4. PICK text : text = name \o <<"~">> \o part
    OBVIOUS
  <2>5. name \o Part(w, k) = text
    <3>1. <<"~", k, "=">> = <<"~">> \o <<k, "=">>
      OBVIOUS
    <3>2. /\ <<"~">> \in Seq(T) /\ <<k, "=">> \in Seq(T) /\ Text(w, k) \in Seq(T)
          /\ part \in Seq(T)
      BY <2>2, <2>3
    <3>3. Part(w, k) = <<"~">> \o part
      <4>1. (<<"~">> \o <<k, "=">>) \o Text(w, k) = <<"~">> \o (<<k, "=">> \o Text(w, k))
        <5>1. PICK s, t, u : s = <<"~">> /\ t = <<k, "=">> /\ u = Text(w, k)
          OBVIOUS
        <5>2. s \in Seq(T) /\ t \in Seq(T) /\ u \in Seq(T)
          BY <3>2, <5>1
        <5>3. (s \o t) \o u = s \o (t \o u)
          BY <1>0, <5>2
        <5> QED
          BY <5>1, <5>3
      <4>2. Part(w, k) = <<"~", k, "=">> \o Text(w, k)
        BY <1>2 DEF Part
      <4> QED
        BY <2>1, <3>1, <4>1, <4>2
    <3>4. PICK dash : dash = <<"~">>
      OBVIOUS
    <3>5. (name \o dash) \o part = name \o (dash \o part)
      <4>1. name \in Seq(T) /\ dash \in Seq(T) /\ part \in Seq(T)
        BY <2>2, <3>2, <3>4
      <4> QED
        BY <1>0, <4>1
    <3> QED
      BY <2>4, <3>3, <3>4, <3>5
  <2>6. Joins(T, text, name, part)
    BY <2>2, <2>3, <2>4, Joining
  <2>7. /\ Cuts(text, "~") = Cuts(name, "~") \cup {Len(name) + 1}
        /\ HasEnds(text)
        /\ \A i \in {0} \cup Cuts(name, "~") : Split(text, "~")[i] = parts[i]
        /\ Split(text, "~")[Len(name) + 1] = part
    BY <2>0, <2>2, <2>3, <2>6, PartAppended DEF parts
  <2>8. \A l \in Key : (<<l, "=">> \o Text(w, l))[1] = l
    <3> SUFFICES ASSUME NEW l \in Key PROVE (<<l, "=">> \o Text(w, l))[1] = l
      OBVIOUS
    <3>1. PICK p, v : p = <<l, "=">> \o v /\ v = Text(w, l)
      OBVIOUS
    <3>2. l \in T /\ "=" \in T /\ v \in Seq(T)
      BY <3>1 DEF Writable
    <3> QED
      BY <3>1, <3>2, KeyAndValue
  <2>9. \A i, j \in Cuts(text, "~") :
          i # j => Split(text, "~")[i][1] # Split(text, "~")[j][1]
    <3>1. ASSUME NEW i \in Cuts(name, "~")
          PROVE  Split(text, "~")[i][1] \in keys
      <4>1. PICK l \in keys : parts[i] = <<l, "=">> \o Text(w, l)
        BY <2>0
      <4>2. Split(text, "~")[i] = parts[i]
        BY <2>7
      <4> QED
        BY <2>8, <4>1, <4>2
    <3>2. Split(text, "~")[Len(name) + 1][1] = k
      BY <2>1, <2>7, <2>8
    <3> QED
      BY <2>0, <2>7, <3>1, <3>2
  <2>10. Spells(T, text, credential, w, keys \cup {k})
    <3> DEFINE all == Split(text, "~")
    <3>1. /\ all[0] = credential
          /\ \A i \in Cuts(name, "~") : all[i] = parts[i]
          /\ all[Len(name) + 1] = <<k, "=">> \o Text(w, k)
          /\ \A i, j \in Cuts(text, "~") : i # j => all[i][1] # all[j][1]
      BY <2>0, <2>1, <2>7, <2>9
    <3> HIDE DEF all
    <3>2. \A i \in Cuts(text, "~") :
              \E l \in keys \cup {k} : Text(w, l) # <<>> /\ all[i] = <<l, "=">> \o Text(w, l)
      <4>1. \A i \in Cuts(name, "~") :
              \E l \in keys \cup {k} : Text(w, l) # <<>> /\ all[i] = <<l, "=">> \o Text(w, l)
        <5> SUFFICES ASSUME NEW i \in Cuts(name, "~")
                     PROVE  \E l \in keys \cup {k} :
                              Text(w, l) # <<>> /\ all[i] = <<l, "=">> \o Text(w, l)
          OBVIOUS
        <5>1. PICK l \in keys : Text(w, l) # <<>> /\ parts[i] = <<l, "=">> \o Text(w, l)
          BY <2>0
        <5>2. all[i] = parts[i]
          BY <3>1
        <5> QED
          BY <5>1, <5>2
      <4> QED
        BY <1>2, <2>7, <3>1, <4>1
    <3>3. ASSUME NEW l \in keys \cup {k}, Text(w, l) # <<>>
          PROVE  \E i \in Cuts(text, "~") : all[i] = <<l, "=">> \o Text(w, l)
      <4>1. CASE l = k
        BY <2>7, <3>1, <4>1
      <4>2. CASE l \in keys
        <5>1. PICK i \in Cuts(name, "~") : parts[i] = <<l, "=">> \o Text(w, l)
          BY <2>0, <3>3, <4>2
        <5>2. i \in Cuts(text, "~") /\ all[i] = parts[i]
          BY <2>7, <3>1
        <5> QED
          BY <5>1, <5>2
      <4> QED
        BY <4>1, <4>2
    <3> QED
      BY <2>6, <2>7, <3>1, <3>2, <3>3 DEF Spells, Joins, all
  <2> QED
    BY <2>5, <2>10
<1> QED
  BY <1>1, <1>2

\* The parts behind the credential.
Parts(name) == [i \in DOMAIN Split(name, "~") \ {0} |-> Split(name, "~")[i]]

\* Every key has the value that w says for it.
LEMMA SpelledValues ==
    ASSUME NEW T, NEW w, Writable(T, w), NEW credential, NEW name,
           Spells(T, name, credential, w, Key),
           Text(w, "fast") \in {<<>>, <<"true">>}
    PROVE  /\ WellFormed(Parts(name))
           /\ \A k \in Key : Value(Parts(name), k) = Text(w, k)
<1> DEFINE parts == Parts(name)
<1>1. /\ DOMAIN parts = Cuts(name, "~")
      /\ \A i \in Cuts(name, "~") : parts[i] = Split(name, "~")[i]
  <2>1. DOMAIN Split(name, "~") = {0} \cup Cuts(name, "~") /\ 0 \notin Cuts(name, "~")
    BY DEF Split, Cuts
  <2> QED
    BY <2>1 DEF Parts
<1> HIDE DEF parts
<1>2. ASSUME NEW i \in DOMAIN parts
      PROVE  \E k \in Key : /\ Text(w, k) # <<>> /\ parts[i][1] = k
                            /\ KeyValue(parts[i]) = [key |-> <<k>>, val |-> Text(w, k)]
                            /\ Contains(parts[i], "=")
  <2>0. \A j \in Cuts(name, "~") :
          \E k \in Key : Text(w, k) # <<>> /\ Split(name, "~")[j] = <<k, "=">> \o Text(w, k)
    BY DEF Spells
  <2>1. PICK k \in Key : Text(w, k) # <<>> /\ parts[i] = <<k, "=">> \o Text(w, k)
    BY <1>1, <2>0
  <2>2. PICK v : v = Text(w, k)
    OBVIOUS
  <2>3. k \in T /\ "=" \in T /\ v \in Seq(T)
    BY <2>2 DEF Writable
  <2> QED
    BY <2>1, <2>2, <2>3, KeyAndValue
<1>3. ASSUME NEW k \in Key, Text(w, k) # <<>>
      PROVE  \E i \in DOMAIN parts : KeyValue(parts[i]) = [key |-> <<k>>, val |-> Text(w, k)]
  <2>1. PICK i \in Cuts(name, "~") : parts[i] = <<k, "=">> \o Text(w, k)
    BY <1>1, <1>3 DEF Spells
  <2>2. PICK v : v = Text(w, k)
    OBVIOUS
  <2>3. k \in T /\ "=" \in T /\ v \in Seq(T)
    BY <2>2 DEF Writable
  <2>4. KeyValue(parts[i]) = [key |-> <<k>>, val |-> v]
    BY <2>1, <2>2, <2>3, KeyAndValue
  <2> QED
    BY <1>1, <2>2, <2>4
<1>4. \A i, j \in DOMAIN parts : i # j => parts[i][1] # parts[j][1]
  BY <1>1 DEF Spells
<1>5. WellFormed(parts)
  <2>1. ASSUME NEW i \in DOMAIN parts
        PROVE  /\ Contains(parts[i], "=")
               /\ Len(KeyValue(parts[i]).key) = 1 /\ KeyValue(parts[i]).key[1] \in Key
               /\ KeyValue(parts[i]).val # <<>>
               /\ KeyValue(parts[i]).key = <<"fast">> =>
                    Fold(Lower, KeyValue(parts[i]).val) = <<"true">>
    <3>1. PICK k \in Key : /\ Text(w, k) # <<>>
                           /\ KeyValue(parts[i]) = [key |-> <<k>>, val |-> Text(w, k)]
                           /\ Contains(parts[i], "=")
      BY <1>2
    <3>2. <<k>> = <<"fast">> => k = "fast"
      OBVIOUS
    <3>3. Fold(Lower, <<"true">>) = <<"true">>
      BY WordAssumption DEF Fold
    <3> QED
      BY <3>1, <3>2, <3>3
  <2>2. ASSUME NEW i \in DOMAIN parts, NEW j \in DOMAIN parts, i # j
        PROVE  KeyValue(parts[i]).key # KeyValue(parts[j]).key
    <3>1. PICK k \in Key : parts[i][1] = k /\ KeyValue(parts[i]).key = <<k>>
      BY <1>2
    <3>2. PICK l \in Key : parts[j][1] = l /\ KeyValue(parts[j]).key = <<l>>
      BY <1>2
    <3>3. k # l
      BY <1>4, <2>2, <3>1, <3>2
    <3>4. <<k>> # <<l>>
      BY <3>3
    <3> QED
      BY <3>1, <3>2, <3>4
  <2> QED
    BY <2>1, <2>2 DEF WellFormed
<1>6. ASSUME NEW k \in Key
      PROVE  Value(parts, k) = Text(w, k)
  <2> DEFINE given == {i \in DOMAIN parts : KeyValue(parts[i]).key = <<k>>}
  <2>1. \A i \in given : Text(w, k) # <<>> /\ KeyValue(parts[i]).val = Text(w, k)
    <3> SUFFICES ASSUME NEW i \in given
                 PROVE  Text(w, k) # <<>> /\ KeyValue(parts[i]).val = Text(w, k)
      OBVIOUS
    <3>1. PICK l \in Key : /\ Text(w, l) # <<>>
                           /\ KeyValue(parts[i]) = [key |-> <<l>>, val |-> Text(w, l)]
      BY <1>2
    <3>2. <<k>> = <<l>>
      BY <3>1
    <3>3. k = l
      BY <3>2
    <3> QED
      BY <3>1, <3>3
  <2>2. Text(w, k) # <<>> => given # {}
    BY <1>3
  <2>3. Value(parts, k) = IF given = {} THEN <<>>
                          ELSE KeyValue(parts[CHOOSE i \in given : TRUE]).val
    BY DEF Value
  <2>4. given # {} => (CHOOSE i \in given : TRUE) \in given
    OBVIOUS
  <2> HIDE DEF given
  <2> QED
    BY <2>1, <2>2, <2>3, <2>4
<1> QED
  BY <1>5, <1>6 DEF parts

\* Once every key is spelled, the parse gives what is meant.
LEMMA SpelledIsMeant ==
    ASSUME NEW T, NEW w \in Wish, Writable(T, w), NEW credential, NEW name,
           Spells(T, name, credential, w, Key),
           NEW defaultTTL \in Int, defaultTTL > 0, NEW maxTTL \in Int, maxTTL > 0
    PROVE  ParseStructuredUsername(name, credential, defaultTTL, maxTTL)
             = Meaning(w, defaultTTL, maxTTL)
<1> DEFINE all   == Split(name, "~")
           parts == Parts(name)
<1>1. /\ w.fast \in BOOLEAN /\ w.ttl \in Optional(Ttl)
      /\ w.session = <<>> => w.ttl = <<>>
  BY DEF Wish
<1>2. /\ Text(w, "fast") = (IF w.fast THEN <<"true">> ELSE <<>>)
      /\ Text(w, "session") = w.session /\ Text(w, "ttl") = w.ttl
      /\ Text(w, "plugin") = w.plugin /\ Text(w, "region") = w.region
  BY DEF Text
<1>3. all[0] = credential
  BY DEF Spells
<1>4. WellFormed(parts) /\ \A k \in Key : Value(parts, k) = Text(w, k)
  <2>1. Text(w, "fast") \in {<<>>, <<"true">>}
    BY <1>2
  <2> QED
    BY <2>1, SpelledValues
<1> HIDE DEF parts, all
<1>5. /\ Value(parts, "session") = w.session /\ Value(parts, "ttl") = w.ttl
      /\ Value(parts, "plugin") = w.plugin /\ Value(parts, "region") = w.region
      /\ Value(parts, "fast") = (IF w.fast THEN <<"true">> ELSE <<>>)
  BY <1>2, <1>4 DEF Key
<1>6. w.ttl # <<>> =>
        /\ IsDuration(w.ttl) /\ DurationOf(w.ttl) = Duration[w.ttl[1]]
        /\ Duration[w.ttl[1]] \in Int /\ Duration[w.ttl[1]] > 0
  BY <1>1, WordAssumption DEF Optional, Ttl, Single, IsDuration, DurationOf
<1>7. Lifetime(w.session, w.ttl, defaultTTL, maxTTL)
        = IF w.session = <<>> THEN 0
          ELSE IF maxTTL < (IF w.ttl = <<>> THEN defaultTTL ELSE Duration[w.ttl[1]])
                 THEN maxTTL
                 ELSE (IF w.ttl = <<>> THEN defaultTTL ELSE Duration[w.ttl[1]])
  BY <1>6 DEF Lifetime, Clamp
<1>8. (Value(parts, "fast") # <<>>) = w.fast
  <2>1. CASE w.fast = TRUE
    <3>1. Value(parts, "fast") = <<"true">>
      BY <1>5, <2>1
    <3>2. Value(parts, "fast") # <<>>
      BY <3>1
    <3> QED
      BY <2>1, <3>2
  <2>2. CASE w.fast = FALSE
    <3>1. Value(parts, "fast") = <<>>
      BY <1>5, <2>2
    <3> QED
      BY <2>2, <3>1
  <2> QED
    BY <1>1, <2>1, <2>2
<1>9. ParseStructuredUsername(name, credential, defaultTTL, maxTTL)
        = Info(w.session, Lifetime(w.session, w.ttl, defaultTTL, maxTTL),
               Fold(Lower, w.plugin), Fold(Upper, w.region), w.fast)
  BY <1>1, <1>3, <1>4, <1>5, <1>6, <1>8 DEF ParseStructuredUsername, Parts, all, parts
<1>10. Meaning(w, defaultTTL, maxTTL)
         = Info(w.session, Lifetime(w.session, w.ttl, defaultTTL, maxTTL),
                Fold(Lower, w.plugin), Fold(Upper, w.region), w.fast)
  BY <1>7 DEF Meaning
<1> QED
  BY <1>9, <1>10

-----------------------------------------------------------------------------
(* The form with suffixes. *)

\* A suffix of two tokens.
LEMMA SuffixOfTwo ==
    ASSUME NEW T, NEW text \in Seq(T), NEW a \in T, NEW b \in T
    PROVE  IsSuffix(<<a, b>>, text)
             <=> Len(text) >= 2 /\ text[Len(text) - 1] = a /\ text[Len(text)] = b
<1> DEFINE n == Len(text)
<1>1. n \in Nat /\ \A i \in 1 .. n : text[i] \in T
  OBVIOUS
<1>2. PICK r : r = Reverse(text)
  OBVIOUS
<1>3. /\ r \in Seq(T) /\ Len(r) = n
      /\ n >= 1 => r[1] = text[n]
      /\ n >= 2 => r[2] = text[n - 1]
  BY <1>1, <1>2 DEF Reverse
<1>4. PICK q : q = Reverse(<<a, b>>)
  OBVIOUS
<1>5. q \in Seq(T) /\ Len(q) = 2 /\ q[1] = b /\ q[2] = a
  BY <1>4 DEF Reverse
<1>6. SubSeq(q, 1, 2) = q
  BY <1>5, SubSeqFull
<1>7. IsSuffix(<<a, b>>, text) <=> 2 <= n /\ q = SubSeq(r, 1, 2)
  BY <1>2, <1>3, <1>4, <1>5, <1>6 DEF IsSuffix, IsPrefix
<1> HIDE DEF n
<1>8. ASSUME n >= 2
      PROVE  SubSeq(r, 1, 2) = q <=> r[1] = b /\ r[2] = a
  <2>1. PICK s : s = SubSeq(r, 1, 2)
    OBVIOUS
  <2>2. /\ s \in Seq(T) /\ Len(s) = 2 /\ s[1] = r[1] /\ s[2] = r[2]
    BY <1>1, <1>3, <1>8, <2>1, SubSeqProperties
  <2>3. s[1] = q[1] /\ s[2] = q[2] => s = q
    <3> SUFFICES ASSUME s[1] = q[1], s[2] = q[2] PROVE s = q
      OBVIOUS
    <3>1. \A i \in 1 .. Len(s) : s[i] = q[i]
      <4>1. \A i \in 1 .. Len(s) : i = 1 \/ i = 2
        BY <2>2
      <4> QED
        BY <4>1
    <3>2. Len(s) = Len(q)
      BY <1>5, <2>2
    <3> QED
      BY <1>5, <2>2, <3>1, <3>2, SeqEqual
  <2> QED
    BY <1>5, <2>1, <2>2, <2>3
<1> QED
  BY <1>1, <1>3, <1>7, <1>8 DEF n

\* What comes before does not matter for it.
LEMMA SuffixOfEnd ==
    ASSUME NEW T, NEW head \in Seq(T), NEW tail \in Seq(T), Len(tail) >= 2,
           NEW a \in T, NEW b \in T
    PROVE  IsSuffix(<<a, b>>, head \o tail) <=> IsSuffix(<<a, b>>, tail)
<1>1. PICK text, n, m : text = head \o tail /\ n = Len(head) /\ m = Len(tail)
  OBVIOUS
<1>2. n \in Nat /\ m \in Nat /\ m >= 2
  BY <1>1
<1>3. /\ text \in Seq(T) /\ Len(text) = n + m
      /\ \A i \in 1 .. n + m : text[i] = IF i <= n THEN head[i] ELSE tail[i - n]
  BY <1>1, ConcatProperties
<1>4. PICK k : k = n + m - 1
  OBVIOUS
<1>5. /\ k \in 1 .. n + m /\ ~(k <= n) /\ k - n = m - 1
      /\ n + m \in 1 .. n + m /\ ~(n + m <= n) /\ n + m - n = m
  BY <1>2, <1>4
<1>6. text[k] = tail[m - 1] /\ text[n + m] = tail[m]
  <2>1. text[k] = tail[k - n] /\ text[n + m] = tail[n + m - n]
    BY <1>2, <1>3, <1>5
  <2> QED
    BY <1>5, <2>1
<1>7. Len(text) >= 2 /\ Len(text) - 1 = k
  BY <1>2, <1>3, <1>4
<1>8. IsSuffix(<<a, b>>, text) <=> text[k] = a /\ text[n + m] = b
  BY <1>3, <1>7, SuffixOfTwo
<1>9. IsSuffix(<<a, b>>, tail) <=> tail[m - 1] = a /\ tail[m] = b
  BY <1>1, <1>2, SuffixOfTwo
<1> QED
  BY <1>1, <1>6, <1>8, <1>9

\* Two texts of one token, joined.
LEMMA TwoTokens ==
    ASSUME NEW T, NEW a \in T, NEW b \in T
    PROVE  <<a>> \o <<b>> = <<a, b>>
<1>1. PICK s, t, u : s = <<a>> /\ t = <<b>> /\ u = <<a, b>>
  OBVIOUS
<1>2. /\ s \in Seq(T) /\ Len(s) = 1 /\ s[1] = a /\ t \in Seq(T) /\ Len(t) = 1 /\ t[1] = b
      /\ u \in Seq(T) /\ Len(u) = 2 /\ u[1] = a /\ u[2] = b
  BY <1>1
<1>3. s \o t \in Seq(T) /\ Len(s \o t) = 2 /\ (s \o t)[1] = a /\ (s \o t)[2] = b
  BY <1>2, ConcatProperties
<1>4. s \o t = u
  BY <1>2, <1>3, SeqEqual
<1> QED
  BY <1>1, <1>4

\* What is left when a beginning or an end is taken off.
LEMMA Trims ==
    ASSUME NEW T, NEW head \in Seq(T), NEW tail \in Seq(T)
    PROVE  /\ TrimPrefix(head \o tail, head) = tail
           /\ TrimSuffix(head \o tail, tail) = head
           /\ SubSeq(head \o tail, 1, Len(head)) = head
           /\ IsPrefix(head, head \o tail)
<1>0. PICK text : text = head \o tail
  OBVIOUS
<1>1. /\ text \in Seq(T) /\ Len(text) = Len(head) + Len(tail)
      /\ \A i \in 1 .. Len(head) + Len(tail) :
            text[i] = IF i <= Len(head) THEN head[i] ELSE tail[i - Len(head)]
  BY <1>0, ConcatProperties
<1>2. PICK n, m : n = Len(head) /\ m = Len(tail)
  OBVIOUS
<1>3. n \in Nat /\ m \in Nat /\ Len(text) = n + m
  BY <1>1, <1>2
<1>4. SubSeq(text, n + 1, n + m) = tail
  <2>1. \A i \in 1 .. m : tail[i] = text[n + 1 - 1 + i]
    BY <1>1, <1>2, <1>3
  <2>2. n + 1 \in Nat \ {0} /\ n + m \in 0 .. Len(text) /\ n + m = n + 1 - 1 + Len(tail)
    BY <1>2, <1>3
  <2> QED
    BY <1>1, <1>2, <2>1, <2>2, Slice
<1>5. SubSeq(text, 1, n) = head
  <2>1. \A i \in 1 .. n : head[i] = text[1 - 1 + i]
    BY <1>1, <1>2, <1>3
  <2>2. n \in 0 .. Len(text) /\ n = 1 - 1 + Len(head)
    BY <1>2, <1>3
  <2> QED
    BY <1>1, <1>2, <2>1, <2>2, Slice
<1>6. SubSeq(head, 1, n) = head
  BY <1>2, SubSeqFull
<1>7. n + 1 = Len(head) + 1 /\ n + m = Len(text) /\ Len(head) <= Len(text)
  BY <1>2, <1>3
<1>8. SubSeq(text, Len(head) + 1, Len(text)) = tail
  BY <1>4, <1>7
<1>9. SubSeq(text, 1, Len(head)) = head /\ SubSeq(head, 1, Len(head)) = head
  BY <1>2, <1>5, <1>6
<1>10. Len(text) - Len(tail) = Len(head)
  BY <1>2, <1>3
<1> QED
  BY <1>0, <1>7, <1>8, <1>9, <1>10 DEF IsPrefix, TrimPrefix, TrimSuffix

\* The last "-" of a text; 0 stands for none.
EndsDashes(text, i) ==
    /\ i \in 0 .. Len(text)
    /\ i > 0 => text[i] = "-"
    /\ \A j \in i + 1 .. Len(text) : text[j] # "-"

LEMMA LastDash ==
    ASSUME NEW T, NEW text \in Seq(T), NEW i, EndsDashes(text, i)
    PROVE  SelectLastInSeq(text, LAMBDA t : t = "-") = i
<1> DEFINE I == {j \in 1 .. Len(text) : text[j] = "-"}
<1>1. /\ Len(text) \in Nat /\ i \in 0 .. Len(text) /\ (i > 0 => text[i] = "-")
      /\ \A j \in i + 1 .. Len(text) : text[j] # "-"
  BY DEF EndsDashes
<1>2. SelectLastInSeq(text, LAMBDA t : t = "-") = IF I # {} THEN Max(I) ELSE 0
  BY DEF SelectLastInSeq
<1>3. CASE i = 0
  <2>1. I = {}
    BY <1>1, <1>3
  <2> QED
    BY <1>2, <1>3, <2>1
<1>4. CASE i > 0
  <2>1. i \in I /\ \A j \in I : j <= i /\ j \in Int
    BY <1>1, <1>4
  <2>2. (CHOOSE x \in I : \A y \in I : x >= y) = i
    <3>1. \A x \in I : (\A y \in I : x >= y) => x = i
      BY <2>1
    <3>2. \A y \in I : i >= y
      BY <2>1
    <3> QED
      BY <2>1, <3>1, <3>2
  <2>3. I # {}
    BY <2>1
  <2> QED
    BY <1>2, <2>2, <2>3 DEF Max
<1> QED
  BY <1>1, <1>3, <1>4

\* A wish for a session, in its two shapes, and its lifetime.
LEMMA SessionShapes ==
    ASSUME NEW w \in Wish, w.session # <<>>
    PROVE  /\ \/ \E u \in SessionWord : w.session = <<u>>
              \/ \E v, u \in SessionWord : w.session = <<v, "-", u>>
           /\ w.ttl # <<>> => \E t \in DOMAIN Duration : w.ttl = <<t>> /\ Duration[t] > 0
           /\ w.fast \in BOOLEAN
BY DEF Wish, Optional, SessionText, Single, Ttl

\* A lifetime behind a session is taken off.
LEMMA LifetimeTaken ==
    ASSUME NEW T, "-" \in T, NEW session \in Seq(T), session # <<>>,
           NEW t \in T, t \in DOMAIN Duration, t # "-",
           NEW fast, NEW defaultTTL, NEW maxTTL
    PROVE  Expression(session \o <<"-", t>>, fast, defaultTTL, maxTTL)
             = Info(session, Clamp(Duration[t], defaultTTL, maxTTL), <<>>, <<>>, fast)
<1>0. PICK rest : rest = session \o <<"-", t>>
  OBVIOUS
<1>1. PICK s, n : s = <<"-", t>> /\ n = Len(session)
  OBVIOUS
<1>2. s \in Seq(T) /\ Len(s) = 2 /\ s[1] = "-" /\ s[2] = t /\ n \in Nat \ {0}
  BY <1>1
<1>3. /\ rest \in Seq(T) /\ Len(rest) = n + 2
      /\ rest[n + 1] = "-" /\ rest[n + 2] = t
  <2>1. rest = session \o s
    BY <1>0, <1>1
  <2> QED
    BY <1>1, <1>2, <2>1, ConcatProperties
<1>4. SubSeq(rest, n + 2, n + 2) = <<t>>
  <2>1. PICK p : p = <<t>>
    OBVIOUS
  <2>2. p \in Seq(T) /\ Len(p) = 1 /\ p[1] = t
    BY <2>1
  <2>3. PICK k : k = n + 2
    OBVIOUS
  <2>4. k \in Nat \ {0} /\ k \in 0 .. Len(rest) /\ k = k - 1 + Len(p) /\ p[1] = rest[k - 1 + 1]
    BY <1>2, <1>3, <2>2, <2>3
  <2>5. SubSeq(rest, k, k) = p
    BY <1>3, <2>2, <2>4, Slice
  <2> QED
    BY <2>1, <2>3, <2>5
<1>5. SubSeq(rest, 1, n) = session
  BY <1>0, <1>1, <1>2, Trims
<1>6. PICK i, last : i = n + 1 /\ last = SubSeq(rest, i + 1, Len(rest))
  OBVIOUS
<1>7. i + 1 = n + 2 /\ Len(rest) = n + 2 /\ i - 1 = n /\ i > 1
  BY <1>2, <1>3, <1>6
<1>8. last = <<t>>
  BY <1>4, <1>6, <1>7
<1>9. IsDuration(last) /\ DurationOf(last) = Duration[t]
  BY <1>8 DEF IsDuration, DurationOf
<1>10. EndsDashes(rest, i)
  BY <1>2, <1>3, <1>6 DEF EndsDashes
<1>11. Expression(rest, fast, defaultTTL, maxTTL) =
         IF i > 1 /\ IsDuration(last)
           THEN Info(SubSeq(rest, 1, i - 1), Clamp(DurationOf(last), defaultTTL, maxTTL),
                     <<>>, <<>>, fast)
           ELSE Info(rest, Clamp(defaultTTL, defaultTTL, maxTTL), <<>>, <<>>, fast)
  <2>1. SelectLastInSeq(rest, LAMBDA x : x = "-") = i
    BY <1>3, <1>10, LastDash
  <2> QED
    BY <1>6, <2>1 DEF Expression
<1> QED
  BY <1>0, <1>5, <1>7, <1>9, <1>11

\* A session alone is left whole, unless it reads as a session and a lifetime.
LEMMA SessionKept ==
    ASSUME NEW T, "-" \in T, SessionWord \subseteq T,
           NEW session,
           \/ \E u \in SessionWord : session = <<u>>
           \/ \E v, u \in SessionWord : session = <<v, "-", u>>,
           ~EndsInDuration(session),
           NEW fast, NEW defaultTTL, NEW maxTTL
    PROVE  Expression(session, fast, defaultTTL, maxTTL)
             = Info(session, Clamp(defaultTTL, defaultTTL, maxTTL), <<>>, <<>>, fast)
<1>1. \A u \in SessionWord : u \in T /\ u # "-"
  BY WordAssumption DEF Separator
<1>2. CASE \E u \in SessionWord : session = <<u>>
  <2>1. PICK u \in SessionWord : session = <<u>>
    BY <1>2
  <2>2. session \in Seq(T) /\ Len(session) = 1 /\ session[1] # "-"
    BY <1>1, <2>1
  <2>3. PICK i, last : i = 0 /\ last = SubSeq(session, i + 1, Len(session))
    OBVIOUS
  <2>4. EndsDashes(session, i) /\ ~(i > 1)
    BY <2>2, <2>3 DEF EndsDashes
  <2>5. SelectLastInSeq(session, LAMBDA x : x = "-") = i
    BY <2>2, <2>4, LastDash
  <2> QED
    BY <2>4, <2>5 DEF Expression
<1>3. CASE \E v, u \in SessionWord : session = <<v, "-", u>>
  <2>1. PICK v \in SessionWord, u \in SessionWord : session = <<v, "-", u>>
    BY <1>3
  <2>2. /\ session \in Seq(T) /\ Len(session) = 3 /\ session[2] = "-"
        /\ session[3] = u /\ u # "-" /\ u \in T
    BY <1>1, <2>1
  <2>3. u \notin DOMAIN Duration
    <3> SUFFICES ASSUME u \in DOMAIN Duration PROVE FALSE
      OBVIOUS
    <3>1. /\ Len(session) >= 2 /\ session[Len(session) - 1] = "-" /\ session[Len(session)] = u
          /\ session \in Seq(T) /\ "-" \in T /\ u \in T
      BY <2>2
    <3>2. IsSuffix(<<"-", u>>, session)
      BY <3>1, SuffixOfTwo
    <3> QED
      BY <3>2 DEF EndsInDuration
  <2>4. PICK i, last : i = 2 /\ last = SubSeq(session, i + 1, Len(session))
    OBVIOUS
  <2>5. last = <<u>>
    <3>1. PICK p : p = <<u>>
      OBVIOUS
    <3>2. p \in Seq(T) /\ Len(p) = 1 /\ p[1] = u
      BY <2>2, <3>1
    <3>3. SubSeq(session, 3, 3) = p
      BY <2>2, <3>2, Slice
    <3>4. i + 1 = 3
      BY <2>4
    <3> QED
      BY <2>2, <2>4, <3>1, <3>3, <3>4
  <2>6. ~IsDuration(last)
    BY <2>3, <2>5 DEF IsDuration
  <2>7. EndsDashes(session, i)
    BY <2>2, <2>4 DEF EndsDashes
  <2>8. Expression(session, fast, defaultTTL, maxTTL) =
          IF i > 1 /\ IsDuration(last)
            THEN Info(SubSeq(session, 1, i - 1),
                      Clamp(DurationOf(last), defaultTTL, maxTTL), <<>>, <<>>, fast)
            ELSE Info(session, Clamp(defaultTTL, defaultTTL, maxTTL), <<>>, <<>>, fast)
    <3>1. SelectLastInSeq(session, LAMBDA x : x = "-") = i
      BY <2>2, <2>7, LastDash
    <3> QED
      BY <2>4, <3>1 DEF Expression
  <2> QED
    BY <2>6, <2>8
<1> QED
  BY <1>2, <1>3

\* The tokens of the second of two joined texts.
LEMMA SecondOfTwo ==
    ASSUME NEW T, NEW head \in Seq(T), NEW tail \in Seq(T), NEW text,
           text = head \o tail
    PROVE  /\ text \in Seq(T)
           /\ Len(text) = Len(head) + Len(tail)
           /\ \A j \in 1 .. Len(tail) : text[Len(head) + j] = tail[j]
<1>1. PICK n, m : n = Len(head) /\ m = Len(tail)
  OBVIOUS
<1>2. n \in Nat /\ m \in Nat
  BY <1>1
<1>3. /\ text \in Seq(T) /\ Len(text) = n + m
      /\ \A i \in 1 .. n + m : text[i] = IF i <= n THEN head[i] ELSE tail[i - n]
  BY <1>1, ConcatProperties
<1>4. ASSUME NEW j \in 1 .. m
      PROVE  text[n + j] = tail[j]
  <2>1. PICK i : i = n + j
    OBVIOUS
  <2>2. i \in 1 .. n + m /\ ~(i <= n) /\ i - n = j
    BY <1>2, <2>1
  <2>3. text[i] = tail[i - n]
    BY <1>3, <2>2
  <2> QED
    BY <2>1, <2>2, <2>3
<1> QED
  BY <1>1, <1>3, <1>4

\* "-fast" at the end of a text.
LEMMA FastEnd ==
    ASSUME NEW T, "-" \in T, "fast" \in T, NEW head \in Seq(T)
    PROVE  /\ head \o FastSuffix \in Seq(T)
           /\ Len(head \o FastSuffix) = Len(head) + 2
           /\ IsSuffix(FastSuffix, head \o FastSuffix)
           /\ TrimSuffix(head \o FastSuffix, FastSuffix) = head
           /\ head \o FastSuffix # head
<1>1. PICK text, ending, n : /\ ending = FastSuffix /\ text = head \o ending /\ n = Len(head)
  OBVIOUS
<1>2. /\ ending \in Seq(T) /\ Len(ending) = 2 /\ ending[1] = "-" /\ ending[2] = "fast"
      /\ n \in Nat
  BY <1>1 DEF FastSuffix
<1>3. /\ text \in Seq(T) /\ Len(text) = n + 2
      /\ text[n + 1] = "-" /\ text[n + 2] = "fast"
  <2>1. /\ text \in Seq(T) /\ Len(text) = n + Len(ending)
        /\ \A j \in 1 .. Len(ending) : text[n + j] = ending[j]
    <3>1. ending \in Seq(T) /\ text = head \o ending
      BY <1>1, <1>2
    <3>2. /\ text \in Seq(T) /\ Len(text) = Len(head) + Len(ending)
          /\ \A j \in 1 .. Len(ending) : text[Len(head) + j] = ending[j]
      BY <3>1, SecondOfTwo
    <3> QED
      BY <1>1, <3>2
  <2>2. /\ Len(text) = n + 2
        /\ \A j \in 1 .. 2 : text[n + j] = ending[j]
    BY <1>2, <2>1
  <2>3. text[n + 1] = ending[1] /\ text[n + 2] = ending[2]
    BY <2>2
  <2> QED
    BY <1>2, <2>1, <2>2, <2>3
<1>4. n + 2 # n
  BY <1>2
<1>5. IsSuffix(FastSuffix, text)
  <2>1. Len(text) - 1 = n + 1 /\ Len(text) >= 2
    BY <1>2, <1>3
  <2>2. text[Len(text) - 1] = "-" /\ text[Len(text)] = "fast"
    BY <1>3, <2>1
  <2> QED
    BY <1>3, <2>1, <2>2, SuffixOfTwo DEF FastSuffix
<1>6. TrimSuffix(text, ending) = head
  BY <1>1, <1>2, Trims
<1> QED
  BY <1>1, <1>3, <1>4, <1>5, <1>6

\* A text behind the credential goes to Expression (session.go 56-65).
LEMMA LegacyRest ==
    ASSUME NEW T, "-" \in T, "fast" \in T, NEW credential \in Seq(T),
           NEW rest \in Seq(T), rest # <<>>, NEW defaultTTL, NEW maxTTL,
           ~IsSuffix(FastSuffix, Append(credential, "-") \o rest)
    PROVE  ParseLegacyUsername(Append(credential, "-") \o rest, credential,
                               defaultTTL, maxTTL)
             = Expression(rest, FALSE, defaultTTL, maxTTL)
<1>1. PICK prefix : prefix = Append(credential, "-")
  OBVIOUS
<1>2. PICK base : base = prefix \o rest
  OBVIOUS
<1>3. PICK asked : asked = credential \o FastSuffix
  OBVIOUS
<1>4. /\ prefix \in Seq(T) /\ Len(prefix) = Len(credential) + 1
      /\ Len(credential) \in Nat /\ Len(rest) \in Nat \ {0}
  BY <1>1
<1>5. base # credential
  <2>1. base \in Seq(T) /\ Len(base) = Len(credential) + 1 + Len(rest)
    BY <1>2, <1>4, ConcatProperties
  <2> QED
    BY <1>4, <2>1
<1>6. IsPrefix(prefix, base) /\ TrimPrefix(base, prefix) = rest
  BY <1>2, <1>4, Trims
<1>7. IsSuffix(FastSuffix, base) = FALSE
  BY <1>1, <1>2 DEF IsSuffix, IsPrefix
<1>8. base # asked
  <2>1. IsSuffix(FastSuffix, asked)
    BY <1>3, FastEnd
  <2> QED
    BY <1>7, <2>1
<1>9. ParseLegacyUsername(base, credential, defaultTTL, maxTTL)
        = Expression(rest, FALSE, defaultTTL, maxTTL)
  BY <1>1, <1>3, <1>5, <1>6, <1>7, <1>8 DEF ParseLegacyUsername
<1> QED
  BY <1>1, <1>2, <1>9

\* So does one with "-fast" behind it, without that.
LEMMA LegacyFast ==
    ASSUME NEW T, "-" \in T, "fast" \in T, NEW credential \in Seq(T),
           NEW rest \in Seq(T), rest # <<>>, NEW defaultTTL, NEW maxTTL
    PROVE  ParseLegacyUsername(Append(credential, "-") \o rest \o FastSuffix, credential,
                               defaultTTL, maxTTL)
             = Expression(rest, TRUE, defaultTTL, maxTTL)
<1>1. PICK prefix : prefix = Append(credential, "-")
  OBVIOUS
<1>2. PICK base : base = prefix \o rest
  OBVIOUS
<1>3. PICK name : name = base \o FastSuffix
  OBVIOUS
<1>4. PICK asked : asked = credential \o FastSuffix
  OBVIOUS
<1>5. /\ prefix \in Seq(T) /\ Len(prefix) = Len(credential) + 1
      /\ Len(credential) \in Nat /\ Len(rest) \in Nat \ {0}
  BY <1>1
<1>6. base \in Seq(T) /\ Len(base) = Len(credential) + 1 + Len(rest)
  BY <1>2, <1>5, ConcatProperties
<1>7. IsPrefix(prefix, base) /\ TrimPrefix(base, prefix) = rest
  BY <1>2, <1>5, Trims
<1>8. /\ Len(name) = Len(base) + 2
      /\ IsSuffix(FastSuffix, name) /\ TrimSuffix(name, FastSuffix) = base
  BY <1>3, <1>6, FastEnd
<1>9. Len(asked) = Len(credential) + 2
  BY <1>4, FastEnd
<1>10. base # credential /\ name # asked
  BY <1>5, <1>6, <1>8, <1>9
<1>11. IsSuffix(FastSuffix, name) = TRUE
  BY <1>8 DEF IsSuffix, IsPrefix
<1>12. ParseLegacyUsername(name, credential, defaultTTL, maxTTL)
         = Expression(rest, TRUE, defaultTTL, maxTTL)
  BY <1>1, <1>4, <1>7, <1>8, <1>10, <1>11 DEF ParseLegacyUsername
<1> QED
  BY <1>1, <1>2, <1>3, <1>12

\* The credential, alone or with "-fast" (session.go 42-55).
LEMMA LegacyAlone ==
    ASSUME NEW T, "-" \in T, "fast" \in T, NEW credential \in Seq(T),
           ~Contains(credential, "-"), NEW defaultTTL, NEW maxTTL
    PROVE  /\ ParseLegacyUsername(credential, credential, defaultTTL, maxTTL)
                = Info(<<>>, 0, <<>>, <<>>, FALSE)
           /\ ParseLegacyUsername(credential \o FastSuffix, credential, defaultTTL, maxTTL)
                = Info(<<>>, 0, <<>>, <<>>, TRUE)
<1>1. PICK asked : asked = credential \o FastSuffix
  OBVIOUS
<1>2. asked # credential
  BY <1>1, FastEnd
<1>3. ~IsSuffix(FastSuffix, credential)
  <2>1. Len(credential) >= 2 => Len(credential) - 1 \in 1 .. Len(credential)
    OBVIOUS
  <2> QED
    BY <2>1, SuffixOfTwo DEF FastSuffix, Contains
<1>4. IsSuffix(FastSuffix, credential) = FALSE
  BY <1>3 DEF IsSuffix, IsPrefix
<1>5. ParseLegacyUsername(asked, credential, defaultTTL, maxTTL)
        = Info(<<>>, 0, <<>>, <<>>, TRUE)
  BY <1>1 DEF ParseLegacyUsername
<1>6. ParseLegacyUsername(credential, credential, defaultTTL, maxTTL)
        = Info(<<>>, 0, <<>>, <<>>, FALSE)
  BY <1>1, <1>2, <1>4 DEF ParseLegacyUsername
<1> QED
  BY <1>1, <1>5, <1>6

\* The form with suffixes is understood (session.go 42-82).
LEMMA LegacyIsMeant ==
    ASSUME NEW T, {"-", "fast"} \cup SessionWord \cup DOMAIN Duration \subseteq T,
           NEW credential \in Seq(T), ~Contains(credential, "-"),
           NEW w \in Wish, HasLegacyForm(w),
           NEW defaultTTL \in Int, defaultTTL > 0, NEW maxTTL \in Int, maxTTL > 0
    PROVE  ParseLegacyUsername(LegacyForm(w, credential), credential, defaultTTL, maxTTL)
             = Meaning(w, defaultTTL, maxTTL)
<1>0. \A s, t, u \in Seq(T) : (s \o t) \o u = s \o (t \o u)
  BY Associative, SMTT(30)
<1>1. w.plugin = <<>> /\ w.region = <<>> /\ w.fast \in BOOLEAN
  BY DEF HasLegacyForm, Wish
<1>2. Fold(Lower, w.plugin) = <<>> /\ Fold(Upper, w.region) = <<>>
  BY <1>1 DEF Fold
<1>3. CASE w.session = <<>>
  <2>1. w.ttl = <<>>
    BY <1>3 DEF Wish
  <2>2. LegacyForm(w, credential)
          = credential \o (IF w.fast THEN FastSuffix ELSE <<>>)
    BY <1>3, <2>1, ConcatEmptySeq DEF LegacyForm, Suffix
  <2>3. ParseLegacyUsername(LegacyForm(w, credential), credential, defaultTTL, maxTTL)
          = Info(<<>>, 0, <<>>, <<>>, w.fast)
    <3>1. CASE w.fast = TRUE
      BY <2>2, <3>1, LegacyAlone
    <3>2. CASE w.fast = FALSE
      <4>1. LegacyForm(w, credential) = credential
        BY <2>2, <3>2, ConcatEmptySeq
      <4> QED
        BY <3>2, <4>1, LegacyAlone
    <3> QED
      BY <1>1, <3>1, <3>2
  <2> QED
    BY <1>2, <1>3, <2>3 DEF Meaning
<1>4. CASE w.session # <<>>
  <2>1. /\ \A u \in SessionWord \cup DOMAIN Duration : u \in T /\ u # "-"
        /\ "-" \in T /\ "fast" \in T
    BY WordAssumption DEF Separator
  <2>2. PICK session, suffix, base, rest :
          /\ session = w.session /\ suffix = Suffix(w.ttl)
          /\ rest = session \o suffix /\ base = Append(credential, "-") \o rest
    OBVIOUS
  <2>3. session \in Seq(T) /\ session # <<>>
    <3>1. CASE \E u \in SessionWord : session = <<u>>
      BY <2>1, <3>1
    <3>2. CASE \E v, u \in SessionWord : session = <<v, "-", u>>
      BY <2>1, <3>2
    <3> QED
      BY <1>4, <2>2, <3>1, <3>2, SessionShapes
  <2>4. /\ suffix \in Seq(T)
        /\ w.ttl = <<>> => suffix = <<>>
        /\ w.ttl # <<>> => \E t \in DOMAIN Duration : w.ttl = <<t>> /\ suffix = <<"-", t>>
    <3>1. CASE w.ttl = <<>>
      BY <2>2, <3>1 DEF Suffix
    <3>2. CASE w.ttl # <<>>
      <4>1. PICK t \in DOMAIN Duration : w.ttl = <<t>>
        BY <1>4, <3>2, SessionShapes
      <4>2. suffix = <<"-", t>>
        <5>1. <<"-">> \o <<t>> = <<"-", t>>
          BY <2>1, TwoTokens
        <5>2. suffix = <<"-">> \o w.ttl
          BY <2>2, <3>2 DEF Suffix
        <5> QED
          BY <4>1, <5>1, <5>2
      <4>3. <<"-", t>> \in Seq(T)
        BY <2>1
      <4> QED
        BY <3>2, <4>1, <4>2, <4>3
    <3> QED
      BY <3>1, <3>2
  <2>5. rest \in Seq(T) /\ rest # <<>>
    BY <2>2, <2>3, <2>4, ConcatProperties, ConcatEqualIffEmpty
  <2>6. base = credential \o Suffix(w.session) \o suffix
    <3>1. PICK dash : dash = <<"-">>
      OBVIOUS
    <3>2. dash \in Seq(T) /\ Append(credential, "-") = credential \o dash
      BY <3>1, AppendIsConcat
    <3>3. Suffix(w.session) = dash \o session
      BY <1>4, <2>2, <3>1 DEF Suffix
    <3>4. (credential \o dash) \o session = credential \o (dash \o session)
      <4>1. credential \in Seq(T) /\ dash \in Seq(T) /\ session \in Seq(T)
        BY <2>3, <3>2
      <4> QED
        BY <1>0, <4>1
    <3>5. PICK head : head = credential \o dash
      OBVIOUS
    <3>6. head \in Seq(T)
      BY <3>2, <3>5
    <3>7. (head \o session) \o suffix = head \o (session \o suffix)
      <4>1. session \in Seq(T) /\ suffix \in Seq(T)
        BY <2>3, <2>4
      <4> QED
        BY <1>0, <3>6, <4>1
    <3> QED
      BY <2>2, <3>2, <3>3, <3>4, <3>5, <3>7
  <2>7. base \in Seq(T)
    <3>1. Append(credential, "-") \in Seq(T)
      BY <2>1
    <3> QED
      BY <2>2, <2>5, <3>1
  <2>8. ASSUME ~w.fast
        PROVE  ~IsSuffix(FastSuffix, base)
    <3>1. CASE w.ttl # <<>>
      <4>1. PICK t \in DOMAIN Duration : suffix = <<"-", t>>
        BY <2>4, <3>1
      <4>2. t # "fast"
        BY WordAssumption
      <4>3. PICK head, n : head = credential \o Suffix(w.session) /\ n = Len(head)
        OBVIOUS
      <4>4. head \in Seq(T) /\ n \in Nat
        <5>1. <<"-">> \in Seq(T) /\ Suffix(w.session) = <<"-">> \o session
          BY <1>4, <2>1, <2>2 DEF Suffix
        <5>2. Suffix(w.session) \in Seq(T)
          BY <2>3, <5>1
        <5> QED
          BY <4>3, <5>2
      <4>5. Len(suffix) = 2 /\ suffix[2] = t
        BY <4>1
      <4>6. ~IsSuffix(FastSuffix, suffix)
        BY <2>1, <2>4, <4>2, <4>5, SuffixOfTwo DEF FastSuffix
      <4>7. base = head \o suffix
        BY <2>6, <4>3
      <4>8. Len(suffix) >= 2
        BY <4>5
      <4>9. IsSuffix(<<"-", "fast">>, head \o suffix) <=> IsSuffix(<<"-", "fast">>, suffix)
        BY <2>1, <2>4, <4>4, <4>8, SuffixOfEnd
      <4> QED
        BY <4>6, <4>7, <4>9 DEF FastSuffix
    <3>2. CASE w.ttl = <<>>
      <4>1. PICK dashed : dashed = <<"-">> \o session
        OBVIOUS
      <4>2. ~IsSuffix(FastSuffix, dashed)
        BY <2>2, <2>8, <3>2, <4>1 DEF HasLegacyForm
      <4>3. /\ dashed \in Seq(T) /\ Len(dashed) >= 2 /\ Len(dashed) \in Nat
        <5>1. <<"-">> \in Seq(T) /\ Len(<<"-">>) = 1 /\ Len(session) \in Nat \ {0}
          BY <2>1, <2>3
        <5>2. dashed \in Seq(T) /\ Len(dashed) = 1 + Len(session)
          BY <2>3, <4>1, <5>1, ConcatProperties
        <5> QED
          BY <5>1, <5>2
      <4>4. base = credential \o dashed
        <5>1. suffix = <<>> /\ Suffix(w.session) = dashed
          BY <1>4, <2>2, <2>4, <3>2, <4>1 DEF Suffix
        <5>2. credential \o dashed \in Seq(T)
          BY <4>3
        <5> QED
          BY <2>6, <5>1, <5>2, ConcatEmptySeq
      <4> QED
        BY <2>1, <4>2, <4>3, <4>4, SuffixOfEnd DEF FastSuffix
    <3> QED
      BY <3>1, <3>2
  <2>9. ParseLegacyUsername(LegacyForm(w, credential), credential, defaultTTL, maxTTL)
          = Expression(rest, w.fast, defaultTTL, maxTTL)
    <3>1. LegacyForm(w, credential) = base \o (IF w.fast THEN FastSuffix ELSE <<>>)
      BY <2>2, <2>6 DEF LegacyForm
    <3>0. /\ ~IsSuffix(FastSuffix, base) =>
               ParseLegacyUsername(base, credential, defaultTTL, maxTTL)
                 = Expression(rest, FALSE, defaultTTL, maxTTL)
          /\ ParseLegacyUsername(base \o FastSuffix, credential, defaultTTL, maxTTL)
               = Expression(rest, TRUE, defaultTTL, maxTTL)
      <4>1. "-" \in T /\ "fast" \in T
        OBVIOUS
      <4>2. ~IsSuffix(FastSuffix, Append(credential, "-") \o rest) =>
              ParseLegacyUsername(Append(credential, "-") \o rest, credential,
                                  defaultTTL, maxTTL)
                = Expression(rest, FALSE, defaultTTL, maxTTL)
        BY <2>5, <4>1, LegacyRest
      <4>3. ParseLegacyUsername(Append(credential, "-") \o rest \o FastSuffix, credential,
                                defaultTTL, maxTTL)
              = Expression(rest, TRUE, defaultTTL, maxTTL)
        BY <2>5, <4>1, LegacyFast
      <4> QED
        BY <2>2, <4>2, <4>3
    <3>2. CASE w.fast = TRUE
      BY <3>0, <3>1, <3>2
    <3>3. CASE w.fast = FALSE
      <4>1. LegacyForm(w, credential) = base
        BY <2>7, <3>1, <3>3, ConcatEmptySeq
      <4> QED
        BY <2>8, <3>0, <3>3, <4>1
    <3> QED
      BY <1>1, <3>2, <3>3
  <2>10. Expression(rest, w.fast, defaultTTL, maxTTL)
           = Info(w.session,
                  Clamp(IF w.ttl = <<>> THEN defaultTTL ELSE Duration[w.ttl[1]],
                        defaultTTL, maxTTL),
                  <<>>, <<>>, w.fast)
    <3>1. CASE w.ttl = <<>>
      <4>1. rest = session
        BY <2>2, <2>3, <2>4, <3>1, ConcatEmptySeq
      <4>2. ~EndsInDuration(session)
        BY <2>2, <3>1 DEF HasLegacyForm
      <4>3. \/ \E u \in SessionWord : session = <<u>>
            \/ \E v, u \in SessionWord : session = <<v, "-", u>>
        BY <1>4, <2>2, SessionShapes
      <4>4. "-" \in T /\ SessionWord \subseteq T
        OBVIOUS
      <4>5. Expression(session, w.fast, defaultTTL, maxTTL)
              = Info(session, Clamp(defaultTTL, defaultTTL, maxTTL), <<>>, <<>>, w.fast)
        BY <4>2, <4>3, <4>4, SessionKept
      <4> QED
        BY <2>2, <3>1, <4>1, <4>5
    <3>2. CASE w.ttl # <<>>
      <4>1. PICK t \in DOMAIN Duration : w.ttl = <<t>> /\ suffix = <<"-", t>>
        BY <2>4, <3>2
      <4>2. "-" \in T /\ t \in T /\ t # "-"
        BY <2>1
      <4>3. Expression(session \o <<"-", t>>, w.fast, defaultTTL, maxTTL)
              = Info(session, Clamp(Duration[t], defaultTTL, maxTTL), <<>>, <<>>, w.fast)
        BY <2>3, <4>2, LifetimeTaken
      <4>4. w.ttl[1] = t
        BY <4>1
      <4> QED
        BY <2>2, <3>2, <4>1, <4>3, <4>4
    <3> QED
      BY <3>1, <3>2
  <2>11. w.ttl # <<>> => Duration[w.ttl[1]] \in Int /\ Duration[w.ttl[1]] > 0
    BY <1>4, SessionShapes, WordAssumption
  <2>12. Clamp(IF w.ttl = <<>> THEN defaultTTL ELSE Duration[w.ttl[1]], defaultTTL, maxTTL)
          = IF maxTTL < (IF w.ttl = <<>> THEN defaultTTL ELSE Duration[w.ttl[1]])
              THEN maxTTL ELSE (IF w.ttl = <<>> THEN defaultTTL ELSE Duration[w.ttl[1]])
    BY <2>11 DEF Clamp
  <2>13. Meaning(w, defaultTTL, maxTTL)
           = Info(w.session,
                  Clamp(IF w.ttl = <<>> THEN defaultTTL ELSE Duration[w.ttl[1]],
                        defaultTTL, maxTTL),
                  <<>>, <<>>, w.fast)
    BY <1>2, <1>4, <2>12 DEF Meaning
  <2> QED
    BY <2>9, <2>10, <2>13
<1> QED
  BY <1>3, <1>4

-----------------------------------------------------------------------------
(* The user names. *)

\* Every token that a wish or a credential may hold.
Token(credential) ==
    ToSet(credential) \cup Separator \cup Key \cup {"true"} \cup SessionWord
    \cup PluginWord \cup RegionWord \cup DOMAIN Duration

\* The texts that wishes are made of.
LEMMA ShortTexts ==
    ASSUME NEW W
    PROVE  /\ <<>> \in Seq(W)
           /\ \A u \in W : <<u>> \in Seq(W)
           /\ "-" \in W => \A v, u \in W : <<v, "-", u>> \in Seq(W)
OBVIOUS

\* Each text of a wish is one of them, over any set with its words.
LEMMA WishTexts ==
    ASSUME NEW W, {"true", "-"} \cup SessionWord \cup PluginWord \cup RegionWord
                    \cup DOMAIN Duration \subseteq W,
           NEW w \in Wish, NEW k \in Key
    PROVE  Text(w, k) \in Seq(W)
<1>1. CASE k = "session"
  <2>1. Text(w, k) = w.session
    BY <1>1 DEF Text
  <2>2. \/ w.session = <<>>
        \/ \E u \in W : w.session = <<u>>
        \/ \E v, u \in W : w.session = <<v, "-", u>>
    BY SessionShapes
  <2>3. "-" \in W
    OBVIOUS
  <2> QED
    BY <2>1, <2>2, <2>3, ShortTexts
<1>2. CASE k \in {"ttl", "plugin", "region"}
  <2>1. Text(w, k) = w[k]
    BY <1>2 DEF Text
  <2>2. w[k] = <<>> \/ \E u \in W : w[k] = <<u>>
    BY <1>2 DEF Wish, Optional, Single, Ttl
  <2> QED
    BY <2>1, <2>2, ShortTexts
<1>3. CASE k = "fast"
  <2>1. Text(w, k) = <<"true">> \/ Text(w, k) = <<>>
    BY <1>3 DEF Text
  <2>2. "true" \in W
    OBVIOUS
  <2> QED
    BY <2>1, <2>2, ShortTexts
<1> QED
  BY <1>1, <1>2, <1>3 DEF Key

\* No word of a wish holds a separator.
LEMMA WishesAreWritable ==
    ASSUME NEW credential, NEW w \in Wish
    PROVE  Writable(Token(credential), w)
<1>1. PICK W : W = Token(credential) \ {"~"}
  OBVIOUS
<1>2. /\ {"~", "="} \cup Key \subseteq Token(credential)
      /\ {"true", "-"} \cup SessionWord \cup PluginWord \cup RegionWord
           \cup DOMAIN Duration \subseteq W
  BY <1>1, WordAssumption DEF Token, Separator
<1>3. \A k \in Key : Text(w, k) \in Seq(W)
  BY <1>2, WishTexts
<1> QED
  BY <1>1, <1>2, <1>3 DEF Writable

\* A wish that says nothing is written as the credential alone.
LEMMA SpellsNoMore ==
    ASSUME NEW T, NEW w \in Wish, NEW credential \in Seq(T), NEW name,
           Spells(T, name, credential, w, Key), ~Contains(name, "~")
    PROVE  /\ name = credential
           /\ w.session = <<>> /\ w.plugin = <<>> /\ w.region = <<>> /\ w.fast = FALSE
<1>1. name \in Seq(T) /\ Split(name, "~")[0] = credential
  BY DEF Spells
<1>2. Cuts(name, "~") = {}
  BY DEF Cuts, Contains
<1>3. name = credential
  <2>1. PICK j : j = Len(name) + 1
    OBVIOUS
  <2>2. Stops(name, "~", 0, j)
    BY <1>1, <1>2, <2>1 DEF Stops
  <2>3. Split(name, "~")[0] = SubSeq(name, 0 + 1, j - 1)
    BY <1>1, <2>2, PartEnds
  <2>4. 0 + 1 = 1 /\ j - 1 = Len(name)
    BY <1>1, <2>1
  <2> QED
    BY <1>1, <2>3, <2>4, SubSeqFull
<1>4. \A k \in Key : Text(w, k) = <<>>
  BY <1>2 DEF Spells
<1>5. /\ Text(w, "session") = w.session /\ Text(w, "plugin") = w.plugin
      /\ Text(w, "region") = w.region
      /\ Text(w, "fast") = (IF w.fast THEN <<"true">> ELSE <<>>)
  BY DEF Text
<1>6. w.fast = FALSE
  <2>1. Text(w, "fast") = <<>>
    BY <1>4 DEF Key
  <2>2. <<"true">> # <<>>
    OBVIOUS
  <2>3. w.fast \in BOOLEAN
    BY DEF Wish
  <2> QED
    BY <1>5, <2>1, <2>2, <2>3
<1> QED
  BY <1>3, <1>4, <1>5, <1>6 DEF Key

\* Whatever the order of the keys, a name in the structured form is understood
\* (session.go 84-134).
THEOREM NamesInAnyOrder ==
    ASSUME NEW credential, credential \in Seq(ToSet(credential)),
           ~Contains(credential, "-"), ~Contains(credential, "~"),
           NEW w \in Wish, NEW o \in [1 .. 5 -> Key],
           \A i, j \in 1 .. 5 : i # j => o[i] # o[j],
           \A k \in Key : \E i \in 1 .. 5 : o[i] = k,
           NEW defaultTTL \in Int, defaultTTL > 0, NEW maxTTL \in Int, maxTTL > 0
    PROVE  ParseSessionUsername(StructuredForm(w, credential, o), credential,
                                defaultTTL, maxTTL)
             = Meaning(w, defaultTTL, maxTTL)
<1> DEFINE T == Token(credential)
<1>1. credential \in Seq(T)
  BY SeqMonotonic DEF Token
<1>2. Writable(T, w)
  BY WishesAreWritable
<1>3. "-" \in T /\ "fast" \in T
  BY DEF Token, Separator, Key
<1> HIDE DEF T
<1>4. PICK name1, name2, name3, name4, name5 :
        /\ name1 = credential \o Part(w, o[1])
        /\ name2 = name1 \o Part(w, o[2])
        /\ name3 = name2 \o Part(w, o[3])
        /\ name4 = name3 \o Part(w, o[4])
        /\ name5 = name4 \o Part(w, o[5])
  OBVIOUS
<1>5. /\ o[1] \in Key /\ o[2] \in Key /\ o[3] \in Key /\ o[4] \in Key /\ o[5] \in Key
      /\ o[2] \notin {o[1]} /\ o[3] \notin {o[1], o[2]} /\ o[4] \notin {o[1], o[2], o[3]}
      /\ o[5] \notin {o[1], o[2], o[3], o[4]}
  OBVIOUS
<1>6. Spells(T, credential, credential, w, {})
  BY <1>1, SpellsNothing
<1>7. Spells(T, name1, credential, w, {o[1]})
  <2>1. Spells(T, name1, credential, w, {} \cup {o[1]})
    BY <1>2, <1>4, <1>5, <1>6, SpellsMore
  <2> QED
    BY <2>1
<1>8. Spells(T, name2, credential, w, {o[1], o[2]})
  <2>1. Spells(T, name2, credential, w, {o[1]} \cup {o[2]})
    BY <1>2, <1>4, <1>5, <1>7, SpellsMore
  <2>2. {o[1]} \cup {o[2]} = {o[1], o[2]}
    OBVIOUS
  <2> QED
    BY <2>1, <2>2
<1>9. Spells(T, name3, credential, w, {o[1], o[2], o[3]})
  <2>1. Spells(T, name3, credential, w, {o[1], o[2]} \cup {o[3]})
    BY <1>2, <1>4, <1>5, <1>8, SpellsMore
  <2>2. {o[1], o[2]} \cup {o[3]} = {o[1], o[2], o[3]}
    OBVIOUS
  <2> QED
    BY <2>1, <2>2
<1>10. Spells(T, name4, credential, w, {o[1], o[2], o[3], o[4]})
  <2>1. Spells(T, name4, credential, w, {o[1], o[2], o[3]} \cup {o[4]})
    BY <1>2, <1>4, <1>5, <1>9, SpellsMore
  <2>2. {o[1], o[2], o[3]} \cup {o[4]} = {o[1], o[2], o[3], o[4]}
    OBVIOUS
  <2> QED
    BY <2>1, <2>2
<1>11. Spells(T, name5, credential, w, Key)
  <2>1. Spells(T, name5, credential, w, {o[1], o[2], o[3], o[4]} \cup {o[5]})
    BY <1>2, <1>4, <1>5, <1>10, SpellsMore
  <2>2. {o[1], o[2], o[3], o[4]} \cup {o[5]} = Key
    BY <1>5
  <2> QED
    BY <2>1, <2>2
<1>12. name5 = StructuredForm(w, credential, o)
  BY <1>4 DEF StructuredForm
<1>13. ParseSessionUsername(name5, credential, defaultTTL, maxTTL)
         = Meaning(w, defaultTTL, maxTTL)
  <2>1. CASE Contains(name5, "~")
    BY <1>2, <1>11, <2>1, SpelledIsMeant DEF ParseSessionUsername
  <2>2. CASE ~Contains(name5, "~")
    <3>1. /\ name5 = credential
          /\ w.session = <<>> /\ w.plugin = <<>> /\ w.region = <<>> /\ w.fast = FALSE
      BY <1>1, <1>11, <2>2, SpellsNoMore
    <3>2. ParseLegacyUsername(credential, credential, defaultTTL, maxTTL)
            = Info(<<>>, 0, <<>>, <<>>, FALSE)
      BY <1>1, <1>3, LegacyAlone
    <3>3. Fold(Lower, <<>>) = <<>> /\ Fold(Upper, <<>>) = <<>>
      BY DEF Fold
    <3>4. Meaning(w, defaultTTL, maxTTL) = Info(<<>>, 0, <<>>, <<>>, FALSE)
      BY <3>1, <3>3 DEF Meaning
    <3> QED
      BY <2>2, <3>1, <3>2, <3>4 DEF ParseSessionUsername
  <2> QED
    BY <2>1, <2>2
<1> QED
  BY <1>12, <1>13

\* A name in the form with suffixes has no separator of the structured form.
LEMMA LegacyTokens ==
    ASSUME NEW W, {"-", "fast", "true"} \cup SessionWord \cup PluginWord \cup RegionWord
                    \cup DOMAIN Duration \subseteq W,
           "~" \notin W, NEW credential \in Seq(W), NEW w \in Wish
    PROVE  ~Contains(LegacyForm(w, credential), "~")
<1>1. PICK session, ttl, ending :
        /\ session = Suffix(w.session) /\ ttl = Suffix(w.ttl)
        /\ ending = (IF w.fast THEN FastSuffix ELSE <<>>)
  OBVIOUS
<1>2. /\ w.session \in Seq(W) /\ w.ttl \in Seq(W)
  <2>1. /\ Text(w, "session") \in Seq(W) /\ Text(w, "ttl") \in Seq(W)
    BY WishTexts DEF Key
  <2>2. Text(w, "session") = w.session /\ Text(w, "ttl") = w.ttl
    BY DEF Text
  <2> QED
    BY <2>1, <2>2
<1>3. session \in Seq(W) /\ ttl \in Seq(W) /\ ending \in Seq(W)
  <2>1. <<"-">> \in Seq(W) /\ <<>> \in Seq(W) /\ FastSuffix \in Seq(W)
    BY DEF FastSuffix
  <2>2. <<"-">> \o w.session \in Seq(W) /\ <<"-">> \o w.ttl \in Seq(W)
    BY <1>2, <2>1, ConcatProperties
  <2> QED
    BY <1>1, <2>1, <2>2 DEF Suffix
<1>4. LegacyForm(w, credential) \in Seq(W)
  <2>1. LegacyForm(w, credential) = credential \o session \o ttl \o ending
    BY <1>1 DEF LegacyForm
  <2>2. credential \o session \in Seq(W)
    BY <1>3, ConcatProperties
  <2>3. credential \o session \o ttl \in Seq(W)
    BY <1>3, <2>2, ConcatProperties
  <2>4. credential \o session \o ttl \o ending \in Seq(W)
    BY <1>3, <2>3, ConcatProperties
  <2> QED
    BY <2>1, <2>4
<1> QED
  BY <1>4, ElementOfSeq DEF Contains

\* Every documented form of every wish is understood, for every vocabulary and
\* every credential without a separator (session.go 37-134).
THEOREM NamesAreUnderstood ==
    ASSUME NEW credential, credential \in Seq(ToSet(credential)),
           ~Contains(credential, "-"), ~Contains(credential, "~"),
           NEW defaultTTL \in Int, defaultTTL > 0, NEW maxTTL \in Int, maxTTL > 0
    PROVE  FormsAreUnderstood(credential, defaultTTL, maxTTL)
<1>1. ASSUME NEW w \in Wish, NEW o \in KeyOrders
      PROVE  ParseSessionUsername(StructuredForm(w, credential, o), credential,
                                  defaultTTL, maxTTL)
               = Meaning(w, defaultTTL, maxTTL)
  <2>1. /\ o \in [1 .. 5 -> Key]
        /\ \A i, j \in 1 .. 5 : i # j => o[i] # o[j]
        /\ \A k \in Key : \E i \in 1 .. 5 : o[i] = k
    <3>1. CASE o = <<"plugin", "region", "session", "ttl", "fast">>
      <4>1. /\ o[1] = "plugin" /\ o[2] = "region" /\ o[3] = "session"
            /\ o[4] = "ttl" /\ o[5] = "fast" /\ o = [i \in 1 .. 5 |-> o[i]]
        BY <3>1
      <4> QED
        BY <4>1 DEF Key
    <3>2. CASE o = <<"fast", "ttl", "session", "region", "plugin">>
      <4>1. /\ o[1] = "fast" /\ o[2] = "ttl" /\ o[3] = "session"
            /\ o[4] = "region" /\ o[5] = "plugin" /\ o = [i \in 1 .. 5 |-> o[i]]
        BY <3>2
      <4> QED
        BY <4>1 DEF Key
    <3> QED
      BY <3>1, <3>2 DEF KeyOrders
  <2> QED
    BY <2>1, NamesInAnyOrder
<1>2. ASSUME NEW w \in Wish, HasLegacyForm(w)
      PROVE  ParseSessionUsername(LegacyForm(w, credential), credential, defaultTTL, maxTTL)
               = Meaning(w, defaultTTL, maxTTL)
  <2>1. PICK W : W = Token(credential) \ {"~"}
    OBVIOUS
  <2>2. /\ {"-", "fast", "true"} \cup SessionWord \cup PluginWord \cup RegionWord
             \cup DOMAIN Duration \subseteq W
        /\ "~" \notin W
    BY <2>1, WordAssumption DEF Token, Separator, Key
  <2>3. credential \in Seq(W)
    <3>1. \A i \in 1 .. Len(credential) : credential[i] \in W
      BY <2>1 DEF Token, Contains, ToSet
    <3> QED
      BY <3>1
  <2>4. ~Contains(LegacyForm(w, credential), "~")
    BY <2>2, <2>3, LegacyTokens
  <2>5. {"-", "fast"} \cup SessionWord \cup DOMAIN Duration \subseteq W
    BY <2>2
  <2>6. ParseLegacyUsername(LegacyForm(w, credential), credential, defaultTTL, maxTTL)
          = Meaning(w, defaultTTL, maxTTL)
    BY <1>2, <2>3, <2>5, LegacyIsMeant
  <2> QED
    BY <2>4, <2>6 DEF ParseSessionUsername
<1> QED
  BY <1>1, <1>2 DEF FormsAreUnderstood

-----------------------------------------------------------------------------
(* The start of the server. *)

\* The configuration keeps its type, and one that is checked is complete and
\* has passed the check.
StartInv ==
    /\ phase \in {"file", "loaded", "checked", "refused", "serving"}
    /\ IsConfiguration(cfg)
    /\ phase = "checked" => ApplyDefaults(cfg) = cfg /\ CheckOK(cfg)

LEMMA ZeroIsConfiguration == IsConfiguration(Zero)
<1>1. Zero = [s \in Setting |-> Zero[s]]
  BY DEF Setting, Zero
<1>2. \A s \in Number : Zero[s] \in Int
  <2>1. /\ Zero.handshake = 0 /\ Zero.percent = 0 /\ Zero.defaultTTL = 0
        /\ Zero.maxTTL = 0 /\ Zero.statuses = 0 /\ Zero.timeout = 0
        /\ Zero.concurrency = 0 /\ Zero.maxFailures = 0 /\ Zero.retries = 0
        /\ Zero.window = 0 /\ Zero.retention = 0 /\ Zero.grace = 0
        /\ Zero.jitter = 0 /\ Zero.fplInterval = 0 /\ Zero.fofaSize = 0
        /\ Zero.fofaQueries = 0 /\ Zero.fofaInterval = 0
        /\ Zero.singboxConcurrency = 0 /\ Zero.singboxInterval = 0
    BY DEF Zero
  <2> QED
    BY <2>1 DEF Number
<1>3. (\A s \in Flag : Zero[s] \in BOOLEAN) /\ Zero.sources = <<>> /\ Zero.username = <<>>
  BY DEF Flag, Zero
<1>4. /\ <<>> \in Seq(ToSet(<<>>))
      /\ <<>> \in Seq([type : STRING, named : BOOLEAN, url : BOOLEAN, path : BOOLEAN])
  OBVIOUS
<1> QED
  BY <1>1, <1>2, <1>3, <1>4 DEF IsConfiguration

LEMMA StartStepInv == StartInv /\ [ServerNext]_serverVars => StartInv'
<1> SUFFICES ASSUME StartInv, [ServerNext]_serverVars PROVE StartInv'
  OBVIOUS
<1>1. CASE Load
  BY <1>1, DefaultsTyped DEF Load, Step, StartInv
<1>2. CASE Check
  <2>1. cfg' = ApplyDefaults(cfg) /\ IsConfiguration(cfg')
    BY <1>2, DefaultsTyped DEF Check, StartInv
  <2>2. ApplyDefaults(cfg') = cfg'
    BY <2>1, DefaultsOnce DEF StartInv
  <2> QED
    BY <1>2, <2>1, <2>2 DEF Check, Step, StartInv
<1>3. CASE StartServer
  BY <1>3, ZeroIsConfiguration DEF StartServer, Step, StartInv
<1>4. CASE UNCHANGED startVars
  BY <1>4 DEF startVars, StartInv
<1> QED
  BY <1>1, <1>2, <1>3, <1>4 DEF ServerNext, serverVars, startVars

\* The start of the server keeps its invariant, whatever the file sets
\* (app.go 71-100).
THEOREM StartInvariance == ServerSpec => []StartInv
<1>1. ServerInit => StartInv
  BY FilesAssumption DEF ServerInit, StartInv
<1> QED
  BY <1>1, StartStepInv, PTL DEF ServerSpec

\* The server behaves as the listener: what is proved of it, and its liveness,
\* holds from the start of the process (app.go 120-160).
THEOREM ServerIsListener == ServerSpec => Spec
<1>1. ServerInit => Init
  BY DEF ServerInit
<1>2. [ServerNext]_serverVars => [Next]_vars
  BY DEF ServerNext, Load, Check, StartServer, serverVars
<1> QED
  BY <1>1, <1>2, PTL DEF ServerSpec, Spec

\* Type correctness of the server: the listener's variables and the settings
\* (server.go 25-37, config.go 112-248).
THEOREM ServerTypeCorrect == ServerSpec => []ServerTypeOK
<1>1. StartInv /\ ListenerTypeOK => ServerTypeOK
  BY DEF StartInv, ServerTypeOK
<1> QED
  BY <1>1, StartInvariance, ServerIsListener, ListenerTypeCorrect, PTL

\* For any number of connections: when Wait returns, what was counted when it
\* began is closed (server.go 85-105, 118-124).
THEOREM ServerWaitCloses == ServerSpec => []WaitLeavesNoneOpen
BY ServerIsListener, ListenerWaitCloses, PTL

\* A checked configuration satisfies what the rest of the service relies on,
\* for every value of every setting (config.go 258-375, 392-498; app.go 183-193,
\* 233-237, 295-304).
THEOREM ServerChecksConfig == ServerSpec => []CheckedConfigIsSound
<1>1. StartInv => CheckedConfigIsSound
  <2> SUFFICES ASSUME StartInv, phase = "checked"
               PROVE  /\ ActivePlugins(cfg) = Started(cfg)
                      /\ \A p \in Started(cfg) :
                            /\ Concurrency(cfg, p) \in 1 .. cfg.concurrency
                            /\ \A d \in Delays(cfg, p) : d >= 0
                      /\ \A s \in {"handshake", "defaultTTL", "maxTTL", "timeout",
                                   "window", "maxFailures", "percent"} : cfg[s] > 0
    BY DEF StartInv, CheckedConfigIsSound
  <2>1. CheckOK(cfg) /\ IsConfiguration(cfg)
    BY DEF StartInv
  <2>2. ActivePlugins(cfg) = Started(cfg)
    <3>1. cfg.sources # <<>> <=> Len(cfg.sources) > 0
      BY <2>1 DEF IsConfiguration
    <3>2. cfg.fpl \in BOOLEAN /\ cfg.fofa \in BOOLEAN /\ cfg.singbox \in BOOLEAN
      BY <2>1 DEF IsConfiguration, Flag
    <3> QED
      BY <3>1, <3>2 DEF ActivePlugins, Started
  <2>3. ASSUME NEW p \in Started(cfg)
        PROVE  Concurrency(cfg, p) \in 1 .. cfg.concurrency
    <3>1. cfg.concurrency \in Int /\ cfg.singboxConcurrency \in Int
      BY <2>1 DEF IsConfiguration, Number
    <3>2. cfg.concurrency \in 1 .. 1000
      BY <2>1 DEF CheckOK, FailureOK
    <3>3. PICK all, own, n :
             /\ all = cfg.concurrency /\ own = cfg.singboxConcurrency
             /\ n = Concurrency(cfg, p)
      OBVIOUS
    <3>4. n = all \/ (n = own /\ own > 0 /\ (all <= 0 \/ own < all))
      BY <3>3 DEF Concurrency
    <3>5. all \in 1 .. 1000 /\ own \in Int
      BY <3>1, <3>2, <3>3
    <3>6. n \in 1 .. all
      BY <3>4, <3>5
    <3> QED
      BY <3>3, <3>6
  <2>4. ASSUME NEW p \in Started(cfg), NEW d \in Delays(cfg, p)
        PROVE  d >= 0
    <3> DEFINE i == Interval(cfg, p)
               j == cfg.jitter
    <3>1. i \in Int /\ i > 0
      <4>1. /\ cfg.fplInterval \in Int /\ cfg.fofaInterval \in Int
            /\ cfg.singboxInterval \in Int
        BY <2>1 DEF IsConfiguration, Number
      <4>2. p \in {"fpl", "fofa", "singbox"}
        BY DEF Started
      <4> QED
        BY <4>1, <4>2 DEF Interval
    <3>2. j \in 0 .. 10
      BY <2>1 DEF CheckOK, FailureOK
    <3>3. d \in {10 * i - j * i, 10 * i, 10 * i + j * i}
      BY <3>1, <3>2 DEF Delays
    <3> HIDE DEF i, j
    <3>4. 10 * i - j * i = (10 - j) * i
      BY <3>1, <3>2
    <3>5. (10 - j) * i >= 0 /\ j * i >= 0 /\ j * i \in Int
      BY <3>1, <3>2
    <3> QED
      BY <3>1, <3>3, <3>4, <3>5
  <2>5. \A s \in {"handshake", "defaultTTL", "maxTTL", "timeout", "window",
                  "maxFailures", "percent"} : cfg[s] > 0
    <3>1. cfg.handshake > 0
      BY <2>1 DEF CheckOK, ServerOK
    <3>2. cfg.percent > 0 /\ cfg.defaultTTL > 0 /\ cfg.maxTTL > 0
      BY <2>1 DEF CheckOK, SchedulerOK
    <3>3. cfg.timeout > 0 /\ cfg.maxFailures > 0 /\ cfg.window > 0
      BY <2>1 DEF CheckOK, FailureOK
    <3> QED
      BY <3>1, <3>2, <3>3
  <2> QED
    BY <2>2, <2>3, <2>4, <2>5
<1> QED
  BY <1>1, StartInvariance, PTL

\* For every configuration file and every vocabulary: with a credential that
\* passes the check, every documented user name is understood (session.go 37-134,
\* config.go 378-420).
THEOREM ServerNames == ServerSpec => []NamesParseAsDocumented
<1>1. StartInv => NamesParseAsDocumented
  <2> SUFFICES ASSUME StartInv, phase = "checked", cfg.auth = "enabled",
                      ~Contains(cfg.username, "~")
               PROVE  FormsAreUnderstood(cfg.username, cfg.defaultTTL, cfg.maxTTL)
    BY DEF NamesParseAsDocumented
  <2>1. CheckOK(cfg) /\ IsConfiguration(cfg)
    BY DEF StartInv
  <2>2. cfg.username \in Seq(ToSet(cfg.username))
    BY <2>1 DEF IsConfiguration
  <2>3. ~Contains(cfg.username, "-")
    BY <2>1 DEF CheckOK, ServerOK
  <2>4. cfg.defaultTTL \in Int /\ cfg.maxTTL \in Int
    BY <2>1 DEF IsConfiguration, Number
  <2>5. cfg.defaultTTL > 0 /\ cfg.maxTTL > 0
    BY <2>1 DEF CheckOK, SchedulerOK
  <2> QED
    BY <2>2, <2>3, <2>4, <2>5, NamesAreUnderstood
<1> QED
  BY <1>1, StartInvariance, PTL
=============================================================================
