------------------------------ MODULE LogProofs ------------------------------
(***************************************************************************)
(* Proofs about Log, for every number of threads and of descriptors.        *)
(***************************************************************************)
EXTENDS Log, FiniteSetTheorems, WellFoundedInduction, TLAPS

-----------------------------------------------------------------------------
(* The inductive invariant. *)

PC == {"idle", "send", "reconnect", "dial", "resend", "copy"}
Outcome == {"none", "delivered", "rejected", "failed", "lost", "crossed"}

CallRecord ==
    [pc : PC, framed : BOOLEAN, types : SUBSET SocketType, got : Outcome, over : SocketType \cup {"none"}, down : BOOLEAN]

\* Where everything is.
Shape ==
    /\ target \in Targets
    /\ server \in [up : BOOLEAN, type : SocketType]
    /\ files \in [Fd -> File]
    /\ log \in [fd : Fd \cup {NoFd}, stream : BOOLEAN]
    /\ state \in {"log", "syslog", "gone"}
    /\ call \in [Thread -> CallRecord]
    /\ crossed \in BOOLEAN /\ raced \in BOOLEAN /\ changed \in BOOLEAN /\ refused \in BOOLEAN

Dials(t) == call[t].pc = "dial"
Quiet == \A t \in Thread : ~Dials(t)

\* One thread at a time is between the close and the assignment, where log->fd is not a
\* connection; otherwise it is one, or there is none. Whoever dials finds a free number.
OneDials ==
    /\ \A t, u \in Thread : Dials(t) /\ Dials(u) => t = u
    /\ Quiet => log.fd = NoFd \/ files[log.fd].what = "conn"
    /\ ~Quiet => TypeOf(log.fd) = "none"
    /\ TypeOf(log.fd) = "none" => \E f \in Fd : files[f] = Free
    /\ ~crossed

\* The flag stream tells the type of the connection.
StreamTold == log.fd # NoFd /\ files[log.fd].what = "conn" /\ Quiet => (log.stream <=> files[log.fd].type = "stream")

\* What is connected to a local server and alive is of the type the server has.
LiveLocal ==
    target.local => \A f \in Fd : files[f].what = "conn" /\ files[f].live => server.up /\ server.type = files[f].type

\* While a thread that has not seen the server down is in its call, the server is up and
\* the connection, if there is one, has its type.
InTouch ==
    target.local =>
        \A t \in Busy : ~call[t].down => server.up /\ TypeOf(log.fd) \in {"none", server.type}

\* The types with which a thread dials have the server's among them, and a connection made
\* for a thread, by itself or by a later one, is alive when it sends again.
Redialled ==
    target.local =>
        \A t \in Thread : ~call[t].down =>
            /\ \A u \in Thread : Dials(u) /\ (t = u \/ call[t].pc = "resend") => server.type \in call[u].types
            /\ call[t].pc = "resend" /\ Quiet => log.fd # NoFd /\ files[log.fd].what = "conn" /\ files[log.fd].live
            /\ call[t].pc = "copy" => call[t].got \in {"delivered", "rejected"}

\* The framing of a local server follows its type as long as the type stays; on the network a
\* datagram socket is never followed by a stream.
FramedLocal ==
    target.local /\ ~changed =>
        /\ state = "log" => (log.stream <=> server.type = "stream")
        /\ state = "log" => \A t \in Busy : call[t].framed <=> server.type = "stream"
FramedRemote ==
    ~target.local =>
        /\ \A t \in Busy : ~call[t].framed => ~log.stream
        /\ \A t \in Thread : Dials(t) /\ "dgram" \notin call[t].types => log.stream
Framed == \A t \in Thread : call[t].over = "stream" /\ ~call[t].framed => changed

\* A server given as tcp:// has a stream, or a thread dials for one.
TcpOnly ==
    target.types = {"stream"} /\ ~refused =>
        /\ state = "log" => log.fd # NoFd
        /\ \A t \in Thread : Dials(t) => call[t].types = {"stream"}
        /\ TypeOf(log.fd) # "dgram"

Calm == OneDials /\ StreamTold /\ Redialled /\ FramedLocal /\ FramedRemote /\ Framed /\ TcpOnly

IInv == Shape /\ LiveLocal /\ InTouch /\ (~raced => Calm)

-----------------------------------------------------------------------------
USE LogAssumption

(* Lemmas about the descriptor table. *)

LEMMA MinInSet ==
  ASSUME NEW S \in SUBSET Nat, S # {}
  PROVE  Min(S) \in S
  <1> DEFINE R == {ss \in Nat \X Nat : ss[1] < ss[2]}
  <1>1. IsWellFoundedOn(R, Nat)
    BY NatLessThanWellFounded, Zenon DEF OpToRel
  <1>2. \A x, y \in Nat : y < x => <<y, x>> \in R
    OBVIOUS
  <1> HIDE DEF R
  <1>3. PICK x \in S : \A y \in S : <<y, x>> \notin R
    BY <1>1, WFMin, Zenon
  <1>4. ASSUME NEW y \in S PROVE x <= y
    <2>1. x \in Nat /\ y \in Nat
      OBVIOUS
    <2>2. ~(y < x)
      BY <1>2, <1>3, <2>1, Zenon
    <2> QED
      BY <2>1, <2>2
  <1> QED
    BY <1>4, Zenon DEF Min

LEMMA CardinalityTwo ==
  ASSUME NEW S, NEW x, Cardinality(S) >= 2
  PROVE  S # {} /\ S # {x}
  <1>1. Cardinality({}) = 0 /\ Cardinality({x}) = 1
    BY FS_EmptySet, FS_Singleton
  <1>2. S = {} => ~(Cardinality(S) >= 2)
    BY <1>1
  <1>3. S = {x} => ~(Cardinality(S) >= 2)
    BY <1>1
  <1> QED
    BY <1>2, <1>3

\* A file is free, a connection or somebody else's.
LEMMA Kinds ==
  ASSUME NEW f \in File
  PROVE  /\ f.what \in {"free", "other", "conn"}
         /\ f.what = "free" <=> f = Free
         /\ f.what = "conn" => f.type \in SocketType /\ f.live \in BOOLEAN
         /\ f.what = "conn" => [f EXCEPT !.live = FALSE] \in File /\ [f EXCEPT !.live = FALSE].what = "conn"
               /\ [f EXCEPT !.live = FALSE].type = f.type /\ [f EXCEPT !.live = FALSE].live = FALSE
  <1>1. CASE f \in [what : {"free", "other"}]
    <2>1. f = [what |-> f.what] /\ f.what \in {"free", "other"}
      BY <1>1
    <2>2. f.what = "free" => f = Free
      BY <2>1 DEF Free
    <2>3. f = Free => f.what = "free"
      BY DEF Free
    <2> QED
      BY <2>1, <2>2, <2>3
  <1>2. CASE f \in [what : {"conn"}, type : SocketType, live : BOOLEAN]
    <2>1. f.what = "conn" /\ f # Free
      BY <1>2 DEF Free
    <2>2. [f EXCEPT !.live = FALSE] \in [what : {"conn"}, type : SocketType, live : BOOLEAN]
      BY <1>2
    <2> QED
      BY <1>2, <2>1, <2>2 DEF File
  <1> QED
    BY <1>1, <1>2 DEF File

LEMMA ConnIs ==
  ASSUME NEW type \in SocketType
  PROVE  Conn(type) \in File /\ Conn(type).what = "conn" /\ Conn(type).type = type /\ Conn(type).live
  BY DEF Conn, File

LEMMA FreeIs == Free \in File /\ Free.what = "free"
  BY DEF File, Free

\* A new socket gets a number that is free.
LEMMA LowestIsFree ==
  ASSUME NEW table \in [Fd -> File], NEW f \in Fd, table[f] = Free
  PROVE  LowestFree(table) \in Fd /\ table[LowestFree(table)] = Free
  <1> DEFINE S == {g \in Fd : table[g].what = "free"}
  <1>1. f \in S
    BY FreeIs
  <1>2. Min(S) \in S
    <2>1. S \in SUBSET Nat /\ S # {}
      BY <1>1
    <2> HIDE DEF S
    <2> QED
      BY <2>1, MinInSet
  <1> QED
    BY <1>2, Kinds DEF LowestFree

LEMMA LogRecord ==
  ASSUME NEW x \in Fd \cup {NoFd}, NEW b \in BOOLEAN, NEW l, l = [fd |-> x, stream |-> b]
  PROVE  l \in [fd : Fd \cup {NoFd}, stream : BOOLEAN] /\ l.fd = x /\ l.stream = b
  BY Zenon

\* What log_connect0 comes to.
LEMMA ConnectedIs ==
  ASSUME Shape, NEW types \in SUBSET SocketType
  PROVE  /\ Connected(types) \in SocketType \cup {"none"}
         /\ Connected(types) # "none" => Connected(types) \in types
         /\ target.local /\ Connected(types) # "none" => server.up /\ Connected(types) = server.type
         /\ target.local /\ server.up /\ server.type \in types => Connected(types) = server.type
         /\ ~target.local /\ "dgram" \in types => Connected(types) = "dgram"
  BY DEF Connected, Accepts, Shape, SocketType

\* TypeOf is the type of the connection, and "none" without one.
LEMMA TypeOfIs ==
  ASSUME Shape
  PROVE  /\ TypeOf(log.fd) = "none" <=> ~(log.fd # NoFd /\ files[log.fd].what = "conn")
         /\ log.fd # NoFd /\ files[log.fd].what = "conn" => TypeOf(log.fd) = files[log.fd].type
         /\ log.fd # NoFd => log.fd \in Fd /\ files[log.fd] \in File
         /\ TypeOf(log.fd) \in SocketType \cup {"none"}
  BY Kinds DEF Shape, TypeOf, SocketType

LEMMA CallRecordIs ==
  ASSUME Shape, NEW t \in Thread
  PROVE  /\ call[t].pc \in PC /\ call[t].framed \in BOOLEAN /\ call[t].types \in SUBSET SocketType
         /\ call[t].got \in Outcome /\ call[t].over \in SocketType \cup {"none"} /\ call[t].down \in BOOLEAN
         /\ call[t] \in CallRecord
  BY DEF Shape, CallRecord

-----------------------------------------------------------------------------
LEMMA InitInv == Init => IInv
  <1> SUFFICES ASSUME Init PROVE IInv
    OBVIOUS
  <1> DEFINE table == [f \in Fd |-> Free]
             type == Connected(target.types)
  <1>1. table \in [Fd -> File] /\ \E f \in Fd : table[f] = Free
    <2>1. Fd # {}
      BY FS_EmptySet DEF Init
    <2> QED
      BY <2>1, FreeIs
  <1>2. LowestFree(table) \in Fd
    BY <1>1, LowestIsFree
  <1>3. type \in SocketType \cup {"none"} /\ (target.local /\ type # "none" => server.up /\ type = server.type)
        /\ (type # "none" => type \in target.types)
    BY DEF Init, Connected, Accepts, SocketType, Targets
  <1>4. /\ type = "none" => files = table /\ log = [fd |-> NoFd, stream |-> FALSE]
        /\ type # "none" => /\ files = [table EXCEPT ![LowestFree(table)] = Conn(type)]
                            /\ log = [fd |-> LowestFree(table), stream |-> type = "stream"]
    BY Zenon DEF Init, LogInit
  <1> HIDE DEF type, table
  <1>5. Idle \in CallRecord
    BY DEF Idle, CallRecord, PC, Outcome
  <1>9. \A t \in Thread : call[t] = Idle
    BY DEF Init
  <1>6. CASE type = "none"
    <2>1. files = table /\ log.fd = NoFd /\ log.stream = FALSE /\ log \in [fd : Fd \cup {NoFd}, stream : BOOLEAN]
      BY <1>4, <1>6, LogRecord, Zenon
    <2>2. Shape /\ state # "log"
      BY <1>1, <1>5, <2>1 DEF Init, Shape
    <2>3. \A f \in Fd : files[f] = Free
      BY <2>1 DEF table
    <2>4. TypeOf(log.fd) = "none"
      BY <2>1 DEF TypeOf
    <2>5. LiveLocal
      BY <2>3, FreeIs DEF LiveLocal
    <2> QED
      BY <1>1, <2>1, <2>2, <2>3, <2>4, <2>5, <1>9 DEF Init, IInv, InTouch, Calm, OneDials, StreamTold, Redialled,
         FramedLocal, FramedRemote, Framed, TcpOnly, Busy, Dials, Quiet, Idle
  <1>7. CASE type # "none"
    <2>1. Conn(type) \in File /\ Conn(type).what = "conn" /\ Conn(type).type = type
      BY <1>3, <1>7, ConnIs
    <2>2. files \in [Fd -> File]
      BY <1>1, <1>4, <1>7, <2>1
    <2>3. log.fd = LowestFree(table) /\ log.fd \in Fd /\ log.fd # NoFd /\ log.stream = (type = "stream")
          /\ log \in [fd : Fd \cup {NoFd}, stream : BOOLEAN]
      <3>1. log.fd = LowestFree(table) /\ log.stream = (type = "stream") /\ log \in [fd : Fd \cup {NoFd}, stream : BOOLEAN]
        BY <1>2, <1>4, <1>7, LogRecord, Zenon
      <3> QED
        BY <1>2, <3>1 DEF NoFd
    <2>4. files[log.fd] = Conn(type) /\ \A f \in Fd : f # log.fd => files[f] = Free
      BY <1>1, <1>2, <1>4, <1>7, <2>3 DEF table
    <2>5. Shape /\ state = "log"
      BY <1>5, <2>2, <2>3 DEF Init, Shape
    <2>6. TypeOf(log.fd) = type
      BY <2>1, <2>3, <2>4 DEF TypeOf
    <2>7. LiveLocal
      BY <1>3, <1>7, <2>1, <2>4, FreeIs DEF LiveLocal
    <2> QED
      BY <1>1, <1>3, <1>7, <2>1, <2>3, <2>4, <2>5, <2>6, <2>7, <1>9 DEF Init, IInv, InTouch, Calm, OneDials, StreamTold, Redialled,
         FramedLocal, FramedRemote, Framed, TcpOnly, Busy, Dials, Quiet, Idle
  <1> QED
    BY <1>6, <1>7

-----------------------------------------------------------------------------
(* The steps of a call. *)

\* What a step of a thread that changes nothing but its call, the histories crossed and
\* raced, and sends nothing of its own has to show of the call.
Keeps(t, c) ==
    /\ c \in CallRecord /\ ~(c.pc = "dial")
    /\ c.pc # "idle" /\ ~c.down /\ target.local => server.up /\ TypeOf(log.fd) \in {"none", server.type}
    /\ ~raced' =>
          /\ ~Dials(t) /\ ~crossed'
          /\ target.local /\ ~c.down =>
                /\ c.pc # "resend"
                /\ c.pc = "copy" => c.got \in {"delivered", "rejected"}
          /\ target.local /\ ~changed /\ c.pc # "idle" /\ state = "log" => (c.framed <=> server.type = "stream")
          /\ ~target.local /\ c.pc # "idle" /\ ~c.framed => ~log.stream
          /\ c.over = "stream" /\ ~c.framed => changed

LEMMA KeepsInv ==
  ASSUME IInv, NEW t \in Thread, NEW c, call' = [call EXCEPT ![t] = c], Keeps(t, c),
         UNCHANGED <<target, server, changed, files, log, state, refused>>,
         crossed' \in BOOLEAN, raced' \in BOOLEAN, raced => raced'
  PROVE  IInv'
  <1>1. call'[t] = c /\ (\A u \in Thread : u # t => call'[u] = call[u]) /\ call' \in [Thread -> CallRecord]
    BY DEF IInv, Shape, Keeps
  <1>2. Shape'
    BY <1>1 DEF IInv, Shape
  <1>3. TypeOf(log.fd)' = TypeOf(log.fd)
    BY DEF TypeOf
  <1>4. LiveLocal'
    BY DEF IInv, LiveLocal
  <1>5. InTouch'
    BY <1>1, <1>3 DEF IInv, InTouch, Busy, Keeps
  <1>6. ASSUME ~raced' PROVE Calm'
    <2>1. Calm /\ ~Dials(t) /\ ~raced
      BY <1>6 DEF IInv, Keeps
    <2>2. \A u \in Thread : Dials(u)' <=> Dials(u)
      BY <1>1, <2>1 DEF Dials, Keeps
    <2>3. Quiet' <=> Quiet
      BY <2>2 DEF Quiet
    <2>4. OneDials'
      BY <1>3, <1>6, <2>1, <2>2, <2>3 DEF Calm, OneDials, Keeps
    <2>5. StreamTold'
      BY <2>1, <2>3 DEF Calm, StreamTold
    <2>6. Redialled'
      BY <1>1, <1>6, <2>1, <2>2, <2>3 DEF Calm, Redialled, Keeps, Dials
    <2>7. FramedLocal'
      BY <1>1, <1>6, <2>1 DEF Calm, FramedLocal, Keeps, Busy
    <2>8. FramedRemote'
      BY <1>1, <1>6, <2>1, <2>2 DEF Calm, FramedRemote, Keeps, Busy, Dials
    <2>9. Framed'
      BY <1>1, <1>6, <2>1 DEF Calm, Framed, Keeps
    <2>10. TcpOnly'
      BY <1>1, <1>3, <2>1, <2>2 DEF Calm, TcpOnly, Dials
    <2> QED
      BY <2>4, <2>5, <2>6, <2>7, <2>8, <2>9, <2>10 DEF Calm
  <1> QED
    BY <1>2, <1>4, <1>5, <1>6 DEF IInv

LEMMA CallInv ==
  ASSUME IInv, NEW t \in Thread, Call(t)
  PROVE  IInv'
  <1> DEFINE c == [Idle EXCEPT !.pc = "send", !.framed = log.stream, !.down = Mismatch(server)]
  <1>1. Mismatch(server) \in BOOLEAN /\ (~Mismatch(server) => server.up /\ TypeOf(log.fd) \in {"none", server.type})
    BY DEF Mismatch
  <1>3. log.stream \in BOOLEAN
    BY DEF IInv, Shape
  <1>4. c \in CallRecord /\ c.pc = "send" /\ c.framed = log.stream /\ c.over = "none" /\ c.down = Mismatch(server)
    <2>1. ASSUME NEW a \in BOOLEAN, NEW b \in BOOLEAN, NEW d, d = [Idle EXCEPT !.pc = "send", !.framed = a, !.down = b]
          PROVE  d \in CallRecord /\ d.pc = "send" /\ d.framed = a /\ d.over = "none" /\ d.down = b
      BY <2>1 DEF Idle, CallRecord, PC, Outcome
    <2> QED
      BY <1>1, <1>3, <2>1
  <1>5. call' = [call EXCEPT ![t] = c] /\ state = "log" /\ call[t].pc = "idle"
    BY DEF Call, At
  <1> HIDE DEF c
  <1>6. Keeps(t, c)
    BY <1>1, <1>3, <1>4, <1>5 DEF Call, IInv, Calm, OneDials, FramedLocal, Keeps, Dials
  <1> QED
    BY <1>5, <1>6, KeepsInv DEF Call, Elsewhere, IInv, Shape

LEMMA CopyInv ==
  ASSUME IInv, NEW t \in Thread, Copy(t)
  PROVE  IInv'
  <1>1. Idle \in CallRecord /\ Idle.pc = "idle" /\ Idle.over = "none" /\ Idle.down = FALSE
    BY DEF Idle, CallRecord, PC, Outcome
  <1>2. Keeps(t, Idle)
    BY <1>1 DEF Copy, At, IInv, Calm, OneDials, Keeps, Dials
  <1> QED
    BY <1>2, KeepsInv DEF Copy, Elsewhere, IInv, Shape

\* When nobody dials, a send goes over the connection of the log or fails.
LEMMA SentIs ==
  ASSUME Shape, LiveLocal, NEW got \in Sent(log.fd)
  PROVE  /\ got \in Outcome \ {"none"}
         /\ got = "crossed" => log.fd # NoFd /\ files[log.fd].what = "other"
         /\ got = "delivered" => log.fd # NoFd /\ files[log.fd].what = "conn"
         /\ got = "delivered" /\ target.local => server.type = files[log.fd].type
         /\ got = "lost" => ~target.local
         /\ log.fd # NoFd /\ files[log.fd].what = "conn" /\ files[log.fd].live /\ target.local => got \in {"delivered", "rejected"}
  <1>1. CASE log.fd = NoFd
    BY <1>1 DEF Sent, Outcome
  <1>2. CASE log.fd # NoFd
    <2>1. files[log.fd] \in File /\ log.fd \in Fd
      BY <1>2 DEF Shape
    <2>2. files[log.fd].what \in {"free", "other", "conn"}
      BY <2>1, Kinds
    <2>3. CASE files[log.fd].what = "free"
      BY <1>2, <2>3 DEF Sent, Outcome
    <2>4. CASE files[log.fd].what = "other"
      BY <1>2, <2>4 DEF Sent, Outcome
    <2>5. CASE files[log.fd].what = "conn"
      BY <1>2, <2>1, <2>5 DEF Sent, Outcome, LiveLocal
    <2> QED
      BY <2>2, <2>3, <2>4, <2>5
  <1> QED
    BY <1>1, <1>2

\* Send and Resend. Without a race nobody dials, so log->fd is the log's connection.
LEMMA SendsInv ==
  ASSUME IInv, NEW t \in Thread, NEW onFailure \in {"reconnect", "copy"}, Sends(t, onFailure),
         state = "log", call[t].pc \in {"send", "resend"},
         onFailure = "copy" => call[t].pc = "resend"
  PROVE  IInv'
  <1>1. PICK got \in Sent(log.fd) :
          /\ call' = [call EXCEPT ![t].pc = IF got \in {"failed", "rejected"} THEN onFailure ELSE "copy",
                                ![t].got = got,
                                ![t].over = IF got = "delivered" THEN files[log.fd].type ELSE "none"]
          /\ crossed' = (crossed \/ got = "crossed")
    BY DEF Sends
  <1> DEFINE c == [call[t] EXCEPT !.pc = IF got \in {"failed", "rejected"} THEN onFailure ELSE "copy", !.got = got,
                                  !.over = IF got = "delivered" THEN files[log.fd].type ELSE "none"]
  <1>2. call' = [call EXCEPT ![t] = c]
    BY <1>1 DEF IInv, Shape, CallRecord
  <1>3. got \in Outcome
    BY SentIs DEF IInv
  <1>4. got = "delivered" => files[log.fd].type \in SocketType
    BY SentIs, TypeOfIs, Kinds DEF IInv
  <1>5. /\ c \in CallRecord /\ c.pc = (IF got \in {"failed", "rejected"} THEN onFailure ELSE "copy") /\ c.got = got
        /\ c.over = (IF got = "delivered" THEN files[log.fd].type ELSE "none")
        /\ c.framed = call[t].framed /\ c.down = call[t].down
    <2>1. call[t] \in CallRecord
      BY DEF IInv, Shape
    <2> QED
      BY <1>3, <1>4, <2>1 DEF CallRecord, PC
  <1> HIDE DEF c
  <1>6. t \in Busy
    BY DEF Busy
  <1>7. raced' \in BOOLEAN /\ (raced => raced') /\ (~raced' => \A u \in Thread : u # t => ~Dials(u)) /\ crossed' \in BOOLEAN
    BY <1>1 DEF Sends, Races, Dials, IInv, Shape
  <1>8. Keeps(t, c)
    <2>1. c.pc # "dial" /\ c.pc # "idle" /\ c.pc # "resend"
      BY <1>5
    <2>2. ~c.down /\ target.local => server.up /\ TypeOf(log.fd) \in {"none", server.type}
      BY <1>5, <1>6 DEF IInv, InTouch
    <2>3. ASSUME ~raced' PROVE Calm /\ Quiet /\ ~Dials(t)
      BY <1>7, <2>3 DEF IInv, Quiet, Dials
    <2>4. ASSUME ~raced' PROVE ~crossed'
      BY <1>1, <2>3, <2>4, SentIs DEF IInv, Calm, OneDials
    <2>5. ASSUME ~raced', target.local, ~c.down, c.pc = "copy" PROVE c.got \in {"delivered", "rejected"}
      BY <1>5, <2>3, <2>5, SentIs DEF IInv, Calm, Redialled, OneDials, Outcome
    <2>6. ASSUME ~raced', target.local, ~changed PROVE c.framed <=> server.type = "stream"
      BY <1>5, <1>6, <2>3, <2>6 DEF Calm, FramedLocal
    <2>7. ASSUME ~raced', ~target.local, ~c.framed PROVE ~log.stream
      BY <1>5, <1>6, <2>3, <2>7 DEF Calm, FramedRemote
    <2>8. ASSUME ~raced', c.over = "stream", ~c.framed PROVE changed
      <3>1. got = "delivered" /\ files[log.fd].type = "stream"
        BY <1>5, <2>8
      <3>2. log.stream
        BY <2>3, <2>8, <3>1, SentIs DEF IInv, Calm, StreamTold
      <3> QED
        BY <2>6, <2>7, <2>8, <3>1, <3>2, SentIs DEF IInv
    <2> QED
      BY <1>5, <2>1, <2>2, <2>3, <2>4, <2>5, <2>6, <2>7, <2>8 DEF Keeps
  <1> QED
    BY <1>2, <1>7, <1>8, KeepsInv DEF Sends, Elsewhere

LEMMA ReconnectInv ==
  ASSUME IInv, NEW t \in Thread, Reconnect(t)
  PROVE  IInv'
  <1>1. PICK types \in IF log.fd = NoFd \/ files[log.fd].what = "free" THEN {SocketType} ELSE OldType(log.fd) :
          call' = [call EXCEPT ![t].pc = "dial", ![t].types = types]
    BY DEF Reconnect
  <1>2. log.fd # NoFd => log.fd \in Fd /\ files[log.fd] \in File
    BY DEF IInv, Shape
  <1>3. types \in SUBSET SocketType
    BY <1>1, <1>2, Kinds DEF OldType, SocketType
  <1> DEFINE c == [call[t] EXCEPT !.pc = "dial", !.types = types]
  <1>4. /\ call' = [call EXCEPT ![t] = c] /\ c \in CallRecord /\ c.pc = "dial" /\ c.types = types
        /\ c.framed = call[t].framed /\ c.down = call[t].down /\ c.over = call[t].over
    <2>1. call[t] \in CallRecord
      BY DEF IInv, Shape
    <2>2. c \in CallRecord
      BY <1>3, <2>1 DEF CallRecord, PC
    <2>3. c.pc = "dial" /\ c.types = types /\ c.framed = call[t].framed /\ c.down = call[t].down /\ c.over = call[t].over
      BY <2>1 DEF CallRecord
    <2> QED
      BY <1>1, <2>2, <2>3 DEF IInv, Shape
  <1> HIDE DEF c
  <1>5. call'[t] = c /\ (\A u \in Thread : u # t => call'[u] = call[u]) /\ call' \in [Thread -> CallRecord]
    BY <1>4 DEF IInv, Shape
  <1>6. /\ files' \in [Fd -> File]
        /\ \A f \in Fd : files'[f] = IF f = log.fd THEN Free ELSE files[f]
    <2>1. NoFd \notin Fd
      BY DEF NoFd
    <2> QED
      BY <1>2, <2>1, FreeIs DEF Reconnect, IInv, Shape
  <1>7. raced' \in BOOLEAN /\ (raced => raced') /\ (~raced' => \A u \in Thread : u # t => ~Dials(u)) /\ crossed' \in BOOLEAN
        /\ state' \in {state, "gone"} /\ t \in Busy /\ call[t].pc = "reconnect" /\ state = "log"
    BY DEF Reconnect, Races, Dials, IInv, Shape, Busy, At
  <1>8. Shape'
    BY <1>5, <1>6, <1>7 DEF IInv, Shape, Reconnect, Elsewhere
  <1>9. TypeOf(log.fd)' = "none" /\ UNCHANGED <<log, target, server, changed, refused>>
    BY <1>2, <1>6, FreeIs DEF TypeOf, Reconnect, Elsewhere
  <1>10. LiveLocal'
    BY <1>6, <1>9, FreeIs DEF IInv, LiveLocal
  <1>11. InTouch'
    BY <1>4, <1>5, <1>7, <1>9 DEF IInv, InTouch, Busy
  <1>12. ASSUME ~raced' PROVE Calm'
    <2>1. Calm /\ Quiet
      BY <1>7, <1>12 DEF IInv, Quiet, Dials
    <2>2. (\A u \in Thread : Dials(u)' <=> u = t) /\ ~Quiet'
      BY <1>4, <1>5, <2>1 DEF Dials, Quiet
    <2>3. log.fd = NoFd \/ files[log.fd].what = "conn"
      BY <2>1 DEF Calm, OneDials
    <2>4. types = IF log.fd = NoFd THEN SocketType ELSE {files[log.fd].type}
      BY <1>1, <2>3 DEF OldType
    <2>5. OneDials'
      <3>1. ~crossed'
        BY <2>1, <2>3 DEF Reconnect, Calm, OneDials
      <3>2. \E f \in Fd : files'[f] = Free
        BY <1>2, <1>6, <2>1, TypeOfIs DEF Calm, OneDials, IInv
      <3> QED
        BY <1>9, <2>2, <3>1, <3>2 DEF OneDials
    <2>6. StreamTold'
      BY <2>2 DEF StreamTold
    <2>7. Redialled'
      <3> SUFFICES ASSUME target.local, NEW u \in Thread, ~call'[u].down, u = t \/ call'[u].pc = "resend"
                   PROVE  server.type \in types
        <4>1. ASSUME target.local, NEW u \in Thread, ~call'[u].down, call'[u].pc = "copy" PROVE call'[u].got \in {"delivered", "rejected"}
          BY <1>4, <1>5, <2>1, <4>1 DEF Calm, Redialled
        <4> QED
          BY <1>4, <1>5, <1>9, <2>2, <4>1 DEF Redialled
      <3>1. u \in Busy /\ ~call[u].down
        BY <1>4, <1>5, <1>7 DEF Busy
      <3>2. TypeOf(log.fd) \in {"none", server.type}
        BY <3>1 DEF IInv, InTouch
      <3>3. server.type \in SocketType
        BY DEF IInv, Shape
      <3> QED
        BY <2>3, <2>4, <3>2, <3>3, TypeOfIs DEF IInv
    <2>8. FramedLocal'
      BY <1>4, <1>5, <1>7, <1>9, <2>1 DEF Calm, FramedLocal, Busy
    <2>9. FramedRemote'
      <3>1. "dgram" \notin types => log.stream
        BY <2>1, <2>3, <2>4, <1>2, Kinds DEF Calm, StreamTold, SocketType
      <3> QED
        BY <1>4, <1>5, <1>7, <1>9, <2>1, <2>2, <3>1 DEF Calm, FramedRemote, Busy
    <2>10. Framed'
      BY <1>4, <1>5, <1>9, <2>1 DEF Calm, Framed
    <2>11. TcpOnly'
      <3>1. ASSUME target.types = {"stream"}, ~refused PROVE types = {"stream"}
        BY <1>2, <1>7, <2>1, <2>3, <2>4, <3>1, TypeOfIs, Kinds DEF Calm, TcpOnly, IInv, SocketType
      <3> QED
        BY <1>4, <1>5, <1>7, <1>9, <2>1, <2>2, <3>1 DEF Calm, TcpOnly
    <2> QED
      BY <2>5, <2>6, <2>7, <2>8, <2>9, <2>10, <2>11 DEF Calm
  <1> QED
    BY <1>8, <1>10, <1>11, <1>12 DEF IInv

LEMMA DialInv ==
  ASSUME IInv, NEW t \in Thread, Dial(t)
  PROVE  IInv'
  <1> DEFINE type == IF \E f \in Fd : files[f] = Free THEN Connected(call[t].types) ELSE "none"
             c == [call[t] EXCEPT !.pc = "resend", !.types = {}]
             new == LowestFree(files)
  <1>1. /\ log' = IF type = "none" THEN [log EXCEPT !.fd = NoFd] ELSE [fd |-> new, stream |-> type = "stream"]
        /\ files' = IF type = "none" THEN files ELSE [files EXCEPT ![new] = Conn(type)]
        /\ refused' = (refused \/ type = "none")
    BY Zenon DEF Dial, Refused, Opened
  <1>2. /\ call' = [call EXCEPT ![t] = c] /\ c \in CallRecord /\ c.pc = "resend"
        /\ c.framed = call[t].framed /\ c.down = call[t].down /\ c.over = call[t].over
    <2>1. call[t] \in CallRecord
      BY DEF IInv, Shape
    <2>2. c \in CallRecord
      BY <2>1 DEF CallRecord, PC
    <2>3. c.pc = "resend" /\ c.framed = call[t].framed /\ c.down = call[t].down /\ c.over = call[t].over
      BY <2>1 DEF CallRecord
    <2> QED
      BY <2>2, <2>3 DEF IInv, Shape, Dial
  <1>3. call'[t] = c /\ (\A u \in Thread : u # t => call'[u] = call[u]) /\ call' \in [Thread -> CallRecord]
    BY <1>2 DEF IInv, Shape
  <1>4. call[t].types \in SUBSET SocketType /\ call[t].pc = "dial" /\ state = "log" /\ t \in Busy
        /\ UNCHANGED <<target, server, changed, state, crossed, raced>>
    BY CallRecordIs DEF IInv, Dial, At, Busy, Elsewhere
  <1>5. /\ type \in SocketType \cup {"none"}
        /\ type # "none" => type \in call[t].types /\ \E f \in Fd : files[f] = Free
        /\ target.local /\ type # "none" => server.up /\ type = server.type
        /\ target.local /\ server.up /\ server.type \in call[t].types /\ (\E f \in Fd : files[f] = Free) => type = server.type
        /\ ~target.local /\ "dgram" \in call[t].types => type \in {"dgram", "none"}
    BY <1>4, ConnectedIs DEF IInv
  <1>6. type # "none" => new \in Fd /\ files[new] = Free
    BY <1>5, LowestIsFree DEF IInv, Shape
  <1> HIDE DEF type, c, new
  <1>7. type # "none" => /\ log'.fd = new /\ (log'.stream <=> type = "stream") /\ log' \in [fd : Fd \cup {NoFd}, stream : BOOLEAN]
                         /\ log'.fd # NoFd
    <2>1. type # "none" => log'.fd = new /\ (log'.stream <=> type = "stream") /\ log' \in [fd : Fd \cup {NoFd}, stream : BOOLEAN]
      BY <1>1, <1>6, LogRecord, Zenon
    <2> QED
      BY <1>6, <2>1 DEF NoFd
  <1>8. type = "none" => log'.fd = NoFd /\ log'.stream = log.stream /\ log' \in [fd : Fd \cup {NoFd}, stream : BOOLEAN]
    BY <1>1 DEF IInv, Shape
  <1>9. type # "none" => /\ files' \in [Fd -> File]
                         /\ \A f \in Fd : f # new => files'[f] = files[f]
                         /\ files'[new].what = "conn" /\ files'[new].type = type /\ files'[new].live
    BY <1>1, <1>5, <1>6, ConnIs DEF IInv, Shape
  <1>10. Shape'
    BY <1>1, <1>3, <1>4, <1>7, <1>8, <1>9 DEF IInv, Shape
  <1>11. TypeOf(log.fd)' = type
    BY <1>1, <1>6, <1>7, <1>8, <1>9 DEF TypeOf
  <1>12. LiveLocal'
    BY <1>1, <1>4, <1>5, <1>9 DEF IInv, LiveLocal
  <1>13. InTouch'
    BY <1>2, <1>3, <1>4, <1>5, <1>11 DEF IInv, InTouch, Busy
  <1>14. ASSUME ~raced' PROVE Calm'
    <2>1. Calm /\ ~Quiet
      BY <1>4, <1>14 DEF IInv, Quiet, Dials
    <2>2. (\A u \in Thread : ~Dials(u)' /\ (Dials(u) => u = t)) /\ Quiet'
      BY <1>2, <1>3, <1>4, <2>1 DEF Calm, OneDials, Dials, Quiet
    <2>3. \E f \in Fd : files[f] = Free
      BY <2>1 DEF Calm, OneDials
    <2>4. OneDials'
      BY <1>1, <1>4, <1>7, <1>8, <1>9, <1>11, <2>1, <2>2, <2>3 DEF Calm, OneDials
    <2>5. StreamTold'
      BY <1>7, <1>8, <1>9 DEF StreamTold
    <2>6. Redialled'
      <3> SUFFICES ASSUME target.local, NEW u \in Thread, ~call'[u].down, call'[u].pc = "resend"
                   PROVE  type # "none"
        <4>1. ASSUME target.local, NEW u \in Thread, ~call'[u].down, call'[u].pc = "copy" PROVE call'[u].got \in {"delivered", "rejected"}
          BY <1>2, <1>3, <2>1, <4>1 DEF Calm, Redialled
        <4> QED
          BY <1>4, <1>7, <1>9, <2>2, <4>1 DEF Redialled
      <3>1. u \in Busy /\ ~call[u].down /\ (u = t \/ call[u].pc = "resend")
        BY <1>2, <1>3, <1>4 DEF Busy
      <3>2. server.up
        BY <3>1 DEF IInv, InTouch
      <3>3. server.type \in call[t].types
        BY <1>4, <2>1, <3>1 DEF Calm, Redialled, Dials
      <3> QED
        BY <1>5, <2>3, <3>2, <3>3 DEF IInv, Shape, SocketType
    <2>7. FramedLocal'
      <3>1. target.local /\ ~changed => (log'.stream <=> server.type = "stream")
        BY <1>4, <1>5, <1>7, <1>8, <2>1 DEF Calm, FramedLocal
      <3> QED
        BY <1>2, <1>3, <1>4, <2>1, <3>1 DEF Calm, FramedLocal, Busy
    <2>8. FramedRemote'
      <3>1. ~target.local /\ ~log.stream => ~log'.stream
        <4>1. ASSUME ~target.local, ~log.stream PROVE "dgram" \in call[t].types
          BY <1>4, <2>1, <4>1 DEF Calm, FramedRemote, Dials
        <4> QED
          BY <1>5, <1>7, <1>8, <4>1
      <3> QED
        BY <1>2, <1>3, <1>4, <2>1, <2>2, <3>1 DEF Calm, FramedRemote, Busy
    <2>9. Framed'
      BY <1>2, <1>3, <1>4, <2>1 DEF Calm, Framed
    <2>10. TcpOnly'
      <3>1. ASSUME target.types = {"stream"}, ~refused' PROVE type = "stream"
        <4>1. ~refused /\ type # "none"
          BY <1>1, <3>1 DEF IInv, Shape
        <4>2. call[t].types = {"stream"}
          BY <1>4, <2>1, <3>1, <4>1 DEF Calm, TcpOnly, Dials
        <4> QED
          BY <1>5, <4>1, <4>2
      <3> QED
        BY <1>4, <1>7, <1>11, <2>2, <3>1 DEF TcpOnly
    <2> QED
      BY <2>4, <2>5, <2>6, <2>7, <2>8, <2>9, <2>10 DEF Calm
  <1> QED
    BY <1>10, <1>12, <1>13, <1>14 DEF IInv

-----------------------------------------------------------------------------
(* The end of the process, the server and the other sockets. *)

LEMMA FiniInv ==
  ASSUME IInv, Fini
  PROVE  IInv'
  <1>1. /\ UNCHANGED <<target, server, changed, call, crossed, raced, refused>>
        /\ state' = "gone" /\ \A t \in Thread : call[t].pc = "idle"
    BY DEF Fini, Elsewhere, Busy
  <1>2. log'.fd = NoFd /\ log'.stream = log.stream /\ log' \in [fd : Fd \cup {NoFd}, stream : BOOLEAN]
    BY DEF Fini, IInv, Shape
  <1>3. NoFd \notin Fd
    BY DEF NoFd
  <1>4. files' \in [Fd -> File] /\ \A f \in Fd : files'[f] = IF f = log.fd THEN Free ELSE files[f]
    BY <1>3, FreeIs DEF Fini, IInv, Shape
  <1>5. Shape'
    BY <1>1, <1>2, <1>4 DEF IInv, Shape
  <1>6. TypeOf(log.fd)' = "none"
    BY <1>2 DEF TypeOf
  <1>7. LiveLocal' /\ InTouch'
    BY <1>1, <1>4, FreeIs DEF IInv, LiveLocal, InTouch, Busy
  <1>8. ASSUME ~raced' PROVE Calm'
    <2>1. Calm /\ Quiet
      BY <1>1, <1>8 DEF IInv, Quiet, Dials
    <2>2. \E f \in Fd : files'[f] = Free
      BY <1>4, <2>1, TypeOfIs DEF Calm, OneDials, IInv
    <2>3. OneDials' /\ StreamTold'
      BY <1>1, <1>2, <1>6, <2>1, <2>2 DEF Calm, OneDials, StreamTold, Dials, Quiet
    <2>4. Redialled' /\ FramedLocal' /\ FramedRemote'
      BY <1>1 DEF Redialled, FramedLocal, FramedRemote, Dials, Busy
    <2>5. Framed' /\ TcpOnly'
      BY <1>1, <1>6, <2>1 DEF Calm, Framed, TcpOnly, Dials
    <2> QED
      BY <2>3, <2>4, <2>5 DEF Calm
  <1> QED
    BY <1>5, <1>7, <1>8 DEF IInv

\* What the threads notice of a change of the server.
LEMMA NoticedIs ==
  ASSUME IInv, NEW s, s \in [up : BOOLEAN, type : SocketType], Noticed(s)
  PROVE  /\ call' \in [Thread -> CallRecord]
         /\ \A t \in Thread :
               /\ call'[t].pc = call[t].pc /\ call'[t].framed = call[t].framed /\ call'[t].types = call[t].types
               /\ call'[t].got = call[t].got /\ call'[t].over = call[t].over
               /\ t \in Busy => (call'[t].down <=> call[t].down \/ Mismatch(s))
               /\ t \notin Busy => call'[t].down = call[t].down
         /\ Busy' = Busy
  <1>1. ASSUME NEW t \in Thread
        PROVE  /\ call'[t] \in CallRecord
               /\ call'[t].pc = call[t].pc /\ call'[t].framed = call[t].framed /\ call'[t].types = call[t].types
               /\ call'[t].got = call[t].got /\ call'[t].over = call[t].over
               /\ t \in Busy => (call'[t].down <=> call[t].down \/ Mismatch(s))
               /\ t \notin Busy => call'[t].down = call[t].down
    <2>1. call'[t] = IF t \in Busy THEN [call[t] EXCEPT !.down = @ \/ Mismatch(s)] ELSE call[t]
      BY DEF Noticed
    <2>2. call[t] \in CallRecord /\ Mismatch(s) \in BOOLEAN
      BY DEF IInv, Shape, Mismatch
    <2> QED
      BY <2>1, <2>2 DEF CallRecord
  <1>2. call' \in [Thread -> CallRecord]
    BY <1>1 DEF Noticed
  <1> QED
    BY <1>1, <1>2 DEF Busy

LEMMA ServerStopsInv ==
  ASSUME IInv, ServerStops
  PROVE  IInv'
  <1>1. UNCHANGED <<target, log, state, crossed, raced, changed, refused>>
    BY DEF ServerStops
  <1>2. server' \in [up : BOOLEAN, type : SocketType] /\ server'.up = FALSE /\ server'.type = server.type
    BY DEF ServerStops, IInv, Shape
  <1>3. /\ files' \in [Fd -> File]
        /\ \A f \in Fd : files'[f].what = files[f].what /\ (files[f] = Free => files'[f] = Free)
                          /\ (files[f].what = "conn" => files'[f].type = files[f].type /\ ~files'[f].live)
    <2>1. ASSUME NEW f \in Fd
          PROVE  /\ files'[f] \in File /\ files'[f].what = files[f].what /\ (files[f] = Free => files'[f] = Free)
                 /\ (files[f].what = "conn" => files'[f].type = files[f].type /\ ~files'[f].live)
      <3>1. files[f] \in File /\ files'[f] = IF files[f].what = "conn" THEN [files[f] EXCEPT !.live = FALSE] ELSE files[f]
        BY DEF ServerStops, IInv, Shape
      <3> QED
        BY <3>1, Kinds, FreeIs
    <2> QED
      BY <2>1 DEF ServerStops
  <1>4. /\ call' \in [Thread -> CallRecord]
        /\ \A t \in Thread :
               /\ call'[t].pc = call[t].pc /\ call'[t].framed = call[t].framed /\ call'[t].types = call[t].types
               /\ call'[t].got = call[t].got /\ call'[t].over = call[t].over
               /\ call[t].pc # "idle" => call'[t].down
               /\ call[t].pc = "idle" => call'[t].down = call[t].down
        /\ Busy' = Busy
    <2>1. Noticed(server') /\ Mismatch(server') /\ Mismatch(server') \in BOOLEAN
      BY <1>2 DEF ServerStops, Mismatch
    <2> QED
      BY <1>2, <2>1, NoticedIs DEF Busy
  <1>5. Shape'
    BY <1>1, <1>2, <1>3, <1>4 DEF IInv, Shape
  <1>6. TypeOf(log.fd)' = TypeOf(log.fd)
    BY <1>1, <1>3 DEF TypeOf, IInv, Shape
  <1>7. LiveLocal' /\ InTouch'
    BY <1>3, <1>4 DEF LiveLocal, InTouch, Busy
  <1>8. ASSUME ~raced' PROVE Calm'
    <2>1. Calm
      BY <1>1, <1>8 DEF IInv
    <2>2. (\A t \in Thread : Dials(t)' <=> Dials(t)) /\ (Quiet' <=> Quiet)
      BY <1>4 DEF Dials, Quiet
    <2>3. OneDials' /\ StreamTold'
      BY <1>1, <1>3, <1>6, <2>1, <2>2 DEF Calm, OneDials, StreamTold, IInv, Shape
    <2>4. Redialled'
      BY <1>4, <2>2 DEF Redialled, Dials
    <2>5. FramedLocal' /\ FramedRemote'
      BY <1>1, <1>2, <1>4, <2>1, <2>2 DEF Calm, FramedLocal, FramedRemote, Busy
    <2>6. Framed' /\ TcpOnly'
      BY <1>1, <1>4, <1>6, <2>1, <2>2 DEF Calm, Framed, TcpOnly
    <2> QED
      BY <2>3, <2>4, <2>5, <2>6 DEF Calm
  <1> QED
    BY <1>5, <1>7, <1>8 DEF IInv

LEMMA ServerStartsInv ==
  ASSUME IInv, NEW type \in SocketType, ServerStarts(type)
  PROVE  IInv'
  <1>1. UNCHANGED <<target, files, log, state, crossed, raced, refused>> /\ ~server.up
    BY DEF ServerStarts
  <1>2. server' \in [up : BOOLEAN, type : SocketType] /\ server'.type = type
    BY DEF ServerStarts
  <1>3. changed' \in BOOLEAN /\ (~changed' => ~changed /\ type = server.type)
    BY DEF ServerStarts, IInv, Shape
  <1>4. /\ call' \in [Thread -> CallRecord]
        /\ \A t \in Thread :
               /\ call'[t].pc = call[t].pc /\ call'[t].framed = call[t].framed /\ call'[t].types = call[t].types
               /\ call'[t].got = call[t].got /\ call'[t].over = call[t].over
               /\ target.local /\ call[t].pc # "idle" => call'[t].down
        /\ Busy' = Busy
    <2>1. \A t \in Thread : target.local /\ call[t].pc # "idle" => call[t].down
      BY <1>1 DEF IInv, InTouch, Busy
    <2>2. Noticed(server')
      BY DEF ServerStarts
    <2> QED
      BY <1>2, <2>1, <2>2, NoticedIs DEF Busy
  <1>5. Shape'
    BY <1>1, <1>2, <1>3, <1>4 DEF IInv, Shape
  <1>6. TypeOf(log.fd)' = TypeOf(log.fd)
    BY <1>1 DEF TypeOf
  <1>7. LiveLocal' /\ InTouch'
    BY <1>1, <1>4 DEF IInv, LiveLocal, InTouch, Busy
  <1>8. ASSUME ~raced' PROVE Calm'
    <2>1. Calm
      BY <1>1, <1>8 DEF IInv
    <2>2. (\A t \in Thread : Dials(t)' <=> Dials(t)) /\ (Quiet' <=> Quiet)
      BY <1>4 DEF Dials, Quiet
    <2>3. OneDials' /\ StreamTold'
      BY <1>1, <1>6, <2>1, <2>2 DEF Calm, OneDials, StreamTold
    <2>4. Redialled'
      BY <1>1, <1>4, <2>2 DEF Redialled, Dials
    <2>5. FramedLocal' /\ FramedRemote'
      BY <1>1, <1>2, <1>3, <1>4, <2>1, <2>2 DEF Calm, FramedLocal, FramedRemote, Busy
    <2>6. Framed' /\ TcpOnly'
      BY <1>1, <1>3, <1>4, <1>6, <2>1, <2>2 DEF Calm, Framed, TcpOnly
    <2> QED
      BY <2>3, <2>4, <2>5, <2>6 DEF Calm
  <1> QED
    BY <1>5, <1>7, <1>8 DEF IInv

\* A socket of the rest of the process is neither taken from the log nor given to it.
LEMMA OtherInv ==
  ASSUME IInv, Other
  PROVE  IInv'
  <1>1. UNCHANGED <<target, server, changed, log, state, call, crossed, raced, refused>>
    BY DEF Other, Elsewhere
  <1>2. /\ files' \in [Fd -> File]
        /\ \A f \in Fd : files'[f] = files[f] \/ (files[f].what # "conn" /\ files'[f].what # "conn")
        /\ \E f \in Fd : files'[f] = Free
    <2> DEFINE other == [what |-> "other"]
               S == {f \in Fd : files[f].what = "free"}
               new == LowestFree(files)
    <2>1. other \in File /\ other.what = "other" /\ files \in [Fd -> File]
      BY DEF File, IInv, Shape
    <2>2. CASE Cardinality(S) >= 2 /\ files' = [files EXCEPT ![new] = other]
      <3>1. S # {} /\ S # {new}
        BY <2>2, CardinalityTwo
      <3>2. PICK f \in S : TRUE
        BY <3>1, Zenon
      <3>3. new \in Fd /\ files[new] = Free
        BY <2>1, <3>2, LowestIsFree, Kinds
      <3>4. PICK g \in S : g # new
        <4> HIDE DEF S, new
        <4> QED
          BY <3>1, <3>2
      <3>5. files'[g] = Free /\ g \in Fd
        BY <2>1, <2>2, <3>3, <3>4, Kinds
      <3> QED
        BY <2>1, <2>2, <3>3, <3>5, FreeIs
    <2>3. ASSUME NEW f \in Fd, files[f].what = "other", files' = [files EXCEPT ![f] = Free]
          PROVE  <1>2!1 /\ <1>2!2 /\ <1>2!3
      BY <2>1, <2>3, FreeIs
    <2> QED
      BY <2>2, <2>3 DEF Other
  <1>3. Shape'
    BY <1>1, <1>2 DEF IInv, Shape
  <1>4. TypeOf(log.fd)' = TypeOf(log.fd)
    BY <1>1, <1>2 DEF TypeOf, IInv, Shape
  <1>5. LiveLocal' /\ InTouch'
    BY <1>1, <1>2, <1>4 DEF IInv, LiveLocal, InTouch, Busy
  <1>6. ASSUME ~raced' PROVE Calm'
    <2>1. Calm
      BY <1>1, <1>6 DEF IInv
    <2>2. (\A t \in Thread : Dials(t)' <=> Dials(t)) /\ (Quiet' <=> Quiet)
      BY <1>1 DEF Dials, Quiet
    <2>3. OneDials' /\ StreamTold'
      BY <1>1, <1>2, <1>4, <2>1, <2>2 DEF Calm, OneDials, StreamTold, IInv, Shape
    <2>4. Redialled'
      BY <1>1, <1>2, <2>1, <2>2 DEF Calm, Redialled, IInv, Shape
    <2>5. FramedLocal' /\ FramedRemote' /\ Framed' /\ TcpOnly'
      BY <1>1, <1>4, <2>1, <2>2 DEF Calm, FramedLocal, FramedRemote, Framed, TcpOnly, Busy
    <2> QED
      BY <2>3, <2>4, <2>5 DEF Calm
  <1> QED
    BY <1>3, <1>5, <1>6 DEF IInv

LEMMA StepInv == IInv /\ [Next]_vars => IInv'
  <1> SUFFICES ASSUME IInv, [Next]_vars PROVE IInv'
    OBVIOUS
  <1>1. ASSUME NEW t \in Thread, Send(t) PROVE IInv'
    BY <1>1, SendsInv DEF Send, At
  <1>2. ASSUME NEW t \in Thread, Resend(t) PROVE IInv'
    BY <1>2, SendsInv DEF Resend, At
  <1>3. CASE UNCHANGED vars
    BY <1>3 DEF vars, IInv, Shape, LiveLocal, InTouch, Calm, OneDials, StreamTold, Redialled, FramedLocal, FramedRemote,
        Framed, TcpOnly, Busy, Dials, Quiet, TypeOf
  <1> QED
    BY <1>1, <1>2, <1>3, CallInv, CopyInv, ReconnectInv, DialInv, FiniInv, ServerStopsInv, ServerStartsInv, OtherInv DEF Next

LEMMA Invariance == Spec => []IInv
  BY InitInv, StepInv, PTL DEF Spec

-----------------------------------------------------------------------------
(* The properties. *)

\* log_vsend over a local socket loses a message only if the server was down, or back with
\* another type of socket, during the call, or the kernel rejects the message over a good
\* connection; for any number of threads and descriptors, while none race.
THEOREM LostProved == Spec => []LostOnlyWhileDown
  <1>1. IInv => LostOnlyWhileDown
    BY DEF IInv, Calm, Redialled, LostOnlyWhileDown, At
  <1> QED
    BY <1>1, Invariance, PTL

\* The number of the log's socket is taken for another only after a thread has used log->fd
\* while another was between the close and the assignment of log_reconnect.
THEOREM DescriptorProved == Spec => []OwnDescriptor
  <1>1. IInv => OwnDescriptor
    BY DEF IInv, Shape, Calm, OneDials, OwnDescriptor
  <1> QED
    BY <1>1, Invariance, PTL

\* log_reconnect keeps the framing of a message and the protocol of a server.
THEOREM TypeProved == Spec => []TypeKept
  <1>1. IInv => TypeKept
    BY DEF IInv, Shape, Calm, Framed, TcpOnly, TypeKept, FramedOnStream, TcpKept
  <1> QED
    BY <1>1, Invariance, PTL
=============================================================================
