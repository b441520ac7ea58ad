--------------------------------- MODULE Log ---------------------------------
(***************************************************************************)
(* The log library, log.c with the constructor and destructor of ccai_log.c:  *)
(* one connection to a syslog server for all threads of a process, without a   *)
(* lock, opened again when a message cannot be sent. The server, local or on   *)
(* the network, stops and comes back, and the rest of the process opens and     *)
(* closes sockets of its own, whose descriptors are numbers of the same table.  *)
(* Bound: the rest of the process leaves a number free, so the table runs full  *)
(* only when threads have raced and left a socket open.                        *)
(***************************************************************************)
EXTENDS Integers, FiniteSets, FiniteSetsExt

CONSTANTS
    Thread,    \* threads of the process that log
    Fd         \* numbers of the descriptor table

ASSUME LogAssumption == Fd \subseteq Nat /\ IsFiniteSet(Fd) /\ Cardinality(Fd) >= 2

SocketType == {"dgram", "stream"}
File == [what : {"free", "other"}] \cup [what : {"conn"}, type : SocketType, live : BOOLEAN]
Free == [what |-> "free"]
NoFd == -1

VARIABLES
    target,    \* what the server was given as: local or not, and the protocols asked for
    server,    \* whether it is up, and the type of its socket
    files,     \* the descriptor table
    log,       \* log_t: fd and stream
    state,     \* of the process: it logs to log, or with syslog, or is gone
    call,      \* of each thread: where log_vsend is
    crossed,   \* history: a message went to, or a close hit, a socket of the rest of the process
    raced,     \* history: log->fd was used between its close and its next value
    changed,   \* history: the server came back with a socket of the other type
    refused    \* history: a connection was refused

vars == <<target, server, files, log, state, call, crossed, raced, changed, refused>>

\* got: what became of the message; over: the type of the socket it went over; down:
\* history, during the call the server was down or not of the socket's type.
Idle == [pc |-> "idle", framed |-> FALSE, types |-> {}, got |-> "none", over |-> "none", down |-> FALSE]

\* log_connect: unix:// and a path are local; a protocol restricts the types.
Targets ==
    {[local |-> TRUE, types |-> SocketType]}
        \cup {[local |-> FALSE, types |-> ts] : ts \in {SocketType, {"dgram"}, {"stream"}}}

\* connect: a local socket needs a server of its type, a datagram to the network nobody.
Accepts(type) ==
    IF target.local THEN server.up /\ server.type = type
    ELSE type = "dgram" \/ (server.up /\ server.type = "stream")

\* unix_socket and inet_socket: a datagram socket first, then a stream.
Connected(types) ==
    CASE "dgram" \in types /\ Accepts("dgram") -> "dgram"
      [] "stream" \in types /\ ~("dgram" \in types /\ Accepts("dgram")) /\ Accepts("stream") -> "stream"
      [] OTHER -> "none"

LowestFree(table) == Min({f \in Fd : table[f].what = "free"})
Conn(type) == [what |-> "conn", type |-> type, live |-> TRUE]

\* log_connect0.
Opened(type) == [fd |-> LowestFree(files), stream |-> type = "stream"]

\* log_init.
LogInit(type, table) ==
    IF type = "none" THEN files = table /\ log = [fd |-> NoFd, stream |-> FALSE]
    ELSE /\ files = [table EXCEPT ![LowestFree(table)] = Conn(type)]
         /\ log = [fd |-> LowestFree(table), stream |-> type = "stream"]

\* ccai_log_init: without a connection the C library's syslog is used.
Init ==
    /\ target \in Targets
    /\ server \in [up : BOOLEAN, type : SocketType]
    /\ LogInit(Connected(target.types), [f \in Fd |-> Free])
    /\ state = IF log.fd = NoFd THEN "syslog" ELSE "log"
    /\ call = [t \in Thread |-> Idle]
    /\ crossed = FALSE /\ raced = FALSE /\ changed = FALSE /\ refused = FALSE

-----------------------------------------------------------------------------
Busy == {u \in Thread : call[u].pc # "idle"}
At(t, pc) == state = "log" /\ call[t].pc = pc
Elsewhere == <<target, server, changed>>

\* The type of the socket log->fd is, "none" without one.
TypeOf(fd) == IF fd # NoFd /\ files[fd].what = "conn" THEN files[fd].type ELSE "none"
Mismatch(s) == ~s.up \/ TypeOf(log.fd) \notin {"none", s.type}

\* ccai_vlog with a priority the mask lets pass, log_vsend: header and body are put
\* together, and on a stream a trailer. A priority with a facility of its own comes out as 0.
Call(t) ==
    /\ At(t, "idle")
    /\ call' = [call EXCEPT ![t] = [Idle EXCEPT !.pc = "send", !.framed = log.stream, !.down = Mismatch(server)]]
    /\ UNCHANGED <<Elsewhere, files, log, state, crossed, raced, refused>>

\* What sendmsg does. A message may be rejected though the connection is good: too long for
\* the socket, as nothing shortens a local one, or no memory for it. On the network a message
\* to no one may go unnoticed.
Sent(fd) ==
    IF fd = NoFd THEN {"failed"}
    ELSE CASE files[fd].what = "free" -> {"failed"}
           [] files[fd].what = "other" -> {"crossed", "failed"}
           [] files[fd].what = "conn" ->
                IF target.local \/ files[fd].type = "stream"
                THEN IF files[fd].live THEN {"delivered", "rejected"}
                     ELSE IF target.local THEN {"failed"} ELSE {"failed", "lost"}
                ELSE IF server.up /\ server.type = "dgram" THEN {"delivered", "rejected"} ELSE {"failed", "lost"}

\* log->fd is used while another thread is about to give it its next value.
Races(t) == raced' = (raced \/ \E u \in Thread \ {t} : call[u].pc = "dial")

\* sendmsg(log->fd, ...); an error leads to onFailure.
Sends(t, onFailure) ==
    /\ \E got \in Sent(log.fd) :
        /\ call' = [call EXCEPT ![t].pc = IF got \in {"failed", "rejected"} THEN onFailure ELSE "copy",
                                ![t].got = got,
                                ![t].over = IF got = "delivered" THEN files[log.fd].type ELSE "none"]
        /\ crossed' = (crossed \/ got = "crossed")
    /\ Races(t)
    /\ UNCHANGED <<Elsewhere, files, log, state, refused>>

\* Mutant of Send: a message that cannot be sent is given up.
SendOnce(t) == At(t, "send") /\ Sends(t, "copy")

Send(t) == At(t, "send") /\ Sends(t, "reconnect")
Resend(t) == At(t, "resend") /\ Sends(t, "copy")

\* Mutant of OldType: the socket's type is not kept.
AnyType(fd) == {SocketType}

\* The types log_reconnect may find for a socket.
OldType(fd) == IF files[fd].what = "conn" THEN {{files[fd].type}} ELSE {{"dgram"}, {"stream"}}

\* log_reconnect: the old socket's type is kept and the socket closed. A descriptor that is
\* closed already has no type: the assertion ends the process, or in a release build every
\* type is tried.
Reconnect(t) ==
    /\ At(t, "reconnect")
    /\ Races(t)
    /\ \E types \in IF log.fd = NoFd \/ files[log.fd].what = "free" THEN {SocketType} ELSE OldType(log.fd) :
        call' = [call EXCEPT ![t].pc = "dial", ![t].types = types]
    /\ files' = IF log.fd = NoFd THEN files ELSE [files EXCEPT ![log.fd] = Free]
    /\ crossed' = (crossed \/ (log.fd # NoFd /\ files[log.fd].what = "other"))
    /\ \/ UNCHANGED state
       \/ log.fd # NoFd /\ files[log.fd].what = "free" /\ state' = "gone"
    /\ UNCHANGED <<Elsewhere, log, refused>>

\* Mutant of Refused: log->fd keeps its last value.
RefusedOld == log

Refused == [log EXCEPT !.fd = NoFd]

\* log_connect0 with the types that log_reconnect kept.
Dial(t) ==
    /\ At(t, "dial")
    /\ LET type == IF \E f \in Fd : files[f] = Free THEN Connected(call[t].types) ELSE "none"
       IN  /\ log' = IF type = "none" THEN Refused ELSE Opened(type)
           /\ files' = IF type = "none" THEN files ELSE [files EXCEPT ![LowestFree(files)] = Conn(type)]
           /\ refused' = (refused \/ type = "none")
    /\ call' = [call EXCEPT ![t].pc = "resend", ![t].types = {}]
    /\ UNCHANGED <<Elsewhere, state, crossed, raced>>

\* The copy to stderr, and the return.
Copy(t) ==
    /\ At(t, "copy")
    /\ call' = [call EXCEPT ![t] = Idle]
    /\ UNCHANGED <<Elsewhere, files, log, state, crossed, raced, refused>>

\* ccai_log_fini, log_fini: at the end of the process, here when no thread logs.
Fini ==
    /\ state # "gone" /\ Busy = {}
    /\ files' = IF log.fd = NoFd THEN files ELSE [files EXCEPT ![log.fd] = Free]
    /\ log' = [log EXCEPT !.fd = NoFd] /\ state' = "gone"
    /\ UNCHANGED <<Elsewhere, call, crossed, raced, refused>>

-----------------------------------------------------------------------------
Noticed(s) == call' = [u \in Thread |-> IF u \in Busy THEN [call[u] EXCEPT !.down = @ \/ Mismatch(s)] ELSE call[u]]

\* The server stops: what was connected to it is dead.
ServerStops ==
    /\ server.up
    /\ server' = [server EXCEPT !.up = FALSE]
    /\ files' = [f \in Fd |-> IF files[f].what = "conn" THEN [files[f] EXCEPT !.live = FALSE] ELSE files[f]]
    /\ Noticed(server')
    /\ UNCHANGED <<target, log, state, crossed, raced, changed, refused>>

ServerStarts(type) ==
    /\ ~server.up
    /\ server' = [up |-> TRUE, type |-> type]
    /\ changed' = (changed \/ type # server.type)
    /\ Noticed(server')
    /\ UNCHANGED <<target, files, log, state, crossed, raced, refused>>

\* The rest of the process opens and closes a socket of its own.
Other ==
    /\ state # "gone"
    /\ \/ /\ Cardinality({f \in Fd : files[f].what = "free"}) >= 2
          /\ files' = [files EXCEPT ![LowestFree(files)] = [what |-> "other"]]
       \/ \E f \in Fd : files[f].what = "other" /\ files' = [files EXCEPT ![f] = Free]
    /\ UNCHANGED <<Elsewhere, log, state, call, crossed, raced, refused>>

Next ==
    \/ \E t \in Thread : Call(t) \/ Send(t) \/ Reconnect(t) \/ Dial(t) \/ Resend(t) \/ Copy(t)
    \/ Fini \/ ServerStops \/ Other
    \/ \E type \in SocketType : ServerStarts(type)

Spec == Init /\ [][Next]_vars

-----------------------------------------------------------------------------
\* log_vsend over a local socket: a message is lost only when the server was down, or back
\* with the other type of socket, at some time during the call, or when the kernel rejects it
\* over a good connection. A server that was down before does not matter: the message is sent
\* again on a new connection.
LostOnlyWhileDown ==
    \A t \in Thread :
        At(t, "copy") /\ target.local /\ ~raced /\ call[t].got # "delivered" =>
            call[t].down \/ call[t].got = "rejected"

\* The connection's descriptor is never taken for a socket of the rest of the process, whose
\* sockets get the same numbers, unless one thread uses log->fd while another is between
\* the close and the assignment of log_reconnect.
OwnDescriptor == crossed => raced

\* What arrives over a stream has the trailer that separates it from the next message, as
\* long as the server keeps its type and no threads race: the trailer is decided before the message is sent
\* again on another connection.
FramedOnStream ==
    \A t \in Thread : call[t].over = "stream" /\ ~call[t].framed => changed \/ raced

\* A server given as tcp:// is spoken to over a stream until a connection is refused; after
\* that every type is tried, and a datagram socket connects to the network at once.
TcpKept ==
    target.types = {"stream"} /\ ~refused /\ ~raced => TypeOf(log.fd) # "dgram"

\* log_reconnect keeps the type of the connection, for the framing of the message that is
\* sent again and for the protocol the server was given with.
TypeKept == FramedOnStream /\ TcpKept
=============================================================================
