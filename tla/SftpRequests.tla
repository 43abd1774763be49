---------------------------- MODULE SftpRequests ----------------------------
(***************************************************************************)
(* The requests of an SFTP session (lib/protocol/SFTP.js): a client that   *)
(* numbers its requests and keeps their callbacks in _requests, a server   *)
(* whose application answers them in any order or not at all, and the end  *)
(* of the channel from either side while requests are unanswered.          *)
(*                                                                         *)
(* A request is known by the response that completes it: "HANDLE",         *)
(* "STATUS", "ATTRS", "NAME", "DATA" or "EXTENDED"; any of them may be     *)
(* answered by an error STATUS instead.  Packets carry, besides the id,    *)
(* the number of the call they belong to, which no code looks at: it says  *)
(* afterwards whose answer a callback was given.                           *)
(***************************************************************************)
EXTENDS Integers, Sequences, FiniteSets

CONSTANTS Width,           \* bits of a request id: 32
          MaxCalls,        \* bound: requests made in all
          MaxPending       \* bound: requests the server has not answered

ASSUME SftpAssumption ==
    /\ Width \in Nat \ {0}
    /\ MaxCalls \in Nat
    /\ MaxPending \in 1..(2^Width - 1)

VARIABLES
    \* --- the client ---
    version,               \* VERSION came: 'ready' was emitted
    writeReqid,            \* _writeReqid
    requests,              \* _requests: id -> number of the call whose callback it keeps
    readable,              \* push(null) has not been called
    cIn, cOut,             \* incoming.state, outgoing.state
    \* --- the server ---
    sVersion,              \* INIT came
    asked,                 \* requests the application has been given and not answered
    sIn, sOut,
    \* --- the connection ---
    up, down,              \* packets towards the server and towards the client
    sock,                  \* the socket is open
    \* --- history ---
    calls,                 \* requests made
    times,                 \* how often each callback was called
    answer,                \* the call whose answer it was given; 0: 'No response from server'
    late,                  \* calls made when the client's channel was no longer readable
    spoiled,               \* calls whose response was malformed
    negative               \* calls whose id is negative

client  == <<version, writeReqid, requests, readable, cIn, cOut>>
server  == <<sVersion, asked, sIn, sOut>>
history == <<calls, times, answer, late, spoiled, negative>>
vars    == <<client, server, up, down, sock, history>>

Calls == 1..MaxCalls
Ids   == -(2^(Width - 1))..(2^(Width - 1) - 1)
Wants == {"HANDLE", "STATUS", "ATTRS", "NAME", "DATA", "EXTENDED"}

Packet(type, id, call) == [type |-> type, id |-> id, call |-> call]
CLOSE == Packet("CLOSE", 0, 0)
EOF   == Packet("EOF", 0, 0)

\* The constructors, and _init() of the client, which sends INIT.
Fresh ==
    /\ version = FALSE /\ sVersion = FALSE
    /\ writeReqid = -1
    /\ up = <<Packet("INIT", 0, 0)>>

\* A session whose earlier requests, any number of them, have all been answered.
Used ==
    /\ version = TRUE /\ sVersion = TRUE
    /\ writeReqid \in Ids
    /\ up = <<>>

Init ==
    /\ Fresh \/ Used
    /\ requests = <<>> /\ readable = TRUE
    /\ cIn = "open" /\ cOut = "open"
    /\ asked = {} /\ sIn = "open" /\ sOut = "open"
    /\ down = <<>> /\ sock = TRUE
    /\ calls = 0 /\ times = [c \in Calls |-> 0] /\ answer = [c \in Calls |-> 0]
    /\ late = {} /\ spoiled = {} /\ negative = {}

-----------------------------------------------------------------------------
(* Requests.                                                               *)

\* (n + 1) & MAX_REQID: the operands of & are signed integers of Width bits.
NextReqid(n) == IF n + 1 = 2^(Width - 1) THEN -(2^(Width - 1)) ELSE n + 1

\* writeUInt32BE() and readUInt32BE(): the id on the wire is unsigned.
WireId(n) == n % 2^Width

\* tryWritePayload() once the channel is no longer open, or the socket gone:
\* the payload counts as sent.
Send(q, state, m) == IF sock /\ state = "open" THEN Append(q, m) ELSE q

\* What is under way: requests the server has not answered, and answers.
UnderWay == asked \cup {up[i] : i \in DOMAIN up} \cup {down[i] : i \in DOMAIN down}

\* Bounds of the model: no request is still open after 2^Width later ones, and
\* at most MaxPending are at the server.
Bounded(id) ==
    /\ calls < MaxCalls
    /\ id \notin DOMAIN requests
    /\ \A m \in UnderWay : m.type \in Wants => m.id # WireId(id)
    /\ Cardinality({m \in UnderWay : m.type \in Wants}) < MaxPending

Request(want) ==
    LET id == NextReqid(writeReqid)
    IN  /\ version /\ Bounded(id)
        /\ writeReqid' = id
        /\ requests' = [i \in DOMAIN requests \cup {id} |-> IF i = id THEN calls + 1 ELSE requests[i]]
        /\ up' = Send(up, cOut, Packet(want, WireId(id), calls + 1))
        /\ calls' = calls + 1
        /\ late' = IF readable THEN late ELSE late \cup {calls + 1}
        /\ negative' = IF id >= 0 THEN negative ELSE negative \cup {calls + 1}
        /\ UNCHANGED <<version, readable, cIn, cOut, server, down, sock,
                       times, answer, spoiled>>

open     == Request("HANDLE")
close    == Request("STATUS")
read     == Request("DATA")
write    == Request("STATUS")
unlink   == Request("STATUS")
rename   == Request("STATUS")
mkdir    == Request("STATUS")
rmdir    == Request("STATUS")
readdir  == Request("NAME")
fstat    == Request("ATTRS")
stat     == Request("ATTRS")
lstat    == Request("ATTRS")
opendir  == Request("HANDLE")
setstat  == Request("STATUS")
fsetstat == Request("STATUS")
readlink == Request("NAME")
symlink  == Request("STATUS")
realpath == Request("NAME")
ext_openssh_rename   == Request("STATUS")
ext_openssh_statvfs  == Request("EXTENDED")
ext_openssh_fstatvfs == Request("EXTENDED")
ext_openssh_hardlink == Request("STATUS")
ext_openssh_fsync    == Request("STATUS")

Methods ==
    \/ open \/ close \/ read \/ write \/ unlink \/ rename \/ mkdir \/ rmdir
    \/ readdir \/ fstat \/ stat \/ lstat \/ opendir \/ setstat \/ fsetstat
    \/ readlink \/ symlink \/ realpath \/ ext_openssh_rename \/ ext_openssh_statvfs
    \/ ext_openssh_fstatvfs \/ ext_openssh_hardlink \/ ext_openssh_fsync

-----------------------------------------------------------------------------
(* Responses at the client.                                                *)

Keep(ids) == [id \in ids |-> requests[id]]

\* cleanupRequests() for the calls cs that are still in the table: each is
\* called back with 'No response from server'.
NoResponse(cs) ==
    /\ requests' = <<>>
    /\ times' = [c \in Calls |-> times[c] + IF c \in cs THEN 1 ELSE 0]
    /\ UNCHANGED answer

CleanupRequests(ids) == NoResponse({requests[id] : id \in ids})

\* The callback under this id, if there is one, is removed and called.
CallBackKeepsEntry(m) ==
    IF m.id \in DOMAIN requests
    THEN /\ UNCHANGED requests
         /\ times' = [times EXCEPT ![requests[m.id]] = @ + 1]
         /\ answer' = [answer EXCEPT ![requests[m.id]] = m.call]
    ELSE UNCHANGED <<requests, times, answer>>

CallBackOldest(m) ==
    IF DOMAIN requests # {}
    THEN LET id == CHOOSE i \in DOMAIN requests : \A j \in DOMAIN requests : i <= j
         IN  /\ requests' = Keep(DOMAIN requests \ {id})
             /\ times' = [times EXCEPT ![requests[id]] = @ + 1]
             /\ answer' = [answer EXCEPT ![requests[id]] = m.call]
    ELSE UNCHANGED <<requests, times, answer>>

CallBack(m) ==
    IF m.id \in DOMAIN requests
    THEN /\ requests' = Keep(DOMAIN requests \ {m.id})
         /\ times' = [times EXCEPT ![requests[m.id]] = @ + 1]
         /\ answer' = [answer EXCEPT ![requests[m.id]] = m.call]
    ELSE UNCHANGED <<requests, times, answer>>

\* The next packet for the client, of this type, while the channel is in its table.
Incoming(type) ==
    /\ sock /\ cIn # "closed" /\ down # <<>> /\ Head(down).type = type
    /\ down' = Tail(down)

VERSION ==
    /\ Incoming("VERSION")
    /\ version' = TRUE
    /\ UNCHANGED <<writeReqid, requests, readable, cIn, cOut, server, up, sock, history>>

Response(type) ==
    /\ Incoming(type)
    /\ CallBack(Head(down))
    /\ UNCHANGED <<version, writeReqid, readable, cIn, cOut, server, up, sock,
                   calls, late, spoiled, negative>>

STATUS   == Response("STATUS")
HANDLE   == Response("HANDLE")
DATA     == Response("DATA")
NAME     == Response("NAME")
ATTRS    == Response("ATTRS")
EXTENDED == Response("EXTENDED")

\* A malformed response: its request is taken out of the table, then
\* doFatalSFTPError() closes the channel and calls back all the others.
MALFORMED ==
    /\ Incoming("MALFORMED")
    /\ CleanupRequests(DOMAIN requests \ {Head(down).id})
    /\ spoiled' = IF Head(down).id \in DOMAIN requests
                  THEN spoiled \cup {requests[Head(down).id]} ELSE spoiled
    /\ cOut' = IF cOut = "open" THEN "closing" ELSE cOut
    /\ up' = Send(up, cOut, CLOSE)
    /\ UNCHANGED <<version, writeReqid, readable, cIn, server, sock, calls, late, negative>>

-----------------------------------------------------------------------------
(* The end of the channel at the client.                                   *)

\* push(null), which EOF and CLOSE call while the channel is readable.
PushNull ==
    IF readable
    THEN CleanupRequests(DOMAIN requests) /\ readable' = FALSE
    ELSE UNCHANGED <<requests, times, answer, readable>>

RcvEof ==
    /\ Incoming("EOF")
    /\ PushNull
    /\ cIn' = "eof"
    /\ UNCHANGED <<version, writeReqid, cOut, server, up, sock, calls, late, spoiled, negative>>

\* onCHANNEL_CLOSE(): an SFTP channel does not answer with a CLOSE of its own.
OnClose ==
    /\ PushNull
    /\ cIn' = "closed"
    /\ cOut' = IF cOut = "closing" THEN "closed" ELSE cOut

RcvClose ==
    /\ Incoming("CLOSE")
    /\ OnClose
    /\ UNCHANGED <<version, writeReqid, server, up, sock, calls, late, spoiled, negative>>

\* end() and destroy()
End ==
    /\ sock /\ version /\ cOut = "open"
    /\ cOut' = "closing"
    /\ up' = Send(up, cOut, CLOSE)
    /\ UNCHANGED <<version, writeReqid, requests, readable, cIn, server, down, sock, history>>

\* The socket closes: the client's cleanup() tells the channel, unless it is
\* gone; what was under way and what the server was still asked is lost.
SocketClose ==
    /\ sock
    /\ sock' = FALSE
    /\ up' = <<>> /\ down' = <<>> /\ asked' = {}
    /\ IF cIn # "closed" THEN OnClose ELSE UNCHANGED <<requests, times, answer, readable, cIn, cOut>>
    /\ UNCHANGED <<version, writeReqid, sVersion, sIn, sOut, calls, late, spoiled, negative>>

-----------------------------------------------------------------------------
(* The server.                                                             *)

Arrives(type) ==
    /\ sock /\ sIn # "closed" /\ up # <<>> /\ Head(up).type = type
    /\ up' = Tail(up)

INIT ==
    /\ Arrives("INIT")
    /\ sVersion' = TRUE
    /\ down' = Send(down, sOut, Packet("VERSION", 0, 0))
    /\ UNCHANGED <<client, asked, sIn, sOut, sock, history>>

\* A handler emits its event; without a listener it answers OP_UNSUPPORTED itself.
ReceivedIgnoresUnknown(want, listener) ==
    /\ Arrives(want)
    /\ asked' = IF listener THEN asked \cup {Head(up)} ELSE asked
    /\ UNCHANGED <<client, down, sVersion, sIn, sOut, sock, history>>

Received(want, listener) ==
    /\ Arrives(want)
    /\ asked' = IF listener THEN asked \cup {Head(up)} ELSE asked
    /\ down' = IF listener THEN down
               ELSE Send(down, sOut, Packet("STATUS", Head(up).id, Head(up).call))
    /\ UNCHANGED <<client, sVersion, sIn, sOut, sock, history>>

OPEN(l)     == Received("HANDLE", l)
CLOSE_(l)   == Received("STATUS", l)
READ(l)     == Received("DATA", l)
WRITE(l)    == Received("STATUS", l)
LSTAT(l)    == Received("ATTRS", l)
FSTAT(l)    == Received("ATTRS", l)
SETSTAT(l)  == Received("STATUS", l)
FSETSTAT(l) == Received("STATUS", l)
OPENDIR(l)  == Received("HANDLE", l)
READDIR(l)  == Received("NAME", l)
REMOVE(l)   == Received("STATUS", l)
MKDIR(l)    == Received("STATUS", l)
RMDIR(l)    == Received("STATUS", l)
REALPATH(l) == Received("NAME", l)
STAT(l)     == Received("ATTRS", l)
RENAME(l)   == Received("STATUS", l)
READLINK(l) == Received("NAME", l)
SYMLINK(l)  == Received("STATUS", l)
EXTENDED_(l) == \E want \in {"STATUS", "EXTENDED"} : Received(want, l)

ServerHandlers ==
    \E l \in BOOLEAN :
        \/ OPEN(l) \/ CLOSE_(l) \/ READ(l) \/ WRITE(l) \/ LSTAT(l) \/ FSTAT(l)
        \/ SETSTAT(l) \/ FSETSTAT(l) \/ OPENDIR(l) \/ READDIR(l) \/ REMOVE(l)
        \/ MKDIR(l) \/ RMDIR(l) \/ REALPATH(l) \/ STAT(l) \/ RENAME(l)
        \/ READLINK(l) \/ SYMLINK(l) \/ EXTENDED_(l)

\* The application answers one of the requests it was given.
Respond(a, type) ==
    /\ asked' = asked \ {a}
    /\ down' = Send(down, sOut, Packet(type, a.id, a.call))
    /\ UNCHANGED <<client, sVersion, sIn, sOut, up, sock, history>>

handle(a) == a.type = "HANDLE" /\ Respond(a, "HANDLE")
status(a) == Respond(a, "STATUS")
data(a)   == a.type = "DATA" /\ Respond(a, "DATA")
name(a)   == a.type = "NAME" /\ Respond(a, "NAME")
attrs(a)  == a.type = "ATTRS" /\ Respond(a, "ATTRS")

\* What other servers send and this one does not: SSH_FXP_EXTENDED_REPLY, and
\* a response that cannot be parsed.
OtherServer(a) ==
    \/ a.type = "EXTENDED" /\ Respond(a, "EXTENDED")
    \/ Respond(a, "MALFORMED")

Answer == \E a \in asked : handle(a) \/ status(a) \/ data(a) \/ name(a) \/ attrs(a)
                           \/ OtherServer(a)

\* The program behind the subsystem of another server exits: EOF before CLOSE.
ServerEof ==
    /\ sock /\ sVersion /\ sOut = "open" /\ \A i \in DOMAIN down : down[i].type # "EOF"
    /\ cIn = "open"
    /\ down' = Append(down, EOF)
    /\ UNCHANGED <<client, server, up, sock, history>>

ServerEnd ==
    /\ sock /\ sVersion /\ sOut = "open"
    /\ sOut' = "closing"
    /\ down' = Append(down, CLOSE)
    /\ UNCHANGED <<client, sVersion, asked, sIn, up, sock, history>>

ServerRcvClose ==
    /\ Arrives("CLOSE")
    /\ sIn' = "closed"
    /\ sOut' = IF sOut = "closing" THEN "closed" ELSE sOut
    /\ UNCHANGED <<client, sVersion, asked, down, sock, history>>

-----------------------------------------------------------------------------
Deliver ==
    \/ VERSION \/ STATUS \/ HANDLE \/ DATA \/ NAME \/ ATTRS \/ EXTENDED \/ MALFORMED
    \/ RcvEof \/ RcvClose \/ INIT \/ ServerHandlers \/ ServerRcvClose

Next == Methods \/ Deliver \/ Answer \/ End \/ ServerEof \/ ServerEnd \/ SocketClose

Spec == Init /\ [][Next]_vars

\* Packets are delivered, the server's application answers what it is asked,
\* and it ends the session when the client has closed it, which is up to it:
\* onCHANNEL_CLOSE() does not close an SFTP channel in return (lib/utils.js).
FairSpec ==
    /\ Spec
    /\ WF_vars(Deliver) /\ WF_vars(Answer)
    /\ WF_vars(sIn = "closed" /\ ServerEnd)

-----------------------------------------------------------------------------
States == {"open", "eof", "closing", "closed"}

\* The variables keep their ranges; ids are integers of Width bits, signed
\* where they are kept and unsigned on the wire.
TypeOK ==
    /\ version \in BOOLEAN /\ sVersion \in BOOLEAN /\ readable \in BOOLEAN /\ sock \in BOOLEAN
    /\ writeReqid \in Ids
    /\ DOMAIN requests \subseteq Ids /\ \A id \in DOMAIN requests : requests[id] \in Calls
    /\ {cIn, cOut, sIn, sOut} \subseteq States
    /\ \A m \in asked : m.id \in 0..(2^Width - 1) /\ m.type \in Wants
    /\ \A q \in {up, down} : \A i \in DOMAIN q : q[i].id \in 0..(2^Width - 1)
    /\ calls \in 0..MaxCalls /\ late \cup spoiled \cup negative \subseteq Calls
    /\ times \in [Calls -> Nat] /\ answer \in [Calls -> 0..MaxCalls]

\* A callback never gets the answer to another request, however the server
\* orders its answers and however often the ids have wrapped.
OwnAnswer == TypeOK /\ \A c \in Calls : answer[c] \in {0, c}

\* A callback is called at most once, by its response, by the end of the channel
\* or by a fatal error; and when the channel has ended, by EOF, CLOSE, end() or the
\* socket, every request made before that has been called back, except one whose
\* response was malformed, which is forgotten.
CalledOnce ==
    /\ \A c \in Calls : times[c] <= 1
    /\ ~readable => \A c \in 1..calls : times[c] = 1 \/ c \in late \cup spoiled

\* Every request made on a readable channel is called back eventually, provided
\* its id is not negative: a response is matched by its unsigned id, so that a
\* request kept under a negative one waits until the channel ends.
EventuallyCalledBack ==
    \A c \in Calls :
        calls >= c /\ c \notin late \cup negative
            ~> times[c] = 1 \/ c \in spoiled
=============================================================================
