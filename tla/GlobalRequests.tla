--------------------------- MODULE GlobalRequests ---------------------------
(***************************************************************************)
(* Global requests and keepalive, over connections that end and are made   *)
(* again on the same Client object (lib/client.js), against the server of  *)
(* lib/server.js.  Replies carry no number: the client matches them with a *)
(* queue of callbacks and the server keeps its replies in the order of the *)
(* requests, whatever the order in which the application decides them.     *)
(* Pings are global requests too and share both queues.                    *)
(*                                                                         *)
(* connect() makes a new closure with its own variable `callbacks`; the    *)
(* client's methods use this._callbacks and this._chanMgr.  Whether these  *)
(* are the same objects is part of the state.  A connection is ready when  *)
(* it is made; channels are opened and answered, and no more.              *)
(***************************************************************************)
EXTENDS Integers, FiniteSets, Sequences

CONSTANTS Requests,        \* bound: requests the applications make (1..N)
          MaxConnections,  \* bound: connections made
          CountMax,        \* keepaliveCountMax
          MaxFlight        \* bound: messages on their way, for sending pings and forwarding

ASSUME GlobalAssumption ==
    /\ Requests \subseteq Nat \ {0} /\ MaxConnections \in Nat \ {0}
    /\ CountMax \in Nat /\ MaxFlight \in Nat

VARIABLES
    keepalive,      \* who sends pings: "client", "server" or "nobody"
    conn,           \* the last connection made
    sock,           \* connection -> state of its socket
    onClose,        \* connect() waits for 'close'
    callbacks,      \* connection -> the array its closure uses
    thisCallbacks,  \* this._callbacks
    array,          \* array -> its entries
    thisChanMgr,    \* this._chanMgr: the connection it was made for
    opening,        \* connection -> channels waiting for an answer in its manager
    forwarding,     \* this._forwarding has the address
    kacount,
    toServer, toClient,
    \* --- server ---
    unsent,         \* unsentGlobalRequestsReplies
    held,           \* requests the application has not decided
    noMoreSessions,
    bound,          \* the request for which the application is bound to the address, or None
    kaCurCount,
    dead,           \* the server's machine is gone
    \* --- history ---
    made,           \* request -> [conn, kind, wantReply]
    calls,          \* request -> how often its callback was called
    mismatch,       \* a callback got the reply to another request
    hasty,          \* a keepalive timeout although fewer than CountMax pings were unanswered
    refused,        \* a connection forwarded for an address that was asked for was refused
    reordered,      \* the application decided a request while an older one was undecided
    overlap         \* a socket was closed after, or while, the next connection was made

closures == <<callbacks, thisCallbacks, array, thisChanMgr, opening>>
remote == <<unsent, held, noMoreSessions, bound>>
history == <<made, calls, mismatch, hasty, refused, reordered, overlap>>
vars == <<keepalive, conn, sock, onClose, closures, forwarding, kacount, toServer, toClient,
          remote, kaCurCount, dead, history>>

None == 0
Ping == 0                              \* the entry or reply of a ping
Connections == 1..MaxConnections
Arrays == 1..(2 * MaxConnections)      \* that of connect(), and that of 'close', for each
Unmade == [conn |-> 0, kind |-> "none", wantReply |-> FALSE]

Init ==
    /\ keepalive \in {"client", "server", "nobody"}
    /\ conn = 1 /\ sock = [i \in Connections |-> IF i = 1 THEN "open" ELSE "none"]
    /\ onClose = FALSE
    /\ callbacks = [i \in Connections |-> i] /\ thisCallbacks = 1
    /\ array = [a \in Arrays |-> <<>>]
    /\ thisChanMgr = 1 /\ opening = [i \in Connections |-> {}]
    /\ forwarding = FALSE /\ kacount = 0
    /\ toServer = <<>> /\ toClient = <<>>
    /\ unsent = <<>> /\ held = {} /\ noMoreSessions = FALSE /\ bound = None
    /\ kaCurCount = 0 /\ dead = FALSE
    /\ made = [r \in Requests |-> Unmade] /\ calls = [r \in Requests |-> 0]
    /\ mismatch = FALSE /\ hasty = FALSE /\ refused = FALSE /\ reordered = FALSE
    /\ overlap = FALSE

\* Nothing sent reaches a machine that is gone.
ToServer(msg) == toServer' = IF dead THEN toServer ELSE Append(toServer, msg)

-----------------------------------------------------------------------------
(* The client.                                                             *)

\* The messages.  One address stands for those of TCP and of local sockets.
Message(type, r, wantReply) == [type |-> type, req |-> r, wantReply |-> wantReply]
tcpipForward(r, wantReply)                     == Message("forward", r, wantReply)
cancelTcpipForward(r, wantReply)               == Message("unforward", r, wantReply)
openssh_streamLocalForward(r, wantReply)       == Message("forward", r, wantReply)
openssh_cancelStreamLocalForward(r, wantReply) == Message("unforward", r, wantReply)
openssh_noMoreSessions(r, wantReply)           == Message("noMoreSessions", r, wantReply)
session(r)                                     == Message("open", r, TRUE)
ping                                           == Message("ping", Ping, TRUE)
requestFailure                                 == Message("reply", None, FALSE)

\* The callback is pushed before the request is sent.
GlobalRequest(msg) ==
    /\ sock[conn] = "open" /\ made[msg.req] = Unmade
    /\ made' = [made EXCEPT ![msg.req] =
                   [conn |-> conn, kind |-> msg.type, wantReply |-> msg.wantReply]]
    /\ array' = IF msg.wantReply THEN [array EXCEPT ![thisCallbacks] = Append(@, msg.req)] ELSE array
    /\ ToServer(msg)
    /\ UNCHANGED <<keepalive, conn, sock, onClose, callbacks, thisCallbacks, thisChanMgr, opening,
                   forwarding, kacount, toClient, remote, kaCurCount, dead,
                   calls, mismatch, hasty, refused, reordered, overlap>>

forwardIn(r, wantReply) == GlobalRequest(tcpipForward(r, wantReply))
unforwardIn(r, wantReply) == GlobalRequest(cancelTcpipForward(r, wantReply))
noMore(r, wantReply) == GlobalRequest(openssh_noMoreSessions(r, wantReply))
forwardInStreamLocal(r, wantReply) == GlobalRequest(openssh_streamLocalForward(r, wantReply))
unforwardInStreamLocal(r, wantReply) == GlobalRequest(openssh_cancelStreamLocalForward(r, wantReply))

\* openChannel(), for exec() and its like.
OpenChannel(r) ==
    /\ sock[conn] = "open" /\ made[r] = Unmade
    /\ made' = [made EXCEPT ![r] = [conn |-> conn, kind |-> "open", wantReply |-> TRUE]]
    /\ opening' = [opening EXCEPT ![thisChanMgr] = @ \cup {r}]
    /\ ToServer(session(r))
    /\ UNCHANGED <<keepalive, conn, sock, onClose, callbacks, thisCallbacks, array, thisChanMgr,
                   forwarding, kacount, toClient, remote, kaCurCount, dead,
                   calls, mismatch, hasty, refused, reordered, overlap>>

\* REQUEST_SUCCESS and REQUEST_FAILURE: the oldest callback of the closure.  That
\* of a ping is resetKA(), which sets the count; that of forwardIn() remembers the
\* address.
Shift(msg, taken, count) ==
    LET mine == array[callbacks[conn]]
        r == Head(mine)
        success == msg.type = "SUCCESS"
    IN  IF mine = <<>> THEN UNCHANGED <<array, calls, mismatch, forwarding, kacount>>
        ELSE /\ array' = [array EXCEPT ![callbacks[conn]] = SubSeq(mine, taken + 1, Len(mine))]
             /\ mismatch' = (mismatch \/ r # msg.req)
             /\ IF r = Ping
                THEN kacount' = count /\ UNCHANGED <<calls, forwarding>>
                ELSE /\ calls' = [calls EXCEPT ![r] = @ + 1]
                     /\ forwarding' =
                           CASE made[r].kind = "forward" -> forwarding \/ success
                             [] made[r].kind = "unforward" -> forwarding /\ ~success
                             [] OTHER -> forwarding
                     /\ UNCHANGED kacount

OnReplyNoReset(msg) == Shift(msg, 1, kacount)
OnReplyKeeps(msg) == Shift(msg, 0, 0)
OnReply(msg) == Shift(msg, 1, 0)

\* The answer to a channel open, or a connection that is forwarded to the client;
\* a ping of the server is refused, which is an answer.
ClientReceives ==
    LET msg == Head(toClient)
    IN  /\ sock[conn] \in {"open", "ending"} /\ toClient # <<>>
        /\ toClient' = Tail(toClient)
        /\ CASE msg.type \in {"SUCCESS", "FAILURE"} ->
                   OnReply(msg) /\ UNCHANGED <<opening, refused, toServer>>
             [] msg.type \in {"OPENED", "OPEN_FAILURE"} ->
                   /\ opening' = [opening EXCEPT ![thisChanMgr] = @ \ {msg.req}]
                   /\ calls' = IF msg.req \in opening[thisChanMgr]
                               THEN [calls EXCEPT ![msg.req] = @ + 1] ELSE calls
                   /\ UNCHANGED <<array, mismatch, forwarding, kacount, refused, toServer>>
             [] msg.type = "FORWARDED" ->
                   /\ refused' = (refused \/ (msg.known /\ ~forwarding))
                   /\ UNCHANGED <<array, calls, mismatch, forwarding, kacount, opening, toServer>>
             [] OTHER ->
                   /\ ToServer(requestFailure)
                   /\ UNCHANGED <<array, calls, mismatch, forwarding, kacount, opening, refused>>
        /\ UNCHANGED <<keepalive, conn, sock, onClose, callbacks, thisCallbacks, thisChanMgr,
                       remote, kaCurCount, dead, made, hasty, reordered, overlap>>

PingsUnanswered == Len(SelectSeq(array[callbacks[conn]], LAMBDA e : e = Ping))

\* sendKA(): too many replies are missing, or another ping.
Tick(limit, entry) ==
    /\ keepalive = "client" /\ sock[conn] = "open"
    /\ kacount' = kacount + 1
    /\ IF kacount' > limit
       THEN /\ sock' = [sock EXCEPT ![conn] = "ending"]
            /\ hasty' = (hasty \/ PingsUnanswered < CountMax)
            /\ UNCHANGED <<array, toServer>>
       ELSE /\ Len(toServer) + Len(unsent) + Len(toClient) < MaxFlight
            /\ array' = [array EXCEPT ![callbacks[conn]] = @ \o entry]
            /\ ToServer(ping)
            /\ UNCHANGED <<sock, hasty>>
    /\ UNCHANGED <<keepalive, conn, onClose, callbacks, thisCallbacks, thisChanMgr, opening, forwarding,
                   toClient, remote, kaCurCount, dead, made, calls, mismatch, refused, reordered, overlap>>

SendKANeverGivesUp == kacount < CountMax /\ Tick(CountMax, <<Ping>>)
sendKA == Tick(CountMax, <<Ping>>)

-----------------------------------------------------------------------------
(* Ending and connecting.                                                  *)

\* end() or destroy(), or the server's end().
End ==
    /\ sock[conn] = "open"
    /\ sock' = [sock EXCEPT ![conn] = "ending"]
    /\ UNCHANGED <<keepalive, conn, onClose, closures, forwarding, kacount, toServer, toClient,
                   remote, kaCurCount, dead, history>>

\* connect() makes a new connection, to a server that has none yet.
Connects(n) ==
    /\ conn' = n
    /\ forwarding' = FALSE /\ kacount' = 0
    /\ toServer' = <<>> /\ toClient' = <<>>
    /\ unsent' = <<>> /\ held' = {} /\ noMoreSessions' = FALSE /\ bound' = None
    /\ kaCurCount' = 0 /\ dead' = FALSE

\* connect(): with an open socket, ends it and waits for 'close'; otherwise at
\* once, though the old socket may not be closed yet.
Connect ==
    /\ conn < MaxConnections /\ ~onClose
    /\ IF sock[conn] = "open"
       THEN /\ onClose' = TRUE
            /\ sock' = [sock EXCEPT ![conn] = "ending"]
            /\ UNCHANGED <<conn, forwarding, kacount, toServer, toClient, remote, kaCurCount, dead,
                           thisCallbacks, thisChanMgr>>
       ELSE /\ Connects(conn + 1)
            /\ sock' = [sock EXCEPT ![conn + 1] = "open"]
            /\ thisCallbacks' = conn + 1 /\ thisChanMgr' = conn + 1
            /\ UNCHANGED onClose
    /\ UNCHANGED <<keepalive, callbacks, array, opening, history>>

\* The callbacks in the array and the channels of the manager hear of an error.
Notify(a, m) ==
    /\ calls' = [r \in Requests |->
                    calls[r] + Cardinality({i \in 1..Len(array[a]) : array[a][i] = r})
                             + (IF r \in opening[m] THEN 1 ELSE 0)]
    /\ array' = [array EXCEPT ![a] = <<>>]
    /\ opening' = [opening EXCEPT ![m] = {}]

\* The socket's 'close': emits 'close', in which connect() may be called, and then
\* replaces this._callbacks, calls the callbacks it had itself and cleans up
\* this._chanMgr, whichever connection they belong to by now.
Close(i) ==
    /\ sock[i] = "ending"
    /\ LET reconnects == onClose
           last == IF reconnects THEN conn + 1 ELSE conn
       IN  /\ onClose' = FALSE
           /\ IF reconnects
              THEN Connects(last)
              ELSE UNCHANGED <<conn, forwarding, kacount, toServer, toClient, remote, kaCurCount, dead>>
           /\ sock' = [sock EXCEPT ![i] = "closed", ![last] = IF last = i THEN "closed"
                                                              ELSE IF reconnects THEN "open" ELSE @]
           /\ thisChanMgr' = IF reconnects THEN last ELSE thisChanMgr
           /\ thisCallbacks' = MaxConnections + i
           /\ callbacks' = [callbacks EXCEPT ![i] = MaxConnections + i]
           /\ Notify(callbacks[i], thisChanMgr')
           /\ overlap' = (overlap \/ last # i)
    /\ UNCHANGED <<keepalive, made, mismatch, hasty, refused, reordered>>

-----------------------------------------------------------------------------
(* The server.                                                             *)

Undecided(replies) == {i \in 1..Len(replies) : replies[i].type = "none"}

SendRepliesAtOnce(replies) ==
    /\ unsent' = SelectSeq(replies, LAMBDA e : e.type = "none")
    /\ toClient' = toClient \o SelectSeq(replies, LAMBDA e : e.type # "none")

SendRepliesTogether(replies) ==
    /\ unsent' = IF Undecided(replies) = {} THEN <<>> ELSE replies
    /\ toClient' = IF Undecided(replies) = {} THEN toClient \o replies ELSE toClient

\* sendReplies(): all replies up to the first that is not decided yet.
SendReplies(replies) ==
    LET n == IF Undecided(replies) = {} THEN Len(replies)
             ELSE (CHOOSE i \in Undecided(replies) : \A j \in Undecided(replies) : i <= j) - 1
    IN  /\ unsent' = SubSeq(replies, n + 1, Len(replies))
        /\ toClient' = toClient \o SubSeq(replies, 1, n)

Reply(r, type) == [type |-> type, req |-> r]

\* GLOBAL_REQUEST: the application is asked about forwarding; anything it is not
\* asked about, a ping too, is answered here.
OnGlobalRequest(msg) ==
    LET asks == msg.type \in {"forward", "unforward"}
    IN  /\ noMoreSessions' = (noMoreSessions \/ msg.type = "noMoreSessions")
        /\ IF ~msg.wantReply THEN UNCHANGED <<unsent, toClient>>
           ELSE SendReplies(Append(unsent,
                   Reply(msg.req, IF asks THEN "none"
                                  ELSE IF msg.type = "ping" THEN "FAILURE" ELSE "SUCCESS")))
        /\ held' = IF asks /\ msg.wantReply THEN held \cup {msg.req} ELSE held
        /\ bound' \in IF asks /\ ~msg.wantReply
                      THEN {bound, IF msg.type = "forward" THEN msg.req ELSE None}
                      ELSE {bound}

\* CHANNEL_OPEN for a session; the application accepts it.
OnChannelOpen(msg) ==
    /\ toClient' = Append(toClient,
          Reply(msg.req, IF noMoreSessions THEN "OPEN_FAILURE" ELSE "OPENED"))
    /\ UNCHANGED <<unsent, held, noMoreSessions, bound>>

\* Every packet, the answer to a ping too, restarts the server's keepalive.
ServerReceives ==
    LET msg == Head(toServer)
    IN  /\ sock[conn] \in {"open", "ending"} /\ ~dead /\ toServer # <<>>
        /\ toServer' = Tail(toServer)
        /\ kaCurCount' = 0
        /\ CASE msg.type = "reply" -> UNCHANGED <<toClient, unsent, held, noMoreSessions, bound>>
             [] msg.type = "open" -> OnChannelOpen(msg)
             [] OTHER -> OnGlobalRequest(msg)
        /\ UNCHANGED <<keepalive, conn, sock, onClose, closures, forwarding, kacount, dead, history>>

\* The application calls accept() or reject() of a request.
Decide(r, ok) ==
    /\ sock[conn] \in {"open", "ending"} /\ ~dead /\ r \in held
    /\ held' = held \ {r}
    /\ SendReplies([i \in 1..Len(unsent) |->
                       IF unsent[i].req = r THEN Reply(r, IF ok THEN "SUCCESS" ELSE "FAILURE")
                       ELSE unsent[i]])
    /\ bound' = IF ~ok THEN bound ELSE IF made[r].kind = "forward" THEN r ELSE None
    /\ reordered' = (reordered \/ \E q \in held : q < r)
    /\ UNCHANGED <<keepalive, conn, sock, onClose, closures, forwarding, kacount, toServer,
                   noMoreSessions, kaCurCount, dead,
                   made, calls, mismatch, hasty, refused, overlap>>

\* forwardOut(): the client knows the address if its request had a callback.
Forward ==
    /\ sock[conn] = "open" /\ ~dead /\ bound # None /\ Len(toClient) < MaxFlight
    /\ toClient' = Append(toClient,
          [type |-> "FORWARDED", known |-> made[bound].wantReply])
    /\ UNCHANGED <<keepalive, conn, sock, onClose, closures, forwarding, kacount, toServer,
                   remote, kaCurCount, dead, history>>

\* The interval of the server's keepalive.
ServerPings ==
    /\ keepalive = "server" /\ sock[conn] = "open" /\ ~dead
    /\ kaCurCount' = kaCurCount + 1
    /\ IF kaCurCount' > CountMax
       THEN sock' = [sock EXCEPT ![conn] = "ending"] /\ UNCHANGED toClient
       ELSE /\ Len(toClient) < MaxFlight
            /\ toClient' = Append(toClient, Reply(Ping, "PING"))
            /\ UNCHANGED sock
    /\ UNCHANGED <<keepalive, conn, onClose, closures, forwarding, kacount, toServer, remote, dead,
                   history>>

\* The server's machine, or the way to it, is gone without a word.
Die ==
    /\ sock[conn] = "open" /\ ~dead /\ dead' = TRUE
    /\ toServer' = <<>> /\ unsent' = <<>> /\ held' = {}
    /\ UNCHANGED <<keepalive, conn, sock, onClose, closures, forwarding, kacount, toClient,
                   noMoreSessions, bound, kaCurCount, history>>

-----------------------------------------------------------------------------
Next ==
    \/ \E r \in Requests :
          /\ \A q \in Requests : q < r => made[q] # Unmade
          /\ \/ OpenChannel(r)
             \/ \E want \in BOOLEAN :
                   \/ forwardIn(r, want) \/ unforwardIn(r, want)
                   \/ forwardInStreamLocal(r, want) \/ unforwardInStreamLocal(r, want)
                   \/ noMore(r, want)
    \/ ClientReceives \/ sendKA \/ End \/ Connect
    \/ \E i \in Connections : Close(i)
    \/ ServerReceives \/ Forward \/ ServerPings \/ Die
    \/ \E r \in Requests, ok \in BOOLEAN : Decide(r, ok)

Spec == Init /\ [][Next]_vars

\* Messages are delivered and timers fire, sockets that end are closed, and the
\* application of the server decides every request.
FairSpec ==
    /\ Spec
    /\ WF_vars(ClientReceives) /\ WF_vars(ServerReceives) /\ WF_vars(sendKA)
    /\ \A i \in Connections : WF_vars(Close(i))
    /\ \A r \in Requests : WF_vars(\E ok \in BOOLEAN : Decide(r, ok))

-----------------------------------------------------------------------------
\* The variables keep their ranges; the counters of keepalive their limits.
TypeOK ==
    /\ conn \in Connections /\ sock \in [Connections -> {"none", "open", "ending", "closed"}]
    /\ callbacks \in [Connections -> Arrays] /\ thisCallbacks \in Arrays
    /\ thisChanMgr \in Connections
    /\ kacount \in 0..(CountMax + 1) /\ kaCurCount \in 0..(CountMax + 1)
    /\ held \subseteq Requests

\* A reply reaches the callback of the request it answers, also with pings in
\* between and whatever the order in which the server's application decides,
\* unless this._callbacks is no longer the array of the closure.
OwnReply == mismatch => overlap

\* When the socket has been closed, everything that was asked for on that
\* connection has been called back.
CloseNotifies ==
    \A r \in Requests :
        (made[r].wantReply /\ sock[made[r].conn] = "closed") => calls[r] = 1

\* Every callback is called once: not by a reply and by the close of the socket
\* both, and by the time the socket is closed by one of them, unless connect() was
\* called before the handler of 'close' was done.
CalledOnce ==
    /\ TypeOK
    /\ \A r \in Requests : calls[r] <= 1
    /\ CloseNotifies \/ overlap

\* The client gives a connection up for lack of replies only when CountMax pings
\* are unanswered.
PatientKeepalive == ~hasty

\* A connection that the server forwards for an address the client has asked for is
\* not refused as unknown, unless the application decides out of order (its reply
\* then waits for an older one, behind the forwarded connection).
ForwardKnown == refused => overlap \/ reordered

\* Every callback is called: with keepalive even if the server is gone.
EventuallyCalled ==
    \A r \in Requests :
        made[r].wantReply ~> (calls[r] > 0 \/ overlap \/ (dead /\ keepalive # "client"))
=============================================================================
