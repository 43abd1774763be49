-------------------------- MODULE ChannelLifecycle --------------------------
(***************************************************************************)
(* The life of the channels of one connection, at the client               *)
(* (lib/client.js) and at the server (lib/server.js): CHANNEL_OPEN and its *)
(* answers, the requests that turn a session into a running command,       *)
(* CHANNEL_EOF, CHANNEL_CLOSE (onCHANNEL_CLOSE() of lib/utils.js) and the  *)
(* cleanup when the socket closes.  A client opens sessions with exec(),   *)
(* with or without a pty request first (shell() and subsys() go the same   *)
(* way; so does sftp(), but for the answer to CLOSE, which is left to the  *)
(* application: see SftpRequests); a server opens forwarded connections.   *)
(* Applications answer when they like.  What the channels carry is in      *)
(* ChannelFlow and ChannelStderr, how ids are picked in ChannelManager;    *)
(* ids do not run out here.                                                *)
(***************************************************************************)
EXTENDS ChannelTable, Sequences

CONSTANT MaxOpens          \* bound: channels opened by both sides together

ASSUME LifecycleAssumption == MaxOpens \in Nat /\ MaxOpens <= MaxChannel

Sides == {"client", "server"}
Other(x) == IF x = "client" THEN "server" ELSE "client"

VARIABLES
    tab,                   \* _chanMgr: "opener" (a function), "reserved" (true),
                           \* "session" (a Session) or "channel" (a Channel)
    ch,                    \* what a side knows of each of its ids
    offers,                \* CHANNEL_OPENs the application was asked about
    asks,                  \* channel requests the server's application was asked about
    wire,                  \* messages on the way to each side
    up,                    \* the side's socket is not closed
    answers                \* what the callback of each open was called with

vars == <<tab, ch, offers, asks, wire, up, answers>>

\* kind     what the id is for
\* peer     outgoing.id
\* in, out  incoming.state and outgoing.state
\* chan     there is a Channel (for a Session: _channel is set)
\* ending   _ending of a Session
\* pty      exec() was called with the pty option
\* waiting  the request whose callback is in _callbacks
\* closes   how often 'close' was emitted or hooked to 'end'
Blank == [kind |-> "none", peer |-> -1, in |-> "none", out |-> "none", chan |-> FALSE,
          ending |-> FALSE, pty |-> FALSE, waiting |-> "none", closes |-> 0]

Init ==
    /\ tab = [x \in Sides |-> EmptyTable]
    /\ ch = [x \in Sides |-> [i \in Ids |-> Blank]]
    /\ offers = [x \in Sides |-> {}] /\ asks = {}
    /\ wire = [x \in Sides |-> <<>>]
    /\ up = [x \in Sides |-> TRUE]
    /\ answers = [x \in Sides |-> [i \in Ids |-> <<>>]]

\* A message: to the recipient's id, with the sender's id or what is requested.
Msg(type, to, arg) == [type |-> type, to |-> to, arg |-> arg]

\* Messages sent outside a message handler; a closed socket reads none.
Send(x, msgs) == wire' = [wire EXCEPT ![Other(x)] = IF up[Other(x)] THEN @ \o msgs ELSE @]

Entry(x, i) == IF i \in Live(tab[x]) THEN tab[x].channels[i] ELSE "none"

Unclosed == {"open", "eof"}

-----------------------------------------------------------------------------
(* Opening.                                                                *)

Opens == Cardinality({i \in Ids : ch["client"][i].kind = "session"})
         + Cardinality({j \in Ids : ch["server"][j].kind = "forward"})

\* openChannel(): the callback goes into the table until the peer answers.
OpenChannel(x, kind, pty) ==
    LET i == NextId(tab[x])
    IN  /\ tab' = [tab EXCEPT ![x] = Added(@, "opener")]
        /\ ch' = [ch EXCEPT ![x][i] = [Blank EXCEPT !.kind = kind, !.pty = pty]]
        /\ Send(x, <<Msg("open", -1, i)>>)
        /\ UNCHANGED <<offers, asks, up, answers>>

\* Client.exec()
Exec(pty) ==
    /\ up["client"] /\ Opens < MaxOpens
    /\ OpenChannel("client", "session", pty)

\* forwardOut(), x11() and openssh_forwardOutStreamLocal() of the server
Forward ==
    /\ up["server"] /\ Opens < MaxOpens
    /\ OpenChannel("server", "forward", FALSE)

\* The head of the queue of a side whose socket is open.
Arrives(x, type) == up[x] /\ wire[x] # <<>> /\ Head(wire[x]).type = type

\* A handler takes its message and sends some.
Reply(x, msgs) ==
    wire' = [wire EXCEPT ![x] = Tail(@), ![Other(x)] = IF up[Other(x)] THEN @ \o msgs ELSE @]

\* CHANNEL_OPEN when somebody listens: an id is reserved and the application asked.
RcvOpen(x) ==
    LET i == NextId(tab[x])
    IN  /\ Arrives(x, "open")
        /\ tab' = [tab EXCEPT ![x] = Added(@, "reserved")]
        /\ offers' = [offers EXCEPT ![x] = @ \cup {[id |-> i, peer |-> Head(wire[x]).arg]}]
        /\ Reply(x, <<>>)
        /\ UNCHANGED <<ch, asks, up, answers>>

\* CHANNEL_OPEN refused at once: nobody listens, no forwarding was requested,
\* noMoreSessions, not authenticated.
RcvOpenRefused(x) ==
    /\ Arrives(x, "open")
    /\ Reply(x, <<Msg("openfail", Head(wire[x]).arg, -1)>>)
    /\ UNCHANGED <<tab, ch, offers, asks, up, answers>>

\* accept() of a CHANNEL_OPEN: a Session at the server, a Channel at the client.
AcceptOpen(x, o) ==
    LET session == x = "server"
    IN  /\ offers' = [offers EXCEPT ![x] = @ \ {o}]
        /\ tab' = [tab EXCEPT ![x] = Updated(@, o.id, IF session THEN "session" ELSE "channel")]
        /\ ch' = [ch EXCEPT ![x][o.id] =
                    [Blank EXCEPT !.kind = IF session THEN "session" ELSE "forward",
                                  !.peer = o.peer, !.in = "open", !.out = "open",
                                  !.chan = ~session]]
        /\ Send(x, <<Msg("confirm", o.peer, o.id)>>)
        /\ UNCHANGED <<asks, up, answers>>

\* reject() of a CHANNEL_OPEN: the reserved id stays in the table.
RejectSilently(x, o) ==
    /\ offers' = [offers EXCEPT ![x] = @ \ {o}]
    /\ UNCHANGED <<tab, ch, asks, wire, up, answers>>

RejectOpen(x, o) ==
    /\ offers' = [offers EXCEPT ![x] = @ \ {o}]
    /\ Send(x, <<Msg("openfail", o.peer, -1)>>)
    /\ UNCHANGED <<tab, ch, asks, up, answers>>

\* The callback of openChannel(): exec() goes on to its first request, the
\* callback of a forwarded connection is the application's.
RcvConfirm(x) ==
    LET m     == Head(wire[x])
        first == IF ch[x][m.to].pty THEN "pty" ELSE "exec"
    IN  /\ Arrives(x, "confirm")
        /\ IF Entry(x, m.to) = "opener"
           THEN /\ tab' = [tab EXCEPT ![x] = Updated(@, m.to, "channel")]
                /\ ch' = [ch EXCEPT ![x][m.to] =
                            [@ EXCEPT !.peer = m.arg, !.in = "open", !.out = "open",
                                      !.chan = TRUE,
                                      !.waiting = IF x = "client" THEN first ELSE "none"]]
                /\ answers' = IF x = "client" THEN answers
                              ELSE [answers EXCEPT ![x][m.to] = Append(@, "ok")]
                /\ Reply(x, IF x = "client" THEN <<Msg("request", m.arg, first)>> ELSE <<>>)
           ELSE Reply(x, <<>>) /\ UNCHANGED <<tab, ch, answers>>
        /\ UNCHANGED <<offers, asks, up>>

\* CHANNEL_OPEN_FAILURE: onChannelOpenFailure()
OpenFailureKeepsEntry(x, i) == tab

OpenFailure(x, i) == [tab EXCEPT ![x] = Removed(@, i)]

RcvOpenFail(x) ==
    LET i == Head(wire[x]).to
    IN  /\ Arrives(x, "openfail")
        /\ IF Entry(x, i) = "opener"
           THEN /\ tab' = OpenFailure(x, i)
                /\ answers' = [answers EXCEPT ![x][i] = Append(@, "err")]
           ELSE UNCHANGED <<tab, answers>>
        /\ Reply(x, <<>>)
        /\ UNCHANGED <<ch, offers, asks, up>>

-----------------------------------------------------------------------------
(* Requests on a session.                                                  *)

\* CHANNEL_REQUEST at the server
RcvRequest ==
    LET m == Head(wire["server"])
    IN  /\ Arrives("server", "request")
        /\ asks' = IF Entry("server", m.to) = "session" /\ ~ch["server"][m.to].ending
                   THEN asks \cup {[id |-> m.to, what |-> m.arg]}
                   ELSE asks
        /\ Reply("server", <<>>)
        /\ UNCHANGED <<tab, ch, offers, up, answers>>

\* The closures given to the application do nothing once the session ends or
\* has its channel.
Answerable(a) == ~ch["server"][a.id].ending /\ ~ch["server"][a.id].chan

AcceptTwice(a) ==
    /\ asks' = asks
    /\ ch' = IF a.what = "exec" THEN [ch EXCEPT !["server"][a.id].chan = TRUE] ELSE ch
    /\ Send("server", <<Msg("success", ch["server"][a.id].peer, -1)>>)
    /\ UNCHANGED <<tab, offers, up, answers>>

AcceptRequest(a) ==
    /\ asks' = asks \ {a}
    /\ IF Answerable(a)
       THEN /\ ch' = IF a.what = "exec" THEN [ch EXCEPT !["server"][a.id].chan = TRUE] ELSE ch
            /\ Send("server", <<Msg("success", ch["server"][a.id].peer, -1)>>)
       ELSE UNCHANGED <<ch, wire>>
    /\ UNCHANGED <<tab, offers, up, answers>>

RejectRequest(a) ==
    /\ asks' = asks \ {a}
    /\ IF Answerable(a)
       THEN Send("server", <<Msg("failure", ch["server"][a.id].peer, -1)>>)
       ELSE UNCHANGED wire
    /\ UNCHANGED <<tab, ch, offers, up, answers>>

\* CHANNEL_SUCCESS at the client: the next request of exec(), or its callback.
RcvSuccess ==
    LET i == Head(wire["client"]).to
        c == ch["client"][i]
    IN  /\ Arrives("client", "success")
        /\ IF Entry("client", i) = "channel" /\ c.waiting = "pty" /\ c.out = "open"
           THEN /\ ch' = [ch EXCEPT !["client"][i].waiting = "exec"]
                /\ Reply("client", <<Msg("request", c.peer, "exec")>>)
                /\ UNCHANGED answers
           ELSE IF Entry("client", i) = "channel" /\ c.waiting # "none"
           THEN /\ ch' = [ch EXCEPT !["client"][i].waiting = "none"]
                /\ answers' = [answers EXCEPT !["client"][i] =
                                 Append(@, IF c.waiting = "exec" THEN "ok" ELSE "err")]
                /\ Reply("client", <<>>)
           ELSE Reply("client", <<>>) /\ UNCHANGED <<ch, answers>>
        /\ UNCHANGED <<tab, offers, asks, up>>

\* CHANNEL_FAILURE at the client: a failed pty request closes the channel, a
\* failed exec request leaves it open.
RcvFailure ==
    LET i     == Head(wire["client"]).to
        c     == ch["client"][i]
        close == c.waiting = "pty" /\ c.out \in Unclosed
    IN  /\ Arrives("client", "failure")
        /\ IF Entry("client", i) = "channel" /\ c.waiting # "none"
           THEN /\ ch' = [ch EXCEPT !["client"][i] =
                            [c EXCEPT !.waiting = "none",
                                      !.out = IF close THEN "closing" ELSE c.out]]
                /\ answers' = [answers EXCEPT !["client"][i] = Append(@, "err")]
                /\ Reply("client", IF close THEN <<Msg("close", c.peer, -1)>> ELSE <<>>)
           ELSE Reply("client", <<>>) /\ UNCHANGED <<ch, answers>>
        /\ UNCHANGED <<tab, offers, asks, up>>

-----------------------------------------------------------------------------
(* Ending and closing.                                                     *)

\* The channels an application holds.
Held(x) == {i \in Ids : ch[x][i].chan /\ (ch[x][i].kind = "session" /\ x = "client"
                                            => answers[x][i] = <<"ok">>)}

\* end(): EOF, and at a server also CLOSE.
End(x, i) ==
    LET c == ch[x][i]
    IN  /\ c.out = "open"
        /\ ch' = [ch EXCEPT ![x][i].out = IF x = "server" THEN "closing" ELSE "eof"]
        /\ Send(x, <<Msg("eof", c.peer, -1)>>
                   \o IF x = "server" THEN <<Msg("close", c.peer, -1)>> ELSE <<>>)
        /\ UNCHANGED <<tab, offers, asks, up, answers>>

\* close()
CloseFreesId(x, i) ==
    /\ ch[x][i].out \in Unclosed
    /\ ch' = [ch EXCEPT ![x][i].out = "closing"]
    /\ tab' = [tab EXCEPT ![x] = Removed(@, i)]
    /\ Send(x, <<Msg("close", ch[x][i].peer, -1)>>)
    /\ UNCHANGED <<offers, asks, up, answers>>

Close(x, i) ==
    /\ ch[x][i].out \in Unclosed
    /\ ch' = [ch EXCEPT ![x][i].out = "closing"]
    /\ Send(x, <<Msg("close", ch[x][i].peer, -1)>>)
    /\ UNCHANGED <<tab, offers, asks, up, answers>>

\* CHANNEL_EOF
RcvEof(x) ==
    LET i == Head(wire[x]).to
        c == ch[x][i]
    IN  /\ Arrives(x, "eof")
        /\ ch' = IF Entry(x, i) \in {"session", "channel"}
                 THEN [ch EXCEPT ![x][i] =
                         [c EXCEPT !.ending = (c.ending \/ Entry(x, i) = "session"),
                                   !.in = IF c.chan /\ c.in = "open" THEN "eof" ELSE c.in]]
                 ELSE ch
        /\ Reply(x, <<>>)
        /\ UNCHANGED <<tab, offers, asks, up, answers>>

\* onCHANNEL_CLOSE() of a channel: the outstanding callback is called with an
\* error, which for a pty request calls close() once more.
ClosedChannel(c, dead) ==
    [c EXCEPT !.in = "closed", !.waiting = "none", !.closes = @ + 1,
              !.out = IF ~dead \/ @ = "closing" THEN "closed"
                      ELSE IF c.waiting = "pty" /\ @ \in Unclosed THEN "closing" ELSE @]

\* CHANNEL_CLOSE.  The server knows no CHANNEL_CLOSE for an open it still waits
\* for, and a Session without a channel is only marked.
CloseReplyDropped(c) == <<>>

CloseReply(c) == IF c.out \in Unclosed THEN <<Msg("close", c.peer, -1)>> ELSE <<>>

RcvClose(x) ==
    LET i == Head(wire[x]).to
        c == ch[x][i]
    IN  /\ Arrives(x, "close")
        /\ IF Entry(x, i) \in {"session", "channel"} /\ c.chan
           THEN /\ ch' = [ch EXCEPT ![x][i] =
                            [ClosedChannel(c, FALSE) EXCEPT
                               !.ending = (c.ending \/ Entry(x, i) = "session")]]
                /\ tab' = [tab EXCEPT ![x] = Removed(@, i)]
                /\ answers' = IF c.waiting # "none"
                              THEN [answers EXCEPT ![x][i] = Append(@, "err")] ELSE answers
                /\ Reply(x, CloseReply(c))
           ELSE /\ ch' = IF Entry(x, i) = "session"
                         THEN [ch EXCEPT ![x][i].ending = TRUE] ELSE ch
                /\ IF Entry(x, i) = "opener" /\ x = "client"
                   THEN /\ tab' = OpenFailure(x, i)
                        /\ answers' = [answers EXCEPT ![x][i] = Append(@, "err")]
                   ELSE UNCHANGED <<tab, answers>>
                /\ Reply(x, <<>>)
        /\ UNCHANGED <<offers, asks, up>>

\* The socket closes: ChannelManager.cleanup().  The ids are visited in
\* ascending order; a Session without a channel makes onCHANNEL_CLOSE() throw,
\* and the ids behind it are not visited.
Visited(x) ==
    {i \in Live(tab[x]) :
        \A j \in Live(tab[x]) : j <= i => tab[x].channels[j] # "session" \/ ch[x][j].chan}

SockClose(x) ==
    LET visited == Visited(x)
        failing == {i \in visited : tab[x].channels[i] = "opener" \/ ch[x][i].waiting # "none"}
    IN  /\ up[x]
        /\ up' = [up EXCEPT ![x] = FALSE]
        /\ tab' = [tab EXCEPT ![x] = EmptyTable]
        /\ ch' = [ch EXCEPT ![x] = [i \in Ids |->
                    IF i \in visited /\ @[i].chan THEN ClosedChannel(@[i], TRUE) ELSE @[i]]]
        /\ answers' = [answers EXCEPT ![x] = [i \in Ids |->
                         IF i \in failing THEN Append(@[i], "err") ELSE @[i]]]
        /\ wire' = [wire EXCEPT ![x] = <<>>]
        /\ UNCHANGED <<offers, asks>>

-----------------------------------------------------------------------------
Deliver(x) ==
    \/ RcvOpen(x) \/ RcvOpenRefused(x) \/ RcvConfirm(x) \/ RcvOpenFail(x)
    \/ RcvEof(x) \/ RcvClose(x)
    \/ x = "server" /\ RcvRequest
    \/ x = "client" /\ (RcvSuccess \/ RcvFailure)

\* What an application calls after the socket closed reaches nobody and is
\* left out.
DecideOpen(x) == up[x] /\ \E o \in offers[x] : AcceptOpen(x, o) \/ RejectOpen(x, o)

DecideRequest == up["server"] /\ \E a \in asks : AcceptRequest(a) \/ RejectRequest(a)

Next ==
    \/ \E pty \in BOOLEAN : Exec(pty)
    \/ Forward
    \/ \E x \in Sides : Deliver(x) \/ DecideOpen(x) \/ SockClose(x)
    \/ DecideRequest
    \/ \E x \in Sides : up[x] /\ \E i \in Held(x) : End(x, i) \/ Close(x, i)

Spec == Init /\ [][Next]_vars

\* Sockets deliver, and applications answer what they are asked.
FairSpec ==
    /\ Spec
    /\ \A x \in Sides : WF_vars(Deliver(x)) /\ WF_vars(DecideOpen(x))
    /\ WF_vars(DecideRequest)

-----------------------------------------------------------------------------
States == {"none", "open", "eof", "closing", "closed"}

Requests == {"pty", "exec"}

\* The variables keep their ranges.
TypeOK ==
    /\ \A x \in Sides :
          /\ Live(tab[x]) \subseteq Ids
          /\ \A i \in Live(tab[x]) :
                tab[x].channels[i] \in {"opener", "reserved", "session", "channel"}
          /\ tab[x].count = Cardinality(Live(tab[x]))
          /\ offers[x] \subseteq [id : Ids, peer : Ids]
    /\ ch \in [Sides -> [Ids -> [kind : {"none", "session", "forward"}, peer : Ids \cup {-1},
                                 in : States, out : States, chan : BOOLEAN, ending : BOOLEAN,
                                 pty : BOOLEAN, waiting : Requests \cup {"none"}, closes : Nat]]]
    /\ asks \subseteq [id : Ids, what : Requests]
    /\ up \in [Sides -> BOOLEAN]
    /\ answers \in [Sides -> [Ids -> Seq({"ok", "err"})]]

\* The callback of an open is called at most once, and while the socket is up
\* not before the outcome is known; 'close' is emitted at most once, and while the
\* socket is up only for a channel that can neither send nor receive any more.
AnsweredOnce ==
    \A x \in Sides, i \in Ids :
        /\ Len(answers[x][i]) <= 1
        /\ up[x] /\ (Entry(x, i) = "opener" \/ ch[x][i].waiting # "none") => answers[x][i] = <<>>
        /\ ch[x][i].closes <= 1
        /\ up[x] /\ ch[x][i].closes = 1 => ch[x][i].out = "closed" /\ i \notin Live(tab[x])

\* The two sides of a channel know each other's ids, and an exec() that
\* succeeded at the client has its Channel at the server.
PeersAgree ==
    TypeOK /\ \A i \in Ids : ch["client"][i].chan =>
        LET c == ch["client"][i]
            s == ch["server"][c.peer]
        IN  /\ s.chan => s.peer = i /\ s.kind = c.kind
            /\ answers["client"][i] = <<"ok">> => s.chan /\ s.kind = "session"

\* An id that was freed gets no more messages: the peer sent its last one
\* before, whatever the order in which the two sides close.
QuietAfterFree ==
    \A x \in Sides : up[x] =>
        \A k \in 1..Len(wire[x]) :
            wire[x][k].type # "open" => wire[x][k].to \in Live(tab[x])

\* The server has a Channel for the client's id i.
ServedAt(i) == ch["client"][i].peer \in Ids /\ ch["server"][ch["client"][i].peer].chan

\* A server that closes a channel is answered, and a client is if the session
\* has a channel: the id is freed.
CloseCompletes ==
    /\ \A j \in Ids : ch["server"][j].out = "closing" ~>
          j \notin Live(tab["server"]) \/ ~up["client"]
    /\ \A i \in Ids : ch["client"][i].out = "closing" ~>
          i \notin Live(tab["client"]) \/ ~up["server"] \/ ~ServedAt(i)

\* Every exec() and every forwarded connection is answered in the end.
OpensAnswered ==
    \A x \in Sides, i \in Ids :
        Entry(x, i) = "opener" ~> answers[x][i] # <<>> \/ ~up["client"] \/ ~up["server"]
=============================================================================
