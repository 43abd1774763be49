------------------------------ MODULE UserAuth ------------------------------
(***************************************************************************)
(* User authentication: the client of lib/client.js (its authHandler, the  *)
(* keys of an agent, the callbacks of its user) against the server of      *)
(* lib/server.js (AuthContexts, pendingAuths, onAuthDecide()), each with   *)
(* the _authsQueue of its Protocol, which decides what message 60 means.   *)
(* The applications decide, prompt and answer at any time.  Instead of the *)
(* client there may be one (external) that sends requests without waiting. *)
(***************************************************************************)
EXTENDS Integers, FiniteSets, Sequences

CONSTANTS Methods,         \* methods the client may try; "agent" is publickey with an agent's keys
          MaxTries,        \* bound: methods tried
          MaxEager,        \* bound: requests of a client that does not wait
          MaxPrompts,      \* bound: messages 60 that ask the user
          AgentKeys,       \* bound: keys in the agent
          MAX_PENDING_AUTHS

ASSUME AuthAssumption ==
    /\ Methods \subseteq {"none", "password", "publickey", "hostbased",
                          "keyboard-interactive", "agent"}
    /\ MaxTries \in Nat /\ MaxEager \in Nat /\ MaxPrompts \in Nat /\ AgentKeys \in Nat
    /\ MAX_PENDING_AUTHS \in Nat \ {0}

VARIABLES
    eager,          \* the client is one that does not wait for answers
    toServer, toClient,
    over,           \* why the connection is being closed, or "no"
    \* --- client ---
    curAuth, agentKeyPos,
    ready,
    asked,          \* callbacks that the client's user, agent or authHandler holds
    cqueue,         \* _authsQueue of the client's Protocol
    tries,          \* methods tried so far
    \* --- server ---
    acceptedAuthSvc, authenticated,
    authCtx,        \* the request being decided, or None
    pendingAuths,
    squeue,         \* _authsQueue of the server's Protocol
    ctx,            \* request -> its AuthContext
    emitted,        \* contexts the application knows
    prompts,
    \* --- history ---
    unanswered,     \* the requests received and neither answered nor aborted
    inOrder,        \* answers came in the order of the requests
    by,             \* the request that authenticated
    changed,        \* a password change was asked for
    aborted,        \* the requests that the next one aborted
    accepted,       \* the requests the application accepted, for good
    late,           \* a user answered after the request was decided
    crowded,        \* a request came while another one was pending
    misread,        \* message 60 was taken for another kind than it was sent as
    threw           \* authPKOK() threw in the application

client == <<curAuth, agentKeyPos, ready, asked, cqueue, tries>>
server == <<acceptedAuthSvc, authenticated, authCtx, pendingAuths, squeue, ctx, emitted, prompts,
            unanswered, inOrder, by, changed, aborted, accepted, crowded, threw>>
vars == <<eager, toServer, toClient, over, client, server, late, misread>>

None == 0

Shift(q) == IF q = <<>> THEN q ELSE Tail(q)

Init ==
    /\ eager \in BOOLEAN
    /\ toServer = <<[type |-> "SERVICE_REQUEST"]>> /\ toClient = <<>> /\ over = "no"
    /\ curAuth = "none" /\ agentKeyPos = 0 /\ ready = FALSE /\ asked = {} /\ cqueue = <<>>
    /\ tries = 0
    /\ acceptedAuthSvc = FALSE /\ authenticated = FALSE /\ authCtx = None /\ pendingAuths = <<>>
    /\ squeue = <<>> /\ ctx = <<>> /\ emitted = {} /\ prompts = 0
    /\ unanswered = {} /\ inOrder = TRUE /\ by = None
    /\ changed = FALSE /\ aborted = {} /\ accepted = {} /\ late = FALSE /\ crowded = FALSE
    /\ misread = FALSE /\ threw = FALSE

-----------------------------------------------------------------------------
(* The client.                                                             *)

\* A USERAUTH_REQUEST on the wire; sig: a public key with a signature; user: the
\* user name, which the client of this library never changes.
Request(method, sig, user) ==
    [type |-> "USERAUTH_REQUEST", method |-> method, sig |-> sig, user |-> user]

authPassword  == Request("password", FALSE, 1)
authPK(sig)   == Request("publickey", sig, 1)
authHostbased == Request("hostbased", TRUE, 1)
authKeyboard  == Request("keyboard-interactive", FALSE, 1)
authNone      == Request("none", FALSE, 1)
authInfoRes   == [type |-> "61"]

\* What a step of the client does, its queue being q and the callbacks that are
\* out a: it sends a request, whose method is queued, ...
Sends(q, a, request) ==
    /\ cqueue' = Append(q, request.method)
    /\ toServer' = Append(toServer, request)
    /\ asked' = a
    /\ UNCHANGED over

\* ... asks its user, the agent or authHandler, on behalf of a request, ...
AskFor(q, a, what, request) ==
    /\ asked' = a \cup {[what |-> what, for |-> request]}
    /\ cqueue' = q
    /\ UNCHANGED <<toServer, over>>

\* ... ends the connection, ...
GivesUp(q, a, why) ==
    /\ over' = why
    /\ cqueue' = q /\ asked' = a
    /\ UNCHANGED toServer

\* ... or nothing.
Ignores(q, a) == cqueue' = q /\ asked' = a /\ UNCHANGED <<toServer, over>>

\* doNextAuth(): `false` ends the connection.  When signing for hostbased fails the
\* error handler itself throws, which ends it too.
DoNextAuth(q, a, authName) ==
    /\ curAuth' = authName
    /\ tries' = tries + 1
    /\ CASE authName = "false" -> GivesUp(q, a, "end")
         [] authName = "agent" -> AskFor(q, a, "agentKeys", None)
         [] authName = "hostbased" -> Sends(q, a, authHostbased) \/ GivesUp(q, a, "error")
         [] authName = "password" -> Sends(q, a, authPassword)
         [] authName = "publickey" -> Sends(q, a, authPK(FALSE))
         [] authName = "keyboard-interactive" -> Sends(q, a, authKeyboard)
         [] authName = "none" -> Sends(q, a, authNone)
    /\ UNCHANGED agentKeyPos

\* What authHandler may answer: a method, while the bound allows it, or false.
Choices == {"false"} \cup (IF tries < MaxTries THEN Methods ELSE {})

\* tryNextAuth(): authHandler answers at once, or later through its callback.
TryNextAuth(q, a) ==
    \/ \E authName \in Choices : DoNextAuth(q, a, authName)
    \/ AskFor(q, a, "authHandler", None) /\ UNCHANGED <<curAuth, agentKeyPos, tries>>

\* tryNextAgentKey()
TryNextAgentKey(q, a) ==
    IF agentKeyPos + 1 >= AgentKeys THEN TryNextAuth(q, a)
    ELSE /\ agentKeyPos' = agentKeyPos + 1
         /\ Sends(q, a, authPK(FALSE))
         /\ UNCHANGED <<curAuth, tries>>

\* USERAUTH_PK_OK: an agent's key may be of an unsupported type, a private key may
\* fail to sign.
OnPKOK(q, request) ==
    CASE curAuth = "agent" ->
            \/ TryNextAgentKey(q, asked)
            \/ AskFor(q, asked, "agentSign", request) /\ UNCHANGED <<curAuth, agentKeyPos, tries>>
      [] curAuth = "publickey" ->
            \/ Sends(q, asked, authPK(TRUE)) /\ UNCHANGED <<curAuth, agentKeyPos, tries>>
            \/ TryNextAuth(q, asked)
      [] OTHER -> Ignores(q, asked) /\ UNCHANGED <<curAuth, agentKeyPos, tries>>

\* Message 60 means what the oldest request in the queue makes of it.  An
\* INFO_REQUEST without prompts is answered at once, which is one of the moments
\* at which Answer() may happen.
OnMessage60(request) ==
    LET head == IF cqueue = <<>> THEN "nothing" ELSE Head(cqueue)
    IN  CASE head = "publickey" -> OnPKOK(Tail(cqueue), request)
          [] head = "password" /\ curAuth = "password" ->
                AskFor(cqueue, asked, "newPassword", request)
                /\ UNCHANGED <<curAuth, agentKeyPos, tries>>
          [] head = "keyboard-interactive" ->
                AskFor(cqueue, asked, "answers", request)
                /\ UNCHANGED <<curAuth, agentKeyPos, tries>>
          [] OTHER -> Ignores(cqueue, asked) /\ UNCHANGED <<curAuth, agentKeyPos, tries>>

\* A message of the server.  Failure and success shift the queue.
ClientReceives ==
    LET msg == Head(toClient)
    IN  /\ ~eager /\ over = "no" /\ toClient # <<>>
        /\ toClient' = Tail(toClient)
        /\ CASE msg.type = "SERVICE_ACCEPT" -> TryNextAuth(cqueue, asked)
             [] msg.type = "USERAUTH_FAILURE" ->
                   IF curAuth = "agent" THEN TryNextAgentKey(Shift(cqueue), asked)
                   ELSE TryNextAuth(Shift(cqueue), asked)
             [] msg.type = "USERAUTH_SUCCESS" ->
                   Ignores(Shift(cqueue), asked) /\ UNCHANGED <<curAuth, agentKeyPos, tries>>
             [] OTHER -> OnMessage60(msg.for)
        /\ ready' = (ready \/ msg.type = "USERAUTH_SUCCESS")
        /\ misread' = (misread \/ (msg.type = "60" /\ (cqueue = <<>> \/ Head(cqueue) # msg.method)))
        /\ UNCHANGED <<eager, server, late>>

\* Somebody the client has asked calls back, perhaps long after the server has
\* decided the request it was asked for.
Answer(c) ==
    LET rest == asked \ {c}
        keep == UNCHANGED <<curAuth, agentKeyPos, tries>>
    IN  /\ c \in asked /\ over = "no"
        /\ CASE c.what = "authHandler" ->
                   \E authName \in Choices : DoNextAuth(cqueue, rest, authName)
             [] c.what = "agentKeys" ->
                   \/ /\ agentKeyPos' = 0
                      /\ Sends(cqueue, rest, authPK(FALSE))
                      /\ UNCHANGED <<curAuth, tries>>
                   \/ TryNextAuth(cqueue, rest)
             [] c.what = "agentSign" ->
                   \/ Sends(cqueue, rest, authPK(TRUE)) /\ keep
                   \/ TryNextAgentKey(cqueue, rest)
             [] c.what = "newPassword" -> Sends(cqueue, rest, authPassword) /\ keep
             [] OTHER ->
                   /\ asked' = rest /\ toServer' = Append(toServer, authInfoRes)
                   /\ UNCHANGED <<cqueue, over>> /\ keep
        /\ late' = (late \/ (/\ c.what \in {"answers", "newPassword"}
                             /\ ctx[c.for].finalResponse))
        /\ UNCHANGED <<eager, toClient, ready, server, misread>>

\* readyTimeout, which the first USERAUTH_SUCCESS stops.
ReadyTimeout ==
    /\ ~ready /\ over = "no" /\ over' = "timeout"
    /\ UNCHANGED <<eager, toServer, toClient, client, server, late, misread>>

\* Another client: requests whenever it likes, for any user, and replies to what
\* it takes for prompts.
EagerClient ==
    /\ eager /\ over = "no"
    /\ \/ /\ tries < MaxEager /\ tries' = tries + 1
          /\ \/ \E method \in Methods \ {"agent", "hostbased"}, sig \in BOOLEAN, user \in {1, 2} :
                   /\ method # "publickey" => ~sig
                   /\ user = 2 => method = "none"
                   /\ toServer' = Append(toServer, Request(method, sig, user))
             \/ toServer' = Append(toServer, [type |-> "SERVICE_REQUEST"])
          /\ UNCHANGED toClient
       \/ /\ toClient # <<>> /\ toClient' = Tail(toClient)
          /\ toServer' = IF Head(toClient).type = "60" /\ Head(toClient).method = "keyboard-interactive"
                         THEN Append(toServer, authInfoRes) ELSE toServer
          /\ UNCHANGED tries
    /\ UNCHANGED <<eager, over, curAuth, agentKeyPos, ready, asked, cqueue, server, late, misread>>

-----------------------------------------------------------------------------
(* The server.                                                             *)

\* A new AuthContext.
AuthContext(msg) ==
    [method |-> msg.method, sig |-> msg.sig, user |-> msg.user,
     initialResponse |-> FALSE, finalResponse |-> FALSE,
     changeCb |-> FALSE, promptCb |-> FALSE]

Requests == DOMAIN ctx

\* disconnect(), and the end of the socket.
Disconnect(why) == over' = why

\* SERVICE_REQUEST: only one, for ssh-userauth.
OnServiceRequest ==
    /\ IF acceptedAuthSvc \/ authenticated THEN Disconnect("service") /\ UNCHANGED <<acceptedAuthSvc, toClient>>
       ELSE /\ acceptedAuthSvc' = TRUE
            /\ toClient' = Append(toClient, [type |-> "SERVICE_ACCEPT"])
            /\ UNCHANGED over
    /\ UNCHANGED <<authenticated, authCtx, pendingAuths, squeue, ctx, emitted, prompts,
                   unanswered, inOrder, by, changed, aborted, accepted, crowded, threw>>

Refused(msg) ==
    \/ authenticated
    \/ authCtx # None /\ ctx[authCtx].user # msg.user
    \/ Len(pendingAuths) = MAX_PENDING_AUTHS

\* A request that may be decided now, pend, or abort the interactive one before it.
Begins(msg) ==
    LET id == Len(ctx) + 1
        pends == authCtx # None /\ ~ctx[authCtx].initialResponse
        aborts == /\ authCtx # None /\ ~pends
                  /\ ctx[authCtx].method = "keyboard-interactive" /\ ~ctx[authCtx].finalResponse
    IN  /\ ctx' = Append(ctx, AuthContext(msg))
        /\ IF pends
           THEN /\ pendingAuths' = Append(pendingAuths, id)
                /\ UNCHANGED <<authCtx, emitted>>
           ELSE /\ authCtx' = id /\ emitted' = emitted \cup {id}
                /\ UNCHANGED pendingAuths
        /\ unanswered' = (IF aborts THEN unanswered \ {authCtx} ELSE unanswered) \cup {id}
        /\ aborted' = IF aborts THEN aborted \cup {authCtx} ELSE aborted
        /\ crowded' = (crowded \/ pendingAuths # <<>>)

\* USERAUTH_REQUEST: the method is queued before anything is looked at.  The
\* answer to a password change goes to the context that asked for it.
OnUserauthRequest(msg) ==
    /\ squeue' = Append(squeue, msg.method)
    /\ IF Refused(msg)
       THEN /\ Disconnect("protocol")
            /\ UNCHANGED <<ctx, authCtx, emitted, pendingAuths, unanswered, aborted, crowded>>
       ELSE /\ IF msg.method = "password" /\ authCtx # None /\ ctx[authCtx].changeCb
               THEN /\ ctx' = [ctx EXCEPT ![authCtx].changeCb = FALSE]
                    /\ UNCHANGED <<authCtx, emitted, pendingAuths, unanswered, aborted, crowded>>
               ELSE Begins(msg)
            /\ UNCHANGED over
    /\ UNCHANGED <<acceptedAuthSvc, toClient, authenticated, prompts, inOrder, by, changed, accepted, threw>>

\* USERAUTH_INFO_RESPONSE: fatal when the oldest request is of another method.
OnInfoResponse ==
    /\ IF squeue # <<>> /\ Head(squeue) # "keyboard-interactive"
       THEN Disconnect("unexpected 61") /\ UNCHANGED ctx
       ELSE /\ ctx' = IF squeue # <<>> /\ authCtx # None
                         /\ ctx[authCtx].method = "keyboard-interactive"
                      THEN [ctx EXCEPT ![authCtx].promptCb = FALSE] ELSE ctx
            /\ UNCHANGED over
    /\ UNCHANGED <<acceptedAuthSvc, toClient, authenticated, authCtx, pendingAuths, squeue, emitted,
                   prompts, unanswered, inOrder, by, changed, aborted, accepted, crowded, threw>>

ServerReceives ==
    LET msg == Head(toServer)
    IN  /\ over = "no" /\ toServer # <<>>
        /\ toServer' = Tail(toServer)
        /\ CASE msg.type = "SERVICE_REQUEST" -> OnServiceRequest
             [] msg.type = "USERAUTH_REQUEST" -> OnUserauthRequest(msg)
             [] OTHER -> OnInfoResponse
        /\ UNCHANGED <<eager, client, late, misread>>

\* Request r is the one whose answer is due: requests are numbered as they come.
Oldest(r) == r \in unanswered /\ \A q \in unanswered : r <= q

AnswersUnqueued(r, type) ==
    /\ toClient' = Append(toClient, [type |-> type, method |-> ctx[r].method, for |-> r])
    /\ inOrder' = (inOrder /\ Oldest(r))
    /\ unanswered' = unanswered \ {r}
    /\ UNCHANGED squeue

\* The message that answers request r, in whose turn the answers should come.
Answers(r, type) ==
    /\ toClient' = Append(toClient, [type |-> type, method |-> ctx[r].method, for |-> r])
    /\ squeue' = Shift(squeue)
    /\ inOrder' = (inOrder /\ Oldest(r))
    /\ unanswered' = unanswered \ {r}

authFailure(r) == Answers(r, "USERAUTH_FAILURE")
authSuccess(r) == Answers(r, "USERAUTH_SUCCESS")

onAuthDecideAny(r, allowed) ==
    IF authenticated
    THEN UNCHANGED <<authCtx, authenticated, pendingAuths, toClient, squeue, emitted, unanswered,
                     inOrder, by>>
    ELSE IF allowed
    THEN /\ authCtx' = None /\ authenticated' = TRUE /\ by' = r
         /\ pendingAuths' = <<>>
         /\ authSuccess(r)
         /\ UNCHANGED emitted
    ELSE /\ authFailure(r)
         /\ UNCHANGED <<authenticated, by, authCtx, pendingAuths, emitted>>

\* onAuthDecide(): only the context that is being decided counts.  After a failure
\* the request that pends last is next.
onAuthDecide(r, allowed) ==
    IF authCtx # r \/ authenticated
    THEN UNCHANGED <<authCtx, authenticated, pendingAuths, toClient, squeue, emitted, unanswered,
                     inOrder, by>>
    ELSE IF allowed
    THEN /\ authCtx' = None /\ authenticated' = TRUE /\ by' = r
         /\ pendingAuths' = <<>>
         /\ authSuccess(r)
         /\ UNCHANGED emitted
    ELSE /\ authFailure(r)
         /\ IF pendingAuths # <<>>
            THEN LET next == pendingAuths[Len(pendingAuths)]
                 IN  /\ authCtx' = next /\ emitted' = emitted \cup {next}
                     /\ pendingAuths' = SubSeq(pendingAuths, 1, Len(pendingAuths) - 1)
            ELSE UNCHANGED <<authCtx, pendingAuths, emitted>>
         /\ UNCHANGED <<authenticated, by>>

DecidesFinally(r, allowed) ==
    /\ ctx' = [ctx EXCEPT ![r].finalResponse = TRUE]
    /\ onAuthDecide(r, allowed)
    /\ UNCHANGED threw

\* accept() and reject() of AuthContext.
Decides(r, allowed) ==
    /\ ctx' = [ctx EXCEPT ![r].initialResponse = TRUE, ![r].finalResponse = TRUE]
    /\ onAuthDecide(r, allowed)
    /\ UNCHANGED threw

\* Throws if another method is in front of the queue.
authPKOK(r) ==
    IF squeue # <<>> /\ Head(squeue) = "publickey"
    THEN Answers(r, "60") /\ UNCHANGED threw
    ELSE threw' = TRUE /\ UNCHANGED <<toClient, squeue, inOrder, unanswered>>

\* accept() of a public key without a signature.
AcceptsKey(r) ==
    /\ ctx' = [ctx EXCEPT ![r].initialResponse = TRUE]
    /\ authPKOK(r)
    /\ UNCHANGED <<authCtx, authenticated, pendingAuths, emitted, by>>

\* The application decides a context it knows once; it may also decide an
\* interactive one whose prompts are not answered yet, or one that was aborted.
Decidable(r) ==
    /\ over = "no" /\ r \in emitted /\ ~ctx[r].finalResponse
    /\ (ctx[r].method = "publickey" /\ ~ctx[r].sig) => ~ctx[r].initialResponse

Accept(r) ==
    /\ Decidable(r)
    /\ IF ctx[r].method = "publickey" /\ ~ctx[r].sig
       THEN AcceptsKey(r) /\ UNCHANGED accepted
       ELSE Decides(r, TRUE) /\ accepted' = accepted \cup {r}
    /\ UNCHANGED <<eager, toServer, over, client, acceptedAuthSvc, prompts, changed, aborted, crowded,
                   late, misread>>

Reject(r) ==
    /\ Decidable(r)
    /\ Decides(r, FALSE)
    /\ UNCHANGED <<eager, toServer, over, client, acceptedAuthSvc, prompts, changed, aborted, accepted, crowded,
                   late, misread>>

\* Message 60 with a question: the request stays in the queue.
Asks(r) ==
    /\ prompts < MaxPrompts /\ prompts' = prompts + 1
    /\ toClient' = Append(toClient, [type |-> "60", method |-> ctx[r].method, for |-> r])
    /\ UNCHANGED <<eager, toServer, over, client, acceptedAuthSvc, authenticated, authCtx,
                   pendingAuths, squeue, emitted, unanswered, inOrder, by, aborted, accepted, crowded, threw,
                   late, misread>>

authInfoReq(r) == Asks(r)
authPasswdChg(r) == Asks(r)

\* prompt() of a context that is being decided, when the last one was answered.
Prompt(r) ==
    /\ Decidable(r) /\ ctx[r].method = "keyboard-interactive" /\ ~ctx[r].promptCb /\ authCtx = r
    /\ ctx' = [ctx EXCEPT ![r].promptCb = TRUE, ![r].initialResponse = TRUE]
    /\ authInfoReq(r) /\ UNCHANGED changed

requestChange(r) ==
    /\ Decidable(r) /\ ctx[r].method = "password" /\ ~ctx[r].changeCb
    /\ ctx' = [ctx EXCEPT ![r].changeCb = TRUE]
    /\ authPasswdChg(r) /\ changed' = TRUE

-----------------------------------------------------------------------------
Next ==
    \/ ClientReceives \/ EagerClient \/ ReadyTimeout \/ ServerReceives
    \/ \E c \in asked : Answer(c)
    \/ \E r \in Requests : Accept(r) \/ Reject(r) \/ Prompt(r) \/ requestChange(r)

Spec == Init /\ [][Next]_vars

\* Messages are delivered, users answer, and the application decides.
FairSpec ==
    /\ Spec
    /\ WF_vars(ClientReceives) /\ WF_vars(ServerReceives)
    /\ WF_vars(\E c \in asked : Answer(c))
    /\ WF_vars(\E r \in Requests : Accept(r) \/ Reject(r))

-----------------------------------------------------------------------------
\* The variables keep their ranges, and the requests that pend their limit.
TypeOK ==
    /\ over \in {"no", "end", "error", "timeout", "service", "protocol", "unexpected 61"}
    /\ authCtx \in Requests \cup {None} /\ by \in Requests \cup {None}
    /\ emitted \subseteq Requests
    /\ Len(pendingAuths) <= MAX_PENDING_AUTHS
    /\ \A i \in 1..Len(pendingAuths) : pendingAuths[i] \in Requests \ emitted

\* What the application accepts authenticates, at once and for the user of every
\* request so far, with a signature if it is by public key, unless a later request
\* has aborted it: a late accept() of an aborted context does nothing, nobody is
\* authenticated without an accept(), and the client believes it only then.
Authentic ==
    /\ ready => authenticated
    /\ accepted \ aborted = IF authenticated THEN {by} ELSE {}
    /\ authenticated =>
          /\ ctx[by].method = "publickey" => ctx[by].sig
          /\ \A r \in Requests : ctx[r].user = ctx[by].user

\* Answers come in the order of the requests, unless a request comes while another
\* one pends (the last to pend is decided first, and PK_OK decides none of them) or
\* authPKOK() threw (and left its request unanswered).
AnsweredInOrder == ~inOrder => crowded \/ threw

\* The client of this library never has a second request before the server, so
\* that nothing pends or is aborted, unless its user answers a question after the
\* request it belongs to was decided.
OneAtATime ==
    ~eager /\ ~late => pendingAuths = <<>> /\ aborted = {} /\ (\A q, r \in unanswered : q = r)

\* The two ends stay in step: requests come one at a time, and both keep the method
\* being decided in front of their queues, so that message 60 is taken for what it
\* was sent as, message 61 is expected and authPKOK() finds its method, unless a
\* password change (whose second request is queued and never taken off) or a late
\* answer has put the queues out of step.
QueuesInStep ==
    /\ TypeOK /\ OneAtATime
    /\ ~eager /\ (misread \/ threw \/ over = "unexpected 61") => changed \/ late

\* Authentication comes to an end, unless the queues are out of step or the client
\* is one that stops asking.
Settles == <>(ready \/ over # "no" \/ changed \/ late \/ eager)
=============================================================================
