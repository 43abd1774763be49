--------------------------- MODULE UserAuthProofs ---------------------------
(***************************************************************************)
(* UserAuth for every set of methods, every number of tries, prompts and   *)
(* agent keys and every MAX_PENDING_AUTHS: who is authenticated was        *)
(* accepted, the answers come in the order of the requests, and the client *)
(* of this library stays in step with the server.                          *)
(***************************************************************************)
EXTENDS UserAuth, SequenceTheorems, TLAPS

-----------------------------------------------------------------------------
(* The inductive invariant.                                                *)

\* The names a USERAUTH_REQUEST may carry, and the messages of either side.
Names == {"none", "password", "publickey", "hostbased", "keyboard-interactive"}

AuthRequests == [type : {"USERAUTH_REQUEST"}, method : Names, sig : BOOLEAN, user : {1, 2}]

ServerMsgs == {[type |-> "SERVICE_REQUEST"], authInfoRes} \cup AuthRequests

ClientMsgs ==
    {[type |-> "SERVICE_ACCEPT"]}
        \cup [type : {"USERAUTH_SUCCESS", "USERAUTH_FAILURE", "60"}, method : Names, for : Nat]

Contexts ==
    [method : Names, sig : BOOLEAN, user : {1, 2}, initialResponse : BOOLEAN,
     finalResponse : BOOLEAN, changeCb : BOOLEAN, promptCb : BOOLEAN]

Overs == {"no", "end", "error", "timeout", "service", "protocol", "unexpected 61"}

Fields ==
    /\ toServer \in Seq(ServerMsgs) /\ toClient \in Seq(ClientMsgs) /\ over \in Overs
    /\ ctx \in Seq(Contexts) /\ pendingAuths \in Seq(Nat)
    /\ {ready, authenticated, inOrder, crowded, threw} \subseteq BOOLEAN

\* What the server keeps of requests are requests; the ones that pend are distinct
\* and not known to the application.
Pending ==
    /\ authCtx \in Requests \cup {None} /\ by \in Requests \cup {None} /\ emitted \subseteq Requests
    /\ authCtx # None => authCtx \in emitted
    /\ Len(pendingAuths) <= MAX_PENDING_AUTHS
    /\ \A i \in 1..Len(pendingAuths) : pendingAuths[i] \in Requests \ emitted
    /\ \A i, j \in 1..Len(pendingAuths) : pendingAuths[i] = pendingAuths[j] => i = j
    /\ authenticated => authCtx = None

\* A context the application has not touched is the one being decided; one that it
\* has touched and not decided is interactive or a key without a signature.
Touched ==
    /\ \A r \in emitted : ~ctx[r].initialResponse => r = authCtx
    /\ \A r \in Requests \ emitted : ~ctx[r].initialResponse
    /\ \A r \in Requests : ctx[r].finalResponse => ctx[r].initialResponse
    /\ \A r \in Requests :
           ctx[r].initialResponse /\ ~ctx[r].finalResponse
               => \/ ctx[r].method = "keyboard-interactive"
                  \/ ctx[r].method = "publickey" /\ ~ctx[r].sig

\* USERAUTH_SUCCESS is sent by the step that authenticates.
Believed == \A i \in 1..Len(toClient) : toClient[i].type = "USERAUTH_SUCCESS" => authenticated

\* A request in need of an answer: neither decided nor, for a key without a
\* signature, acknowledged by PK_OK.
Open(r) ==
    /\ ~ctx[r].finalResponse
    /\ ~(ctx[r].method = "publickey" /\ ~ctx[r].sig /\ ctx[r].initialResponse)

\* While at most one request has pended at a time and authPKOK() has not thrown, the
\* unanswered requests are the one being decided, if it is open, and the one behind it.
InTurn ==
    /\ inOrder
    /\ Len(pendingAuths) <= 1 /\ \A i \in 1..Len(pendingAuths) : authCtx < pendingAuths[i]
    /\ ~authenticated =>
           unanswered = {r \in {authCtx} \ {None} : Open(r)}
                        \cup {pendingAuths[i] : i \in 1..Len(pendingAuths)}

\* Requests come for one user and there is always one to decide, until somebody is
\* authenticated.  An interactive context that is neither decided nor the one being
\* decided was aborted; those that were aborted are not being decided.
Superseded ==
    /\ aborted \subseteq emitted \ {authCtx}
    /\ \A r \in emitted \ {authCtx} :
           ctx[r].method = "keyboard-interactive" /\ ~ctx[r].finalResponse => r \in aborted
    /\ \A q, r \in Requests : ctx[q].user = ctx[r].user
    /\ ~authenticated /\ Requests # {} => authCtx # None
    /\ authenticated => by # None

IInv ==
    /\ Fields /\ Pending /\ Touched /\ Superseded /\ Believed /\ Authentic
    /\ (~crowded /\ ~threw => InTurn)

-----------------------------------------------------------------------------
(* What the client does: it sends well-formed messages, and ends.          *)

Talks == toServer' \in Seq(ServerMsgs) /\ over' \in Overs

LEMMA RequestTypes ==
    /\ authPassword \in AuthRequests /\ authPK(TRUE) \in AuthRequests /\ authPK(FALSE) \in AuthRequests
    /\ authHostbased \in AuthRequests /\ authKeyboard \in AuthRequests /\ authNone \in AuthRequests
    /\ authInfoRes \in ServerMsgs /\ [type |-> "SERVICE_REQUEST"] \in ServerMsgs
    /\ AuthRequests \subseteq ServerMsgs
BY DEF authPassword, authPK, authHostbased, authKeyboard, authNone, Request, AuthRequests, Names,
       ServerMsgs

\* The four things a step of the client may do.
LEMMA Outcomes ==
    ASSUME Fields, NEW q, NEW a
    PROVE  /\ \A request \in AuthRequests : Sends(q, a, request) => Talks
           /\ \A what, request : AskFor(q, a, what, request) => Talks
           /\ GivesUp(q, a, "end") => Talks
           /\ GivesUp(q, a, "error") => Talks
           /\ Ignores(q, a) => Talks
<1>1. \A request \in AuthRequests : Sends(q, a, request) => Talks
  <2>. SUFFICES ASSUME NEW request \in AuthRequests, Sends(q, a, request)
                PROVE  Talks
    OBVIOUS
  <2>1. request \in ServerMsgs
    BY RequestTypes
  <2>2. QED
    BY <2>1 DEF Fields, Sends, Talks
<1>2. \A what, request : AskFor(q, a, what, request) => Talks
  BY DEF Fields, AskFor, Talks
<1>3. /\ GivesUp(q, a, "end") => Talks
      /\ GivesUp(q, a, "error") => Talks
      /\ Ignores(q, a) => Talks
  BY DEF Fields, GivesUp, Ignores, Talks, Overs
<1>4. QED
  BY <1>1, <1>2, <1>3

LEMMA DoNextAuthTalks ==
    ASSUME Fields, NEW q, NEW a, NEW authName \in Choices, DoNextAuth(q, a, authName)
    PROVE  Talks
<1>1. authName \in {"false", "none", "password", "publickey", "hostbased", "keyboard-interactive", "agent"}
  BY AuthAssumption DEF Choices
<1>2. QED
  BY <1>1, Outcomes, RequestTypes DEF DoNextAuth

LEMMA TryNextAuthTalks ==
    ASSUME Fields, NEW q, NEW a, TryNextAuth(q, a)
    PROVE  Talks
BY DoNextAuthTalks, Outcomes DEF TryNextAuth

LEMMA TryNextAgentKeyTalks ==
    ASSUME Fields, NEW q, NEW a, TryNextAgentKey(q, a)
    PROVE  Talks
BY TryNextAuthTalks, Outcomes, RequestTypes DEF TryNextAgentKey

LEMMA OnPKOKTalks ==
    ASSUME Fields, NEW q, NEW request, OnPKOK(q, request)
    PROVE  Talks
<1>1. CASE curAuth = "agent"
  BY <1>1, TryNextAgentKeyTalks, Outcomes DEF OnPKOK
<1>2. CASE curAuth = "publickey"
  BY <1>2, TryNextAuthTalks, Outcomes, RequestTypes DEF OnPKOK
<1>3. CASE curAuth # "agent" /\ curAuth # "publickey"
  BY <1>3, Outcomes DEF OnPKOK
<1>4. QED
  BY <1>1, <1>2, <1>3

LEMMA OnMessage60Talks ==
    ASSUME Fields, NEW request, OnMessage60(request)
    PROVE  Talks
<1>. DEFINE head == IF cqueue = <<>> THEN "nothing" ELSE Head(cqueue)
<1>1. CASE head = "publickey"
  <2>1. OnPKOK(Tail(cqueue), request)
    BY <1>1 DEF OnMessage60
  <2>2. QED
    BY <2>1, OnPKOKTalks
<1>2. CASE head = "password" /\ curAuth = "password"
  BY <1>2, Outcomes DEF OnMessage60
<1>3. CASE head = "keyboard-interactive"
  BY <1>3, Outcomes DEF OnMessage60
<1>4. CASE head # "publickey" /\ ~(head = "password" /\ curAuth = "password")
           /\ head # "keyboard-interactive"
  BY <1>4, Outcomes DEF OnMessage60
<1>5. QED
  BY <1>1, <1>2, <1>3, <1>4

\* A step that leaves the server alone keeps the invariant, if the client believes
\* that it is authenticated only when it is.
LEMMA ServerUntouched ==
    ASSUME IInv, UNCHANGED server, Talks, ready' \in BOOLEAN, ready' => authenticated,
           toClient' \in Seq(ClientMsgs),
           \A i \in 1..Len(toClient') : \E j \in 1..Len(toClient) : toClient'[i] = toClient[j]
    PROVE  IInv'
<1>1. /\ UNCHANGED <<authenticated, authCtx, pendingAuths, ctx, emitted, unanswered, inOrder, by,
                     aborted, accepted, crowded, threw>>
      /\ Requests' = Requests /\ \A r : Open(r)' = Open(r)
  BY DEF server, Requests, Open
<1>2. Fields'
  BY <1>1 DEF IInv, Fields, Talks
<1>3. Pending' /\ Touched' /\ Superseded'
  BY <1>1 DEF IInv, Pending, Touched, Superseded
<1>4. Believed' /\ Authentic'
  BY <1>1 DEF IInv, Believed, Authentic
<1>5. InTurn => InTurn'
  BY <1>1 DEF InTurn
<1>6. QED
  BY <1>1, <1>2, <1>3, <1>4, <1>5 DEF IInv

LEMMA ClientReceivesStep ==
    ASSUME IInv, ClientReceives
    PROVE  IInv'
<1>. DEFINE msg == Head(toClient)
<1>1. /\ toClient \in Seq(ClientMsgs) /\ toClient # <<>> /\ toClient' = Tail(toClient)
      /\ Fields /\ ready \in BOOLEAN
  BY DEF ClientReceives, IInv, Fields
<1>2. msg \in ClientMsgs /\ msg = toClient[1] /\ 1 \in 1..Len(toClient)
  BY <1>1
<1>3. /\ toClient' \in Seq(ClientMsgs)
      /\ \A i \in 1..Len(toClient') : \E j \in 1..Len(toClient) : toClient'[i] = toClient[j]
  BY <1>1
<1>4. ready' = (ready \/ msg.type = "USERAUTH_SUCCESS")
  BY DEF ClientReceives
<1>5. ready' \in BOOLEAN /\ (ready' => authenticated)
  BY <1>1, <1>2, <1>4 DEF IInv, Believed, Authentic
<1>6. Talks
  <2>1. CASE msg.type = "SERVICE_ACCEPT"
    BY <2>1, <1>1, TryNextAuthTalks DEF ClientReceives
  <2>2. CASE msg.type = "USERAUTH_FAILURE"
    BY <2>2, <1>1, TryNextAuthTalks, TryNextAgentKeyTalks DEF ClientReceives
  <2>3. CASE msg.type = "USERAUTH_SUCCESS"
    BY <2>3, <1>1, Outcomes DEF ClientReceives
  <2>4. CASE msg.type \notin {"SERVICE_ACCEPT", "USERAUTH_FAILURE", "USERAUTH_SUCCESS"}
    BY <2>4, <1>1, OnMessage60Talks DEF ClientReceives
  <2>5. QED
    BY <2>1, <2>2, <2>3, <2>4
<1>7. QED
  BY <1>3, <1>5, <1>6, ServerUntouched DEF ClientReceives

LEMMA AnswerStep ==
    ASSUME IInv, NEW c \in asked, Answer(c)
    PROVE  IInv'
<1>1. Fields
  BY DEF IInv
<1>2. Talks
  <2>1. CASE c.what = "authHandler"
    BY <2>1, <1>1, DoNextAuthTalks DEF Answer
  <2>2. CASE c.what = "agentKeys"
    BY <2>2, <1>1, TryNextAuthTalks, Outcomes, RequestTypes DEF Answer
  <2>3. CASE c.what = "agentSign"
    BY <2>3, <1>1, TryNextAgentKeyTalks, Outcomes, RequestTypes DEF Answer
  <2>4. CASE c.what = "newPassword"
    BY <2>4, <1>1, Outcomes, RequestTypes DEF Answer
  <2>5. CASE c.what \notin {"authHandler", "agentKeys", "agentSign", "newPassword"}
    <3>1. toServer' = Append(toServer, authInfoRes) /\ over' = over
      BY <2>5 DEF Answer
    <3>2. authInfoRes \in ServerMsgs
      BY RequestTypes
    <3>3. QED
      BY <1>1, <3>1, <3>2 DEF Fields, Talks
  <2>6. QED
    BY <2>1, <2>2, <2>3, <2>4, <2>5
<1>3. UNCHANGED <<toClient, ready, server>>
  BY DEF Answer
<1>4. QED
  BY <1>1, <1>2, <1>3, ServerUntouched DEF IInv, Fields, Authentic

LEMMA ReadyTimeoutStep ==
    ASSUME IInv, ReadyTimeout
    PROVE  IInv'
BY ServerUntouched DEF IInv, Fields, Authentic, ReadyTimeout, Talks, Overs, client

LEMMA EagerClientStep ==
    ASSUME IInv, EagerClient
    PROVE  IInv'
<1>1. /\ toClient \in Seq(ClientMsgs) /\ toServer \in Seq(ServerMsgs) /\ over' = over /\ over \in Overs
      /\ ready' = ready /\ ready \in BOOLEAN /\ (ready => authenticated) /\ UNCHANGED server
  BY DEF EagerClient, IInv, Fields, Authentic
<1>2. /\ toClient' \in Seq(ClientMsgs)
      /\ \A i \in 1..Len(toClient') : \E j \in 1..Len(toClient) : toClient'[i] = toClient[j]
  <2>1. toClient' = toClient \/ (toClient # <<>> /\ toClient' = Tail(toClient))
    BY DEF EagerClient
  <2>2. CASE toClient' = toClient
    BY <2>2, <1>1
  <2>3. CASE toClient # <<>> /\ toClient' = Tail(toClient)
    BY <2>3, <1>1
  <2>4. QED
    BY <2>1, <2>2, <2>3
<1>3. toServer' \in Seq(ServerMsgs)
  <2>1. CASE \E m \in ServerMsgs : toServer' = Append(toServer, m)
    BY <1>1, <2>1
  <2>2. CASE toServer' = toServer
    BY <1>1, <2>2
  <2>3. ASSUME NEW method \in Methods \ {"agent", "hostbased"}, NEW sig \in BOOLEAN, NEW user \in {1, 2}
        PROVE  Request(method, sig, user) \in ServerMsgs
    BY AuthAssumption DEF Request, ServerMsgs, AuthRequests, Names
  <2>4. authInfoRes \in ServerMsgs /\ [type |-> "SERVICE_REQUEST"] \in ServerMsgs
    BY RequestTypes
  <2>5. QED
    BY <2>1, <2>2, <2>3, <2>4 DEF EagerClient
<1>4. QED
  BY <1>1, <1>2, <1>3, ServerUntouched DEF Talks

-----------------------------------------------------------------------------
(* What the server receives.                                               *)

\* The message at hand is well formed.
LEMMA Received ==
    ASSUME IInv, ServerReceives
    PROVE  /\ toServer' \in Seq(ServerMsgs) /\ Head(toServer) \in ServerMsgs
           /\ ready' = ready
           /\ Head(toServer).type = "USERAUTH_REQUEST" => Head(toServer) \in AuthRequests
<1>1. toServer \in Seq(ServerMsgs) /\ toServer # <<>> /\ toServer' = Tail(toServer) /\ ready' = ready
  BY DEF ServerReceives, IInv, Fields, client
<1>2. toServer' \in Seq(ServerMsgs) /\ Head(toServer) \in ServerMsgs
  BY <1>1
<1>3. \A m \in ServerMsgs : m.type = "USERAUTH_REQUEST" => m \in AuthRequests
  BY DEF ServerMsgs, authInfoRes
<1>4. QED
  BY <1>1, <1>2, <1>3

\* A message put on its way to the client: only authSuccess() says so.
LEMMA ToClient ==
    ASSUME toClient \in Seq(ClientMsgs), NEW m \in ClientMsgs, toClient' = Append(toClient, m),
           Believed, authenticated => authenticated',
           m.type = "USERAUTH_SUCCESS" => authenticated'
    PROVE  toClient' \in Seq(ClientMsgs) /\ Believed'
<1>1. /\ toClient' \in Seq(ClientMsgs)
      /\ \A i \in 1..Len(toClient') : toClient'[i] = m \/ \E j \in 1..Len(toClient) : toClient'[i] = toClient[j]
  OBVIOUS
<1>2. QED
  BY <1>1 DEF Believed

LEMMA ServiceRequestStep ==
    ASSUME IInv, ServerReceives, OnServiceRequest
    PROVE  IInv'
<1>1. /\ UNCHANGED <<authenticated, authCtx, pendingAuths, ctx, emitted, unanswered, inOrder, by,
                     aborted, accepted, crowded, threw, ready>>
      /\ Requests' = Requests /\ \A r : Open(r)' = Open(r)
      /\ toServer' \in Seq(ServerMsgs)
  BY Received DEF OnServiceRequest, Requests, Open
<1>2. toClient' \in Seq(ClientMsgs) /\ Believed' /\ over' \in Overs
  <2>1. CASE acceptedAuthSvc \/ authenticated
    <3>1. toClient' = toClient /\ over' = "service"
      BY <2>1 DEF OnServiceRequest, Disconnect
    <3>2. QED
      BY <1>1, <3>1 DEF Overs, IInv, Fields, Believed
  <2>2. CASE ~(acceptedAuthSvc \/ authenticated)
    <3>. DEFINE m == [type |-> "SERVICE_ACCEPT"]
    <3>1. m \in ClientMsgs /\ m.type # "USERAUTH_SUCCESS"
      BY DEF ClientMsgs
    <3>2. toClient' = Append(toClient, m) /\ over' = over
      BY <2>2 DEF OnServiceRequest
    <3>. HIDE DEF m
    <3>3. QED
      BY <1>1, <3>1, <3>2, ToClient DEF IInv, Fields
  <2>3. QED
    BY <2>1, <2>2
<1>3. Fields'
  BY <1>1, <1>2 DEF IInv, Fields
<1>4. Pending' /\ Touched' /\ Superseded' /\ Authentic'
  BY <1>1 DEF IInv, Pending, Touched, Superseded, Authentic
<1>5. InTurn => InTurn'
  BY <1>1 DEF InTurn
<1>6. QED
  BY <1>1, <1>2, <1>3, <1>4, <1>5 DEF IInv

\* A step of the server that changes, of all contexts, changeCb or promptCb only.
LEMMA CallbacksOnly ==
    ASSUME IInv, Talks,
           UNCHANGED <<authenticated, authCtx, pendingAuths, emitted, unanswered, inOrder, by,
                       aborted, accepted, crowded, threw, ready, toClient>>,
           ctx' \in Seq(Contexts), Requests' = Requests,
           \A r \in Requests : /\ ctx'[r].method = ctx[r].method /\ ctx'[r].sig = ctx[r].sig
                               /\ ctx'[r].user = ctx[r].user
                               /\ ctx'[r].initialResponse = ctx[r].initialResponse
                               /\ ctx'[r].finalResponse = ctx[r].finalResponse
    PROVE  IInv'
<1>1. \A r \in Requests : Open(r)' = Open(r)
  BY DEF Open
<1>2. Fields' /\ Believed'
  BY DEF IInv, Fields, Believed, Talks
<1>3. Pending'
  BY DEF IInv, Pending
<1>4. Touched' /\ Superseded'
  BY DEF IInv, Pending, Touched, Superseded
<1>a. Authentic'
  <2>1. authenticated => by \in Requests
    BY DEF IInv, Pending, Superseded
  <2>2. QED
    BY <2>1 DEF IInv, Authentic
<1>5. InTurn => InTurn'
  <2>1. {r \in {authCtx} \ {None} : Open(r)}' = {r \in {authCtx} \ {None} : Open(r)}
    BY <1>1 DEF IInv, Pending
  <2>2. QED
    BY <2>1 DEF InTurn
<1>6. QED
  BY <1>2, <1>3, <1>4, <1>a, <1>5 DEF IInv

\* One context is replaced.
LEMMA UpdateContext ==
    ASSUME ctx \in Seq(Contexts), NEW r \in DOMAIN ctx, NEW c \in Contexts,
           ctx' = [ctx EXCEPT ![r] = c]
    PROVE  /\ ctx' \in Seq(Contexts) /\ DOMAIN ctx' = DOMAIN ctx /\ Len(ctx') = Len(ctx)
           /\ ctx'[r] = c /\ \A q \in DOMAIN ctx : q # r => ctx'[q] = ctx[q]
OBVIOUS

LEMMA InfoResponseStep ==
    ASSUME IInv, ServerReceives, OnInfoResponse
    PROVE  IInv'
<1>1. ctx' = ctx \/ (authCtx # None /\ ctx' = [ctx EXCEPT ![authCtx].promptCb = FALSE])
  BY DEF OnInfoResponse
<1>2. /\ ctx' \in Seq(Contexts) /\ Requests' = Requests
      /\ \A r \in Requests : /\ ctx'[r].method = ctx[r].method /\ ctx'[r].sig = ctx[r].sig
                             /\ ctx'[r].user = ctx[r].user
                             /\ ctx'[r].initialResponse = ctx[r].initialResponse
                             /\ ctx'[r].finalResponse = ctx[r].finalResponse
  <2>1. ctx \in Seq(Contexts) /\ (authCtx # None => authCtx \in DOMAIN ctx)
    BY DEF IInv, Fields, Pending, Requests
  <2>2. CASE ctx' = ctx
    BY <2>1, <2>2 DEF Requests
  <2>3. CASE authCtx # None /\ ctx' = [ctx EXCEPT ![authCtx].promptCb = FALSE]
    <3>. DEFINE c == [ctx[authCtx] EXCEPT !.promptCb = FALSE]
    <3>1. /\ c \in Contexts
          /\ c.method = ctx[authCtx].method /\ c.sig = ctx[authCtx].sig
          /\ c.user = ctx[authCtx].user
          /\ c.initialResponse = ctx[authCtx].initialResponse
          /\ c.finalResponse = ctx[authCtx].finalResponse
      <4>1. ctx[authCtx] \in Contexts
        BY <2>1, <2>3
      <4>2. QED
        BY <4>1 DEF Contexts
    <3>2. ctx' = [ctx EXCEPT ![authCtx] = c]
      BY <2>3
    <3>. HIDE DEF c
    <3>3. QED
      BY <2>1, <2>3, <3>1, <3>2, UpdateContext DEF Requests
  <2>4. QED
    BY <1>1, <2>2, <2>3
<1>3. Talks
  BY Received DEF OnInfoResponse, Talks, Overs, IInv, Fields, Disconnect
<1>4. UNCHANGED <<authenticated, authCtx, pendingAuths, emitted, unanswered, inOrder, by,
                  aborted, accepted, crowded, threw, ready, toClient>>
  BY Received DEF OnInfoResponse
<1>5. QED
  BY <1>2, <1>3, <1>4, CallbacksOnly

\* A new context: it is numbered after all others.
LEMMA NewContext ==
    ASSUME ctx \in Seq(Contexts), NEW msg \in AuthRequests, ctx' = Append(ctx, AuthContext(msg))
    PROVE  LET id == Len(ctx) + 1
           IN  /\ ctx' \in Seq(Contexts) /\ id \in Nat \ {0}
               /\ DOMAIN ctx' = DOMAIN ctx \cup {id} /\ id \notin DOMAIN ctx
               /\ \A r \in DOMAIN ctx : ctx'[r] = ctx[r] /\ r < id /\ r \in Nat \ {0}
               /\ ctx'[id].initialResponse = FALSE /\ ctx'[id].finalResponse = FALSE
               /\ ctx'[id].user = msg.user
<1>. DEFINE c == AuthContext(msg)
<1>1. c \in Contexts /\ c.initialResponse = FALSE /\ c.finalResponse = FALSE /\ c.user = msg.user
  BY DEF AuthContext, Contexts, AuthRequests
<1>. HIDE DEF c
<1>2. ctx' = Append(ctx, c)
  BY DEF c
<1>3. QED
  BY <1>1, <1>2

\* A request that begins is decided now or pends behind the one being decided.
LEMMA BeginsStep ==
    ASSUME IInv, NEW msg \in AuthRequests, Begins(msg), ~Refused(msg), Talks,
           UNCHANGED <<authenticated, inOrder, by, accepted, threw, ready, toClient>>
    PROVE  IInv'
<1>0. PICK id : id = Len(ctx) + 1
  OBVIOUS
<1>. DEFINE pends == authCtx # None /\ ~ctx[authCtx].initialResponse
            aborts == /\ authCtx # None /\ ~pends
                      /\ ctx[authCtx].method = "keyboard-interactive" /\ ~ctx[authCtx].finalResponse
<1>1. /\ ctx' \in Seq(Contexts) /\ id \in Nat \ {0}
      /\ Requests' = Requests \cup {id} /\ id \notin Requests
      /\ \A r \in Requests : ctx'[r] = ctx[r] /\ r < id /\ r \in Nat \ {0}
      /\ ctx'[id].initialResponse = FALSE /\ ctx'[id].finalResponse = FALSE
      /\ ctx'[id].user = msg.user
  BY <1>0, NewContext DEF IInv, Fields, Begins, Requests
<1>2. /\ pends => pendingAuths' = Append(pendingAuths, id) /\ UNCHANGED <<authCtx, emitted>>
      /\ ~pends => authCtx' = id /\ emitted' = emitted \cup {id} /\ UNCHANGED pendingAuths
      /\ unanswered' = (IF aborts THEN unanswered \ {authCtx} ELSE unanswered) \cup {id}
      /\ aborted' = (IF aborts THEN aborted \cup {authCtx} ELSE aborted)
      /\ crowded' = (crowded \/ pendingAuths # <<>>)
  BY <1>0 DEF Begins
<1>3. /\ ~authenticated /\ Len(pendingAuths) # MAX_PENDING_AUTHS
      /\ pendingAuths \in Seq(Nat) /\ Len(pendingAuths) \in Nat /\ MAX_PENDING_AUTHS \in Nat
  BY AuthAssumption DEF Refused, IInv, Fields
<1>4. /\ authCtx \in Requests \cup {None} /\ by \in Requests \cup {None} /\ emitted \subseteq Requests
      /\ authCtx # None => authCtx \in emitted
      /\ Len(pendingAuths) <= MAX_PENDING_AUTHS
      /\ \A i \in 1..Len(pendingAuths) : pendingAuths[i] \in Requests \ emitted
      /\ \A i, j \in 1..Len(pendingAuths) : pendingAuths[i] = pendingAuths[j] => i = j
  BY DEF IInv, Pending
<1>. HIDE DEF pends, aborts
<1>5. pendingAuths' \in Seq(Nat) /\ Len(pendingAuths') \in Nat
  <2>1. CASE pends
    <3>1. pendingAuths' = Append(pendingAuths, id) /\ id \in Nat /\ pendingAuths \in Seq(Nat)
      BY <2>1, <1>1, <1>2, <1>3
    <3>2. QED
      BY <3>1
  <2>2. CASE ~pends
    BY <2>2, <1>2, <1>3
  <2>3. QED
    BY <2>1, <2>2
<1>6. Fields'
  BY <1>1, <1>2, <1>3, <1>5 DEF IInv, Fields, Talks
<1>7. Pending'
  <2>1. CASE pends
    <3>1. /\ Len(pendingAuths') = Len(pendingAuths) + 1
          /\ \A i \in 1..Len(pendingAuths') :
                 IF i = Len(pendingAuths) + 1 THEN pendingAuths'[i] = id
                 ELSE i \in 1..Len(pendingAuths) /\ pendingAuths'[i] = pendingAuths[i]
      BY <2>1, <1>1, <1>2, <1>3
    <3>2. /\ authCtx' = authCtx /\ emitted' = emitted /\ by' = by /\ authenticated' = authenticated
      BY <2>1, <1>2
    <3>3. \A i \in 1..Len(pendingAuths') : pendingAuths'[i] \in Requests' \ emitted'
      BY <3>1, <3>2, <1>1, <1>4
    <3>4. \A i, j \in 1..Len(pendingAuths') : pendingAuths'[i] = pendingAuths'[j] => i = j
      BY <3>1, <1>1, <1>4
    <3>5. Len(pendingAuths') <= MAX_PENDING_AUTHS
      BY <3>1, <1>3, <1>4
    <3>6. QED
      BY <3>2, <3>3, <3>4, <3>5, <1>1, <1>3, <1>4 DEF Pending
  <2>2. CASE ~pends
    <3>1. authCtx' = id /\ emitted' = emitted \cup {id} /\ pendingAuths' = pendingAuths
      BY <2>2, <1>2
    <3>2. QED
      BY <3>1, <1>1, <1>3, <1>4 DEF Pending
  <2>3. QED
    BY <2>1, <2>2
<1>8. Touched'
  <2>1. \A r \in emitted' : ~ctx'[r].initialResponse => r = authCtx'
    <3>1. \A r \in emitted : ~ctx[r].initialResponse => r = authCtx
      BY DEF IInv, Touched
    <3>2. CASE pends
      BY <3>1, <3>2, <1>1, <1>2, <1>4
    <3>3. CASE ~pends
      <4>1. authCtx' = id /\ emitted' = emitted \cup {id}
        BY <3>3, <1>2
      <4>2. \A r \in emitted : ctx[r].initialResponse
        BY <3>1, <3>3, <1>1, <1>4 DEF pends, None
      <4>3. QED
        BY <4>1, <4>2, <1>1, <1>4
    <3>4. QED
      BY <3>2, <3>3
  <2>2. \A r \in Requests' \ emitted' : ~ctx'[r].initialResponse
    <3>1. \A r \in Requests \ emitted : ~ctx[r].initialResponse
      BY DEF IInv, Touched
    <3>2. QED
      BY <3>1, <1>1, <1>2
  <2>3. QED
    BY <2>1, <2>2, <1>1 DEF IInv, Touched
<1>9. Believed'
  BY DEF IInv, Believed
<1>s. Superseded'
  <2>1. /\ aborted \subseteq emitted \ {authCtx}
        /\ \A r \in emitted \ {authCtx} :
               ctx[r].method = "keyboard-interactive" /\ ~ctx[r].finalResponse => r \in aborted
        /\ \A q, r \in Requests : ctx[q].user = ctx[r].user
        /\ Requests # {} => authCtx # None
        /\ authenticated => by # None
    BY <1>3 DEF IInv, Superseded
  <2>2. \A r \in Requests : ctx[r].user = msg.user
    BY <1>4, <2>1 DEF Refused
  <2>3. \A q, r \in Requests' : ctx'[q].user = ctx'[r].user
    BY <1>1, <2>1, <2>2
  <2>4. CASE pends
    <3>1. UNCHANGED <<authCtx, emitted, aborted>> /\ authCtx # None
      BY <2>4, <1>2 DEF pends, aborts
    <3>2. QED
      BY <1>1, <1>4, <2>1, <2>3, <3>1 DEF Superseded
  <2>5. CASE ~pends
    <3>1. authCtx' = id /\ emitted' = emitted \cup {id} /\ id \notin emitted /\ id # None
      BY <2>5, <1>1, <1>2, <1>4 DEF None
    <3>2. aborted' \subseteq emitted' \ {authCtx'}
      BY <1>2, <1>4, <2>1, <3>1 DEF aborts
    <3>3. \A r \in emitted' \ {authCtx'} :
              ctx'[r].method = "keyboard-interactive" /\ ~ctx'[r].finalResponse => r \in aborted'
      <4>1. SUFFICES ASSUME NEW r \in emitted, ctx[r].method = "keyboard-interactive",
                            ~ctx[r].finalResponse
                     PROVE  r \in aborted'
        BY <1>1, <1>4, <3>1
      <4>2. CASE r = authCtx
        BY <2>5, <4>1, <4>2, <1>1, <1>2, <1>4 DEF aborts, None
      <4>3. CASE r # authCtx
        BY <4>1, <4>3, <2>1, <1>2
      <4>4. QED
        BY <4>2, <4>3
    <3>4. QED
      BY <1>3, <2>1, <2>3, <3>1, <3>2, <3>3 DEF Superseded
  <2>6. QED
    BY <2>4, <2>5
<1>10. Authentic'
  <2>1. accepted \ aborted = {} /\ ~ready
    BY <1>3 DEF IInv, Authentic
  <2>2. aborted \subseteq aborted'
    BY <1>2
  <2>3. QED
    BY <1>3, <2>1, <2>2 DEF Authentic
<1>11. ASSUME ~crowded', ~threw'
       PROVE  InTurn'
  <2>1. pendingAuths = <<>> /\ ~crowded /\ ~threw
    BY <1>11, <1>2
  <2>2. inOrder /\ unanswered = {r \in {authCtx} \ {None} : Open(r)}
    BY <2>1, <1>3 DEF IInv, InTurn
  <2>3. \A r \in Requests : Open(r)' = Open(r)
    BY <1>1 DEF Open
  <2>4. CASE pends
    <3>1. authCtx' = authCtx /\ pendingAuths' = <<id>> /\ authCtx \in Requests /\ ~aborts
      BY <2>4, <2>1, <1>2, <1>4 DEF pends, aborts
    <3>2. unanswered' = unanswered \cup {id}
      BY <3>1, <1>2
    <3>3. /\ Len(pendingAuths') = 1 /\ 1..Len(pendingAuths') = {1} /\ pendingAuths'[1] = id
      BY <3>1
    <3>4. {pendingAuths'[i] : i \in 1..Len(pendingAuths')} = {id}
      BY <3>3
    <3>5. unanswered = {r \in {authCtx'} \ {None} : Open(r)'}
      BY <3>1, <2>2, <2>3
    <3>6. QED
      BY <2>2, <3>1, <3>2, <3>3, <3>4, <3>5, <1>1 DEF InTurn
  <2>5. CASE ~pends
    <3>1. authCtx' = id /\ pendingAuths' = <<>>
      BY <2>5, <2>1, <1>2
    <3>2. aborts \/ unanswered = {}
      <4>1. CASE authCtx = None
        BY <4>1, <2>2
      <4>2. CASE authCtx # None
        <5>1. authCtx \in Requests /\ ctx[authCtx].initialResponse
          BY <4>2, <2>5, <1>4 DEF pends
        <5>2. Open(authCtx) => ctx[authCtx].method = "keyboard-interactive" /\ ~ctx[authCtx].finalResponse
          BY <5>1 DEF Open, IInv, Touched
        <5>3. CASE Open(authCtx)
          BY <4>2, <2>5, <5>2, <5>3 DEF aborts
        <5>4. CASE ~Open(authCtx)
          BY <5>4, <2>2
        <5>5. QED
          BY <5>3, <5>4
      <4>3. QED
        BY <4>1, <4>2
    <3>3. unanswered' = {id}
      BY <3>2, <2>2, <1>2
    <3>4. Open(id)'
      BY <1>1 DEF Open
    <3>5. {r \in {authCtx'} \ {None} : Open(r)'} = {id}
      BY <3>1, <3>4, <1>1 DEF None
    <3>6. Len(pendingAuths') = 0 /\ {pendingAuths'[i] : i \in 1..Len(pendingAuths')} = {}
      BY <3>1
    <3>7. QED
      BY <2>2, <3>3, <3>5, <3>6 DEF InTurn
  <2>6. QED
    BY <2>4, <2>5
<1>12. QED
  BY <1>6, <1>7, <1>8, <1>s, <1>9, <1>10, <1>11 DEF IInv

LEMMA UserauthRequestStep ==
    ASSUME IInv, NEW msg \in AuthRequests, OnUserauthRequest(msg), ready' = ready,
           toServer' \in Seq(ServerMsgs)
    PROVE  IInv'
<1>1. UNCHANGED <<toClient, authenticated, inOrder, by, accepted, threw, ready>>
  BY DEF OnUserauthRequest
<1>2. CASE Refused(msg)
  <2>1. UNCHANGED <<ctx, authCtx, emitted, pendingAuths, unanswered, aborted, crowded>> /\ over' = "protocol"
    BY <1>2 DEF OnUserauthRequest, Disconnect
  <2>2. QED
    BY <1>1, <2>1, CallbacksOnly DEF IInv, Fields, Talks, Overs, Requests
<1>3. CASE ~Refused(msg) /\ msg.method = "password" /\ authCtx # None /\ ctx[authCtx].changeCb
  <2>1. /\ ctx' = [ctx EXCEPT ![authCtx].changeCb = FALSE] /\ over' = over
        /\ UNCHANGED <<authCtx, emitted, pendingAuths, unanswered, aborted, crowded>>
    BY <1>3 DEF OnUserauthRequest
  <2>2. ctx \in Seq(Contexts) /\ authCtx \in DOMAIN ctx
    BY <1>3 DEF IInv, Fields, Pending, Requests
  <2>. DEFINE c == [ctx[authCtx] EXCEPT !.changeCb = FALSE]
  <2>3. /\ c \in Contexts
        /\ c.method = ctx[authCtx].method /\ c.sig = ctx[authCtx].sig
        /\ c.user = ctx[authCtx].user
        /\ c.initialResponse = ctx[authCtx].initialResponse
        /\ c.finalResponse = ctx[authCtx].finalResponse
    <3>1. ctx[authCtx] \in Contexts
      BY <2>2
    <3>2. QED
      BY <3>1 DEF Contexts
  <2>4. ctx' = [ctx EXCEPT ![authCtx] = c]
    BY <2>1
  <2>. HIDE DEF c
  <2>5. /\ ctx' \in Seq(Contexts) /\ Requests' = Requests
        /\ \A r \in Requests : /\ ctx'[r].method = ctx[r].method /\ ctx'[r].sig = ctx[r].sig
                               /\ ctx'[r].user = ctx[r].user
                               /\ ctx'[r].initialResponse = ctx[r].initialResponse
                               /\ ctx'[r].finalResponse = ctx[r].finalResponse
    BY <2>2, <2>3, <2>4, UpdateContext DEF Requests
  <2>6. QED
    BY <1>1, <2>1, <2>5, CallbacksOnly DEF IInv, Fields, Talks
<1>4. CASE ~Refused(msg) /\ ~(msg.method = "password" /\ authCtx # None /\ ctx[authCtx].changeCb)
  <2>1. Begins(msg) /\ over' = over
    BY <1>4 DEF OnUserauthRequest
  <2>2. QED
    BY <1>1, <1>4, <2>1, BeginsStep DEF IInv, Fields, Talks
<1>5. QED
  BY <1>2, <1>3, <1>4

LEMMA ServerReceivesStep ==
    ASSUME IInv, ServerReceives
    PROVE  IInv'
<1>. DEFINE msg == Head(toServer)
<1>1. CASE msg.type = "SERVICE_REQUEST"
  BY <1>1, ServiceRequestStep DEF ServerReceives
<1>2. CASE msg.type = "USERAUTH_REQUEST"
  <2>1. OnUserauthRequest(msg) /\ msg \in AuthRequests /\ ready' = ready /\ toServer' \in Seq(ServerMsgs)
    BY <1>2, Received DEF ServerReceives
  <2>2. QED
    BY <2>1, UserauthRequestStep
<1>3. CASE msg.type # "SERVICE_REQUEST" /\ msg.type # "USERAUTH_REQUEST"
  BY <1>3, InfoResponseStep DEF ServerReceives
<1>4. QED
  BY <1>1, <1>2, <1>3

-----------------------------------------------------------------------------
(* What the application decides.                                           *)

\* The message of an answer or a question about request r.
LEMMA MessageType ==
    ASSUME IInv, NEW r \in Requests, NEW type \in {"USERAUTH_SUCCESS", "USERAUTH_FAILURE", "60"}
    PROVE  /\ [type |-> type, method |-> ctx[r].method, for |-> r] \in ClientMsgs
           /\ [type |-> type, method |-> ctx[r].method, for |-> r].type = type
<1>1. ctx[r] \in Contexts /\ r \in Nat
  BY DEF IInv, Fields, Requests
<1>2. ctx[r].method \in Names
  BY <1>1 DEF Contexts
<1>3. QED
  BY <1>1, <1>2 DEF ClientMsgs

\* While answers are in turn, the request being decided is the oldest.
LEMMA InTurnOldest ==
    ASSUME IInv, InTurn, ~authenticated, authCtx # None, Open(authCtx)
    PROVE  Oldest(authCtx)
<1>1. /\ unanswered = {authCtx} \cup {pendingAuths[i] : i \in 1..Len(pendingAuths)}
      /\ \A i \in 1..Len(pendingAuths) : authCtx < pendingAuths[i]
  BY DEF InTurn
<1>2. authCtx \in Nat
  BY DEF IInv, Fields, Pending, Requests
<1>3. QED
  BY <1>1, <1>2 DEF Oldest

\* accept() and reject(): a context that is not being decided has no say.
LEMMA DecideStep ==
    ASSUME IInv, NEW r \in Requests, Decidable(r), NEW allowed \in BOOLEAN, Decides(r, allowed),
           allowed => ~(ctx[r].method = "publickey" /\ ~ctx[r].sig),
           accepted' = IF allowed THEN accepted \cup {r} ELSE accepted,
           UNCHANGED <<toServer, over, ready, aborted, crowded>>
    PROVE  IInv'
<1>. DEFINE c == [ctx[r] EXCEPT !.initialResponse = TRUE, !.finalResponse = TRUE]
<1>1. ctx \in Seq(Contexts) /\ r \in DOMAIN ctx /\ ctx[r] \in Contexts /\ r \in Nat \ {0}
  BY DEF IInv, Fields, Requests
<1>2. /\ c \in Contexts /\ c.method = ctx[r].method /\ c.sig = ctx[r].sig /\ c.user = ctx[r].user
      /\ c.initialResponse = TRUE /\ c.finalResponse = TRUE
  BY <1>1 DEF Contexts
<1>3. ctx' = [ctx EXCEPT ![r] = c]
  BY <1>1 DEF Decides
<1>. HIDE DEF c
<1>4. /\ ctx' \in Seq(Contexts) /\ Requests' = Requests
      /\ ctx'[r] = c /\ \A q \in Requests : q # r => ctx'[q] = ctx[q]
  BY <1>1, <1>2, <1>3, UpdateContext DEF Requests
<1>5. r \in emitted /\ Open(r) /\ ~ctx[r].finalResponse
  BY DEF Decidable, Open
<1>6. \A q \in Requests : q # r => Open(q)' = Open(q)
  BY <1>4 DEF Open
<1>u. /\ \A q \in Requests : /\ ctx'[q].user = ctx[q].user /\ ctx'[q].method = ctx[q].method
                             /\ ctx'[q].sig = ctx[q].sig
                             /\ ~ctx'[q].finalResponse => ~ctx[q].finalResponse
      /\ ctx'[r].finalResponse
  BY <1>2, <1>4
<1>v. /\ aborted \subseteq emitted \ {authCtx}
      /\ \A q \in emitted \ {authCtx} :
             ctx[q].method = "keyboard-interactive" /\ ~ctx[q].finalResponse => q \in aborted
      /\ \A q \in emitted \ {authCtx} :
             ctx'[q].method = "keyboard-interactive" /\ ~ctx'[q].finalResponse => q \in aborted
      /\ \A p, q \in Requests : ctx'[p].user = ctx'[q].user
      /\ emitted \subseteq Requests
  BY <1>u DEF IInv, Superseded, Pending
<1>t. /\ \A q \in Requests : ctx'[q].finalResponse => ctx'[q].initialResponse
      /\ \A q \in Requests :
             ctx'[q].initialResponse /\ ~ctx'[q].finalResponse
                 => \/ ctx'[q].method = "keyboard-interactive"
                    \/ ctx'[q].method = "publickey" /\ ~ctx'[q].sig
      /\ \A q \in emitted : ~ctx'[q].initialResponse => q = authCtx /\ q # r
      /\ \A q \in Requests \ emitted : ~ctx'[q].initialResponse
  <2>1. /\ \A q \in Requests : ctx[q].finalResponse => ctx[q].initialResponse
        /\ \A q \in Requests :
               ctx[q].initialResponse /\ ~ctx[q].finalResponse
                   => \/ ctx[q].method = "keyboard-interactive"
                      \/ ctx[q].method = "publickey" /\ ~ctx[q].sig
        /\ \A q \in emitted : ~ctx[q].initialResponse => q = authCtx
        /\ \A q \in Requests \ emitted : ~ctx[q].initialResponse
        /\ emitted \subseteq Requests
    BY DEF IInv, Touched, Pending
  <2>2. ctx'[r].initialResponse /\ ctx'[r].finalResponse
    BY <1>2, <1>4
  <2>3. QED
    BY <2>1, <2>2, <1>4, <1>5
<1>7. CASE authCtx # r \/ authenticated
  <2>1. UNCHANGED <<authCtx, authenticated, pendingAuths, toClient, emitted, unanswered, inOrder, by, threw>>
    BY <1>7 DEF Decides, onAuthDecide
  <2>2. Fields' /\ Believed'
    BY <1>4, <2>1 DEF IInv, Fields, Believed
  <2>3. Pending'
    BY <1>4, <2>1 DEF IInv, Pending
  <2>4. Touched'
    BY <1>t, <1>4, <2>1 DEF Touched
  <2>s. Superseded'
    BY <1>4, <1>v, <2>1 DEF IInv, Superseded
  <2>5. Authentic'
    <3>1. r # authCtx
      BY <1>1, <1>7 DEF IInv, Pending, None
    <3>2. ASSUME allowed
          PROVE  r \in aborted
      <4>1. ctx[r].initialResponse
        BY <1>5, <3>1 DEF IInv, Touched
      <4>2. ctx[r].method = "keyboard-interactive"
        BY <1>5, <3>2, <4>1 DEF IInv, Touched
      <4>3. QED
        BY <1>5, <1>v, <3>1, <4>2
    <3>3. accepted' \ aborted' = accepted \ aborted
      BY <3>2
    <3>4. authenticated => by \in Requests
      BY DEF IInv, Pending, Superseded
    <3>5. QED
      BY <1>4, <1>u, <2>1, <3>3, <3>4 DEF IInv, Authentic
  <2>6. InTurn => InTurn'
    <3>1. CASE authenticated
      BY <3>1, <2>1 DEF InTurn
    <3>2. CASE ~authenticated
      <4>1. {q \in {authCtx'} \ {None} : Open(q)'} = {q \in {authCtx} \ {None} : Open(q)}
        BY <3>2, <1>6, <1>7, <2>1 DEF IInv, Pending
      <4>2. QED
        BY <4>1, <2>1 DEF InTurn
    <3>3. QED
      BY <3>1, <3>2
  <2>7. QED
    BY <2>1, <2>2, <2>3, <2>4, <2>s, <2>5, <2>6 DEF IInv
<1>8. CASE authCtx = r /\ ~authenticated /\ allowed
  <2>. DEFINE m == [type |-> "USERAUTH_SUCCESS", method |-> ctx[r].method, for |-> r]
  <2>1. /\ authCtx' = None /\ authenticated' = TRUE /\ by' = r /\ pendingAuths' = <<>>
        /\ toClient' = Append(toClient, m) /\ inOrder' = (inOrder /\ Oldest(r))
        /\ emitted' = emitted /\ threw' = threw
    BY <1>8 DEF Decides, onAuthDecide, authSuccess, Answers
  <2>2. m \in ClientMsgs
    BY MessageType
  <2>. HIDE DEF m
  <2>3. toClient' \in Seq(ClientMsgs) /\ Believed'
    BY <2>1, <2>2, ToClient DEF IInv, Fields
  <2>4. Fields'
    BY <1>4, <2>1, <2>3 DEF IInv, Fields
  <2>5. Pending'
    BY <1>4, <2>1, AuthAssumption DEF IInv, Pending
  <2>6. Touched'
    BY <1>t, <1>4, <1>8, <2>1 DEF Touched
  <2>s. Superseded'
    <3>1. \A q \in emitted : q # authCtx \/ ctx'[q].finalResponse
      BY <1>8, <1>u
    <3>2. aborted \subseteq emitted \ {None} /\ r # None
      BY <1>1, <1>v DEF IInv, Pending, Requests, Fields, None
    <3>3. QED
      BY <1>4, <1>v, <2>1, <3>1, <3>2 DEF Superseded
  <2>7. Authentic'
    <3>1. accepted \ aborted = {} /\ r \notin aborted /\ accepted' = accepted \cup {r}
      BY <1>8, <1>v DEF IInv, Authentic
    <3>2. accepted' \ aborted' = {by'}
      BY <2>1, <3>1
    <3>3. ctx'[r].method = "publickey" => ctx'[r].sig
      BY <1>1, <1>8, <1>u DEF Contexts
    <3>4. QED
      BY <1>4, <1>v, <2>1, <3>2, <3>3 DEF Authentic
  <2>8. InTurn => InTurn'
    <3>1. InTurn => inOrder'
      BY <1>1, <1>5, <1>8, <2>1, InTurnOldest DEF InTurn, None
    <3>2. Len(pendingAuths') = 0
      BY <2>1
    <3>3. QED
      BY <2>1, <3>1, <3>2 DEF InTurn
  <2>9. QED
    BY <2>1, <2>3, <2>4, <2>5, <2>6, <2>s, <2>7, <2>8 DEF IInv
<1>9. CASE authCtx = r /\ ~authenticated /\ ~allowed
  <2>. DEFINE m == [type |-> "USERAUTH_FAILURE", method |-> ctx[r].method, for |-> r]
  <2>1. /\ authenticated' = authenticated /\ by' = by
        /\ toClient' = Append(toClient, m) /\ inOrder' = (inOrder /\ Oldest(r))
        /\ unanswered' = unanswered \ {r} /\ threw' = threw
    BY <1>9 DEF Decides, onAuthDecide, authFailure, Answers
  <2>2. m \in ClientMsgs /\ m.type # "USERAUTH_SUCCESS"
    BY MessageType
  <2>. HIDE DEF m
  <2>3. toClient' \in Seq(ClientMsgs) /\ Believed'
    BY <2>1, <2>2, ToClient DEF IInv, Fields
  <2>4. Authentic'
    BY <1>9, <2>1 DEF IInv, Authentic
  <2>s. ASSUME authCtx' = authCtx \/ (authCtx' \in Requests \ emitted /\ authCtx' # None),
               emitted' = emitted \cup ({authCtx'} \ {None})
        PROVE  Superseded'
    <3>1. \A q \in emitted' \ {authCtx'} : q \in emitted /\ (q # authCtx \/ ctx'[q].finalResponse)
      BY <1>9, <1>u, <2>s
    <3>2. aborted \subseteq emitted' \ {authCtx'}
      BY <1>v, <2>s
    <3>3. \A q \in emitted' \ {authCtx'} :
              ctx'[q].method = "keyboard-interactive" /\ ~ctx'[q].finalResponse => q \in aborted'
      BY <1>v, <3>1
    <3>4. authCtx' # None
      BY <1>1, <1>9, <2>s DEF None
    <3>5. authenticated' => by' # None
      BY <1>9, <2>1
    <3>6. QED
      BY <1>4, <1>v, <3>2, <3>3, <3>4, <3>5 DEF Superseded
  <2>5. pendingAuths \in Seq(Nat) /\ Len(pendingAuths) \in Nat
    BY DEF IInv, Fields
  <2>6. CASE pendingAuths = <<>>
    <3>1. UNCHANGED <<authCtx, pendingAuths, emitted>>
      BY <1>9, <2>6 DEF Decides, onAuthDecide
    <3>2. Fields'
      BY <1>4, <2>1, <2>3, <3>1 DEF IInv, Fields
    <3>3. Pending'
      BY <1>4, <2>1, <3>1 DEF IInv, Pending
    <3>4. Touched'
      BY <1>t, <1>4, <3>1 DEF Touched
    <3>s. Superseded'
      BY <1>5, <1>9, <2>s, <3>1
    <3>5. ASSUME InTurn
          PROVE  InTurn'
      <4>1. inOrder'
        BY <1>1, <1>5, <1>9, <2>1, <3>5, InTurnOldest DEF InTurn, None
      <4>2. \A q : q = r => ~Open(q)'
        BY <1>2, <1>4 DEF Open
      <4>3. unanswered \subseteq {r}
        BY <1>9, <2>6, <3>5 DEF InTurn
      <4>4. {q \in {authCtx'} \ {None} : Open(q)'} = {}
        BY <4>2, <1>9, <3>1
      <4>5. QED
        BY <2>1, <2>6, <3>1, <3>5, <4>1, <4>3, <4>4 DEF InTurn
    <3>6. QED
      BY <2>1, <2>3, <2>4, <3>2, <3>3, <3>4, <3>s, <3>5 DEF IInv
  <2>7. CASE pendingAuths # <<>>
    <3>1. PICK next : next = pendingAuths[Len(pendingAuths)]
      OBVIOUS
    <3>2. /\ authCtx' = next /\ emitted' = emitted \cup {next}
          /\ pendingAuths' = SubSeq(pendingAuths, 1, Len(pendingAuths) - 1)
      BY <1>9, <2>7, <3>1 DEF Decides, onAuthDecide
    <3>3. /\ Len(pendingAuths) >= 1 /\ Len(pendingAuths) \in 1..Len(pendingAuths)
          /\ pendingAuths' \in Seq(Nat)
          /\ Len(pendingAuths') = Len(pendingAuths) - 1
          /\ \A i \in 1..Len(pendingAuths') :
                 pendingAuths'[i] = pendingAuths[i] /\ i \in 1..Len(pendingAuths) /\ i # Len(pendingAuths)
      <4>. DEFINE n == Len(pendingAuths)
      <4>1. n >= 1 /\ n \in Nat
        BY <2>5, <2>7
      <4>2. /\ SubSeq(pendingAuths, 1, n - 1) \in Seq(Nat)
            /\ Len(SubSeq(pendingAuths, 1, n - 1)) = n - 1
            /\ \A i \in 1..(n - 1) : SubSeq(pendingAuths, 1, n - 1)[i] = pendingAuths[i]
        <5>1. \A i \in 1..(n - 1) : pendingAuths[i] \in Nat
          BY <2>5, <4>1
        <5>. HIDE DEF n
        <5>2. /\ SubSeq(pendingAuths, 1, n - 1) \in Seq(Nat)
              /\ Len(SubSeq(pendingAuths, 1, n - 1)) = IF 1 <= n - 1 THEN (n - 1) - 1 + 1 ELSE 0
              /\ \A i \in 1..((n - 1) - 1 + 1) : SubSeq(pendingAuths, 1, n - 1)[i] = pendingAuths[1 + i - 1]
          BY <4>1, <5>1, SubSeqProperties
        <5>3. QED
          BY <4>1, <5>2
      <4>3. QED
        BY <3>2, <4>1, <4>2
    <3>4. next \in Requests \ emitted /\ next # r
      BY <1>5, <3>1, <3>3 DEF IInv, Pending
    <3>5. Fields'
      BY <1>4, <2>1, <2>3, <3>3 DEF IInv, Fields
    <3>6. Pending'
      <4>1. \A i \in 1..Len(pendingAuths') : pendingAuths'[i] \in Requests' \ emitted'
        <5>. SUFFICES ASSUME NEW i \in 1..Len(pendingAuths')
                      PROVE  pendingAuths'[i] \in Requests' \ emitted'
          OBVIOUS
        <5>1. /\ pendingAuths'[i] = pendingAuths[i] /\ i \in 1..Len(pendingAuths)
              /\ i # Len(pendingAuths) /\ Len(pendingAuths) \in 1..Len(pendingAuths)
          BY <3>3
        <5>2. pendingAuths[i] \in Requests \ emitted /\ pendingAuths[i] # next
          BY <3>1, <5>1 DEF IInv, Pending
        <5>3. QED
          BY <1>4, <3>2, <5>1, <5>2
      <4>2. \A i, j \in 1..Len(pendingAuths') : pendingAuths'[i] = pendingAuths'[j] => i = j
        BY <3>3 DEF IInv, Pending
      <4>3. Len(pendingAuths') <= MAX_PENDING_AUTHS
        BY <2>5, <3>3, AuthAssumption DEF IInv, Pending
      <4>4. QED
        BY <1>4, <1>9, <2>1, <3>2, <3>4, <4>1, <4>2, <4>3 DEF IInv, Pending
    <3>7. Touched'
      BY <1>t, <1>4, <1>9, <3>2, <3>4 DEF Touched
    <3>s. Superseded'
      <4>1. next # None
        BY <1>1, <3>4 DEF Requests, None
      <4>2. QED
        BY <2>s, <3>2, <3>4, <4>1
    <3>8. ASSUME InTurn
          PROVE  InTurn'
      <4>1. inOrder'
        BY <1>1, <1>5, <1>9, <2>1, <3>8, InTurnOldest DEF InTurn, None
      <4>2. Len(pendingAuths) = 1 /\ Len(pendingAuths') = 0 /\ next = pendingAuths[1]
        BY <2>5, <3>1, <3>3, <3>8 DEF InTurn
      <4>3. {pendingAuths[i] : i \in 1..Len(pendingAuths)} = {next}
        BY <4>2
      <4>4. {pendingAuths'[i] : i \in 1..Len(pendingAuths')} = {}
        BY <4>2
      <4>5. unanswered = {r, next}
        BY <1>1, <1>5, <1>9, <3>8, <4>3 DEF InTurn, None
      <4>6. \A q : q = next => Open(q)'
        BY <1>4, <3>4 DEF Open, IInv, Touched
      <4>7. next # None
        BY <1>1, <3>4 DEF Requests, None
      <4>8. {q \in {authCtx'} \ {None} : Open(q)'} = {next}
        BY <4>6, <4>7, <3>2
      <4>9. QED
        BY <2>1, <3>4, <4>1, <4>2, <4>4, <4>5, <4>8 DEF InTurn
    <3>9. QED
      BY <2>1, <2>3, <2>4, <3>5, <3>6, <3>7, <3>s, <3>8 DEF IInv
  <2>8. QED
    BY <2>6, <2>7
<1>10. QED
  BY <1>7, <1>8, <1>9

\* accept() of a key without a signature: PK_OK, or authPKOK() throws.
LEMMA AcceptsKeyStep ==
    ASSUME IInv, NEW r \in Requests, Decidable(r), AcceptsKey(r),
           ctx[r].method = "publickey", ~ctx[r].sig,
           UNCHANGED <<toServer, over, ready, aborted, accepted, crowded>>
    PROVE  IInv'
<1>. DEFINE c == [ctx[r] EXCEPT !.initialResponse = TRUE]
<1>1. ctx \in Seq(Contexts) /\ r \in DOMAIN ctx /\ ctx[r] \in Contexts /\ r \in Nat \ {0}
  BY DEF IInv, Fields, Requests
<1>2. /\ c \in Contexts /\ c.method = ctx[r].method /\ c.sig = ctx[r].sig /\ c.user = ctx[r].user
      /\ c.initialResponse = TRUE /\ c.finalResponse = ctx[r].finalResponse
  BY <1>1 DEF Contexts
<1>3. ctx' = [ctx EXCEPT ![r] = c]
  BY <1>1 DEF AcceptsKey
<1>. HIDE DEF c
<1>4. /\ ctx' \in Seq(Contexts) /\ Requests' = Requests
      /\ ctx'[r] = c /\ \A q \in Requests : q # r => ctx'[q] = ctx[q]
  BY <1>1, <1>2, <1>3, UpdateContext DEF Requests
<1>5. r \in emitted /\ Open(r) /\ ~ctx[r].finalResponse /\ ~ctx[r].initialResponse
  BY DEF Decidable, Open
<1>6. r = authCtx /\ ~authenticated
  BY <1>1, <1>5 DEF IInv, Touched, Pending, None
<1>7. UNCHANGED <<authCtx, authenticated, pendingAuths, emitted, by>>
  BY DEF AcceptsKey
<1>8. Pending'
  BY <1>4, <1>7 DEF IInv, Pending
<1>9. Touched'
  <2>1. /\ \A q \in Requests : ctx[q].finalResponse => ctx[q].initialResponse
        /\ \A q \in Requests :
               ctx[q].initialResponse /\ ~ctx[q].finalResponse
                   => \/ ctx[q].method = "keyboard-interactive"
                      \/ ctx[q].method = "publickey" /\ ~ctx[q].sig
        /\ \A q \in emitted : ~ctx[q].initialResponse => q = authCtx
        /\ \A q \in Requests \ emitted : ~ctx[q].initialResponse
        /\ emitted \subseteq Requests
    BY DEF IInv, Touched, Pending
  <2>2. ctx'[r].initialResponse /\ ctx'[r].method = "publickey" /\ ~ctx'[r].sig
    BY <1>2, <1>4
  <2>3. QED
    BY <2>1, <2>2, <1>4, <1>5, <1>7 DEF Touched
<1>s. Superseded'
  <2>1. \A q \in Requests : /\ ctx'[q].user = ctx[q].user /\ ctx'[q].method = ctx[q].method
                            /\ ctx'[q].finalResponse = ctx[q].finalResponse
    BY <1>2, <1>4
  <2>2. QED
    BY <1>4, <1>7, <2>1 DEF IInv, Superseded, Pending
<1>10. Authentic'
  BY <1>6, <1>7 DEF IInv, Authentic
<1>11. CASE squeue # <<>> /\ Head(squeue) = "publickey"
  <2>. DEFINE m == [type |-> "60", method |-> ctx[r].method, for |-> r]
  <2>1. /\ toClient' = Append(toClient, m) /\ inOrder' = (inOrder /\ Oldest(r))
        /\ unanswered' = unanswered \ {r} /\ threw' = threw
    BY <1>11 DEF AcceptsKey, authPKOK, Answers
  <2>2. m \in ClientMsgs /\ m.type # "USERAUTH_SUCCESS"
    BY MessageType
  <2>. HIDE DEF m
  <2>3. toClient' \in Seq(ClientMsgs) /\ Believed'
    BY <1>7, <2>1, <2>2, ToClient DEF IInv, Fields
  <2>4. Fields'
    BY <1>4, <1>7, <2>1, <2>3 DEF IInv, Fields
  <2>5. ASSUME InTurn
        PROVE  InTurn'
    <3>1. inOrder'
      BY <1>1, <1>5, <1>6, <2>1, <2>5, InTurnOldest DEF InTurn, None
    <3>2. \A q : q = r => ~Open(q)'
      BY <1>2, <1>4 DEF Open
    <3>3. {q \in {authCtx'} \ {None} : Open(q)'} = {}
      BY <3>2, <1>6, <1>7
    <3>4. unanswered = {r} \cup {pendingAuths[i] : i \in 1..Len(pendingAuths)}
      BY <1>1, <1>5, <1>6, <2>5 DEF InTurn, None
    <3>5. r \notin {pendingAuths[i] : i \in 1..Len(pendingAuths)}
      BY <1>5 DEF IInv, Pending
    <3>6. unanswered' = {pendingAuths[i] : i \in 1..Len(pendingAuths)}
      BY <2>1, <3>4, <3>5
    <3>7. QED
      BY <1>7, <2>5, <3>1, <3>3, <3>6 DEF InTurn
  <2>6. QED
    BY <1>8, <1>9, <1>s, <1>10, <2>1, <2>3, <2>4, <2>5 DEF IInv
<1>12. CASE ~(squeue # <<>> /\ Head(squeue) = "publickey")
  <2>1. threw' = TRUE /\ UNCHANGED <<toClient, inOrder>>
    BY <1>12 DEF AcceptsKey, authPKOK
  <2>2. Fields' /\ Believed'
    BY <1>4, <1>7, <2>1 DEF IInv, Fields, Believed
  <2>3. QED
    BY <1>8, <1>9, <1>s, <1>10, <2>1, <2>2 DEF IInv
<1>13. QED
  BY <1>11, <1>12

\* prompt() and requestChange(): a question to the client.
LEMMA AsksStep ==
    ASSUME IInv, NEW r \in Requests, Decidable(r), Asks(r), NEW c \in Contexts,
           ctx' = [ctx EXCEPT ![r] = c],
           c.method = ctx[r].method, c.sig = ctx[r].sig, c.finalResponse = ctx[r].finalResponse,
           c.user = ctx[r].user,
           \/ c.initialResponse = ctx[r].initialResponse
           \/ c.initialResponse = TRUE /\ ctx[r].method = "keyboard-interactive"
    PROVE  IInv'
<1>1. ctx \in Seq(Contexts) /\ r \in DOMAIN ctx /\ r \in Nat
  BY DEF IInv, Fields, Requests
<1>2. /\ ctx' \in Seq(Contexts) /\ Requests' = Requests
      /\ ctx'[r] = c /\ \A q \in Requests : q # r => ctx'[q] = ctx[q]
  BY <1>1, UpdateContext DEF Requests
<1>3. UNCHANGED <<toServer, over, ready, authenticated, authCtx, pendingAuths, emitted, unanswered,
                  inOrder, by, aborted, accepted, crowded, threw>>
  BY DEF Asks, client
<1>4. toClient' \in Seq(ClientMsgs) /\ Believed'
  <2>. DEFINE m == [type |-> "60", method |-> ctx[r].method, for |-> r]
  <2>1. toClient' = Append(toClient, m)
    BY DEF Asks
  <2>2. m \in ClientMsgs /\ m.type # "USERAUTH_SUCCESS"
    BY MessageType
  <2>. HIDE DEF m
  <2>3. QED
    BY <1>3, <2>1, <2>2, ToClient DEF IInv, Fields
<1>5. \A q \in Requests : Open(q)' = Open(q)
  <2>1. \A q : q = r => Open(q)' = Open(q)
    BY <1>2 DEF Open
  <2>2. QED
    BY <2>1, <1>2 DEF Open
<1>6. Fields'
  BY <1>2, <1>3, <1>4 DEF IInv, Fields
<1>7. Pending'
  BY <1>2, <1>3 DEF IInv, Pending
<1>8. Touched'
  <2>1. /\ \A q \in Requests : ctx[q].finalResponse => ctx[q].initialResponse
        /\ \A q \in Requests :
               ctx[q].initialResponse /\ ~ctx[q].finalResponse
                   => \/ ctx[q].method = "keyboard-interactive"
                      \/ ctx[q].method = "publickey" /\ ~ctx[q].sig
        /\ \A q \in emitted : ~ctx[q].initialResponse => q = authCtx
        /\ \A q \in Requests \ emitted : ~ctx[q].initialResponse
        /\ emitted \subseteq Requests /\ r \in emitted
    BY DEF IInv, Touched, Pending, Decidable
  <2>2. /\ ctx'[r].method = ctx[r].method /\ ctx'[r].sig = ctx[r].sig
        /\ ctx'[r].finalResponse = ctx[r].finalResponse
        /\ ctx[r].initialResponse => ctx'[r].initialResponse
        /\ ctx'[r].initialResponse => ctx[r].initialResponse \/ ctx[r].method = "keyboard-interactive"
    BY <1>2
  <2>3. QED
    BY <2>1, <2>2, <1>2, <1>3 DEF Touched
<1>u. \A q \in Requests : /\ ctx'[q].user = ctx[q].user /\ ctx'[q].method = ctx[q].method
                         /\ ctx'[q].sig = ctx[q].sig /\ ctx'[q].finalResponse = ctx[q].finalResponse
  BY <1>2
<1>s. Superseded'
  BY <1>2, <1>3, <1>u DEF IInv, Superseded, Pending
<1>9. Authentic'
  <2>1. authenticated => by \in Requests
    BY DEF IInv, Pending, Superseded
  <2>2. QED
    BY <1>2, <1>3, <1>u, <2>1 DEF IInv, Authentic
<1>10. InTurn => InTurn'
  <2>1. {q \in {authCtx} \ {None} : Open(q)}' = {q \in {authCtx} \ {None} : Open(q)}
    BY <1>3, <1>5 DEF IInv, Pending
  <2>2. QED
    BY <2>1, <1>3 DEF InTurn
<1>11. QED
  BY <1>3, <1>4, <1>6, <1>7, <1>8, <1>s, <1>9, <1>10 DEF IInv

LEMMA PromptStep ==
    ASSUME IInv, NEW r \in Requests, Prompt(r)
    PROVE  IInv'
<1>. DEFINE c == [ctx[r] EXCEPT !.promptCb = TRUE, !.initialResponse = TRUE]
<1>1. ctx[r] \in Contexts
  BY DEF IInv, Fields, Requests
<1>2. /\ c \in Contexts /\ c.method = ctx[r].method /\ c.sig = ctx[r].sig /\ c.user = ctx[r].user
      /\ c.initialResponse = TRUE /\ c.finalResponse = ctx[r].finalResponse
  BY <1>1 DEF Contexts
<1>3. ctx' = [ctx EXCEPT ![r] = c]
  BY DEF Prompt, IInv, Fields, Requests
<1>. HIDE DEF c
<1>4. Decidable(r) /\ Asks(r) /\ ctx[r].method = "keyboard-interactive"
  BY DEF Prompt, authInfoReq
<1>5. QED
  BY <1>2, <1>3, <1>4, AsksStep

LEMMA RequestChangeStep ==
    ASSUME IInv, NEW r \in Requests, requestChange(r)
    PROVE  IInv'
<1>. DEFINE c == [ctx[r] EXCEPT !.changeCb = TRUE]
<1>1. ctx[r] \in Contexts
  BY DEF IInv, Fields, Requests
<1>2. /\ c \in Contexts /\ c.method = ctx[r].method /\ c.sig = ctx[r].sig /\ c.user = ctx[r].user
      /\ c.initialResponse = ctx[r].initialResponse /\ c.finalResponse = ctx[r].finalResponse
  BY <1>1 DEF Contexts
<1>3. ctx' = [ctx EXCEPT ![r] = c]
  BY DEF requestChange
<1>. HIDE DEF c
<1>4. Decidable(r) /\ Asks(r)
  BY DEF requestChange, authPasswdChg
<1>5. QED
  BY <1>2, <1>3, <1>4, AsksStep

-----------------------------------------------------------------------------
(* The theorems.                                                           *)

LEMMA Initially == Init => IInv
<1>. SUFFICES ASSUME Init
              PROVE  IInv
  OBVIOUS
<1>1. [type |-> "SERVICE_REQUEST"] \in ServerMsgs
  BY RequestTypes
<1>2. toServer \in Seq(ServerMsgs)
  <2>. DEFINE m == [type |-> "SERVICE_REQUEST"]
  <2>1. toServer = <<m>> /\ m \in ServerMsgs
    BY <1>1 DEF Init
  <2>. HIDE DEF m
  <2>2. QED
    BY <2>1
<1>3. Fields
  <2>1. {ready, authenticated, inOrder, crowded, threw} \subseteq BOOLEAN
    BY DEF Init
  <2>2. /\ toClient = <<>> /\ ctx = <<>> /\ pendingAuths = <<>> /\ over = "no"
    BY DEF Init
  <2>3. toClient \in Seq(ClientMsgs) /\ ctx \in Seq(Contexts) /\ pendingAuths \in Seq(Nat)
    BY <2>2
  <2>4. QED
    BY <1>2, <2>1, <2>2, <2>3 DEF Fields, Overs
<1>4. Pending
  BY AuthAssumption DEF Init, Pending, None
<1>5. Touched /\ Superseded /\ Believed /\ Authentic
  BY DEF Init, Touched, Superseded, Believed, Authentic, Requests
<1>6. InTurn
  <2>1. Len(pendingAuths) = 0 /\ unanswered = {} /\ authCtx = None /\ inOrder
    BY DEF Init
  <2>2. {pendingAuths[i] : i \in 1..Len(pendingAuths)} = {}
    BY <2>1
  <2>3. QED
    BY <2>1, <2>2 DEF InTurn
<1>7. QED
  BY <1>3, <1>4, <1>5, <1>6 DEF IInv

\* Every step keeps the invariant.
LEMMA Inductive == IInv /\ [Next]_vars => IInv'
<1>. SUFFICES ASSUME IInv, [Next]_vars
              PROVE  IInv'
  OBVIOUS
<1>1. CASE ClientReceives
  BY <1>1, ClientReceivesStep
<1>2. CASE EagerClient
  BY <1>2, EagerClientStep
<1>3. CASE ReadyTimeout
  BY <1>3, ReadyTimeoutStep
<1>4. CASE ServerReceives
  BY <1>4, ServerReceivesStep
<1>5. ASSUME NEW c \in asked, Answer(c)
      PROVE  IInv'
  BY <1>5, AnswerStep
<1>6. ASSUME NEW r \in Requests, Accept(r)
      PROVE  IInv'
  <2>1. Decidable(r) /\ UNCHANGED <<toServer, over, ready, aborted, crowded>>
    BY <1>6 DEF Accept, client
  <2>2. CASE ctx[r].method = "publickey" /\ ~ctx[r].sig
    BY <1>6, <2>1, <2>2, AcceptsKeyStep DEF Accept
  <2>3. CASE ~(ctx[r].method = "publickey" /\ ~ctx[r].sig)
    BY <1>6, <2>1, <2>3, DecideStep DEF Accept
  <2>4. QED
    BY <2>2, <2>3
<1>7. ASSUME NEW r \in Requests, Reject(r)
      PROVE  IInv'
  <2>1. Decidable(r) /\ Decides(r, FALSE) /\ UNCHANGED <<toServer, over, ready, aborted, accepted, crowded>>
    BY <1>7 DEF Reject, client
  <2>2. QED
    BY <2>1, DecideStep
<1>8. ASSUME NEW r \in Requests, Prompt(r)
      PROVE  IInv'
  BY <1>8, PromptStep
<1>9. ASSUME NEW r \in Requests, requestChange(r)
      PROVE  IInv'
  BY <1>9, RequestChangeStep
<1>10. CASE UNCHANGED vars
  <2>1. UNCHANGED <<toServer, toClient, over, ready, server>>
    BY <1>10 DEF vars, client
  <2>2. QED
    BY <2>1, ServerUntouched DEF IInv, Fields, Authentic, Talks
<1>11. QED
  BY <1>1, <1>2, <1>3, <1>4, <1>5, <1>6, <1>7, <1>8, <1>9, <1>10 DEF Next

LEMMA Invariance == Spec => []IInv
BY Initially, Inductive, PTL DEF Spec

\* The variables keep their ranges, and at most MAX_PENDING_AUTHS requests pend.
THEOREM TypeCorrect == Spec => []TypeOK
<1>1. IInv => TypeOK
  BY DEF IInv, Fields, Pending, TypeOK, Overs
<1>2. QED
  BY <1>1, Invariance, PTL

\* A request the application accepts authenticates at once, unless a later one has
\* aborted it; nobody is authenticated otherwise, for another user than the requests
\* name, or by a public key that signed nothing; and the client believes it only then.
THEOREM OnlyTheAccepted == Spec => []Authentic
<1>1. IInv => Authentic
  BY DEF IInv
<1>2. QED
  BY <1>1, Invariance, PTL

\* Answers are in the order of the requests, until a request comes while another
\* one pends or authPKOK() throws.
THEOREM AnswersInOrder == Spec => []AnsweredInOrder
<1>1. IInv => AnsweredInOrder
  BY DEF IInv, InTurn, AnsweredInOrder
<1>2. QED
  BY <1>1, Invariance, PTL

-----------------------------------------------------------------------------
(* The client of this library and the server in lockstep: the turn is with *)
(* the client, on the wire or with the server, and never in two places.    *)

\* The requests on their way.
Reqs == {i \in 1..Len(toServer) : toServer[i].type # "61"}

\* The server takes the next password request for the answer to its question.
Credit == authCtx # None /\ ctx[authCtx].changeCb

OnlyReply ==
    \A i \in Reqs : /\ Credit /\ toServer[i].type = "USERAUTH_REQUEST" /\ toServer[i].method = "password"
                    /\ \A j \in Reqs : i = j

\* The messages that give the client the turn, or end the conversation.
Passes(m) == m.type # "60" \/ m.method = "publickey"

\* The callbacks in which the client has the turn.
Turns == {"authHandler", "agentKeys", "agentSign"}
Held == {c \in asked : c.what \in Turns}

\* The method of a request: an agent's keys are public keys.
Named(authName) == IF authName = "agent" THEN "publickey" ELSE authName

\* The server asks for another password, and has not decided.
Question(m) == m.type = "60" /\ m.method = "password" /\ ~ctx[m.for].finalResponse

\* One request at a time before the server.
Single ==
    /\ pendingAuths = <<>> /\ aborted = {}
    /\ unanswered \subseteq {authCtx} \ {None}
    /\ \A r \in Requests : Open(r) => r \in unanswered

\* The turn is in one place; besides, the answer to a question may be on its way.
Token ==
    /\ \A i, j \in Reqs : i < j => /\ Credit /\ toServer[i].type = "USERAUTH_REQUEST"
                                   /\ toServer[i].method = "password" /\ \A k \in Reqs : k <= j
    /\ \A c, d \in Held : c = d
    /\ \A i \in 1..Len(toClient) : Passes(toClient[i]) =>
           /\ i = Len(toClient) /\ Held = {} /\ unanswered = {}
           /\ toClient[i].type # "USERAUTH_SUCCESS" => OnlyReply
    /\ Held # {} => toClient = <<>> /\ unanswered = {} /\ OnlyReply
    /\ unanswered # {} => OnlyReply

\* What is on the way, or being decided, is of the method the client tries.
Current ==
    /\ unanswered # {} => ctx[authCtx].method = Named(curAuth)
    /\ Held = {} => \A i \in Reqs : (\A j \in Reqs : j <= i) /\ toServer[i].type = "USERAUTH_REQUEST"
                                        => toServer[i].method = Named(curAuth)
    /\ \A i \in 1..Len(toClient) : toClient[i].type = "60" => toClient[i].method = Named(curAuth)
    /\ \A c \in Held : c.what # "authHandler" => curAuth = "agent"

\* A question for another password is in one place: on its way, with the user, or
\* answered.
Change ==
    /\ \A i \in 1..Len(toClient) : toClient[i].type # "SERVICE_ACCEPT" =>
           toClient[i].for \in Requests /\ toClient[i].method = ctx[toClient[i].for].method
    /\ \A c \in asked : c.what \in Turns \/ (c.what \in {"newPassword", "answers"} /\ c.for \in Requests)
    /\ \A c \in asked : c.what = "newPassword" => ctx[c.for].method = "password"
    /\ \A c \in asked : c.what = "newPassword" /\ ~ctx[c.for].finalResponse =>
           /\ Credit /\ Reqs = {} /\ \A i \in 1..Len(toClient) : ~Question(toClient[i])
           /\ \A d \in asked : d.what = "newPassword" /\ ~ctx[d.for].finalResponse => c = d
    /\ \A i \in 1..Len(toClient) : Question(toClient[i]) =>
           /\ Credit /\ Reqs = {} /\ \A j \in 1..Len(toClient) : Question(toClient[j]) => i = j

\* Without password changes both queues hold the method of the request that is not
\* answered yet, and nothing else.
Queues ==
    /\ \A r \in Requests : ~ctx[r].changeCb
    /\ unanswered # {} => cqueue = <<ctx[authCtx].method>> /\ squeue = <<ctx[authCtx].method>>
    /\ unanswered = {} => squeue = <<>>
    /\ \A i \in Reqs :
           /\ i = Len(toServer) /\ toClient = <<>>
           /\ cqueue = IF toServer[i].type = "USERAUTH_REQUEST" THEN <<toServer[i].method>> ELSE <<>>
    /\ \A i \in 1..Len(toClient) :
           cqueue = IF toClient[i].type = "SERVICE_ACCEPT" THEN <<>> ELSE <<toClient[i].method>>
    /\ Held # {} => cqueue = <<>>
    /\ \A i \in 1..Len(toServer) :
           toServer[i].type = "61" /\ unanswered # {} => ctx[authCtx].method = "keyboard-interactive"
    /\ \A c \in asked : c.what = "answers" => ctx[c.for].method = "keyboard-interactive"

\* No USERAUTH_INFO_RESPONSE was out of place.
Expected == over # "unexpected 61"

Steady ==
    /\ Single
    /\ ~changed => ~misread /\ ~threw /\ Expected
    /\ over = "no" => Token /\ Current /\ Change /\ (~changed => Queues)

Lockstep == ~eager /\ ~late => Steady

LEMMA StillOn ==
    ASSUME over' = "no"
    PROVE  Expected'
BY Zenon DEF Expected

\* A sequence that grows, and one that shrinks.
LEMMA Grown ==
    ASSUME NEW T, NEW s \in Seq(T), NEW m \in T
    PROVE  LET n == Len(s) + 1
               g == Append(s, m)
           IN  /\ Len(g) = n /\ n \in Nat /\ n \in 1..n /\ g[n] = m
               /\ \A i \in 1..Len(s) : i \in Nat /\ g[i] = s[i] /\ i < n /\ i \in 1..n
               /\ \A i \in 1..Len(g) : i \in 1..Len(s) \/ i = n
OBVIOUS

LEMMA Shrunk ==
    ASSUME NEW T, NEW s \in Seq(T), s # <<>>
    PROVE  LET g == Tail(s)
           IN  /\ Len(s) = Len(g) + 1 /\ Len(g) \in Nat /\ Head(s) = s[1] /\ 1 \in 1..Len(s)
               /\ \A i \in 1..Len(g) : i + 1 \in 1..Len(s) /\ g[i] = s[i + 1] /\ i \in Nat /\ 1 <= i
               /\ \A i \in 1..Len(s) : i \in Nat /\ (i = 1 \/ i - 1 \in 1..Len(g))
OBVIOUS

\* The contexts of two requests that are not decided.
LEMMA Undecided ==
    ASSUME Single, NEW r \in Requests, ~ctx[r].finalResponse,
           ctx[r].method = "publickey" => ctx[r].sig \/ ~ctx[r].initialResponse
    PROVE  r \in unanswered /\ r = authCtx
BY DEF Single, Open

\* The server stands still.
LEMMA ServerStill ==
    ASSUME UNCHANGED server
    PROVE  /\ UNCHANGED <<authCtx, pendingAuths, squeue, ctx, unanswered, changed, aborted, threw>>
           /\ Requests' = Requests /\ Credit' = Credit
           /\ \A m : Question(m)' = Question(m)
           /\ Single => Single'
<1>1. UNCHANGED <<authCtx, pendingAuths, squeue, ctx, unanswered, changed, aborted, threw>>
  BY DEF server
<1>2. Requests' = Requests /\ Credit' = Credit /\ \A m : Question(m)' = Question(m)
  BY <1>1 DEF Requests, Credit, Question
<1>3. Single => Single'
  <2>1. \A r : Open(r)' = Open(r)
    BY <1>1 DEF Open
  <2>2. QED
    BY <2>1, <1>1, <1>2 DEF Single
<1>4. QED
  BY <1>1, <1>2, <1>3

\* The client has the turn: it read the last message, or was called back, has the
\* queue q, and the callbacks a are still out.
Turn(q, a) ==
    /\ unanswered = {} /\ OnlyReply /\ toClient' = <<>> /\ a \subseteq asked
    /\ \A c \in a : c.what \notin Turns
    /\ ~changed => q = <<>> /\ ~misread'

\* Without password changes nothing but the turn is on its way to the server.
LEMMA NoCredit ==
    ASSUME IInv, Queues
    PROVE  ~Credit /\ (OnlyReply => Reqs = {})
<1>1. authCtx # None => authCtx \in Requests
  BY DEF IInv, Pending
<1>2. ~Credit
  BY <1>1 DEF Queues, Credit
<1>3. QED
  BY <1>2 DEF OnlyReply

\* It sends a request.
LEMMA TurnSends ==
    ASSUME IInv, Steady, over = "no", UNCHANGED server, NEW q, NEW a, Turn(q, a),
           NEW request \in AuthRequests, Sends(q, a, request), request.method = Named(curAuth')
    PROVE  Steady'
<1>1. /\ Single /\ Token /\ Current /\ Change /\ (~changed => Queues) /\ (~changed => ~misread /\ ~threw)
  BY DEF Steady
<1>2. /\ UNCHANGED <<authCtx, squeue, ctx, unanswered, changed, threw>>
      /\ Requests' = Requests /\ Credit' = Credit /\ Single'
  BY <1>1, ServerStill
<1>3. PICK n : n = Len(toServer) + 1
  OBVIOUS
<1>4. /\ toServer' = Append(toServer, request) /\ asked' = a /\ cqueue' = Append(q, request.method)
      /\ over' = over
  BY DEF Sends
<1>5. /\ Len(toServer') = n /\ n \in Nat /\ n \in 1..n /\ toServer'[n] = request
      /\ \A i \in 1..Len(toServer) : i \in Nat /\ toServer'[i] = toServer[i] /\ i < n /\ i \in 1..n
      /\ \A i \in 1..Len(toServer') : i \in 1..Len(toServer) \/ i = n
  <2>1. toServer \in Seq(ServerMsgs) /\ request \in ServerMsgs
    BY RequestTypes DEF IInv, Fields
  <2>2. QED
    BY <2>1, <1>3, <1>4, Grown
<1>6. request.type = "USERAUTH_REQUEST"
  BY DEF AuthRequests
<1>7. /\ n \in Reqs' /\ Reqs \subseteq Reqs' /\ \A i \in Reqs' : i \in Reqs \/ i = n
      /\ \A i \in Reqs : i \in Nat /\ toServer'[i] = toServer[i] /\ i < n
  BY <1>5, <1>6 DEF Reqs
<1>8. Held' = {} /\ toClient' = <<>> /\ unanswered' = {} /\ Len(toClient') = 0
  BY <1>2, <1>4 DEF Turn, Held
<1>9. Token'
  <2>1. ASSUME NEW i \in Reqs', NEW j \in Reqs', i < j
        PROVE  /\ Credit' /\ toServer'[i].type = "USERAUTH_REQUEST"
               /\ toServer'[i].method = "password" /\ \A k \in Reqs' : k <= j
    <3>1. i \in Reqs
      BY <2>1, <1>5, <1>7
    <3>2. j \notin Reqs
      BY <2>1, <3>1, <1>7 DEF Turn, OnlyReply
    <3>3. \A k \in Reqs' : k <= j
      BY <3>2, <1>5, <1>7
    <3>4. QED
      BY <3>1, <3>3, <1>2, <1>7 DEF Turn, OnlyReply
  <2>2. QED
    BY <2>1, <1>8 DEF Token
<1>10. Current'
  <2>1. ASSUME NEW i \in Reqs', \A j \in Reqs' : j <= i
        PROVE  toServer'[i].method = Named(curAuth')
    <3>1. i = n
      <4>1. n <= i
        BY <2>1, <1>7
      <4>2. QED
        BY <4>1, <1>5, <1>7
    <3>2. QED
      BY <3>1, <1>5
  <2>2. QED
    BY <2>1, <1>8 DEF Current, Named
<1>11. Change'
  <2>1. \A c \in asked' : c.what = "newPassword" => c.for \in Requests /\ ctx[c.for].method = "password"
    BY <1>1, <1>4 DEF Change, Turn, Turns
  <2>2. \A c \in asked' : c.what = "newPassword" => ctx[c.for].finalResponse
    BY <2>1, <1>1, Undecided DEF Turn
  <2>3. \A c \in asked' : c.what \in Turns \/ (c.what \in {"newPassword", "answers"} /\ c.for \in Requests)
    BY <1>1, <1>4 DEF Change, Turn
  <2>4. QED
    BY <2>1, <2>2, <2>3, <1>2, <1>8 DEF Change
<1>12. ASSUME ~changed
       PROVE  Queues'
  <2>1. Queues /\ q = <<>>
    BY <1>1, <1>12 DEF Turn
  <2>2. Reqs' = {n}
    BY <2>1, <1>7, NoCredit DEF Turn
  <2>3. cqueue' = <<request.method>>
    BY <2>1, <1>4
  <2>4. \A c \in asked' : c.what = "answers" => ctx[c.for].method = "keyboard-interactive"
    BY <2>1, <1>4 DEF Queues, Turn
  <2>5. \A i \in Reqs' : /\ i = Len(toServer')
                         /\ cqueue' = IF toServer'[i].type = "USERAUTH_REQUEST"
                                      THEN <<toServer'[i].method>> ELSE <<>>
    BY <2>2, <2>3, <1>5, <1>6
  <2>6. squeue' = <<>> /\ \A r \in Requests' : ~ctx'[r].changeCb
    BY <2>1, <1>2, <1>8 DEF Queues
  <2>7. QED
    BY <2>4, <2>5, <2>6, <1>2, <1>8 DEF Queues
<1>13. QED
  BY <1>1, <1>2, <1>4, <1>9, <1>10, <1>11, <1>12, StillOn DEF Steady, Turn

\* It asks authHandler or the agent.
LEMMA TurnAsks ==
    ASSUME IInv, Steady, over = "no", UNCHANGED server, NEW q, NEW a, Turn(q, a),
           NEW what \in Turns, NEW request, AskFor(q, a, what, request),
           what # "authHandler" => curAuth' = "agent"
    PROVE  Steady'
<1>1. /\ Single /\ Token /\ Current /\ Change /\ (~changed => Queues) /\ (~changed => ~misread /\ ~threw)
  BY DEF Steady
<1>2. /\ UNCHANGED <<authCtx, squeue, ctx, unanswered, changed, threw>>
      /\ Requests' = Requests /\ Credit' = Credit /\ Single'
  BY <1>1, ServerStill
<1>3. PICK d : d = [what |-> what, for |-> request]
  OBVIOUS
<1>4. d.what = what
  BY <1>3
<1>5. asked' = a \cup {d} /\ cqueue' = q /\ UNCHANGED <<toServer, over>>
  BY <1>3 DEF AskFor
<1>6. Reqs' = Reqs /\ OnlyReply'
  BY <1>2, <1>5 DEF Turn, Reqs, OnlyReply
<1>7. Held' = {d} /\ toClient' = <<>> /\ unanswered' = {} /\ Len(toClient') = 0
  BY <1>2, <1>4, <1>5 DEF Turn, Held
<1>8. Token'
  <2>1. \A i, j \in Reqs' : i = j
    BY <1>6 DEF OnlyReply
  <2>2. \A i, j \in Reqs' : ~(i < j)
    BY <2>1 DEF Reqs
  <2>3. QED
    BY <2>2, <1>6, <1>7 DEF Token
<1>9. Current'
  BY <1>4, <1>7 DEF Current, Turns
<1>10. \A c \in asked' : c.what \in {"newPassword", "answers"} => c \in asked
  BY <1>4, <1>5 DEF Turns, Turn
<1>11. Change'
  <2>1. \A c \in asked' : c.what = "newPassword" => c.for \in Requests /\ ctx[c.for].method = "password"
    BY <1>1, <1>10 DEF Change, Turns
  <2>2. \A c \in asked' : c.what = "newPassword" => ctx[c.for].finalResponse
    BY <2>1, <1>1, Undecided DEF Turn
  <2>3. \A c \in asked' : c.what \in Turns \/ (c.what \in {"newPassword", "answers"} /\ c.for \in Requests)
    BY <1>1, <1>4, <1>5 DEF Change, Turn
  <2>4. QED
    BY <2>1, <2>2, <2>3, <1>2, <1>7 DEF Change
<1>12. ASSUME ~changed
       PROVE  Queues'
  <2>1. Queues /\ cqueue' = <<>>
    BY <1>1, <1>5, <1>12 DEF Turn
  <2>2. Reqs' = {}
    BY <2>1, <1>6, NoCredit DEF Turn
  <2>3. \A c \in asked' : c.what = "answers" => ctx[c.for].method = "keyboard-interactive"
    BY <2>1, <1>10 DEF Queues
  <2>4. squeue' = <<>> /\ \A r \in Requests' : ~ctx'[r].changeCb
    BY <2>1, <1>2, <1>7 DEF Queues
  <2>5. QED
    BY <2>1, <2>2, <2>3, <2>4, <1>2, <1>7 DEF Queues
<1>13. QED
  BY <1>1, <1>2, <1>5, <1>8, <1>9, <1>11, <1>12, StillOn DEF Steady, Turn

\* It ends the connection.
LEMMA TurnEnds ==
    ASSUME IInv, Steady, over = "no", UNCHANGED server, NEW q, NEW a, Turn(q, a),
           NEW why, GivesUp(q, a, why), why \in {"end", "error"}
    PROVE  Steady'
<1>1. Single /\ (~changed => ~threw)
  BY DEF Steady
<1>2. UNCHANGED <<changed, threw>> /\ Single'
  BY <1>1, ServerStill
<1>3. over' # "no" /\ Expected'
  <2>1. over' = "end" \/ over' = "error"
    BY DEF GivesUp
  <2>2. QED
    BY <2>1, Zenon DEF Expected
<1>4. ~changed => ~misread'
  BY DEF Turn
<1>5. ~changed' => ~misread' /\ ~threw'
  BY <1>1, <1>2, <1>4
<1>6. QED
  BY <1>2, <1>3, <1>5 DEF Steady

LEMMA TurnDoNextAuth ==
    ASSUME IInv, Steady, over = "no", UNCHANGED server, NEW q, NEW a, Turn(q, a),
           NEW authName \in Choices, DoNextAuth(q, a, authName)
    PROVE  Steady'
<1>1. authName \in {"false", "none", "password", "publickey", "hostbased", "keyboard-interactive", "agent"}
  BY AuthAssumption DEF Choices
<1>2. curAuth' = authName
  BY DEF DoNextAuth
<1>3. ASSUME NEW request \in AuthRequests, Sends(q, a, request), request.method = authName,
             authName # "agent"
      PROVE  Steady'
  <2>1. request.method = Named(curAuth')
    BY <1>2, <1>3 DEF Named
  <2>2. QED
    BY <1>3, <2>1, TurnSends
<1>4. CASE authName = "false"
  BY <1>4, TurnEnds DEF DoNextAuth
<1>5. CASE authName = "agent"
  <2>1. AskFor(q, a, "agentKeys", None) /\ "agentKeys" \in Turns /\ curAuth' = "agent"
    BY <1>2, <1>5 DEF DoNextAuth, Turns
  <2>2. QED
    BY <2>1, TurnAsks
<1>6. CASE authName = "hostbased"
  <2>1. Sends(q, a, authHostbased) \/ GivesUp(q, a, "error")
    BY <1>6 DEF DoNextAuth
  <2>2. authHostbased \in AuthRequests /\ authHostbased.method = "hostbased"
    BY RequestTypes DEF authHostbased, Request
  <2>3. QED
    BY <1>3, <1>6, <2>1, <2>2, TurnEnds
<1>7. CASE authName \notin {"false", "agent", "hostbased"}
  <2>1. \/ authName = "password" /\ Sends(q, a, authPassword)
        \/ authName = "publickey" /\ Sends(q, a, authPK(FALSE))
        \/ authName = "keyboard-interactive" /\ Sends(q, a, authKeyboard)
        \/ authName = "none" /\ Sends(q, a, authNone)
    BY <1>1, <1>7 DEF DoNextAuth
  <2>2. /\ authPassword.method = "password" /\ authPK(FALSE).method = "publickey"
        /\ authKeyboard.method = "keyboard-interactive" /\ authNone.method = "none"
    BY DEF authPassword, authPK, authKeyboard, authNone, Request
  <2>3. QED
    BY <1>3, <2>1, <2>2, RequestTypes
<1>8. QED
  BY <1>4, <1>5, <1>6, <1>7

LEMMA TurnTryNextAuth ==
    ASSUME IInv, Steady, over = "no", UNCHANGED server, NEW q, NEW a, Turn(q, a), TryNextAuth(q, a)
    PROVE  Steady'
<1>1. CASE \E authName \in Choices : DoNextAuth(q, a, authName)
  BY <1>1, TurnDoNextAuth
<1>2. CASE AskFor(q, a, "authHandler", None)
  <2>1. "authHandler" \in Turns
    BY DEF Turns
  <2>2. QED
    BY <1>2, <2>1, TurnAsks
<1>3. QED
  BY <1>1, <1>2 DEF TryNextAuth

\* The keys of an agent, which the client tries one by one.
LEMMA TurnAgentSends ==
    ASSUME IInv, Steady, over = "no", UNCHANGED server, NEW q, NEW a, Turn(q, a),
           NEW sig \in BOOLEAN, Sends(q, a, authPK(sig)), curAuth' = curAuth,
           curAuth \in {"agent", "publickey"}
    PROVE  Steady'
<1>1. authPK(sig) \in AuthRequests /\ authPK(sig).method = "publickey"
  BY DEF authPK, Request, AuthRequests, Names
<1>2. authPK(sig).method = Named(curAuth')
  BY <1>1 DEF Named
<1>3. QED
  BY <1>1, <1>2, TurnSends

LEMMA TurnTryNextAgentKey ==
    ASSUME IInv, Steady, over = "no", UNCHANGED server, NEW q, NEW a, Turn(q, a),
           TryNextAgentKey(q, a), curAuth = "agent"
    PROVE  Steady'
<1>1. CASE agentKeyPos + 1 >= AgentKeys
  BY <1>1, TurnTryNextAuth DEF TryNextAgentKey
<1>2. CASE ~(agentKeyPos + 1 >= AgentKeys)
  <2>1. Sends(q, a, authPK(FALSE)) /\ curAuth' = curAuth
    BY <1>2 DEF TryNextAgentKey
  <2>2. QED
    BY <2>1, TurnAgentSends
<1>3. QED
  BY <1>1, <1>2

\* What the client may ask its user because of message h.
AsksOf(h, more) ==
    /\ \A c, d \in more : c = d
    /\ \A c \in more : /\ h.type = "60" /\ c.for = h.for /\ c.what \in {"newPassword", "answers"}
                       /\ c.what = "newPassword" => h.method = "password"
                       /\ c.what = "answers" /\ ~changed => h.method = "keyboard-interactive"

\* A message that does not give the client the turn, or whose turn it misses because
\* its queue is out of step: at most it asks its user.
LEMMA Reads ==
    ASSUME IInv, Steady, over = "no", UNCHANGED server, toClient # <<>>, toClient' = Tail(toClient),
           UNCHANGED <<toServer, over, curAuth>>, NEW h, h = Head(toClient),
           NEW more, asked' = asked \cup more, AsksOf(h, more),
           ~changed => ~misread' /\ (cqueue' = cqueue \/ Passes(h))
    PROVE  Steady'
<1>1. /\ Single /\ Token /\ Current /\ Change /\ (~changed => Queues) /\ (~changed => ~misread /\ ~threw)
  BY DEF Steady
<1>2. /\ UNCHANGED <<authCtx, squeue, ctx, unanswered, changed, threw>>
      /\ Requests' = Requests /\ Credit' = Credit /\ Single' /\ \A m : Question(m)' = Question(m)
  BY <1>1, ServerStill
<1>3. /\ Len(toClient) = Len(toClient') + 1 /\ Len(toClient') \in Nat /\ h = toClient[1] /\ 1 \in 1..Len(toClient)
      /\ \A i \in 1..Len(toClient') :
             i + 1 \in 1..Len(toClient) /\ toClient'[i] = toClient[i + 1] /\ i \in Nat /\ 1 <= i
  <2>1. toClient \in Seq(ClientMsgs)
    BY DEF IInv, Fields
  <2>2. QED
    BY <2>1, Shrunk
<1>4. Reqs' = Reqs /\ (OnlyReply => OnlyReply')
  BY <1>2 DEF Reqs, OnlyReply
<1>5. Held' = Held
  BY DEF Held, Turns, AsksOf
<1>6. Held = {}
  <2>1. toClient # <<>>
    OBVIOUS
  <2>2. QED
    BY <2>1, <1>1 DEF Token
<1>7. Token'
  <2>1. \A i \in 1..Len(toClient') : Passes(toClient'[i]) =>
            /\ i = Len(toClient') /\ unanswered' = {}
            /\ toClient'[i].type # "USERAUTH_SUCCESS" => OnlyReply'
    <3>1. ASSUME NEW i \in 1..Len(toClient'), Passes(toClient'[i])
          PROVE  /\ i = Len(toClient') /\ unanswered' = {}
                 /\ toClient'[i].type # "USERAUTH_SUCCESS" => OnlyReply'
      <4>0. PICK j \in 1..Len(toClient) : j = i + 1 /\ toClient'[i] = toClient[j]
        BY <3>1, <1>3
      <4>1. /\ i + 1 = Len(toClient) /\ unanswered = {}
            /\ toClient'[i].type # "USERAUTH_SUCCESS" => OnlyReply
        <5>1. Passes(toClient[j])
          BY <3>1, <4>0
        <5>2. QED
          BY <4>0, <5>1, <1>1 DEF Token
      <4>2. QED
        BY <4>1, <1>2, <1>3, <1>4
    <3>2. QED
      BY <3>1
  <2>2. unanswered' # {} => OnlyReply'
    BY <1>1, <1>2, <1>4 DEF Token
  <2>3. \A i, j \in Reqs' : i < j => /\ Credit' /\ toServer'[i].type = "USERAUTH_REQUEST"
                                     /\ toServer'[i].method = "password" /\ \A k \in Reqs' : k <= j
    BY <1>1, <1>2, <1>4 DEF Token
  <2>4. QED
    BY <2>1, <2>2, <2>3, <1>5, <1>6 DEF Token
<1>8. Current'
  <2>1. \A i \in 1..Len(toClient') : toClient'[i].type = "60" => toClient'[i].method = Named(curAuth)
    BY <1>1, <1>3 DEF Current
  <2>2. \A i \in Reqs' : (\A j \in Reqs' : j <= i) /\ toServer'[i].type = "USERAUTH_REQUEST"
                             => toServer'[i].method = Named(curAuth)
    BY <1>1, <1>4, <1>6 DEF Current
  <2>3. unanswered' # {} => ctx'[authCtx'].method = Named(curAuth)
    BY <1>1, <1>2 DEF Current
  <2>4. QED
    BY <2>1, <2>2, <2>3, <1>5, <1>6 DEF Current, Named
<1>9. \A c \in more : /\ c.for \in Requests /\ ctx[c.for].method = h.method
                      /\ c.what = "newPassword" /\ ~ctx[c.for].finalResponse => Question(h)
  <2>1. h.type # "SERVICE_ACCEPT" => h.for \in Requests /\ h.method = ctx[h.for].method
    BY <1>1, <1>3 DEF Change
  <2>2. QED
    BY <2>1 DEF Question, AsksOf
<1>10. Change'
  <2>1. \A i \in 1..Len(toClient') : toClient'[i].type # "SERVICE_ACCEPT" =>
            toClient'[i].for \in Requests /\ toClient'[i].method = ctx[toClient'[i].for].method
    BY <1>1, <1>3 DEF Change
  <2>2. \A c \in asked' : /\ \/ c.what \in Turns
                             \/ c.what \in {"newPassword", "answers"} /\ c.for \in Requests
                          /\ c.what = "newPassword" => ctx[c.for].method = "password"
    BY <1>1, <1>9 DEF Change, AsksOf
  <2>3. ASSUME NEW c \in asked', c.what = "newPassword", ~ctx[c.for].finalResponse
        PROVE  /\ Credit /\ Reqs = {} /\ \A i \in 1..Len(toClient') : ~Question(toClient'[i])
               /\ \A d \in asked' : d.what = "newPassword" /\ ~ctx[d.for].finalResponse => c = d
    <3>1. CASE c \in asked
      <4>1. /\ Credit /\ Reqs = {} /\ \A i \in 1..Len(toClient) : ~Question(toClient[i])
            /\ \A d \in asked : d.what = "newPassword" /\ ~ctx[d.for].finalResponse => c = d
        BY <2>3, <3>1, <1>1 DEF Change
      <4>2. ~Question(h)
        BY <4>1, <1>3
      <4>3. \A d \in more : ~(d.what = "newPassword" /\ ~ctx[d.for].finalResponse)
        BY <4>2, <1>9
      <4>4. QED
        BY <4>1, <4>3, <1>3
    <3>2. CASE c \in more
      <4>1. Question(toClient[1])
        BY <2>3, <3>2, <1>3, <1>9
      <4>2. /\ Credit /\ Reqs = {} /\ \A j \in 1..Len(toClient) : Question(toClient[j]) => 1 = j
        BY <4>1, <1>1, <1>3 DEF Change
      <4>3. \A d \in asked : ~(d.what = "newPassword" /\ ~ctx[d.for].finalResponse)
        BY <4>1, <1>1, <1>3 DEF Change
      <4>4. QED
        BY <3>2, <4>2, <4>3, <1>3 DEF AsksOf
    <3>3. QED
      BY <2>3, <3>1, <3>2
  <2>4. ASSUME NEW i \in 1..Len(toClient'), Question(toClient'[i])
        PROVE  /\ Credit /\ Reqs = {} /\ \A j \in 1..Len(toClient') : Question(toClient'[j]) => i = j
    <3>1. /\ Credit /\ Reqs = {} /\ \A j \in 1..Len(toClient) : Question(toClient[j]) => i + 1 = j
      BY <2>4, <1>1, <1>3 DEF Change
    <3>2. QED
      BY <3>1, <1>3
  <2>5. QED
    BY <2>1, <2>2, <2>3, <2>4, <1>2, <1>4 DEF Change
<1>11. ASSUME ~changed
       PROVE  Queues'
  <2>1. Queues
    BY <1>1, <1>11
  <2>2. \A c \in asked' : c.what = "answers" => ctx[c.for].method = "keyboard-interactive"
    BY <2>1, <1>9, <1>11 DEF Queues, AsksOf
  <2>3. Reqs = {}
    BY <2>1 DEF Queues
  <2>4. CASE cqueue' = cqueue
    <3>1. \A i \in 1..Len(toClient') :
              cqueue' = IF toClient'[i].type = "SERVICE_ACCEPT" THEN <<>> ELSE <<toClient'[i].method>>
      BY <2>1, <2>4, <1>3 DEF Queues
    <3>2. /\ \A r \in Requests' : ~ctx'[r].changeCb
          /\ unanswered' # {} => cqueue' = <<ctx'[authCtx'].method>> /\ squeue' = <<ctx'[authCtx'].method>>
          /\ unanswered' = {} => squeue' = <<>>
          /\ \A i \in 1..Len(toServer') :
                 toServer'[i].type = "61" /\ unanswered' # {} => ctx'[authCtx'].method = "keyboard-interactive"
      BY <2>1, <2>4, <1>2 DEF Queues
    <3>3. QED
      BY <2>2, <2>3, <3>1, <3>2, <1>2, <1>4, <1>5, <1>6 DEF Queues
  <2>5. CASE Passes(h)
    <3>1. unanswered = {} /\ Len(toClient) = 1
      BY <2>5, <1>1, <1>3 DEF Token
    <3>2. Len(toClient') = 0 /\ unanswered' = {} /\ squeue' = <<>>
      BY <2>1, <3>1, <1>2, <1>3 DEF Queues
    <3>3. \A r \in Requests' : ~ctx'[r].changeCb
      BY <2>1, <1>2 DEF Queues
    <3>4. /\ \A c \in asked' : c.what = "answers" => ctx'[c.for].method = "keyboard-interactive"
          /\ Reqs' = {} /\ Held' = {}
          /\ \A i \in 1..Len(toClient') :
                 cqueue' = IF toClient'[i].type = "SERVICE_ACCEPT" THEN <<>> ELSE <<toClient'[i].method>>
      <4>1. toClient' \in Seq(ClientMsgs) /\ Len(toClient') = 0
        BY <3>2 DEF IInv, Fields
      <4>2. QED
        BY <2>2, <2>3, <4>1, <1>2, <1>4, <1>5, <1>6
    <3>5. QED
      BY <3>2, <3>3, <3>4 DEF Queues
  <2>6. QED
    BY <2>4, <2>5, <1>11
<1>12. QED
  BY <1>1, <1>2, <1>7, <1>8, <1>10, <1>11, StillOn DEF Steady

\* The message that gives the client the turn is the only one, and finds its method
\* in front of the queue.
LEMMA TurnCame ==
    ASSUME IInv, Steady, over = "no", UNCHANGED server, toClient # <<>>, toClient' = Tail(toClient),
           NEW h, h = Head(toClient), Passes(h), h.type # "USERAUTH_SUCCESS", NEW q,
           ~changed => ~misread' /\ (h.type = "SERVICE_ACCEPT" => q = cqueue)
                                 /\ (h.type # "SERVICE_ACCEPT" => \A m : cqueue = <<m>> => q = <<>>)
    PROVE  Turn(q, asked)
<1>1. Token /\ (~changed => Queues)
  BY DEF Steady
<1>2. toClient \in Seq(ClientMsgs)
  BY DEF IInv, Fields
<1>3. h = toClient[1] /\ 1 \in 1..Len(toClient)
  BY <1>2
<1>4. 1 = Len(toClient) /\ Held = {} /\ unanswered = {} /\ OnlyReply
  BY <1>1, <1>3 DEF Token
<1>5. toClient' = <<>>
  BY <1>2, <1>4
<1>6. ~changed => q = <<>>
  BY <1>1, <1>3 DEF Queues
<1>7. QED
  BY <1>4, <1>5, <1>6 DEF Turn, Held

\* What is known of the message that the client reads.
LEMMA AtHand ==
    ASSUME IInv, Steady, over = "no", ClientReceives, NEW h, h = Head(toClient)
    PROVE  /\ UNCHANGED server /\ toClient # <<>> /\ toClient' = Tail(toClient) /\ h \in ClientMsgs
           /\ h.type \in {"SERVICE_ACCEPT", "USERAUTH_FAILURE", "USERAUTH_SUCCESS", "60"}
           /\ h.type = "60" => h.method = Named(curAuth)
           /\ ~changed => ~misread'
           /\ ~changed /\ h.type = "60" => cqueue = <<h.method>>
<1>1. Current /\ (~changed => Queues) /\ (~changed => ~misread)
  BY DEF Steady
<1>2. /\ UNCHANGED server /\ toClient # <<>> /\ toClient' = Tail(toClient)
      /\ misread' = (misread \/ (h.type = "60" /\ (cqueue = <<>> \/ Head(cqueue) # h.method)))
  BY DEF ClientReceives
<1>3. toClient \in Seq(ClientMsgs)
  BY DEF IInv, Fields
<1>4. h = toClient[1] /\ 1 \in 1..Len(toClient) /\ h \in ClientMsgs
  BY <1>2, <1>3
<1>5. h.type \in {"SERVICE_ACCEPT", "USERAUTH_FAILURE", "USERAUTH_SUCCESS", "60"}
  BY <1>4 DEF ClientMsgs
<1>6. h.type = "60" => h.method = Named(curAuth)
  BY <1>1, <1>4 DEF Current
<1>7. ~changed /\ h.type = "60" => cqueue = <<h.method>>
  BY <1>1, <1>4 DEF Queues
<1>8. ~changed => ~misread'
  <2>1. ~changed /\ h.type = "60" => cqueue # <<>> /\ Head(cqueue) = h.method
    BY <1>7
  <2>2. QED
    BY <1>1, <1>2, <2>1, Zenon
<1>9. QED
  BY <1>2, <1>4, <1>5, <1>6, <1>7, <1>8

\* The client reads a message without more than asking its user.
LEMMA OnlyReads ==
    ASSUME IInv, Steady, over = "no", ClientReceives, NEW h, h = Head(toClient), h.type = "60",
           UNCHANGED <<toServer, over, curAuth, cqueue>>,
           \/ asked' = asked
           \/ asked' = asked \cup {[what |-> "newPassword", for |-> h.for]} /\ h.method = "password"
           \/ /\ asked' = asked \cup {[what |-> "answers", for |-> h.for]}
              /\ ~changed => h.method = "keyboard-interactive"
    PROVE  Steady'
<1>1. UNCHANGED server /\ toClient # <<>> /\ toClient' = Tail(toClient) /\ (~changed => ~misread')
  BY AtHand
<1>2. CASE asked' = asked
  <2>1. asked' = asked \cup {} /\ AsksOf(h, {})
    BY <1>2 DEF AsksOf
  <2>2. QED
    BY <1>1, <2>1, Reads
<1>3. CASE asked' = asked \cup {[what |-> "newPassword", for |-> h.for]} /\ h.method = "password"
  <2>1. AsksOf(h, {[what |-> "newPassword", for |-> h.for]})
    BY <1>3 DEF AsksOf
  <2>2. QED
    BY <1>1, <1>3, <2>1, Reads
<1>4. CASE /\ asked' = asked \cup {[what |-> "answers", for |-> h.for]}
           /\ ~changed => h.method = "keyboard-interactive"
  <2>1. AsksOf(h, {[what |-> "answers", for |-> h.for]})
    BY <1>4 DEF AsksOf
  <2>2. QED
    BY <1>1, <1>4, <2>1, Reads
<1>5. QED
  BY <1>2, <1>3, <1>4

LEMMA OnPKOKLock ==
    ASSUME IInv, Steady, over = "no", ClientReceives, NEW h, h = Head(toClient), h.type = "60",
           OnPKOK(Tail(cqueue), h.for), cqueue # <<>>, Head(cqueue) = "publickey"
    PROVE  Steady'
<1>1. /\ UNCHANGED server /\ toClient # <<>> /\ toClient' = Tail(toClient)
      /\ h.method = Named(curAuth) /\ (~changed => ~misread') /\ (~changed => cqueue = <<h.method>>)
  BY AtHand
<1>2. PICK q : q = Tail(cqueue)
  OBVIOUS
<1>3. \A m : cqueue = <<m>> => q = <<>>
  BY <1>2
<1>4. ASSUME h.method = "publickey"
      PROVE  Turn(q, asked)
  <2>1. Passes(h) /\ h.type # "USERAUTH_SUCCESS" /\ h.type # "SERVICE_ACCEPT"
    BY <1>4 DEF Passes
  <2>2. QED
    BY <1>1, <1>3, <2>1, TurnCame
<1>5. CASE curAuth = "agent"
  <2>1. Turn(q, asked)
    BY <1>1, <1>4, <1>5 DEF Named
  <2>2. TryNextAgentKey(q, asked) \/ (AskFor(q, asked, "agentSign", h.for) /\ curAuth' = curAuth)
    BY <1>2, <1>5 DEF OnPKOK
  <2>3. "agentSign" \in Turns
    BY DEF Turns
  <2>4. QED
    BY <1>1, <1>5, <2>1, <2>2, <2>3, TurnTryNextAgentKey, TurnAsks
<1>6. CASE curAuth = "publickey"
  <2>1. Turn(q, asked)
    BY <1>1, <1>4, <1>6 DEF Named
  <2>2. TryNextAuth(q, asked) \/ (Sends(q, asked, authPK(TRUE)) /\ curAuth' = curAuth)
    BY <1>2, <1>6 DEF OnPKOK
  <2>3. QED
    BY <1>1, <1>6, <2>1, <2>2, TurnTryNextAuth, TurnAgentSends
<1>7. CASE curAuth \notin {"agent", "publickey"}
  <2>1. asked' = asked /\ cqueue' = q /\ UNCHANGED <<toServer, over, curAuth>>
    BY <1>2, <1>7 DEF OnPKOK, Ignores
  <2>2. changed
    <3>1. h.method # "publickey"
      BY <1>1, <1>7 DEF Named
    <3>2. QED
      BY <1>1, <3>1
  <2>3. asked' = asked \cup {} /\ AsksOf(h, {})
    BY <2>1 DEF AsksOf
  <2>4. QED
    BY <1>1, <2>1, <2>2, <2>3, Reads
<1>8. QED
  BY <1>5, <1>6, <1>7

LEMMA OnMessage60Lock ==
    ASSUME IInv, Steady, over = "no", ClientReceives, NEW h, h = Head(toClient), h.type = "60",
           OnMessage60(h.for)
    PROVE  Steady'
<1>1. h.method = Named(curAuth) /\ (~changed => cqueue = <<h.method>>)
  BY AtHand
<1>2. PICK head : head = IF cqueue = <<>> THEN "nothing" ELSE Head(cqueue)
  OBVIOUS
<1>3. ~changed => head = h.method
  BY <1>1, <1>2
<1>4. CASE head = "publickey"
  <2>1. OnPKOK(Tail(cqueue), h.for) /\ cqueue # <<>> /\ Head(cqueue) = "publickey"
    BY <1>2, <1>4 DEF OnMessage60
  <2>2. QED
    BY <2>1, OnPKOKLock
<1>5. CASE head = "password" /\ curAuth = "password"
  <2>1. /\ UNCHANGED <<toServer, over, curAuth, cqueue>>
        /\ asked' = asked \cup {[what |-> "newPassword", for |-> h.for]}
    BY <1>2, <1>5 DEF OnMessage60, AskFor
  <2>2. h.method = "password"
    BY <1>1, <1>5 DEF Named
  <2>3. QED
    BY <2>1, <2>2, OnlyReads
<1>6. CASE head = "keyboard-interactive"
  <2>1. /\ UNCHANGED <<toServer, over, curAuth, cqueue>>
        /\ asked' = asked \cup {[what |-> "answers", for |-> h.for]}
    BY <1>2, <1>6 DEF OnMessage60, AskFor
  <2>2. QED
    BY <1>3, <1>6, <2>1, OnlyReads
<1>7. CASE head \notin {"publickey", "keyboard-interactive"} /\ ~(head = "password" /\ curAuth = "password")
  <2>1. UNCHANGED <<toServer, over, curAuth, cqueue, asked>>
    BY <1>2, <1>7 DEF OnMessage60, Ignores
  <2>2. QED
    BY <2>1, OnlyReads
<1>8. QED
  BY <1>4, <1>5, <1>6, <1>7

LEMMA ClientReceivesLock ==
    ASSUME IInv, Steady, over = "no", ClientReceives
    PROVE  Steady'
<1>0. PICK h : h = Head(toClient)
  OBVIOUS
<1>1. /\ UNCHANGED server /\ toClient # <<>> /\ toClient' = Tail(toClient)
      /\ h.type \in {"SERVICE_ACCEPT", "USERAUTH_FAILURE", "USERAUTH_SUCCESS", "60"}
      /\ ~changed => ~misread'
  BY <1>0, AtHand
<1>2. CASE h.type = "SERVICE_ACCEPT"
  <2>1. Turn(cqueue, asked)
    BY <1>0, <1>1, <1>2, TurnCame DEF Passes
  <2>2. TryNextAuth(cqueue, asked)
    BY <1>0, <1>2 DEF ClientReceives
  <2>3. QED
    BY <1>1, <2>1, <2>2, TurnTryNextAuth
<1>3. CASE h.type = "USERAUTH_FAILURE"
  <2>1. PICK q : q = Shift(cqueue)
    OBVIOUS
  <2>2. \A m : cqueue = <<m>> => q = <<>>
    BY <2>1 DEF Shift
  <2>3. Turn(q, asked)
    BY <1>0, <1>1, <1>3, <2>2, TurnCame DEF Passes
  <2>4. \/ curAuth = "agent" /\ TryNextAgentKey(q, asked)
        \/ TryNextAuth(q, asked)
    BY <1>0, <1>3, <2>1 DEF ClientReceives
  <2>5. QED
    BY <1>1, <2>3, <2>4, TurnTryNextAuth, TurnTryNextAgentKey
<1>4. CASE h.type = "USERAUTH_SUCCESS"
  <2>1. UNCHANGED <<toServer, over, curAuth, asked>>
    BY <1>0, <1>4 DEF ClientReceives, Ignores
  <2>2. asked' = asked \cup {} /\ Passes(h) /\ AsksOf(h, {})
    BY <1>4, <2>1 DEF Passes, AsksOf
  <2>3. QED
    BY <1>0, <1>1, <2>1, <2>2, Reads
<1>5. CASE h.type = "60"
  <2>1. OnMessage60(h.for)
    BY <1>0, <1>5 DEF ClientReceives
  <2>2. QED
    BY <1>0, <1>5, <2>1, OnMessage60Lock
<1>6. QED
  BY <1>1, <1>2, <1>3, <1>4, <1>5

-----------------------------------------------------------------------------
(* The user, the agent or authHandler calls back.                          *)

\* The user answers in time: the request is still the one being decided.
LEMMA InfoResAnswered ==
    ASSUME IInv, Steady, over = "no", UNCHANGED server, NEW c \in asked, c.what = "answers",
           ~ctx[c.for].finalResponse, asked' = asked \ {c}, toServer' = Append(toServer, authInfoRes),
           UNCHANGED <<toClient, cqueue, curAuth, over, misread>>
    PROVE  Steady'
<1>1. /\ Single /\ Token /\ Current /\ Change /\ (~changed => Queues) /\ (~changed => ~misread /\ ~threw)
  BY DEF Steady
<1>2. /\ UNCHANGED <<authCtx, squeue, ctx, unanswered, changed, threw>>
      /\ Requests' = Requests /\ Credit' = Credit /\ Single' /\ \A m : Question(m)' = Question(m)
  BY <1>1, ServerStill
<1>3. PICK n : n = Len(toServer) + 1
  OBVIOUS
<1>4. /\ Len(toServer') = n /\ n \in Nat /\ toServer'[n].type = "61"
      /\ \A i \in 1..Len(toServer) : i \in Nat /\ toServer'[i] = toServer[i] /\ i < n /\ i \in 1..n
      /\ \A i \in 1..Len(toServer') : i \in 1..Len(toServer) \/ i = n
  <2>1. toServer \in Seq(ServerMsgs) /\ authInfoRes \in ServerMsgs /\ authInfoRes.type = "61"
    BY RequestTypes DEF IInv, Fields, authInfoRes
  <2>. HIDE DEF authInfoRes
  <2>2. QED
    BY <2>1, <1>3, Grown
<1>5. Reqs' = Reqs /\ \A i \in Reqs : toServer'[i] = toServer[i]
  BY <1>4 DEF Reqs
<1>6. Held' = Held
  BY DEF Held, Turns
<1>7. OnlyReply => OnlyReply'
  BY <1>2, <1>5 DEF OnlyReply
<1>8. Token'
  BY <1>1, <1>2, <1>5, <1>6, <1>7 DEF Token
<1>9. Current'
  <2>1. \A i \in Reqs' : (\A j \in Reqs' : j <= i) => i \in Reqs /\ (\A j \in Reqs : j <= i)
    BY <1>5
  <2>2. QED
    BY <2>1, <1>1, <1>2, <1>5, <1>6 DEF Current
<1>10. Change'
  BY <1>1, <1>2, <1>5 DEF Change
<1>11. ASSUME ~changed
       PROVE  Queues'
  <2>1. Queues
    BY <1>1, <1>11
  <2>2. c.for \in Requests /\ ctx[c.for].method = "keyboard-interactive"
    BY <2>1, <1>1 DEF Queues, Change, Turns
  <2>3. c.for \in unanswered /\ c.for = authCtx
    BY <2>2, <1>1, Undecided
  <2>4. Reqs = {}
    BY <2>1, <2>3, <1>1, NoCredit DEF Token
  <2>5. \A i \in 1..Len(toServer') :
            toServer'[i].type = "61" /\ unanswered' # {} => ctx'[authCtx'].method = "keyboard-interactive"
    BY <2>2, <2>3, <1>2
  <2>6. QED
    BY <2>1, <2>4, <2>5, <1>2, <1>5, <1>6 DEF Queues
<1>12. QED
  BY <1>1, <1>2, <1>8, <1>9, <1>10, <1>11, StillOn DEF Steady

LEMMA NewPasswordAnswered ==
    ASSUME IInv, Steady, over = "no", UNCHANGED server, NEW c \in asked, c.what = "newPassword",
           ~ctx[c.for].finalResponse, Sends(cqueue, asked \ {c}, authPassword),
           UNCHANGED <<toClient, curAuth, misread>>
    PROVE  Steady'
<1>1. /\ Single /\ Token /\ Current /\ Change /\ (~changed => Queues) /\ (~changed => ~misread /\ ~threw)
  BY DEF Steady
<1>2. /\ UNCHANGED <<authCtx, squeue, ctx, unanswered, changed, threw>>
      /\ Requests' = Requests /\ Credit' = Credit /\ Single' /\ \A m : Question(m)' = Question(m)
  BY <1>1, ServerStill
<1>3. /\ c.for \in Requests /\ ctx[c.for].method = "password" /\ Credit /\ Reqs = {}
      /\ \A i \in 1..Len(toClient) : ~Question(toClient[i])
  BY <1>1 DEF Change, Turns
<1>4. c.for \in unanswered /\ c.for = authCtx
  BY <1>1, <1>3, Undecided
<1>5. changed
  BY <1>1, <1>3, NoCredit
<1>6. PICK n : n = Len(toServer) + 1
  OBVIOUS
<1>7. /\ toServer' = Append(toServer, authPassword) /\ asked' = asked \ {c} /\ over' = over
  BY DEF Sends
<1>8. /\ authPassword.type = "USERAUTH_REQUEST" /\ authPassword.method = "password"
  BY DEF authPassword, Request
<1>9. /\ Len(toServer') = n /\ n \in Nat /\ n \in 1..n /\ toServer'[n] = authPassword
      /\ \A i \in 1..Len(toServer) : i \in Nat /\ toServer'[i] = toServer[i] /\ i < n /\ i \in 1..n
      /\ \A i \in 1..Len(toServer') : i \in 1..Len(toServer) \/ i = n
  <2>1. toServer \in Seq(ServerMsgs) /\ authPassword \in ServerMsgs
    BY RequestTypes DEF IInv, Fields
  <2>. HIDE DEF authPassword
  <2>2. QED
    BY <2>1, <1>6, <1>7, Grown
<1>10. Reqs' = {n}
  <2>1. \A i \in 1..Len(toServer) : ~(toServer[i].type # "61")
    BY <1>3 DEF Reqs
  <2>2. QED
    BY <2>1, <1>8, <1>9 DEF Reqs
<1>11. OnlyReply' /\ Held' = Held
  <2>1. OnlyReply'
    BY <1>2, <1>3, <1>8, <1>9, <1>10 DEF OnlyReply
  <2>2. Held' = Held
    BY <1>7 DEF Held, Turns
  <2>3. QED
    BY <2>1, <2>2
<1>12. Token'
  <2>1. \A i, j \in Reqs' : ~(i < j)
    BY <1>9, <1>10
  <2>2. QED
    BY <2>1, <1>1, <1>2, <1>11 DEF Token
<1>13. Current'
  <2>1. ctx[authCtx].method = Named(curAuth)
    BY <1>1, <1>4 DEF Current
  <2>2. authPassword.method = Named(curAuth')
    BY <2>1, <1>3, <1>4, <1>8 DEF Named
  <2>3. QED
    BY <2>2, <1>1, <1>2, <1>9, <1>10, <1>11 DEF Current
<1>14. Change'
  <2>1. ASSUME NEW d \in asked', d.what = "newPassword"
        PROVE  ctx[d.for].finalResponse
    BY <2>1, <1>1, <1>7 DEF Change
  <2>2. QED
    BY <2>1, <1>1, <1>2, <1>3, <1>7 DEF Change
<1>15. QED
  BY <1>2, <1>5, <1>12, <1>13, <1>14 DEF Steady

LEMMA AnswerLock ==
    ASSUME IInv, Steady, over = "no", NEW c \in asked, Answer(c), ~late'
    PROVE  Steady'
<1>1. /\ Single /\ Token /\ Current /\ Change /\ (~changed => Queues) /\ (~changed => ~misread)
  BY DEF Steady
<1>2. UNCHANGED <<toClient, server, misread>>
  BY DEF Answer
<1>3. PICK rest : rest = asked \ {c}
  OBVIOUS
<1>4. ASSUME c.what \in Turns
      PROVE  Turn(cqueue, rest) /\ (c.what # "authHandler" => curAuth = "agent")
  <2>1. c \in Held
    BY <1>4 DEF Held
  <2>2. unanswered = {} /\ OnlyReply /\ toClient = <<>> /\ \A d \in Held : d = c
    BY <2>1, <1>1 DEF Token
  <2>3. \A d \in rest : d.what \notin Turns
    BY <2>2, <1>3 DEF Held
  <2>4. ~changed => cqueue = <<>> /\ ~misread'
    BY <2>1, <1>1, <1>2 DEF Queues
  <2>5. c.what # "authHandler" => curAuth = "agent"
    BY <2>1, <1>1 DEF Current
  <2>6. QED
    BY <2>2, <2>3, <2>4, <2>5, <1>2, <1>3 DEF Turn
<1>5. CASE c.what = "authHandler"
  <2>1. \E authName \in Choices : DoNextAuth(cqueue, rest, authName)
    BY <1>3, <1>5 DEF Answer
  <2>2. QED
    BY <1>2, <1>4, <1>5, <2>1, TurnDoNextAuth DEF Turns
<1>6. CASE c.what = "agentKeys"
  <2>1. (Sends(cqueue, rest, authPK(FALSE)) /\ curAuth' = curAuth) \/ TryNextAuth(cqueue, rest)
    BY <1>3, <1>6 DEF Answer
  <2>2. Turn(cqueue, rest) /\ curAuth = "agent"
    BY <1>4, <1>6 DEF Turns
  <2>3. QED
    BY <1>2, <2>1, <2>2, TurnAgentSends, TurnTryNextAuth
<1>7. CASE c.what = "agentSign"
  <2>1. (Sends(cqueue, rest, authPK(TRUE)) /\ curAuth' = curAuth) \/ TryNextAgentKey(cqueue, rest)
    BY <1>3, <1>7 DEF Answer
  <2>2. Turn(cqueue, rest) /\ curAuth = "agent"
    BY <1>4, <1>7 DEF Turns
  <2>3. QED
    BY <1>2, <2>1, <2>2, TurnAgentSends, TurnTryNextAgentKey
<1>8. ASSUME c.what \in {"answers", "newPassword"}
      PROVE  ~ctx[c.for].finalResponse
  <2>1. late' = (late \/ (c.what \in {"answers", "newPassword"} /\ ctx[c.for].finalResponse))
    BY Zenon DEF Answer
  <2>2. QED
    BY <1>8, <2>1
<1>9. CASE c.what = "newPassword"
  <2>1. Sends(cqueue, asked \ {c}, authPassword) /\ curAuth' = curAuth
    BY <1>9 DEF Answer
  <2>2. QED
    BY <1>2, <1>8, <1>9, <2>1, NewPasswordAnswered
<1>10. CASE c.what = "answers"
  <2>1. /\ asked' = asked \ {c} /\ toServer' = Append(toServer, authInfoRes)
        /\ UNCHANGED <<cqueue, over, curAuth>>
    BY <1>10 DEF Answer
  <2>2. QED
    BY <1>2, <1>8, <1>10, <2>1, InfoResAnswered
<1>11. QED
  BY <1>1, <1>5, <1>6, <1>7, <1>9, <1>10 DEF Change, Turns

LEMMA ReadyTimeoutLock ==
    ASSUME IInv, Steady, over = "no", ReadyTimeout
    PROVE  Steady'
<1>1. UNCHANGED <<server, misread>> /\ over' = "timeout"
  BY DEF ReadyTimeout
<1>2. Expected' /\ over' # "no"
  BY <1>1, Zenon DEF Expected
<1>3. UNCHANGED <<changed, threw>> /\ (Single => Single')
  BY <1>1, ServerStill
<1>4. QED
  BY <1>1, <1>2, <1>3 DEF Steady

-----------------------------------------------------------------------------
(* The server receives.                                                    *)

\* What is known of the message that the server takes.
LEMMA Taken ==
    ASSUME IInv, ServerReceives, NEW h, h = Head(toServer)
    PROVE  /\ UNCHANGED <<asked, cqueue, curAuth, misread>> /\ Held' = Held /\ h = toServer[1]
           /\ h \in ServerMsgs /\ h.type \in {"SERVICE_REQUEST", "USERAUTH_REQUEST", "61"}
           /\ 1 \in 1..Len(toServer) /\ Len(toServer) = Len(toServer') + 1 /\ Len(toServer') \in Nat
           /\ \A i \in 1..Len(toServer') :
                  i + 1 \in 1..Len(toServer) /\ toServer'[i] = toServer[i + 1] /\ i \in Nat /\ 1 <= i
           /\ \A i \in 1..Len(toServer) : i \in Nat /\ (i = 1 \/ i - 1 \in 1..Len(toServer'))
           /\ \A i \in Reqs' : i + 1 \in Reqs /\ i \in Nat /\ 1 <= i /\ toServer'[i] = toServer[i + 1]
           /\ \A i \in Reqs : i \in Nat /\ (i = 1 \/ i - 1 \in Reqs')
           /\ 1 \in Reqs <=> h.type # "61"
<1>1. toServer \in Seq(ServerMsgs) /\ toServer # <<>> /\ toServer' = Tail(toServer)
  BY DEF IInv, Fields, ServerReceives
<1>2. UNCHANGED <<asked, cqueue, curAuth, misread>> /\ Held' = Held
  BY DEF ServerReceives, client, Held
<1>3. /\ 1 \in 1..Len(toServer) /\ Len(toServer) = Len(toServer') + 1 /\ Len(toServer') \in Nat
      /\ \A i \in 1..Len(toServer') :
             i + 1 \in 1..Len(toServer) /\ toServer'[i] = toServer[i + 1] /\ i \in Nat /\ 1 <= i
      /\ \A i \in 1..Len(toServer) : i \in Nat /\ (i = 1 \/ i - 1 \in 1..Len(toServer'))
      /\ h = toServer[1]
  BY <1>1, Shrunk
<1>4. h \in ServerMsgs
  BY <1>1, <1>3
<1>5. h.type \in {"SERVICE_REQUEST", "USERAUTH_REQUEST", "61"}
  BY <1>4 DEF ServerMsgs, AuthRequests, authInfoRes
<1>6. \A i \in Reqs' : i + 1 \in Reqs /\ i \in Nat /\ 1 <= i /\ toServer'[i] = toServer[i + 1]
  BY <1>3 DEF Reqs
<1>7. \A i \in Reqs : i \in Nat /\ (i = 1 \/ i - 1 \in Reqs')
  <2>1. ASSUME NEW i \in Reqs, i # 1
        PROVE  i - 1 \in Reqs'
    <3>1. PICK j \in 1..Len(toServer') : j = i - 1 /\ i = j + 1
      BY <2>1, <1>3 DEF Reqs
    <3>2. toServer'[j] = toServer[i]
      BY <3>1, <1>3
    <3>3. QED
      BY <3>1, <3>2 DEF Reqs
  <2>2. QED
    BY <2>1, <1>3 DEF Reqs
<1>8. 1 \in Reqs <=> h.type # "61"
  BY <1>3 DEF Reqs
<1>9. QED
  BY <1>2, <1>3, <1>4, <1>5, <1>6, <1>7, <1>8

\* A request that is not the answer to a question is the only one on its way, and
\* the turn is nowhere else.
LEMMA NewRequest ==
    ASSUME IInv, Steady, over = "no", ServerReceives, NEW h, h = Head(toServer), h.type # "61",
           ~(Credit /\ h.type = "USERAUTH_REQUEST" /\ h.method = "password")
    PROVE  /\ Reqs = {1} /\ Reqs' = {} /\ unanswered = {} /\ Held = {}
           /\ \A i \in 1..Len(toClient) : Passes(toClient[i]) => toClient[i].type = "USERAUTH_SUCCESS"
           /\ \A i \in 1..Len(toClient) : ~Question(toClient[i])
           /\ \A c \in asked : c.what = "newPassword" => ctx[c.for].finalResponse
<1>1. Token /\ Change
  BY DEF Steady
<1>2. /\ 1 \in Reqs /\ h = toServer[1]
      /\ \A i \in Reqs : i \in Nat /\ (i = 1 \/ i - 1 \in Reqs')
      /\ \A i \in Reqs' : i + 1 \in Reqs /\ i \in Nat /\ 1 <= i
  BY Taken
<1>3. \A i \in Reqs' : FALSE
  <2>1. ASSUME NEW i \in Reqs'
        PROVE  FALSE
    <3>1. i + 1 \in Reqs /\ 1 < i + 1
      BY <1>2
    <3>2. QED
      BY <3>1, <1>1, <1>2 DEF Token
  <2>2. QED
    BY <2>1
<1>4. Reqs = {1} /\ Reqs' = {}
  BY <1>2, <1>3
<1>5. ~OnlyReply
  BY <1>2 DEF OnlyReply
<1>6. QED
  BY <1>1, <1>2, <1>4, <1>5 DEF Token, Change

LEMMA ServiceRequestLock ==
    ASSUME IInv, Steady, over = "no", ServerReceives, OnServiceRequest,
           Head(toServer).type = "SERVICE_REQUEST"
    PROVE  Steady'
<1>1. /\ Single /\ Token /\ Current /\ Change /\ (~changed => Queues) /\ (~changed => ~misread /\ ~threw)
  BY DEF Steady
<1>2. PICK h : h = Head(toServer)
  OBVIOUS
<1>3. /\ UNCHANGED <<asked, cqueue, curAuth, misread>> /\ Held' = Held /\ h = toServer[1]
  BY <1>2, Taken
<1>4. /\ Reqs = {1} /\ Reqs' = {} /\ unanswered = {} /\ Held = {}
      /\ \A i \in 1..Len(toClient) : Passes(toClient[i]) => toClient[i].type = "USERAUTH_SUCCESS"
      /\ \A i \in 1..Len(toClient) : ~Question(toClient[i])
      /\ \A c \in asked : c.what = "newPassword" => ctx[c.for].finalResponse
  BY <1>2, NewRequest
<1>5. /\ UNCHANGED <<authCtx, pendingAuths, squeue, ctx, unanswered, changed, aborted, threw>>
      /\ Requests' = Requests /\ Credit' = Credit /\ (\A m : Question(m)' = Question(m))
  BY DEF OnServiceRequest, Requests, Credit, Question
<1>6. Single'
  BY <1>1, <1>5 DEF Single, Open
<1>7. CASE acceptedAuthSvc \/ authenticated
  <2>1. over' = "service"
    BY <1>7 DEF OnServiceRequest, Disconnect
  <2>2. over' # "no" /\ Expected'
    BY <2>1, Zenon DEF Expected
  <2>3. QED
    BY <2>2, <1>1, <1>3, <1>5, <1>6 DEF Steady
<1>8. CASE ~(acceptedAuthSvc \/ authenticated)
  <2>1. toClient' = Append(toClient, [type |-> "SERVICE_ACCEPT"]) /\ over' = over
    BY <1>8 DEF OnServiceRequest
  <2>2. PICK m \in ClientMsgs : m = [type |-> "SERVICE_ACCEPT"]
    BY DEF ClientMsgs
  <2>3. m.type = "SERVICE_ACCEPT"
    BY <2>2
  <2>4. PICK n : n = Len(toClient) + 1
    OBVIOUS
  <2>5. /\ Len(toClient') = n /\ n \in Nat /\ n \in 1..n /\ toClient'[n] = m
        /\ \A i \in 1..Len(toClient') : (i \in 1..Len(toClient) /\ toClient'[i] = toClient[i]) \/ i = n
    <3>1. toClient \in Seq(ClientMsgs) /\ toClient' = Append(toClient, m)
      BY <2>1, <2>2 DEF IInv, Fields
    <3>2. QED
      BY <2>4, <3>1, Grown
  <2>6. \A i \in 1..Len(toClient) : ~Passes(toClient[i])
    BY <1>4, <1>8 DEF IInv, Believed
  <2>7. Token'
    <3>1. OnlyReply'
      BY <1>4 DEF OnlyReply
    <3>2. \A i \in 1..Len(toClient') : Passes(toClient'[i]) => i = n
      BY <2>5, <2>6 DEF Passes
    <3>3. QED
      BY <2>5, <3>1, <3>2, <1>3, <1>4, <1>5 DEF Token
  <2>8. Current'
    BY <2>3, <2>5, <1>1, <1>3, <1>4, <1>5 DEF Current
  <2>9. Change'
    <3>1. \A i \in 1..Len(toClient') : ~Question(toClient'[i])
      BY <2>3, <2>5, <1>4 DEF Question
    <3>2. \A i \in 1..Len(toClient') : toClient'[i].type # "SERVICE_ACCEPT" =>
              toClient'[i].for \in Requests /\ toClient'[i].method = ctx[toClient'[i].for].method
      BY <2>3, <2>5, <1>1 DEF Change
    <3>3. QED
      BY <3>1, <3>2, <1>1, <1>3, <1>4, <1>5 DEF Change
  <2>10. ASSUME ~changed
         PROVE  Queues'
    <3>1. Queues
      BY <2>10, <1>1
    <3>2. toClient = <<>> /\ cqueue = <<>>
      BY <3>1, <1>2, <1>3, <1>4 DEF Queues
    <3>3. \A i \in 1..Len(toClient') : toClient'[i].type = "SERVICE_ACCEPT"
      BY <2>3, <2>5, <3>2
    <3>4. QED
      BY <3>1, <3>2, <3>3, <1>3, <1>4, <1>5 DEF Queues
  <2>11. QED
    BY <2>1, <2>7, <2>8, <2>9, <2>10, <1>1, <1>3, <1>5, <1>6, StillOn DEF Steady
<1>9. QED
  BY <1>7, <1>8

\* The second password is the answer to the server's question.
LEMMA ReplyLock ==
    ASSUME IInv, Steady, over = "no", ServerReceives, NEW h, h = Head(toServer),
           h.type = "USERAUTH_REQUEST", h.method = "password", Credit,
           ctx' = [ctx EXCEPT ![authCtx].changeCb = FALSE],
           UNCHANGED <<authCtx, pendingAuths, unanswered, aborted, over, toClient, changed, threw>>
    PROVE  Steady'
<1>1. /\ Single /\ Token /\ Current /\ Change /\ (~changed => Queues) /\ (~changed => ~misread /\ ~threw)
  BY DEF Steady
<1>2. /\ UNCHANGED <<asked, cqueue, curAuth, misread>> /\ Held' = Held /\ h = toServer[1] /\ 1 \in Reqs
      /\ \A i \in Reqs' : i + 1 \in Reqs /\ i \in Nat /\ 1 <= i /\ toServer'[i] = toServer[i + 1]
      /\ \A i \in Reqs : i \in Nat /\ (i = 1 \/ i - 1 \in Reqs')
  BY Taken
<1>3. changed
  BY <1>1, NoCredit
<1>4. authCtx \in Requests /\ ctx \in Seq(Contexts)
  BY DEF IInv, Fields, Pending, Credit
<1>5. /\ Requests' = Requests
      /\ \A r \in Requests : /\ ctx'[r].method = ctx[r].method /\ ctx'[r].sig = ctx[r].sig
                             /\ ctx'[r].initialResponse = ctx[r].initialResponse
                             /\ ctx'[r].finalResponse = ctx[r].finalResponse
  BY <1>4 DEF Requests, Contexts
<1>6. Single'
  BY <1>1, <1>5 DEF Single, Open
<1>7. OnlyReply => Reqs' = {}
  <2>1. ASSUME OnlyReply, NEW i \in Reqs'
        PROVE  FALSE
    <3>1. i + 1 \in Reqs /\ i + 1 # 1
      BY <2>1, <1>2
    <3>2. QED
      BY <2>1, <3>1, <1>2 DEF OnlyReply
  <2>2. QED
    BY <2>1
<1>8. OnlyReply => OnlyReply'
  BY <1>7 DEF OnlyReply
<1>9. \A i, j \in Reqs' : ~(i < j)
  <2>1. ASSUME NEW i \in Reqs', NEW j \in Reqs', i < j
        PROVE  FALSE
    <3>1. i + 1 \in Reqs /\ j + 1 \in Reqs /\ 1 < i + 1 /\ i + 1 < j + 1
      BY <2>1, <1>2
    <3>2. j + 1 <= i + 1
      BY <3>1, <1>1, <1>2 DEF Token
    <3>3. QED
      BY <3>1, <3>2, <1>2
  <2>2. QED
    BY <2>1
<1>10. Token'
  BY <1>1, <1>2, <1>8, <1>9 DEF Token
<1>11. Current'
  <2>1. ASSUME Held = {}, NEW i \in Reqs', \A j \in Reqs' : j <= i, toServer'[i].type = "USERAUTH_REQUEST"
        PROVE  toServer'[i].method = Named(curAuth)
    <3>1. i + 1 \in Reqs /\ toServer'[i] = toServer[i + 1] /\ i \in Nat /\ 1 <= i
      BY <1>2
    <3>2. \A j \in Reqs : j <= i + 1
      <4>1. ASSUME NEW j \in Reqs, j # 1
            PROVE  j <= i + 1
        <5>1. j \in Nat /\ j - 1 \in Reqs'
          BY <4>1, <1>2
        <5>2. j - 1 <= i
          BY <2>1, <5>1
        <5>3. QED
          BY <5>1, <5>2, <3>1
      <4>2. QED
        BY <4>1, <3>1
    <3>3. QED
      BY <2>1, <3>1, <3>2, <1>1 DEF Current
  <2>2. unanswered' # {} => ctx'[authCtx'].method = Named(curAuth)
    BY <1>1, <1>4, <1>5 DEF Current
  <2>3. QED
    BY <2>1, <2>2, <1>1, <1>2 DEF Current, Named
<1>12. Change'
  <2>1. \A i \in 1..Len(toClient) : ~Question(toClient[i])
    BY <1>1, <1>2 DEF Change
  <2>2. \A c \in asked : c.what = "newPassword" => ctx[c.for].finalResponse /\ c.for \in Requests
    BY <1>1, <1>2 DEF Change, Turns
  <2>3. \A i \in 1..Len(toClient) : toClient[i].type = "60" => toClient[i].for \in Requests
    BY <1>1 DEF Change
  <2>4. (\A i \in 1..Len(toClient) : ~Question(toClient[i]))'
    BY <2>1, <2>3, <1>5 DEF Question
  <2>5. QED
    BY <2>2, <2>4, <1>1, <1>2, <1>5 DEF Change
<1>13. QED
  BY <1>3, <1>6, <1>10, <1>11, <1>12 DEF Steady

\* A new request is the only one before the server.
LEMMA BeginsLock ==
    ASSUME IInv, Steady, over = "no", ServerReceives, NEW h \in AuthRequests, h = Head(toServer),
           ~(Credit /\ h.method = "password"), ~Refused(h), Begins(h), squeue' = Append(squeue, h.method),
           UNCHANGED <<over, toClient, changed, threw>>
    PROVE  Steady'
<1>1. /\ Single /\ Token /\ Current /\ Change /\ (~changed => Queues) /\ (~changed => ~misread /\ ~threw)
  BY DEF Steady
<1>2. h.type = "USERAUTH_REQUEST" /\ ~authenticated
  BY DEF AuthRequests, Refused
<1>3. /\ UNCHANGED <<asked, cqueue, curAuth, misread>> /\ Held' = Held /\ h = toServer[1]
  BY Taken
<1>4. /\ Reqs = {1} /\ Reqs' = {} /\ unanswered = {} /\ Held = {}
      /\ \A i \in 1..Len(toClient) : Passes(toClient[i]) => toClient[i].type = "USERAUTH_SUCCESS"
      /\ \A i \in 1..Len(toClient) : ~Question(toClient[i])
      /\ \A c \in asked : c.what = "newPassword" => ctx[c.for].finalResponse
  BY <1>2, NewRequest
<1>5. \A i \in 1..Len(toClient) : ~Passes(toClient[i])
  BY <1>2, <1>4 DEF IInv, Believed
<1>6. PICK id : id = Len(ctx) + 1
  OBVIOUS
<1>7. /\ id \in Nat \ {0} /\ Requests' = Requests \cup {id} /\ id \notin Requests
      /\ \A r \in Requests : ctx'[r] = ctx[r]
      /\ ctx'[id].finalResponse = FALSE /\ ctx'[id].initialResponse = FALSE
  BY <1>6, NewContext DEF IInv, Fields, Begins, Requests
<1>8. ctx'[id].method = h.method /\ ctx'[id].changeCb = FALSE
  <2>1. ctx \in Seq(Contexts) /\ AuthContext(h) \in Contexts
    BY DEF IInv, Fields, AuthContext, Contexts, AuthRequests
  <2>2. AuthContext(h).method = h.method /\ AuthContext(h).changeCb = FALSE
    BY DEF AuthContext
  <2>3. ctx' = Append(ctx, AuthContext(h))
    BY DEF Begins
  <2>. HIDE DEF AuthContext
  <2>4. ctx'[id] = AuthContext(h)
    BY <2>1, <2>3, <1>6, Grown
  <2>5. QED
    BY <2>2, <2>4
<1>9. authCtx # None => ctx[authCtx].initialResponse /\
                          (ctx[authCtx].method = "keyboard-interactive" => ctx[authCtx].finalResponse)
  <2>1. ASSUME authCtx # None
        PROVE  authCtx \in Requests /\ ~Open(authCtx)
    BY <2>1, <1>1, <1>4 DEF IInv, Pending, Single
  <2>2. QED
    BY <2>1 DEF Open, IInv, Touched
<1>10. /\ authCtx' = id /\ pendingAuths' = pendingAuths /\ unanswered' = {id} /\ aborted' = {}
  <2>1. ~(authCtx # None /\ ~ctx[authCtx].initialResponse)
    BY <1>9
  <2>2. ~(/\ authCtx # None /\ ~(authCtx # None /\ ~ctx[authCtx].initialResponse)
          /\ ctx[authCtx].method = "keyboard-interactive" /\ ~ctx[authCtx].finalResponse)
    BY <1>9
  <2>3. authCtx' = id /\ pendingAuths' = pendingAuths
    BY <2>1, <1>6 DEF Begins
  <2>4. unanswered' = unanswered \cup {id}
    BY <2>2, <1>6 DEF Begins
  <2>5. aborted' = aborted
    BY <2>2 DEF Begins
  <2>6. aborted' = {}
    BY <2>5, <1>1 DEF Single
  <2>7. QED
    BY <2>3, <2>4, <2>6, <1>4
<1>11. Single'
  <2>1. \A r \in Requests : Open(r)' => Open(r)
    BY <1>7 DEF Open
  <2>2. id # None
    BY <1>7 DEF None
  <2>3. QED
    BY <2>1, <2>2, <1>1, <1>4, <1>7, <1>10 DEF Single
<1>12. Token'
  <2>1. OnlyReply'
    BY <1>4 DEF OnlyReply
  <2>2. QED
    BY <2>1, <1>3, <1>4, <1>5 DEF Token
<1>13. h.method = Named(curAuth)
  <2>1. \A j \in Reqs : j <= 1
    BY <1>4
  <2>2. QED
    BY <2>1, <1>1, <1>2, <1>3, <1>4 DEF Current
<1>14. Current'
  BY <1>1, <1>3, <1>4, <1>8, <1>10, <1>13 DEF Current, Named
<1>15. Change'
  <2>1. \A c \in asked : c.what = "newPassword" => ctx[c.for].finalResponse /\ c.for \in Requests
    BY <1>1, <1>4 DEF Change, Turns
  <2>2. \A i \in 1..Len(toClient) : toClient[i].type = "60" => toClient[i].for \in Requests
    BY <1>1 DEF Change
  <2>3. (\A i \in 1..Len(toClient) : ~Question(toClient[i]))'
    BY <2>2, <1>4, <1>7 DEF Question
  <2>4. QED
    BY <2>1, <2>3, <1>1, <1>3, <1>7 DEF Change
<1>16. ASSUME ~changed
       PROVE  Queues'
  <2>1. Queues
    BY <1>16, <1>1
  <2>2. /\ toClient' = <<>> /\ squeue = <<>> /\ cqueue' = <<h.method>> /\ Len(toServer) = 1
    BY <2>1, <1>2, <1>3, <1>4 DEF Queues
  <2>3. squeue' = <<h.method>>
    BY <2>2
  <2>4. Len(toServer') = 0
    BY <2>2, Taken
  <2>5. \A c \in asked : c.what = "answers" => ctx'[c.for].method = "keyboard-interactive"
    BY <2>1, <1>1, <1>7 DEF Queues, Change, Turns
  <2>6. \A r \in Requests' : ~ctx'[r].changeCb
    BY <2>1, <1>7, <1>8 DEF Queues
  <2>7. (\A i \in 1..Len(toServer) : FALSE)' /\ (\A i \in 1..Len(toClient) : FALSE)'
    BY <2>2, <2>4
  <2>8. QED
    BY <2>2, <2>3, <2>5, <2>6, <2>7, <1>3, <1>4, <1>8, <1>10 DEF Queues
<1>17. QED
  BY <1>1, <1>3, <1>11, <1>12, <1>14, <1>15, <1>16, StillOn DEF Steady

LEMMA UserauthRequestLock ==
    ASSUME IInv, Steady, over = "no", ServerReceives, NEW h, h = Head(toServer),
           h.type = "USERAUTH_REQUEST", OnUserauthRequest(h)
    PROVE  Steady'
<1>1. h \in AuthRequests /\ misread' = misread
  BY Received, Taken
<1>2. UNCHANGED <<toClient, changed, threw>> /\ squeue' = Append(squeue, h.method)
  BY DEF OnUserauthRequest
<1>3. CASE Refused(h)
  <2>1. over' = "protocol" /\ UNCHANGED <<ctx, authCtx, pendingAuths, unanswered, aborted>>
    BY <1>3 DEF OnUserauthRequest, Disconnect
  <2>2. Expected' /\ over' # "no"
    BY <2>1, Zenon DEF Expected
  <2>3. Single => Single'
    BY <2>1 DEF Single, Requests, Open
  <2>4. QED
    BY <1>1, <1>2, <2>2, <2>3 DEF Steady
<1>4. CASE ~Refused(h) /\ h.method = "password" /\ Credit
  <2>1. /\ ctx' = [ctx EXCEPT ![authCtx].changeCb = FALSE]
        /\ UNCHANGED <<authCtx, pendingAuths, unanswered, aborted, over>>
    BY <1>4 DEF OnUserauthRequest, Credit
  <2>2. QED
    BY <1>2, <1>4, <2>1, ReplyLock
<1>5. CASE ~Refused(h) /\ ~(Credit /\ h.method = "password")
  <2>1. Begins(h) /\ over' = over
    BY <1>5 DEF OnUserauthRequest, Credit
  <2>2. QED
    BY <1>1, <1>2, <1>5, <2>1, BeginsLock
<1>6. QED
  BY <1>3, <1>4, <1>5

LEMMA InfoResponseLock ==
    ASSUME IInv, Steady, over = "no", ServerReceives, OnInfoResponse, Head(toServer).type = "61"
    PROVE  Steady'
<1>1. /\ Single /\ Token /\ Current /\ Change /\ (~changed => Queues) /\ (~changed => ~misread /\ ~threw)
  BY DEF Steady
<1>2. PICK h : h = Head(toServer)
  OBVIOUS
<1>3. /\ UNCHANGED <<asked, cqueue, curAuth, misread>> /\ Held' = Held /\ h = toServer[1]
      /\ 1 \in 1..Len(toServer) /\ Len(toServer) = Len(toServer') + 1 /\ Len(toServer') \in Nat
      /\ \A i \in 1..Len(toServer') : i + 1 \in 1..Len(toServer) /\ toServer'[i] = toServer[i + 1]
      /\ \A i \in Reqs' : i + 1 \in Reqs /\ i \in Nat /\ 1 <= i /\ toServer'[i] = toServer[i + 1]
      /\ \A i \in Reqs : i \in Nat /\ i - 1 \in Reqs'
  BY <1>2, Taken
<1>4. /\ UNCHANGED <<toClient, authCtx, pendingAuths, squeue, unanswered, changed, aborted, threw>>
      /\ Requests' = Requests
      /\ \A r \in Requests : /\ ctx'[r].method = ctx[r].method /\ ctx'[r].sig = ctx[r].sig
                             /\ ctx'[r].initialResponse = ctx[r].initialResponse
                             /\ ctx'[r].finalResponse = ctx[r].finalResponse
                             /\ ctx'[r].changeCb = ctx[r].changeCb
  <2>1. UNCHANGED <<toClient, authCtx, pendingAuths, squeue, unanswered, changed, aborted, threw>>
    BY Zenon DEF OnInfoResponse
  <2>2. ctx' = ctx \/ (authCtx # None /\ ctx' = [ctx EXCEPT ![authCtx].promptCb = FALSE])
    BY Zenon DEF OnInfoResponse
  <2>3. ctx \in Seq(Contexts) /\ (authCtx # None => authCtx \in Requests)
    BY DEF IInv, Fields, Pending
  <2>4. CASE ctx' = ctx
    BY <2>1, <2>4 DEF Requests
  <2>5. CASE authCtx # None /\ ctx' = [ctx EXCEPT ![authCtx].promptCb = FALSE]
    <3>1. PICK c : c = [ctx[authCtx] EXCEPT !.promptCb = FALSE]
      OBVIOUS
    <3>2. ctx[authCtx] \in Contexts
      BY <2>3, <2>5 DEF Requests
    <3>3. /\ c \in Contexts /\ c.method = ctx[authCtx].method /\ c.sig = ctx[authCtx].sig
          /\ c.initialResponse = ctx[authCtx].initialResponse
          /\ c.finalResponse = ctx[authCtx].finalResponse /\ c.changeCb = ctx[authCtx].changeCb
      BY <3>1, <3>2 DEF Contexts
    <3>4. ctx' = [ctx EXCEPT ![authCtx] = c]
      BY <2>5, <3>1
    <3>5. /\ Requests' = Requests /\ ctx'[authCtx] = c
          /\ \A r \in Requests : r # authCtx => ctx'[r] = ctx[r]
      BY <2>3, <2>5, <3>3, <3>4 DEF Requests
    <3>6. QED
      BY <2>1, <3>3, <3>5
  <2>6. QED
    BY <2>2, <2>4, <2>5
<1>5. authCtx # None => authCtx \in Requests
  BY DEF IInv, Pending
<1>6. (Credit' <=> Credit) /\ (unanswered # {} => authCtx \in Requests)
  BY <1>1, <1>4, <1>5 DEF Credit, Single
<1>7. Single'
  BY <1>1, <1>4 DEF Single, Open
<1>8. OnlyReply => OnlyReply'
  <2>1. ASSUME OnlyReply, NEW i \in Reqs'
        PROVE  /\ Credit' /\ toServer'[i].type = "USERAUTH_REQUEST" /\ toServer'[i].method = "password"
               /\ \A j \in Reqs' : i = j
    <3>1. /\ Credit /\ toServer[i + 1].type = "USERAUTH_REQUEST" /\ toServer[i + 1].method = "password"
          /\ \A j \in Reqs : i + 1 = j
      BY <2>1, <1>3 DEF OnlyReply
    <3>2. \A j \in Reqs' : i = j
      BY <3>1, <1>3
    <3>3. QED
      BY <3>1, <3>2, <1>3, <1>6
  <2>2. QED
    BY <2>1 DEF OnlyReply
<1>9. Token'
  <2>1. ASSUME NEW i \in Reqs', NEW j \in Reqs', i < j
        PROVE  /\ Credit' /\ toServer'[i].type = "USERAUTH_REQUEST"
               /\ toServer'[i].method = "password" /\ \A k \in Reqs' : k <= j
    <3>1. i + 1 \in Reqs /\ j + 1 \in Reqs /\ i + 1 < j + 1
      BY <2>1, <1>3
    <3>2. /\ Credit /\ toServer[i + 1].type = "USERAUTH_REQUEST"
          /\ toServer[i + 1].method = "password" /\ \A k \in Reqs : k <= j + 1
      BY <3>1, <1>1 DEF Token
    <3>3. \A k \in Reqs' : k <= j
      BY <3>2, <1>3
    <3>4. QED
      BY <3>2, <3>3, <1>3, <1>6
  <2>2. QED
    BY <2>1, <1>1, <1>3, <1>4, <1>8 DEF Token
<1>10. Current'
  <2>1. ASSUME Held = {}, NEW i \in Reqs', \A j \in Reqs' : j <= i, toServer'[i].type = "USERAUTH_REQUEST"
        PROVE  toServer'[i].method = Named(curAuth)
    <3>1. i + 1 \in Reqs /\ toServer'[i] = toServer[i + 1] /\ i \in Nat
      BY <1>3
    <3>2. \A j \in Reqs : j <= i + 1
      <4>1. ASSUME NEW j \in Reqs
            PROVE  j <= i + 1
        <5>1. j \in Nat /\ j - 1 \in Reqs'
          BY <1>3
        <5>2. j - 1 <= i
          BY <2>1, <5>1
        <5>3. QED
          BY <5>1, <5>2, <3>1
      <4>2. QED
        BY <4>1
    <3>3. QED
      BY <2>1, <3>1, <3>2, <1>1 DEF Current
  <2>2. unanswered' # {} => ctx'[authCtx'].method = Named(curAuth)
    BY <1>1, <1>4, <1>6 DEF Current
  <2>3. QED
    BY <2>1, <2>2, <1>1, <1>3, <1>4 DEF Current, Named
<1>11. Reqs = {} => Reqs' = {}
  BY <1>3
<1>12. Change'
  <2>1. \A i \in 1..Len(toClient) : /\ toClient[i].type = "60" => toClient[i].for \in Requests
                                    /\ Question(toClient[i])' = Question(toClient[i])
    BY <1>1, <1>4 DEF Change, Question
  <2>2. \A c \in asked : c.what = "newPassword" => c.for \in Requests
    BY <1>1 DEF Change, Turns
  <2>3. /\ \A i \in 1..Len(toClient) : toClient[i].type # "SERVICE_ACCEPT" =>
               toClient[i].for \in Requests /\ toClient[i].method = ctx'[toClient[i].for].method
        /\ \A c \in asked : c.what \in Turns \/ (c.what \in {"newPassword", "answers"} /\ c.for \in Requests)
    BY <1>1, <1>4 DEF Change
  <2>4. \A c \in asked : c.what = "newPassword" =>
            /\ ctx'[c.for].method = "password" /\ ctx'[c.for].finalResponse = ctx[c.for].finalResponse
    BY <2>2, <1>1, <1>4 DEF Change
  <2>5. \A i \in 1..Len(toClient) : Question(toClient[i]) =>
            /\ Credit' /\ Reqs' = {} /\ \A j \in 1..Len(toClient) : Question(toClient[j]) => i = j
    BY <1>1, <1>6, <1>11 DEF Change
  <2>6. \A c \in asked : c.what = "newPassword" /\ ~ctx[c.for].finalResponse =>
            /\ Credit' /\ Reqs' = {} /\ \A i \in 1..Len(toClient) : ~Question(toClient[i])
            /\ \A d \in asked : d.what = "newPassword" /\ ~ctx[d.for].finalResponse => c = d
    BY <1>1, <1>6, <1>11 DEF Change
  <2>7. (\A i \in 1..Len(toClient) : Question(toClient[i]) =>
            /\ Credit /\ Reqs = {} /\ \A j \in 1..Len(toClient) : Question(toClient[j]) => i = j)'
    BY <2>1, <2>5, <1>4
  <2>8. (\A c \in asked : c.what = "newPassword" /\ ~ctx[c.for].finalResponse =>
            /\ Credit /\ Reqs = {} /\ \A i \in 1..Len(toClient) : ~Question(toClient[i])
            /\ \A d \in asked : d.what = "newPassword" /\ ~ctx[d.for].finalResponse => c = d)'
    BY <2>1, <2>4, <2>6, <1>3, <1>4
  <2>9. QED
    BY <2>3, <2>4, <2>7, <2>8, <1>3, <1>4 DEF Change
<1>13. ASSUME ~changed
       PROVE  Queues' /\ ~(squeue # <<>> /\ Head(squeue) # "keyboard-interactive")
  <2>1. Queues
    BY <1>13, <1>1
  <2>2. ~(squeue # <<>> /\ Head(squeue) # "keyboard-interactive")
    <3>1. unanswered # {} => ctx[authCtx].method = "keyboard-interactive"
      BY <2>1, <1>2, <1>3 DEF Queues
    <3>2. QED
      BY <2>1, <3>1 DEF Queues
  <2>3. \A i \in Reqs' : i = Len(toServer')
    <3>1. \A i \in Reqs' : i + 1 = Len(toServer)
      BY <2>1, <1>3 DEF Queues
    <3>2. QED
      BY <3>1, <1>3
  <2>4. \A i \in Reqs' :
            toClient = <<>> /\ cqueue = IF toServer'[i].type = "USERAUTH_REQUEST"
                                        THEN <<toServer'[i].method>> ELSE <<>>
    BY <2>1, <1>3 DEF Queues
  <2>5. \A i \in 1..Len(toServer') :
            toServer'[i].type = "61" /\ unanswered # {} => ctx[authCtx].method = "keyboard-interactive"
    BY <2>1, <1>3 DEF Queues
  <2>6. \A c \in asked : c.what = "answers" => c.for \in Requests
    BY <1>1 DEF Change, Turns
  <2>7. QED
    BY <2>1, <2>2, <2>3, <2>4, <2>5, <2>6, <1>3, <1>4, <1>6 DEF Queues
<1>14. CASE squeue # <<>> /\ Head(squeue) # "keyboard-interactive"
  <2>1. ~(over' = "no")
    BY <1>14, Zenon DEF OnInfoResponse, Disconnect
  <2>2. QED
    BY <2>1, <1>4, <1>7, <1>13, <1>14 DEF Steady
<1>15. CASE ~(squeue # <<>> /\ Head(squeue) # "keyboard-interactive")
  <2>1. over' = over
    BY <1>15, Zenon DEF OnInfoResponse
  <2>2. QED
    BY <2>1, <1>1, <1>3, <1>4, <1>7, <1>9, <1>10, <1>12, <1>13, StillOn DEF Steady
<1>16. QED
  BY <1>14, <1>15

-----------------------------------------------------------------------------
(* The application speaks.                                                 *)

\* What is known of a request the application may still decide: nothing else is
\* before the server, and the turn is nowhere else.
LEMMA Deciding ==
    ASSUME IInv, Steady, over = "no", NEW r \in Requests, Open(r)
    PROVE  /\ r = authCtx /\ r # None /\ r \in unanswered /\ unanswered = {r} /\ ~authenticated
           /\ pendingAuths = <<>> /\ OnlyReply /\ Held = {} /\ ctx[r].method = Named(curAuth)
           /\ \A i \in 1..Len(toClient) : ~Passes(toClient[i])
<1>1. Single /\ Token /\ Current
  BY DEF Steady
<1>2. r \in unanswered /\ r = authCtx /\ r # None /\ unanswered = {r} /\ pendingAuths = <<>>
  BY <1>1 DEF Single
<1>3. ~authenticated
  BY <1>2 DEF IInv, Pending
<1>4. QED
  BY <1>1, <1>2, <1>3 DEF Token, Current

\* No password change is under way for a request other than the one being decided.
LEMMA OnlyTheDecided ==
    ASSUME IInv, Steady, over = "no", NEW r \in Requests, Open(r),
           NEW q \in Requests, ctx[q].method = "password", ~ctx[q].finalResponse
    PROVE  q = r
<1>1. Single
  BY DEF Steady
<1>2. q = authCtx
  BY <1>1, Undecided
<1>3. QED
  BY <1>2, Deciding

\* An answer gives the turn to the client.
LEMMA AnsweredLock ==
    ASSUME IInv, Steady, over = "no", NEW r \in Requests, Open(r), NEW m \in ClientMsgs,
           m.for = r, m.method = ctx[r].method,
           m.type \in {"USERAUTH_SUCCESS", "USERAUTH_FAILURE"} \/ (m.type = "60" /\ m.method = "publickey"),
           toClient' = Append(toClient, m), unanswered' = unanswered \ {r}, squeue' = Shift(squeue),
           pendingAuths' = <<>>, m.type # "USERAUTH_SUCCESS" => authCtx' = authCtx,
           UNCHANGED <<toServer, over, asked, cqueue, curAuth, changed, aborted, threw, misread>>,
           Requests' = Requests, \A q \in Requests : q # r => ctx'[q] = ctx[q],
           ctx'[r].method = ctx[r].method, ctx'[r].changeCb = ctx[r].changeCb, ~Open(r)',
           ctx'[r].method = "publickey" \/ ctx'[r].finalResponse
    PROVE  Steady'
<1>1. /\ Single /\ Token /\ Current /\ Change /\ (~changed => Queues) /\ (~changed => ~misread /\ ~threw)
  BY DEF Steady
<1>2. /\ r = authCtx /\ r # None /\ unanswered = {r} /\ OnlyReply /\ Held = {}
      /\ ctx[r].method = Named(curAuth)
      /\ \A i \in 1..Len(toClient) : ~Passes(toClient[i])
  BY Deciding
<1>3. PICK n : n = Len(toClient) + 1
  OBVIOUS
<1>4. /\ Len(toClient') = n /\ n \in Nat /\ n \in 1..n /\ toClient'[n] = m
      /\ \A i \in 1..Len(toClient) : toClient'[i] = toClient[i]
      /\ \A i \in 1..Len(toClient') : i \in 1..Len(toClient) \/ i = n
  <2>1. toClient \in Seq(ClientMsgs)
    BY DEF IInv, Fields
  <2>2. QED
    BY <2>1, <1>3, Grown
<1>5. Reqs' = Reqs /\ Held' = {} /\ unanswered' = {}
  BY <1>2 DEF Reqs, Held
<1>6. \A q \in Requests : ctx'[q].method = ctx[q].method /\ ctx'[q].changeCb = ctx[q].changeCb
  OBVIOUS
<1>7. \A q \in Requests : ctx'[q].method = "password" => ctx'[q].finalResponse
  <2>1. ASSUME NEW q \in Requests, ctx'[q].method = "password"
        PROVE  ctx'[q].finalResponse
    <3>1. CASE q = r
      BY <2>1, <3>1
    <3>2. CASE q # r
      BY <2>1, <3>2, OnlyTheDecided
    <3>3. QED
      BY <3>1, <3>2
  <2>2. QED
    BY <2>1
<1>8. Single'
  <2>1. \A q \in Requests : ~Open(q)'
    <3>1. ASSUME NEW q \in Requests, q # r, Open(q)'
          PROVE  FALSE
      <4>1. Open(q)
        BY <3>1 DEF Open
      <4>2. QED
        BY <4>1, <3>1, <1>1, <1>2 DEF Single
    <3>2. QED
      BY <3>1
  <2>2. QED
    BY <2>1, <1>1, <1>5 DEF Single
<1>9. Token'
  <2>1. m.type # "USERAUTH_SUCCESS" => OnlyReply'
    <3>1. ASSUME m.type # "USERAUTH_SUCCESS"
          PROVE  Credit' = Credit
      BY <3>1, <1>2, <1>6 DEF Credit
    <3>2. QED
      BY <3>1, <1>2, <1>5 DEF OnlyReply
  <2>2. \A i \in 1..Len(toClient') : Passes(toClient'[i]) => i = n
    BY <1>2, <1>4 DEF Passes
  <2>3. \A i, j \in Reqs : ~(i < j)
    BY <1>2 DEF OnlyReply, Reqs
  <2>4. QED
    BY <2>1, <2>2, <2>3, <1>4, <1>5 DEF Token
<1>10. Current'
  <2>1. \A i \in 1..Len(toClient') : toClient'[i].type = "60" => toClient'[i].method = Named(curAuth)
    BY <1>1, <1>2, <1>4 DEF Current
  <2>2. QED
    BY <2>1, <1>1, <1>2, <1>5 DEF Current, Named
<1>11. Change'
  <2>1. \A i \in 1..Len(toClient') : toClient'[i].type # "SERVICE_ACCEPT" =>
            toClient'[i].for \in Requests /\ toClient'[i].method = ctx'[toClient'[i].for].method
    BY <1>1, <1>4, <1>6 DEF Change
  <2>2. (\A i \in 1..Len(toClient) : ~Question(toClient[i]))'
    BY <2>1, <1>7 DEF Question
  <2>3. \A c \in asked : c.what = "newPassword" =>
            c.for \in Requests /\ ctx'[c.for].method = "password" /\ ctx'[c.for].finalResponse
    <3>1. \A c \in asked : c.what = "newPassword" => c.for \in Requests /\ ctx[c.for].method = "password"
      BY <1>1 DEF Change, Turns
    <3>2. QED
      BY <3>1, <1>6, <1>7
  <2>4. \A c \in asked : c.what \in Turns \/ (c.what \in {"newPassword", "answers"} /\ c.for \in Requests)
    BY <1>1 DEF Change
  <2>5. QED
    BY <2>1, <2>2, <2>3, <2>4 DEF Change
<1>12. ASSUME ~changed
       PROVE  Queues'
  <2>1. Queues
    BY <1>12, <1>1
  <2>2. Reqs = {} /\ cqueue = <<ctx[r].method>> /\ squeue = <<ctx[r].method>>
    BY <2>1, <1>2, NoCredit DEF Queues
  <2>3. squeue' = <<>>
    BY <2>2 DEF Shift
  <2>4. \A i \in 1..Len(toClient') :
            cqueue = IF toClient'[i].type = "SERVICE_ACCEPT" THEN <<>> ELSE <<toClient'[i].method>>
    <3>1. m.type # "SERVICE_ACCEPT"
      OBVIOUS
    <3>2. QED
      BY <3>1, <2>1, <2>2, <1>4 DEF Queues
  <2>5. \A c \in asked : c.what = "answers" => ctx'[c.for].method = "keyboard-interactive"
    BY <2>1, <1>1, <1>6 DEF Queues, Change, Turns
  <2>6. \A q \in Requests' : ~ctx'[q].changeCb
    BY <2>1, <1>6 DEF Queues
  <2>7. QED
    BY <2>2, <2>3, <2>4, <2>5, <2>6, <1>5 DEF Queues
<1>13. QED
  BY <1>1, <1>8, <1>9, <1>10, <1>11, <1>12, StillOn DEF Steady

\* A question leaves the turn with the server.
LEMMA AskedLock ==
    ASSUME IInv, Steady, over = "no", NEW r \in Requests, Open(r), NEW m \in ClientMsgs,
           m.for = r, m.method = ctx[r].method, m.type = "60", m.method # "publickey",
           toClient' = Append(toClient, m),
           UNCHANGED <<toServer, over, asked, cqueue, curAuth, aborted, threw, misread,
                       authCtx, pendingAuths, squeue, unanswered>>,
           Requests' = Requests, \A q \in Requests : q # r => ctx'[q] = ctx[q],
           ctx'[r].method = ctx[r].method, ctx'[r].finalResponse = ctx[r].finalResponse,
           \/ m.method # "password" /\ ctx'[r].changeCb = ctx[r].changeCb /\ changed' = changed
           \/ ~ctx[r].changeCb /\ ctx'[r].changeCb /\ changed'
    PROVE  Steady'
<1>1. /\ Single /\ Token /\ Current /\ Change /\ (~changed => Queues) /\ (~changed => ~misread /\ ~threw)
  BY DEF Steady
<1>2. /\ r = authCtx /\ r # None /\ r \in unanswered /\ unanswered = {r} /\ OnlyReply /\ Held = {}
      /\ ctx[r].method = Named(curAuth)
      /\ \A i \in 1..Len(toClient) : ~Passes(toClient[i])
  BY Deciding
<1>3. PICK n : n = Len(toClient) + 1
  OBVIOUS
<1>4. /\ Len(toClient') = n /\ n \in Nat /\ n \in 1..n /\ toClient'[n] = m
      /\ \A i \in 1..Len(toClient) : toClient'[i] = toClient[i]
      /\ \A i \in 1..Len(toClient') : i \in 1..Len(toClient) \/ i = n
  <2>1. toClient \in Seq(ClientMsgs)
    BY DEF IInv, Fields
  <2>2. QED
    BY <2>1, <1>3, Grown
<1>5. Reqs' = Reqs /\ Held' = {} /\ unanswered' = unanswered
  BY <1>2 DEF Reqs, Held
<1>6. \A q \in Requests : ctx'[q].method = ctx[q].method /\ ctx'[q].finalResponse = ctx[q].finalResponse
  OBVIOUS
<1>7. Single'
  <2>1. \A q \in Requests : Open(q)' => q \in unanswered
    BY <1>1, <1>2 DEF Single, Open
  <2>2. QED
    BY <2>1, <1>1 DEF Single
<1>8. OnlyReply' /\ (m.method = "password" => ~Credit /\ Credit' /\ Reqs = {})
      /\ (m.method # "password" => changed' \/ changed' = changed) /\ (Credit => Credit')
  BY <1>2, <1>5 DEF OnlyReply, Credit
<1>9. Token'
  <2>1. \A i \in 1..Len(toClient') : ~Passes(toClient'[i])
    BY <1>2, <1>4 DEF Passes
  <2>2. \A i, j \in Reqs : ~(i < j)
    BY <1>2 DEF OnlyReply, Reqs
  <2>3. QED
    BY <2>1, <2>2, <1>4, <1>5, <1>8 DEF Token
<1>10. Current'
  <2>1. \A i \in 1..Len(toClient') : toClient'[i].type = "60" => toClient'[i].method = Named(curAuth)
    BY <1>1, <1>2, <1>4 DEF Current
  <2>2. QED
    BY <2>1, <1>1, <1>2, <1>5 DEF Current, Named
<1>11. Change'
  <2>1. \A i \in 1..Len(toClient') : toClient'[i].type # "SERVICE_ACCEPT" =>
            toClient'[i].for \in Requests /\ toClient'[i].method = ctx'[toClient'[i].for].method
    BY <1>1, <1>4, <1>6 DEF Change
  <2>2. \A c \in asked : c.what \in Turns \/ (c.what \in {"newPassword", "answers"} /\ c.for \in Requests)
    BY <1>1 DEF Change
  <2>3. \A c \in asked : c.what = "newPassword" =>
            /\ ctx'[c.for].method = "password" /\ ctx'[c.for].finalResponse = ctx[c.for].finalResponse
    BY <2>2, <1>1, <1>6 DEF Change, Turns
  <2>4. \A i \in 1..Len(toClient) : Question(toClient[i])' = Question(toClient[i])
    <3>1. \A i \in 1..Len(toClient) : toClient[i].type = "60" => toClient[i].for \in Requests
      BY <1>1 DEF Change
    <3>2. QED
      BY <3>1, <1>4, <1>6 DEF Question
  <2>5. Question(toClient[n])' => m.method = "password"
    BY <1>4 DEF Question
  <2>6. CASE m.method = "password"
    <3>1. /\ \A i \in 1..Len(toClient) : ~Question(toClient[i])
          /\ \A c \in asked : c.what = "newPassword" => ctx[c.for].finalResponse
      BY <2>6, <1>1, <1>8 DEF Change
    <3>2. (\A i \in 1..Len(toClient) : Question(toClient[i]) =>
              /\ Credit /\ Reqs = {} /\ \A j \in 1..Len(toClient) : Question(toClient[j]) => i = j)'
      <4>1. (\A i \in 1..Len(toClient) : Question(toClient[i]) => i = n)'
        BY <3>1, <2>4, <1>4
      <4>2. Credit' /\ Reqs' = {}
        BY <2>6, <1>5, <1>8
      <4>3. QED
        BY <4>1, <4>2
    <3>3. QED
      BY <3>1, <3>2, <2>1, <2>2, <2>3 DEF Change
  <2>7. CASE m.method # "password"
    <3>1. (\A i \in 1..Len(toClient) : Question(toClient[i]) =>
              /\ Credit /\ Reqs = {} /\ \A j \in 1..Len(toClient) : Question(toClient[j]) => i = j)'
      <4>1. \A i \in 1..Len(toClient') : Question(toClient[i])' =>
                i \in 1..Len(toClient) /\ Question(toClient[i])
        BY <2>4, <2>5, <2>7, <1>4
      <4>2. QED
        BY <4>1, <1>1, <1>5, <1>8 DEF Change
    <3>2. (\A c \in asked : c.what = "newPassword" /\ ~ctx[c.for].finalResponse =>
              /\ Credit /\ Reqs = {} /\ \A i \in 1..Len(toClient) : ~Question(toClient[i])
              /\ \A d \in asked : d.what = "newPassword" /\ ~ctx[d.for].finalResponse => c = d)'
      <4>1. ASSUME NEW c \in asked, c.what = "newPassword", ~ctx'[c.for].finalResponse
            PROVE  /\ Credit' /\ Reqs' = {} /\ (\A i \in 1..Len(toClient) : ~Question(toClient[i]))'
                   /\ \A d \in asked : d.what = "newPassword" /\ ~ctx'[d.for].finalResponse => c = d
        <5>1. /\ Credit /\ Reqs = {} /\ \A i \in 1..Len(toClient) : ~Question(toClient[i])
              /\ \A d \in asked : d.what = "newPassword" /\ ~ctx[d.for].finalResponse => c = d
          BY <4>1, <2>3, <1>1 DEF Change
        <5>2. (\A i \in 1..Len(toClient) : ~Question(toClient[i]))'
          BY <5>1, <2>4, <2>5, <2>7, <1>4
        <5>3. QED
          BY <5>1, <5>2, <2>3, <1>5, <1>8
      <4>2. QED
        BY <4>1
    <3>3. QED
      BY <3>1, <3>2, <2>1, <2>2, <2>3 DEF Change
  <2>8. QED
    BY <2>6, <2>7
<1>12. ASSUME ~changed'
       PROVE  Queues' /\ ~misread /\ ~threw
  <2>1. changed' = changed /\ ctx'[r].changeCb = ctx[r].changeCb
    BY <1>12
  <2>2. Queues /\ ~misread /\ ~threw
    BY <2>1, <1>12, <1>1
  <2>3. Reqs = {} /\ cqueue = <<ctx[r].method>> /\ squeue = <<ctx[r].method>>
    BY <2>2, <1>2, NoCredit DEF Queues
  <2>4. \A i \in 1..Len(toClient') :
            cqueue = IF toClient'[i].type = "SERVICE_ACCEPT" THEN <<>> ELSE <<toClient'[i].method>>
    <3>1. m.type # "SERVICE_ACCEPT"
      OBVIOUS
    <3>2. QED
      BY <3>1, <2>2, <2>3, <1>4 DEF Queues
  <2>5. \A c \in asked : c.what = "answers" => ctx'[c.for].method = "keyboard-interactive"
    BY <2>2, <1>1, <1>6 DEF Queues, Change, Turns
  <2>6. \A q \in Requests' : ~ctx'[q].changeCb
    BY <2>1, <2>2 DEF Queues
  <2>7. \A i \in 1..Len(toServer) :
            toServer[i].type = "61" /\ unanswered # {} => ctx'[authCtx].method = "keyboard-interactive"
    BY <2>2, <1>2, <1>6 DEF Queues
  <2>8. QED
    BY <2>2, <2>3, <2>4, <2>5, <2>6, <2>7, <1>2, <1>5, <1>6 DEF Queues
<1>13. QED
  BY <1>7, <1>9, <1>10, <1>11, <1>12, StillOn DEF Steady

\* What is known of a step that changes one context.
LEMMA OneContext ==
    ASSUME IInv, NEW r \in Requests, NEW c \in Contexts, ctx' = [ctx EXCEPT ![r] = c]
    PROVE  Requests' = Requests /\ ctx'[r] = c /\ \A q \in Requests : q # r => ctx'[q] = ctx[q]
<1>1. ctx \in Seq(Contexts) /\ r \in DOMAIN ctx
  BY DEF IInv, Fields, Requests
<1>2. QED
  BY <1>1, UpdateContext DEF Requests

LEMMA DecideLock ==
    ASSUME IInv, Steady, over = "no", NEW r \in Requests, Decidable(r), NEW allowed \in BOOLEAN,
           Decides(r, allowed), UNCHANGED <<toServer, over, client, changed, aborted, misread>>
    PROVE  Steady'
<1>. DEFINE c == [ctx[r] EXCEPT !.initialResponse = TRUE, !.finalResponse = TRUE]
<1>1. ctx[r] \in Contexts
  BY DEF IInv, Fields, Requests
<1>2. /\ c \in Contexts /\ c.method = ctx[r].method /\ c.finalResponse = TRUE
      /\ c.changeCb = ctx[r].changeCb
  BY <1>1 DEF Contexts
<1>3. ctx' = [ctx EXCEPT ![r] = c]
  BY <1>1 DEF Decides, IInv, Fields, Requests
<1>. HIDE DEF c
<1>4. Requests' = Requests /\ ctx'[r] = c /\ \A q \in Requests : q # r => ctx'[q] = ctx[q]
  BY <1>2, <1>3, OneContext
<1>5. Open(r) /\ (\A q : q = r => ~Open(q)')
  BY <1>2, <1>4 DEF Decidable, Open
<1>6. r = authCtx /\ ~authenticated /\ pendingAuths = <<>>
  BY <1>5, Deciding
<1>7. UNCHANGED <<threw, asked, cqueue, curAuth>>
  BY DEF Decides, client
<1>8. PICK type \in {"USERAUTH_SUCCESS", "USERAUTH_FAILURE"} :
          /\ Answers(r, type) /\ pendingAuths' = <<>>
          /\ type # "USERAUTH_SUCCESS" => authCtx' = authCtx
  BY <1>6 DEF Decides, onAuthDecide, authSuccess, authFailure
<1>9. PICK m : m = [type |-> type, method |-> ctx[r].method, for |-> r]
  OBVIOUS
<1>10. m \in ClientMsgs /\ m.type = type /\ m.method = ctx[r].method /\ m.for = r
  BY <1>9, MessageType
<1>11. toClient' = Append(toClient, m) /\ unanswered' = unanswered \ {r} /\ squeue' = Shift(squeue)
  BY <1>8, <1>9 DEF Answers
<1>12. QED
  BY <1>2, <1>4, <1>5, <1>7, <1>8, <1>10, <1>11, AnsweredLock

LEMMA AcceptsKeyLock ==
    ASSUME IInv, Steady, over = "no", NEW r \in Requests, Decidable(r), AcceptsKey(r),
           ctx[r].method = "publickey", ~ctx[r].sig,
           UNCHANGED <<toServer, over, client, changed, aborted, misread>>
    PROVE  Steady'
<1>. DEFINE c == [ctx[r] EXCEPT !.initialResponse = TRUE]
<1>1. ctx[r] \in Contexts
  BY DEF IInv, Fields, Requests
<1>2. /\ c \in Contexts /\ c.method = ctx[r].method /\ c.sig = ctx[r].sig /\ c.initialResponse = TRUE
      /\ c.finalResponse = ctx[r].finalResponse /\ c.changeCb = ctx[r].changeCb
  BY <1>1 DEF Contexts
<1>3. ctx' = [ctx EXCEPT ![r] = c]
  BY <1>1 DEF AcceptsKey, IInv, Fields, Requests
<1>. HIDE DEF c
<1>4. Requests' = Requests /\ ctx'[r] = c /\ \A q \in Requests : q # r => ctx'[q] = ctx[q]
  BY <1>2, <1>3, OneContext
<1>5. Open(r) /\ (\A q : q = r => ~Open(q)')
  BY <1>2, <1>4 DEF Decidable, Open
<1>6. /\ r = authCtx /\ pendingAuths = <<>> /\ unanswered = {r}
  BY <1>5, Deciding
<1>7. UNCHANGED <<authCtx, pendingAuths, asked, cqueue, curAuth>>
  BY DEF AcceptsKey, client
<1>8. CASE squeue # <<>> /\ Head(squeue) = "publickey"
  <2>1. PICK m : m = [type |-> "60", method |-> ctx[r].method, for |-> r]
    OBVIOUS
  <2>2. m \in ClientMsgs /\ m.type = "60" /\ m.method = ctx[r].method /\ m.for = r
    BY <2>1, MessageType
  <2>3. /\ toClient' = Append(toClient, m) /\ unanswered' = unanswered \ {r} /\ squeue' = Shift(squeue)
        /\ threw' = threw
    BY <1>8, <2>1 DEF AcceptsKey, authPKOK, Answers
  <2>4. QED
    BY <1>2, <1>4, <1>5, <1>6, <1>7, <2>2, <2>3, AnsweredLock
\* authPKOK() throws only when a password change has left a request in the queue.
<1>9. CASE ~(squeue # <<>> /\ Head(squeue) = "publickey")
  <2>1. /\ Single /\ Token /\ Current /\ Change /\ (~changed => Queues)
    BY DEF Steady
  <2>2. UNCHANGED <<toClient, squeue, unanswered>>
    BY <1>9 DEF AcceptsKey, authPKOK
  <2>3. changed
    <3>1. ASSUME Queues
          PROVE  FALSE
      <4>1. squeue = <<"publickey">>
        BY <3>1, <1>6 DEF Queues
      <4>2. QED
        BY <4>1, <1>9
    <3>2. QED
      BY <3>1, <2>1
  <2>4. \A q \in Requests : /\ ctx'[q].method = ctx[q].method /\ ctx'[q].changeCb = ctx[q].changeCb
                            /\ ctx'[q].finalResponse = ctx[q].finalResponse
    BY <1>2, <1>4
  <2>5. Reqs' = Reqs /\ Held' = Held /\ Credit' = Credit
    BY <2>4, <1>6, <1>7 DEF Reqs, Held, Credit
  <2>6. Single'
    BY <2>1, <2>2, <1>4, <1>5, <1>7 DEF Single, Open
  <2>7. Token'
    BY <2>1, <2>2, <2>5 DEF Token, OnlyReply
  <2>8. Current'
    BY <2>1, <2>2, <2>4, <2>5, <1>6, <1>7 DEF Current, Named
  <2>9. Change'
    <3>1. \A i \in 1..Len(toClient) : toClient[i].type # "SERVICE_ACCEPT" =>
              toClient[i].for \in Requests /\ toClient[i].method = ctx[toClient[i].for].method
      BY <2>1 DEF Change
    <3>2. \A i \in 1..Len(toClient) : toClient[i].type # "SERVICE_ACCEPT" =>
              toClient[i].for \in Requests /\ toClient[i].method = ctx'[toClient[i].for].method
      BY <3>1, <2>4
    <3>3. \A i \in 1..Len(toClient) : Question(toClient[i])' = Question(toClient[i])
      BY <3>1, <2>2, <2>4 DEF Question
    <3>4. \A d \in asked : d.what \in Turns \/ (d.what \in {"newPassword", "answers"} /\ d.for \in Requests)
      BY <2>1 DEF Change
    <3>5. \A d \in asked : d.what = "newPassword" =>
              /\ ctx'[d.for].method = "password" /\ ctx'[d.for].finalResponse = ctx[d.for].finalResponse
      BY <3>4, <2>1, <2>4 DEF Change, Turns
    <3>6. (\A i \in 1..Len(toClient) : Question(toClient[i]) =>
              /\ Credit /\ Reqs = {} /\ \A j \in 1..Len(toClient) : Question(toClient[j]) => i = j)'
      <4>1. \A i \in 1..Len(toClient) : Question(toClient[i]) =>
                /\ Credit /\ Reqs = {} /\ \A j \in 1..Len(toClient) : Question(toClient[j]) => i = j
        BY <2>1 DEF Change
      <4>2. QED
        BY <4>1, <3>3, <2>2, <2>5
    <3>7. (\A d \in asked : d.what = "newPassword" /\ ~ctx[d.for].finalResponse =>
              /\ Credit /\ Reqs = {} /\ \A i \in 1..Len(toClient) : ~Question(toClient[i])
              /\ \A e \in asked : e.what = "newPassword" /\ ~ctx[e.for].finalResponse => d = e)'
      <4>1. \A d \in asked : d.what = "newPassword" /\ ~ctx[d.for].finalResponse =>
                /\ Credit /\ Reqs = {} /\ \A i \in 1..Len(toClient) : ~Question(toClient[i])
                /\ \A e \in asked : e.what = "newPassword" /\ ~ctx[e.for].finalResponse => d = e
        BY <2>1 DEF Change
      <4>2. QED
        BY <4>1, <3>3, <3>5, <2>2, <2>5, <1>7
    <3>8. QED
      BY <3>2, <3>4, <3>5, <3>6, <3>7, <2>2, <1>4, <1>7 DEF Change
  <2>10. QED
    BY <2>3, <2>6, <2>7, <2>8, <2>9 DEF Steady
<1>10. QED
  BY <1>8, <1>9

\* A question, which is a message 60 of a method other than publickey.
LEMMA AsksLock ==
    ASSUME IInv, Steady, over = "no", NEW r \in Requests, Decidable(r), Asks(r), NEW c \in Contexts,
           ctx' = [ctx EXCEPT ![r] = c], ctx[r].method # "publickey",
           c.method = ctx[r].method, c.finalResponse = ctx[r].finalResponse,
           \/ ctx[r].method # "password" /\ c.changeCb = ctx[r].changeCb /\ changed' = changed
           \/ ~ctx[r].changeCb /\ c.changeCb /\ changed'
    PROVE  Steady'
<1>1. Requests' = Requests /\ ctx'[r] = c /\ \A q \in Requests : q # r => ctx'[q] = ctx[q]
  BY OneContext
<1>2. Open(r)
  BY DEF Decidable, Open
<1>3. PICK m : m = [type |-> "60", method |-> ctx[r].method, for |-> r]
  OBVIOUS
<1>4. m \in ClientMsgs /\ m.type = "60" /\ m.method = ctx[r].method /\ m.for = r
  BY <1>3, MessageType
<1>5. /\ toClient' = Append(toClient, m)
      /\ UNCHANGED <<toServer, over, asked, cqueue, curAuth, aborted, threw, misread,
                     authCtx, pendingAuths, squeue, unanswered>>
  BY <1>3 DEF Asks, client
<1>6. QED
  BY <1>1, <1>2, <1>4, <1>5, AskedLock

LEMMA PromptLock ==
    ASSUME IInv, Steady, over = "no", NEW r \in Requests, Prompt(r)
    PROVE  Steady'
<1>. DEFINE c == [ctx[r] EXCEPT !.promptCb = TRUE, !.initialResponse = TRUE]
<1>1. ctx[r] \in Contexts
  BY DEF IInv, Fields, Requests
<1>2. /\ c \in Contexts /\ c.method = ctx[r].method /\ c.changeCb = ctx[r].changeCb
      /\ c.finalResponse = ctx[r].finalResponse
  BY <1>1 DEF Contexts
<1>3. ctx' = [ctx EXCEPT ![r] = c]
  BY DEF Prompt, IInv, Fields, Requests
<1>. HIDE DEF c
<1>4. Decidable(r) /\ Asks(r) /\ ctx[r].method = "keyboard-interactive" /\ changed' = changed
  BY DEF Prompt, authInfoReq
<1>5. QED
  BY <1>2, <1>3, <1>4, AsksLock

LEMMA RequestChangeLock ==
    ASSUME IInv, Steady, over = "no", NEW r \in Requests, requestChange(r)
    PROVE  Steady'
<1>. DEFINE c == [ctx[r] EXCEPT !.changeCb = TRUE]
<1>1. ctx[r] \in Contexts
  BY DEF IInv, Fields, Requests
<1>2. /\ c \in Contexts /\ c.method = ctx[r].method /\ c.changeCb = TRUE
      /\ c.finalResponse = ctx[r].finalResponse
  BY <1>1 DEF Contexts
<1>3. ctx' = [ctx EXCEPT ![r] = c]
  BY DEF requestChange
<1>. HIDE DEF c
<1>4. /\ Decidable(r) /\ Asks(r) /\ ctx[r].method = "password" /\ ~ctx[r].changeCb /\ changed' = TRUE
  BY DEF requestChange, authPasswdChg
<1>5. QED
  BY <1>2, <1>3, <1>4, AsksLock

-----------------------------------------------------------------------------
(* The lockstep is inductive.                                              *)

LEMMA LockInit == Init => Lockstep
<1>. SUFFICES ASSUME Init
              PROVE  Steady
  BY DEF Lockstep
<1>1. /\ toClient = <<>> /\ Len(toClient) = 0 /\ asked = {} /\ cqueue = <<>> /\ squeue = <<>>
      /\ ctx = <<>> /\ unanswered = {} /\ pendingAuths = <<>> /\ aborted = {} /\ ~misread /\ ~threw
      /\ over = "no" /\ Requests = {} /\ Held = {}
  BY DEF Init, Requests, Held
<1>2. Len(toServer) = 1 /\ toServer[1].type = "SERVICE_REQUEST"
  BY DEF Init
<1>3. Reqs = {1}
  BY <1>2 DEF Reqs
<1>4. Single /\ Token
  BY <1>1, <1>3 DEF Single, Token
<1>5. Current /\ Change
  BY <1>1, <1>2, <1>3 DEF Current, Change
<1>6. Queues
  BY <1>1, <1>2, <1>3 DEF Queues
<1>7. Expected
  BY <1>1, Zenon DEF Expected
<1>8. QED
  BY <1>1, <1>4, <1>5, <1>6, <1>7 DEF Steady

LEMMA ServerReceivesLock ==
    ASSUME IInv, Steady, over = "no", ServerReceives
    PROVE  Steady'
<1>1. PICK h : h = Head(toServer)
  OBVIOUS
<1>2. h.type \in {"SERVICE_REQUEST", "USERAUTH_REQUEST", "61"}
  BY <1>1, Taken
<1>3. CASE h.type = "SERVICE_REQUEST"
  <2>1. OnServiceRequest
    BY <1>1, <1>3, Zenon DEF ServerReceives
  <2>2. QED
    BY <1>1, <1>3, <2>1, ServiceRequestLock
<1>4. CASE h.type = "USERAUTH_REQUEST"
  <2>1. OnUserauthRequest(h)
    BY <1>1, <1>4 DEF ServerReceives
  <2>2. QED
    BY <1>1, <1>4, <2>1, UserauthRequestLock
<1>5. CASE h.type = "61"
  <2>1. OnInfoResponse
    BY <1>1, <1>5 DEF ServerReceives
  <2>2. QED
    BY <1>1, <1>5, <2>1, InfoResponseLock
<1>6. QED
  BY <1>2, <1>3, <1>4, <1>5

LEMMA LockInductive == IInv /\ Lockstep /\ [Next]_vars => Lockstep'
<1>. SUFFICES ASSUME IInv, Lockstep, [Next]_vars, ~eager', ~late'
              PROVE  Steady'
  BY DEF Lockstep
<1>1. CASE ClientReceives
  <2>1. Steady /\ over = "no"
    BY <1>1 DEF ClientReceives, Lockstep
  <2>2. QED
    BY <1>1, <2>1, ClientReceivesLock
<1>2. CASE EagerClient
  BY <1>2 DEF EagerClient
<1>3. CASE ReadyTimeout
  <2>1. Steady /\ over = "no"
    BY <1>3 DEF ReadyTimeout, Lockstep
  <2>2. QED
    BY <1>3, <2>1, ReadyTimeoutLock
<1>4. CASE ServerReceives
  <2>1. Steady /\ over = "no"
    BY <1>4 DEF ServerReceives, Lockstep
  <2>2. QED
    BY <1>4, <2>1, ServerReceivesLock
<1>5. ASSUME NEW c \in asked, Answer(c)
      PROVE  Steady'
  <2>1. eager' = eager /\ over = "no" /\ (late => late')
    BY <1>5, Zenon DEF Answer
  <2>2. Steady
    BY <2>1 DEF Lockstep
  <2>3. QED
    BY <1>5, <2>1, <2>2, AnswerLock
<1>6. ASSUME NEW r \in Requests, Accept(r)
      PROVE  Steady'
  <2>1. /\ Decidable(r) /\ over = "no" /\ UNCHANGED <<eager, late>>
        /\ UNCHANGED <<toServer, over, client, changed, aborted, misread>>
    BY <1>6 DEF Accept, Decidable
  <2>2. Steady
    BY <2>1 DEF Lockstep
  <2>3. CASE ctx[r].method = "publickey" /\ ~ctx[r].sig
    <3>1. AcceptsKey(r)
      BY <1>6, <2>3 DEF Accept
    <3>2. QED
      BY <2>1, <2>2, <2>3, <3>1, AcceptsKeyLock
  <2>4. CASE ~(ctx[r].method = "publickey" /\ ~ctx[r].sig)
    <3>1. Decides(r, TRUE)
      BY <1>6, <2>4 DEF Accept
    <3>2. QED
      BY <2>1, <2>2, <3>1, DecideLock
  <2>5. QED
    BY <2>3, <2>4
<1>7. ASSUME NEW r \in Requests, Reject(r)
      PROVE  Steady'
  <2>1. /\ Decidable(r) /\ over = "no" /\ UNCHANGED <<eager, late>> /\ Decides(r, FALSE)
        /\ UNCHANGED <<toServer, over, client, changed, aborted, misread>>
    BY <1>7 DEF Reject, Decidable
  <2>2. Steady
    BY <2>1 DEF Lockstep
  <2>3. QED
    BY <2>1, <2>2, DecideLock
<1>8. ASSUME NEW r \in Requests, Prompt(r)
      PROVE  Steady'
  <2>1. over = "no" /\ UNCHANGED <<eager, late>>
    BY <1>8 DEF Prompt, Decidable, authInfoReq, Asks
  <2>2. Steady
    BY <2>1 DEF Lockstep
  <2>3. QED
    BY <1>8, <2>1, <2>2, PromptLock
<1>9. ASSUME NEW r \in Requests, requestChange(r)
      PROVE  Steady'
  <2>1. over = "no" /\ UNCHANGED <<eager, late>>
    BY <1>9 DEF requestChange, Decidable, authPasswdChg, Asks
  <2>2. Steady
    BY <2>1 DEF Lockstep
  <2>3. QED
    BY <1>9, <2>1, <2>2, RequestChangeLock
<1>10. CASE UNCHANGED vars
  <2>1. /\ UNCHANGED <<eager, late, toServer, toClient, over, misread, server>>
        /\ UNCHANGED <<asked, cqueue, curAuth>>
    BY <1>10 DEF vars, client
  <2>2. Steady
    BY <2>1 DEF Lockstep
  <2>3. /\ UNCHANGED <<authCtx, pendingAuths, squeue, ctx, unanswered, changed, aborted, threw>>
        /\ Requests' = Requests /\ Credit' = Credit /\ (\A m : Question(m)' = Question(m))
        /\ (Single => Single')
    BY <2>1, ServerStill
  <2>4. Expected' = Expected
    BY <2>1, Zenon DEF Expected
  <2>5. Reqs' = Reqs /\ Held' = Held
    BY <2>1 DEF Reqs, Held
  <2>6. (Token => Token') /\ (Current => Current')
    BY <2>1, <2>3, <2>5 DEF Token, Current, OnlyReply, Named
  <2>7. Change => Change'
    BY <2>1, <2>3, <2>5 DEF Change
  <2>8. Queues => Queues'
    BY <2>1, <2>3, <2>5 DEF Queues
  <2>9. QED
    BY <2>1, <2>2, <2>3, <2>4, <2>6, <2>7, <2>8 DEF Steady
<1>11. QED
  BY <1>1, <1>2, <1>3, <1>4, <1>5, <1>6, <1>7, <1>8, <1>9, <1>10 DEF Next

\* The client of this library never has a second request before the server; message
\* 60 is taken for what it was sent as, 61 is expected and authPKOK() finds its
\* method in front of the queue: until a password change or a late answer.
THEOREM QueuesStayInStep == Spec => []QueuesInStep
<1>1. IInv => TypeOK
  BY DEF IInv, Fields, Pending, TypeOK, Overs
<1>2. Lockstep => OneAtATime
  BY DEF Lockstep, Steady, Single, OneAtATime
<1>3. Lockstep => (~eager /\ ~changed /\ ~late => ~misread /\ ~threw /\ Expected)
  BY DEF Lockstep, Steady
<1>4. IInv /\ Lockstep => QueuesInStep
  BY <1>1, <1>2, <1>3, Zenon DEF QueuesInStep, Expected
<1>5. QED
  BY <1>4, Invariance, LockInit, LockInductive, PTL DEF Spec
=============================================================================
