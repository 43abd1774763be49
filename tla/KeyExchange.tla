---------------------------- MODULE KeyExchange -----------------------------
(***************************************************************************)
(* The transport of two peers (lib/protocol/Protocol.js, kex.js, zlib.js   *)
(* and sendPacket() of utils.js) from the moment both sent their first     *)
(* KEXINIT: key exchanges, the first one and later ones that either side   *)
(* begins, with everything else that is sent queued meanwhile; the change  *)
(* of ciphers, sequence numbers and compression; the client's host         *)
(* verifier, which may answer later; USERAUTH_SUCCESS, which starts        *)
(* delayed compression; and DISCONNECT, which is never queued.             *)
(*                                                                         *)
(* Keys are known by the two KEXINITs that went into the exchange hash,    *)
(* KEXINITs by the number of their cookie.  A packet carries the keys, the *)
(* sequence number and the compressor it was written with: a receiver at   *)
(* another point reads garbage.  Group exchange, whose server side is not  *)
(* implemented, is left out.  A client of another implementation may send  *)
(* the first packet of the method it guesses right after its KEXINIT.      *)
(***************************************************************************)
EXTENDS Negotiation, FiniteSets

CONSTANTS Offers,          \* the offers a side may be configured with
          SeqMod,          \* sequence numbers wrap here: 2^32
          MaxRekeys,       \* bound: calls of rekey()
          MaxSends         \* bound: packets each application sends

ASSUME KexAssumption ==
    /\ SeqMod \in Nat \ {0} /\ MaxRekeys \in Nat /\ MaxSends \in Nat
    /\ \A o \in Offers : DOMAIN o = Slots

Sides == {"client", "server"}
Other(x) == IF x = "client" THEN "server" ELSE "client"

VARIABLES
    offer,                 \* _offer
    kexinit,               \* _kexinit: the cookie of our pending KEXINIT, 0 if undefined
    cookies,               \* KEXINITs sent so far
    queue,                 \* _queue
    kex,                   \* _kex, the current KeyExchange
    mode,                  \* who gets a payload: onKEXPayload ("first" or "kex") or onPayload
    out,                   \* _cipher and _packetRW.write
    in,                    \* _decipher and _packetRW.read
    session,               \* sessionID
    authenticated,         \* _authenticated
    auths,                 \* _authsQueue is not empty
    guess,                 \* the client's first KEXINIT has first_kex_packet_follows
    skip,                  \* _skipNextInboundPacket of the server
    asked,                 \* the host verifier has not answered yet
    open,                  \* the side still takes part
    wire,                  \* packets on the way to each side
    \* --- history ---
    submitted,             \* packets given to sendPacket() by the application
    delivered,             \* what the peer's application got, in order
    accepted,              \* keys whose host key the verifier accepted
    rekeys,                \* calls of rekey() so far
    early,                 \* rekey() was called before the client was authenticated
    failed                 \* sides that ended with an error

kexVars  == <<offer, kexinit, cookies, kex, mode, session, guess, skip, asked>>
linkVars == <<queue, out, in, open, wire>>
authVars == <<authenticated, auths>>
appVars  == <<submitted, delivered>>
history  == <<accepted, rekeys, early, failed>>
vars     == <<kexVars, linkVars, authVars, appVars, history>>

NoKeys == <<0, 0>>
Plain  == [by |-> "none", keys |-> NoKeys]          \* PacketReader and PacketWriter
Fresh  == [keys |-> NoKeys, seqno |-> 0, zip |-> Plain]
NoKex  == [hash |-> NoKeys, step |-> 0, reply |-> NoKeys, verified |-> FALSE,
           received |-> FALSE, negotiated |-> [s \in Slots |-> None]]

\* --- packets -----------------------------------------------------------------
Msg(type, arg) == [type |-> type, arg |-> arg]

\* Messages encrypted one after the other with the state c of a cipher.
Sealed(c, msgs) ==
    [i \in 1..Len(msgs) |->
        [type |-> msgs[i].type, arg |-> msgs[i].arg,
         keys |-> c.keys, seqno |-> (c.seqno + i - 1) % SeqMod, zip |-> c.zip]]

After(c, n) == [c EXCEPT !.seqno = (@ + n) % SeqMod]

\* What x sends outside a handler, and what it sends in the handler of a packet.
Transmit(x, msgs) ==
    /\ wire' = [wire EXCEPT ![Other(x)] = @ \o Sealed(out[x], msgs)]
    /\ out' = [out EXCEPT ![x] = After(@, Len(msgs))]

Answer(x, msgs) ==
    /\ wire' = [wire EXCEPT ![x] = Tail(@), ![Other(x)] = @ \o Sealed(out[x], msgs)]
    /\ out' = [out EXCEPT ![x] = After(@, Len(msgs))]
    /\ in' = [in EXCEPT ![x] = After(@, 1)]

\* Both sides have parsed the other's ident and sent a KEXINIT.
Init ==
    /\ offer \in [Sides -> Offers] /\ guess \in BOOLEAN /\ skip = FALSE
    /\ kexinit = [x \in Sides |-> 1] /\ cookies = [x \in Sides |-> 1]
    /\ queue = [x \in Sides |-> <<>>] /\ kex = [x \in Sides |-> NoKex]
    /\ mode = [x \in Sides |-> "first"]
    /\ out = [x \in Sides |-> After(Fresh, IF x = "client" /\ guess THEN 2 ELSE 1)] /\ in = [x \in Sides |-> Fresh]
    /\ session = [x \in Sides |-> NoKeys]
    /\ authenticated = [x \in Sides |-> FALSE] /\ auths = [x \in Sides |-> FALSE]
    /\ asked = FALSE
    /\ open = [x \in Sides |-> TRUE]
    /\ wire = [x \in Sides |-> Sealed(Fresh, IF x = "server" /\ guess
                                             THEN <<Msg("kexinit", 1), Msg("dhinit", 0)>>
                                             ELSE <<Msg("kexinit", 1)>>)]
    /\ submitted = [x \in Sides |-> 0] /\ delivered = [x \in Sides |-> <<>>]
    /\ accepted = {} /\ rekeys = 0 /\ early = FALSE /\ failed = {}

-----------------------------------------------------------------------------
(* What the application and the upper layers call.                         *)

\* sendPacket(): queued during a key exchange.
SendPacketDuringKex(x, msg) ==
    Transmit(x, <<msg>>) /\ UNCHANGED queue

SendPacket(x, msg) ==
    IF kexinit[x] # 0
    THEN queue' = [queue EXCEPT ![x] = Append(@, msg)] /\ UNCHANGED <<wire, out>>
    ELSE Transmit(x, <<msg>>) /\ UNCHANGED queue

AppSend(x) ==
    /\ open[x] /\ authenticated[x] /\ submitted[x] < MaxSends
    /\ submitted' = [submitted EXCEPT ![x] = @ + 1]
    /\ SendPacket(x, Msg("app", submitted[x] + 1))
    /\ UNCHANGED <<kexVars, authVars, history, in, open, delivered>>

\* The client asks for authentication once its first handshake is complete.
AuthRequest ==
    /\ open["client"] /\ session["client"] # NoKeys
    /\ ~auths["client"] /\ ~authenticated["client"]
    /\ auths' = [auths EXCEPT !["client"] = TRUE]
    /\ SendPacket("client", Msg("request", 0))
    /\ UNCHANGED <<kexVars, appVars, history, in, open, authenticated>>

\* Protocol.rekey()
Rekey(x) ==
    /\ open[x] /\ kexinit[x] = 0 /\ rekeys < MaxRekeys
    /\ rekeys' = rekeys + 1
    /\ early' = (early \/ ~authenticated["client"])
    /\ queue' = [queue EXCEPT ![x] = <<>>]
    /\ cookies' = [cookies EXCEPT ![x] = @ + 1]
    /\ kexinit' = [kexinit EXCEPT ![x] = cookies[x] + 1]
    /\ Transmit(x, <<Msg("kexinit", cookies[x] + 1)>>)
    /\ UNCHANGED <<authVars, appVars, offer, kex, mode, session, guess, skip, asked, in, open,
                   accepted, failed>>

\* The compression of the direction a side writes or reads.
WriteSlot(x) == IF x = "client" THEN "csCompress" ELSE "scCompress"
ReadSlot(x)  == IF x = "client" THEN "scCompress" ELSE "csCompress"

\* Delayed compression starts when a side knows that the user is authenticated.
Delayed(x, slot, zip) ==
    IF kex[x].negotiated[slot] = "zlib@openssh.com" THEN [by |-> "auth", keys |-> NoKeys] ELSE zip

\* authSuccess(): the server's application accepts the user.  The message goes
\* out, or into the queue, before the compression starts.
AuthSuccess ==
    /\ open["server"] /\ auths["server"]
    /\ auths' = [auths EXCEPT !["server"] = FALSE]
    /\ authenticated' = [authenticated EXCEPT !["server"] = TRUE]
    /\ LET c == out["server"]
       IN  IF kexinit["server"] # 0
           THEN /\ queue' = [queue EXCEPT !["server"] = Append(@, Msg("success", 0))]
                /\ out' = [out EXCEPT !["server"].zip = Delayed("server", "scCompress", @)]
                /\ UNCHANGED wire
           ELSE /\ wire' = [wire EXCEPT !["client"] = @ \o Sealed(c, <<Msg("success", 0)>>)]
                /\ out' = [out EXCEPT !["server"] =
                             [After(c, 1) EXCEPT !.zip = Delayed("server", "scCompress", @)]]
                /\ UNCHANGED queue
    /\ in' = [in EXCEPT !["server"].zip = Delayed("server", "csCompress", @)]
    /\ UNCHANGED <<kexVars, appVars, history, open>>

\* end(): DISCONNECT passes the queue, then the socket is ended.
Disconnect(x) ==
    /\ open[x]
    /\ Transmit(x, <<Msg("disconnect", 0)>>)
    /\ open' = [open EXCEPT ![x] = FALSE]
    /\ UNCHANGED <<kexVars, authVars, appVars, history, queue, in>>

-----------------------------------------------------------------------------
(* The decipher hands the next packet to onKEXPayload() or onPayload().    *)

Readable(c, p) == p.keys = c.keys /\ p.seqno = c.seqno /\ p.zip = c.zip

Arrives(x, types) ==
    /\ open[x] /\ wire[x] # <<>>
    /\ Readable(in[x], Head(wire[x])) /\ Head(wire[x]).type \in types
    /\ ~(x = "server" /\ skip)

\* doFatalError() in a handler: DISCONNECT, and the instance is unusable.
Fatal(x) ==
    /\ Answer(x, <<Msg("disconnect", 0)>>)
    /\ open' = [open EXCEPT ![x] = FALSE] /\ failed' = failed \cup {x}
    /\ UNCHANGED <<kexVars, authVars, appVars, queue, accepted, rekeys, early>>

\* The client's first guess is the method that was chosen.
GuessedRight ==
    guess /\ Head(offer["client"]["kex"])
               = Negotiated(FALSE, offer["client"], offer["server"])["kex"]

\* The hash that finish() computes from both KEXINITs, the client's first.
ExchangeHash(x, mine, theirs) == IF x = "client" THEN <<mine, theirs>> ELSE <<theirs, mine>>

\* KeyExchange.start(): a client that guessed right does not repeat its packet.
Start(x) ==
    IF x = "client" /\ ~(mode[x] = "first" /\ GuessedRight) THEN <<Msg("dhinit", 0)>> ELSE <<>>

\* handleKexInit().  The server decides to skip a guess when remote is already init: what it
\* compares the chosen name with is the first character of that name, so every
\* guess is skipped.
RcvKexInit(x) ==
    LET cookie == Head(wire[x]).arg
        mine   == IF kexinit[x] # 0 THEN kexinit[x] ELSE cookies[x] + 1
        chosen == Negotiated(x = "server", offer[x], offer[Other(x)])
        own    == IF kexinit[x] = 0 THEN <<Msg("kexinit", mine)>> ELSE <<>>
    IN  /\ Arrives(x, {"kexinit"}) /\ mode[x] # "kex"
        /\ IF ~Complete(chosen)
           THEN Fatal(x)
           ELSE /\ Answer(x, own \o Start(x))
                /\ kexinit' = [kexinit EXCEPT ![x] = mine]
                /\ cookies' = [cookies EXCEPT ![x] = IF kexinit[x] = 0 THEN mine ELSE @]
                /\ mode' = [mode EXCEPT ![x] = "kex"]
                /\ kex' = [kex EXCEPT ![x] = [NoKex EXCEPT !.hash = ExchangeHash(x, mine, cookie),
                                                           !.step = 1, !.negotiated = chosen]]
                /\ skip' = (skip \/ (x = "server" /\ mode[x] = "first" /\ guess))
                /\ UNCHANGED <<authVars, appVars, history, offer, session, guess, asked, queue, open>>

\* onKEXPayload(): the guess, whatever it is, is dropped.
SkipGuess ==
    /\ open["server"] /\ wire["server"] # <<>> /\ skip
    /\ skip' = FALSE
    /\ Answer("server", <<>>)
    /\ UNCHANGED <<authVars, appVars, history, offer, kexinit, cookies, kex, mode, session, guess,
                   asked, queue, open>>

\* --- KeyExchange.finish() ------------------------------------------------------
\* The compressor that completeHandshake() creates for a direction.
StartedZip(x, slot) ==
    LET z == kex[x].negotiated[slot]
    IN  IF z = "zlib" \/ (z = "zlib@openssh.com" /\ authenticated[x])
        THEN [by |-> "kex", keys |-> kex[x].hash]
        ELSE Plain

\* What completeHandshake() leaves as the session identifier.
SessionId(x) == IF session[x] = NoKeys THEN kex[x].hash ELSE session[x]

\* The new cipher, given the old one: the sequence number goes on.
NewCipher(c, x, slot) == [keys |-> kex[x].hash, seqno |-> c.seqno, zip |-> StartedZip(x, slot)]

\* The queue is drained with the new cipher.
DrainedBackwards(x, new) == Sealed(new, [i \in DOMAIN queue[x] |-> queue[x][Len(queue[x]) - i + 1]])

Drained(x, new) == Sealed(new, queue[x])

\* completeHandshake(), once x has read packets of the wire (0 or 1) and written
\* last with the old cipher.
CompleteHandshake(x, read, last) ==
    LET new == NewCipher(After(out[x], Len(last)), x, WriteSlot(x))
    IN  /\ wire' = [wire EXCEPT ![x] = SubSeq(@, read + 1, Len(@)),
                                ![Other(x)] = @ \o Sealed(out[x], last) \o Drained(x, new)]
        /\ out' = [out EXCEPT ![x] = After(new, Len(queue[x]))]
        /\ in' = [in EXCEPT ![x] = NewCipher(After(@, read), x, ReadSlot(x))]
        /\ queue' = [queue EXCEPT ![x] = <<>>]
        /\ kexinit' = [kexinit EXCEPT ![x] = 0]
        /\ session' = [session EXCEPT ![x] = SessionId(x)]
        /\ mode' = [mode EXCEPT ![x] = "normal"]
        /\ UNCHANGED <<authVars, appVars, offer, cookies, guess, skip, open, rekeys, early, failed>>

\* finish() of a client: the signature is of the hash the server computed, then
\* NEWKEYS goes out with the old cipher.
ClientFinish(read) ==
    IF kex["client"].reply # kex["client"].hash
    THEN /\ wire' = [wire EXCEPT !["client"] = SubSeq(@, read + 1, Len(@)),
                                 !["server"] = @ \o Sealed(out["client"], <<Msg("disconnect", 0)>>)]
         /\ out' = [out EXCEPT !["client"] = After(@, 1)]
         /\ in' = [in EXCEPT !["client"] = After(@, read)]
         /\ open' = [open EXCEPT !["client"] = FALSE] /\ failed' = failed \cup {"client"}
         /\ UNCHANGED <<authVars, appVars, offer, kexinit, cookies, mode, session, guess, skip,
                        queue, rekeys, early>>
    ELSE CompleteHandshake("client", read, <<Msg("newkeys", 0)>>)

\* --- KeyExchange.parse() --------------------------------------------------------
\* finish() of a server: the reply, signed for the hash, and NEWKEYS at once.
ServerFinish(k) == <<Msg("reply", k.hash), Msg("newkeys", 0)>>

\* Server, step 1.
RcvDhInit ==
    /\ Arrives("server", {"dhinit"}) /\ mode["server"] = "kex" /\ kex["server"].step = 1
    /\ Answer("server", ServerFinish(kex["server"]))
    /\ kex' = [kex EXCEPT !["server"].step = 2]
    /\ UNCHANGED <<authVars, appVars, history, offer, kexinit, cookies, mode, session, guess, skip,
                   asked, queue, open>>

\* Client, step 1: the host verifier accepts or denies at once, or answers later.
RcvReply ==
    /\ Arrives("client", {"reply"}) /\ mode["client"] = "kex" /\ kex["client"].step = 1
    /\ \/ Fatal("client")
       \/ \E verified \in BOOLEAN :
            /\ Answer("client", <<>>)
            /\ kex' = [kex EXCEPT !["client"].step = 2,
                                  !["client"].reply = Head(wire["client"]).arg,
                                  !["client"].verified = verified]
            /\ asked' = ~verified
            /\ accepted' = IF verified THEN accepted \cup {kex["client"].hash} ELSE accepted
            /\ UNCHANGED <<authVars, appVars, offer, kexinit, cookies, mode, session, guess, skip,
                           queue, open, rekeys, early, failed>>

\* Step 2 of the server ends its exchange, that of a client waits for the verifier.
ServerNewKeys ==
    /\ Arrives("server", {"newkeys"}) /\ mode["server"] = "kex" /\ kex["server"].step = 2
    /\ kex' = [kex EXCEPT !["server"].step = 3, !["server"].received = TRUE]
    /\ CompleteHandshake("server", 1, <<>>)
    /\ UNCHANGED <<asked, accepted>>

ClientNewKeysUnverified ==
    /\ Arrives("client", {"newkeys"}) /\ mode["client"] = "kex" /\ kex["client"].step = 2
    /\ kex' = [kex EXCEPT !["client"].step = 3, !["client"].received = TRUE]
    /\ ClientFinish(1)
    /\ UNCHANGED <<asked, accepted>>

ClientNewKeys ==
    /\ Arrives("client", {"newkeys"}) /\ mode["client"] = "kex" /\ kex["client"].step = 2
    /\ kex' = [kex EXCEPT !["client"].step = 3, !["client"].received = TRUE]
    /\ IF kex["client"].verified
       THEN ClientFinish(1)
       ELSE /\ Answer("client", <<>>)
            /\ UNCHANGED <<authVars, appVars, offer, kexinit, cookies, mode, session, guess, skip,
                           queue, open, rekeys, early, failed>>
    /\ UNCHANGED <<asked, accepted>>

\* The host verifier's callback, at most once for an exchange.
VerifiedOnly ==
    /\ asked /\ open["client"]
    /\ asked' = FALSE
    /\ kex' = [kex EXCEPT !["client"].verified = TRUE]
    /\ accepted' = accepted \cup {kex["client"].hash}
    /\ UNCHANGED <<authVars, appVars, linkVars, offer, kexinit, cookies, mode, session, guess, skip,
                   rekeys, early, failed>>

Verified ==
    /\ asked /\ open["client"]
    /\ asked' = FALSE
    /\ kex' = [kex EXCEPT !["client"].verified = TRUE]
    /\ accepted' = accepted \cup {kex["client"].hash}
    /\ IF kex["client"].received
       THEN ClientFinish(0)
       ELSE UNCHANGED <<authVars, appVars, linkVars, offer, kexinit, cookies, mode, session,
                        guess, skip, rekeys, early, failed>>

Denied ==
    /\ asked /\ open["client"]
    /\ asked' = FALSE
    /\ Transmit("client", <<Msg("disconnect", 0)>>)
    /\ open' = [open EXCEPT !["client"] = FALSE] /\ failed' = failed \cup {"client"}
    /\ UNCHANGED <<authVars, appVars, offer, kexinit, cookies, kex, mode, session, guess, skip,
                   queue, in, accepted, rekeys, early>>

\* What onKEXPayload() with parse(), or onPayload(), does not turn away.
Expected(x, type) ==
    \/ type = "disconnect"
    \/ type = "kexinit" /\ mode[x] # "kex"
    \/ type \in {"app", "request", "success"} /\ mode[x] = "normal"
    \/ mode[x] = "kex" /\ type = CASE kex[x].step = 1 -> (IF x = "server" THEN "dhinit" ELSE "reply")
                                   [] kex[x].step = 2 -> "newkeys"
                                   [] OTHER           -> "disconnect"

Fits(x) == Readable(in[x], Head(wire[x])) /\ Expected(x, Head(wire[x]).type)

\* A packet written for other keys, another sequence number or another inflate
\* stream: the MAC is invalid or the payload is not what was sent.  A packet not
\* expected in an exchange is fatal as well, one of an exchange is dropped
\* outside of it.
Misfit(x) ==
    /\ open[x] /\ wire[x] # <<>> /\ ~(x = "server" /\ skip) /\ ~Fits(x)
    /\ IF Readable(in[x], Head(wire[x])) /\ mode[x] = "normal"
       THEN /\ Answer(x, <<>>)
            /\ UNCHANGED <<kexVars, authVars, appVars, history, queue, open>>
       ELSE Fatal(x)

\* --- onPayload(): outside a key exchange ---------------------------------------
RcvApp(x) ==
    /\ Arrives(x, {"app"}) /\ mode[x] = "normal"
    /\ Answer(x, <<>>)
    /\ delivered' = [delivered EXCEPT ![x] = Append(@, Head(wire[x]).arg)]
    /\ UNCHANGED <<kexVars, authVars, history, queue, open, submitted>>

RcvAuthRequest ==
    /\ Arrives("server", {"request"}) /\ mode["server"] = "normal"
    /\ Answer("server", <<>>)
    /\ auths' = [auths EXCEPT !["server"] = TRUE]
    /\ UNCHANGED <<kexVars, appVars, history, queue, open, authenticated>>

\* USERAUTH_SUCCESS at the client starts delayed compression in both directions.
RcvAuthSuccess ==
    /\ Arrives("client", {"success"}) /\ mode["client"] = "normal"
    /\ authenticated' = [authenticated EXCEPT !["client"] = TRUE]
    /\ auths' = [auths EXCEPT !["client"] = FALSE]
    /\ wire' = [wire EXCEPT !["client"] = Tail(@)]
    /\ in' = [in EXCEPT !["client"] =
                [After(in["client"], 1) EXCEPT !.zip = Delayed("client", "scCompress", @)]]
    /\ out' = [out EXCEPT !["client"].zip = Delayed("client", "csCompress", @)]
    /\ UNCHANGED <<kexVars, appVars, history, queue, open>>

RcvDisconnect(x) ==
    /\ Arrives(x, {"disconnect"})
    /\ Answer(x, <<>>)
    /\ open' = [open EXCEPT ![x] = FALSE]
    /\ UNCHANGED <<kexVars, authVars, appVars, history, queue>>

-----------------------------------------------------------------------------
Receive(x) ==
    \/ RcvKexInit(x) \/ RcvApp(x) \/ RcvDisconnect(x) \/ Misfit(x)
    \/ x = "client" /\ (RcvReply \/ ClientNewKeys \/ RcvAuthSuccess)
    \/ x = "server" /\ (SkipGuess \/ RcvDhInit \/ ServerNewKeys \/ RcvAuthRequest)

Next ==
    \/ \E x \in Sides : Receive(x) \/ AppSend(x) \/ Rekey(x) \/ Disconnect(x)
    \/ AuthRequest \/ AuthSuccess \/ Verified \/ Denied

\* What arrives is parsed, and the host verifier answers in the end.
Fairness ==
    /\ \A x \in Sides : WF_vars(Receive(x))
    /\ WF_vars(Verified \/ Denied)

Spec     == Init /\ [][Next]_vars
FairSpec == Spec /\ Fairness

-----------------------------------------------------------------------------
(* Properties.                                                             *)

Packets == [type : {"kexinit", "dhinit", "reply", "newkeys", "app", "request", "success",
                    "disconnect"},
            arg : Nat \cup (Nat \X Nat)]

\* Types of the state of both transports.
TypeOK ==
    /\ offer \in [Sides -> Offers]
    /\ kexinit \in [Sides -> Nat] /\ cookies \in [Sides -> Nat]
    /\ \A x \in Sides : \A i \in DOMAIN queue[x] : queue[x][i] \in Packets
    /\ \A x \in Sides : kex[x].step \in 0..3
    /\ mode \in [Sides -> {"first", "kex", "normal"}]
    /\ \A x \in Sides : out[x].seqno \in 0..SeqMod - 1 /\ in[x].seqno \in 0..SeqMod - 1
    /\ authenticated \in [Sides -> BOOLEAN] /\ auths \in [Sides -> BOOLEAN] /\ asked \in BOOLEAN
    /\ open \in [Sides -> BOOLEAN]
    /\ failed \subseteq Sides

Delays == \E slot \in {"csCompress", "scCompress"} :
            Negotiated(FALSE, offer["client"], offer["server"])[slot] = "zlib@openssh.com"

Turn(x) == open[x] /\ wire[x] # <<>> /\ ~(x = "server" /\ skip)

\* Whatever else is sent when, and whoever begins an exchange, a packet other
\* than DISCONNECT reaches a reader that has its keys, its sequence number and
\* its inflate stream, and that expects its type (sendPacket()'s queue, finish(),
\* onKEXPayload()).  The one exception is delayed compression when an exchange is
\* under way at the time of authSuccess(), which changes the streams at once.
PacketsFit ==
    TypeOK /\ \A x \in Sides : Turn(x) /\ Head(wire[x]).type # "disconnect" /\ ~(early /\ Delays) => Fits(x)

\* Nothing the application sent is lost, doubled or reordered by an exchange:
\* it is at the peer, on the way, or queued, in the order of the sendPacket() calls.
OrderedDelivery ==
    LET Apps(s) == LET t == SelectSeq(s, LAMBDA p : p.type = "app")
                   IN  [i \in DOMAIN t |-> t[i].arg]
    IN  \A x \in Sides : delivered[Other(x)] \o Apps(wire[Other(x)]) \o Apps(queue[x])
                           = [i \in 1..submitted[x] |-> i]

\* The client uses no keys, in either direction, whose host key the verifier has
\* not accepted, in whichever order its answer and NEWKEYS come.
HostVerifiedFirst ==
    {out["client"].keys, in["client"].keys} \subseteq accepted \cup {NoKeys}

\* What a client accepts as the server's signature is of its own hash, two sides
\* with one hash have negotiated the same algorithms, and the session identifier is
\* the hash of the first exchange on both sides, whatever exchanges follow.
ExchangesAgree ==
    /\ kex["client"].step > 1 => kex["client"].reply = kex["client"].hash
    /\ kex["client"].hash = kex["server"].hash => kex["client"].negotiated = kex["server"].negotiated
    /\ \A x \in Sides : session[x] \in {NoKeys, <<1, 1>>}

\* An exchange ends, or the connection does: nobody waits for packets that the
\* other one has queued.  The one exception is a first guess that is right:
\* handleKexInit() takes it for a wrong one and waits for ever.
ExchangeEnds == \A x \in Sides : kexinit[x] # 0 /\ ~GuessedRight ~> (kexinit[x] = 0 \/ ~open[x])
=============================================================================
