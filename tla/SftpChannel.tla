---------------------------- MODULE SftpChannel -----------------------------
(***************************************************************************)
(* SFTP packets on a channel (lib/protocol/SFTP.js).  An SFTP object does  *)
(* its own flow control: sendOrBuffer() sends what the window allows and   *)
(* keeps the rest, drainBuffer() resumes when a WINDOW_ADJUST comes, and   *)
(* push() at the other end puts the packets together again from chunks     *)
(* that are cut by the window and by the packet size wherever they fall.   *)
(*                                                                         *)
(* A packet is a length, most significant digit first, and that many bytes *)
(* of body.  Digits are those of base Base; a body byte tells which packet *)
(* it belongs to and where.                                                *)
(***************************************************************************)
EXTENDS ChannelWindow, SequencesExt

CONSTANTS InitWindow,      \* the window the peer granted when the channel was opened
          Base,            \* 256
          LenBytes,        \* digits of a length: 4
          MaxPktLen,       \* _maxPktLen
          Sizes,           \* bound: the sizes of the packets that are sent
          MaxPackets       \* bound: how many are sent

ASSUME SftpChannelAssumption ==
    /\ InitWindow \in 1..MaxWindow
    /\ Base \in Nat \ {0, 1} /\ LenBytes \in Nat \ {0}
    /\ MaxPktLen \in Nat \ {0} /\ 2 * MaxPktLen < Base^LenBytes
    /\ Sizes \subseteq 1..(Base^LenBytes - 1)
    /\ MaxPackets \in Nat

VARIABLES
    \* --- the sending SFTP object ---
    outWin,                \* outgoing.window
    open,                  \* outgoing.state is 'open'
    waitWindow,            \* _waitWindow
    chunkcb,               \* _chunkcb is drainBuffer
    buffer,                \* _buffer: payloads still to be sent
    \* --- the wire ---
    link,                  \* chunks: the payloads of CHANNEL_DATA
    back,                  \* the amounts of CHANNEL_WINDOW_ADJUST
    \* --- the receiving SFTP object ---
    inWin,                 \* incoming.window
    parser,                \* _pktLenBytes, _pktLen, _pkt (whose length is _pktPos)
    failed,                \* how push() ended the session: doFatalSFTPError() was called
                           \* ("fatal") or it threw ("threw")
    \* --- history ---
    sent,                  \* bodies given to sendOrBuffer() while the channel was open
    got,                   \* bodies given to the handlers
    lost                   \* data arrived that the window did not allow

sender   == <<outWin, open, waitWindow, chunkcb, buffer>>
receiver == <<inWin, parser, failed>>
vars     == <<sender, link, back, receiver, sent, got, lost>>

EmptyParser == [lenBytes |-> 0, len |-> 0, pkt |-> <<>>]

Init ==
    /\ outWin = InitWindow /\ open = TRUE /\ waitWindow = FALSE /\ chunkcb = FALSE
    /\ buffer = <<>>
    /\ link = <<>> /\ back = <<>>
    /\ inWin = InitWindow /\ parser = EmptyParser /\ failed = "no"
    /\ sent = <<>> /\ got = <<>> /\ lost = FALSE

-----------------------------------------------------------------------------
(* Sending.                                                                *)

Body(k, size) == [i \in 1..size |-> 10 * k + i]
Digits(n) == [i \in 1..LenBytes |-> (n \div Base^(LenBytes - i)) % Base]
Encode(body) == Digits(Len(body)) \o body

\* The first n bytes of a payload in chunks of at most packetSize.
Cut(payload, n) ==
    [i \in 1..Packets(n) |->
        SubSeq(payload, (i - 1) * PacketSize + 1, Least(i * PacketSize, n))]

\* What one call of tryWritePayload() makes of the window, the flags and the
\* wire, and the rest it returns: <<>> stands for undefined.
Sender == [win |-> outWin, wait |-> waitWindow, cb |-> chunkcb, out |-> <<>>, rest |-> <<>>]

TryWriteSetsNoCallback(s, payload) ==
    LET n == Least(Len(payload), s.win)
    IN  [win  |-> s.win - n,
         wait |-> s.wait \/ s.win = n,
         cb   |-> s.cb,
         out  |-> s.out \o Cut(payload, n),
         rest |-> SubSeq(payload, n + 1, Len(payload))]

tryWritePayload(s, payload) ==
    LET n == Least(Len(payload), s.win)
    IN  [win  |-> s.win - n,
         wait |-> s.wait \/ s.win = n,
         cb   |-> s.cb \/ (s.win > 0 /\ s.win = n),
         out  |-> s.out \o Cut(payload, n),
         rest |-> SubSeq(payload, n + 1, Len(payload))]

SenderBecomes(s, payloads) ==
    /\ outWin' = s.win /\ waitWindow' = s.wait /\ chunkcb' = s.cb
    /\ link' = link \o s.out
    /\ buffer' = payloads

\* The loop of drainBuffer(): payloads in order until one leaves a rest, which
\* takes its place in what is kept.
RECURSIVE DrainKeepsWhole(_, _)
DrainKeepsWhole(s, payloads) ==
    IF payloads = <<>> THEN SenderBecomes(s, <<>>)
    ELSE \E r \in {tryWritePayload(s, Head(payloads))} :
             IF r.rest = <<>> THEN DrainKeepsWhole(r, Tail(payloads))
             ELSE SenderBecomes(r, payloads)

RECURSIVE drainBuffer(_, _)
drainBuffer(s, payloads) ==
    IF payloads = <<>> THEN SenderBecomes(s, <<>>)
    ELSE \E r \in {tryWritePayload(s, Head(payloads))} :
             IF r.rest = <<>> THEN drainBuffer(r, Tail(payloads))
             ELSE SenderBecomes(r, <<r.rest>> \o Tail(payloads))

\* sendOrBuffer(): a channel that is not open takes the payload and drops it.
sendOrBuffer(size) ==
    LET body == Body(Len(sent) + 1, size)
        s    == tryWritePayload(Sender, Encode(body))
    IN  /\ Len(sent) < MaxPackets
        /\ IF open
           THEN /\ SenderBecomes(s, IF s.rest = <<>> THEN buffer ELSE Append(buffer, s.rest))
                /\ sent' = Append(sent, body)
           ELSE UNCHANGED <<sender, link, sent>>
        /\ UNCHANGED <<open, back, receiver, got, lost>>

\* destroy()
Destroy ==
    /\ open
    /\ open' = FALSE
    /\ UNCHANGED <<outWin, waitWindow, chunkcb, buffer, link, back, receiver, sent, got, lost>>

\* CHANNEL_WINDOW_ADJUST: _chunkcb() if the channel waited.  When it is closed
\* drainBuffer() drops everything.
RcvAdjust ==
    /\ back # <<>>
    /\ back' = Tail(back)
    /\ \E s \in {[Sender EXCEPT !.win = @ + Head(back), !.wait = FALSE]} :
           IF ~(waitWindow /\ chunkcb) THEN SenderBecomes(s, buffer)
           ELSE IF open THEN drainBuffer([s EXCEPT !.cb = FALSE], buffer)
           ELSE SenderBecomes([s EXCEPT !.cb = FALSE], <<>>)
    /\ UNCHANGED <<open, receiver, sent, got, lost>>

-----------------------------------------------------------------------------
(* Receiving.                                                              *)

\* The signed integer of LenBytes digits that << makes of n.
Half == (Base^LenBytes) \div 2
Signed(n) == ((n + Half) % (2 * Half)) - Half

\* The number whose first digits made n, with these digits after them:
\* (n << 8) + digit for each.  It is negative when its top bit is set.
RECURSIVE Number(_, _)
Number(n, digits) ==
    IF digits = <<>> THEN n ELSE Number(Signed(n * Base) + Head(digits), Tail(digits))

\* The parts of one turn of the loop in push().  st is the parser with what is
\* left of the chunk, the packets found and how the session ended.
ReadLength(st) ==
    LET nb == Least(LenBytes - st.lenBytes, Len(st.data))
    IN  [st EXCEPT !.lenBytes = @ + nb,
                   !.len  = Number(@, SubSeq(st.data, 1, nb)),
                   !.data = SubSeq(@, nb + 1, Len(@))]

ReadBody(st) ==
    LET nb == Least(st.len - Len(st.pkt), Len(st.data))
    IN  [st EXCEPT !.pkt = @ \o SubSeq(st.data, 1, nb), !.data = SubSeq(@, nb + 1, Len(@))]

NextPacket(st) ==
    [st EXCEPT !.lenBytes = 0, !.len = 0, !.pkt = <<>>, !.found = Append(@, st.pkt)]

Pushed(st) ==
    /\ parser' = [lenBytes |-> st.lenBytes, len |-> st.len, pkt |-> st.pkt]
    /\ got' = got \o st.found
    /\ failed' = st.failed

\* A negative length passes the checks: there is no body to read, and
\* this._pkt[0] throws because there is no packet.
RECURSIVE PushLoop(_)
PushLoop(st) ==
    \E a \in {IF st.lenBytes < LenBytes THEN ReadLength(st) ELSE st} :
        IF a.lenBytes < LenBytes THEN Pushed(a)
        ELSE IF a.len = 0 \/ a.len > MaxPktLen THEN Pushed([a EXCEPT !.failed = "fatal"])
        ELSE IF a.data = <<>> THEN Pushed(a)
        ELSE IF a.len < 0 THEN Pushed([a EXCEPT !.failed = "threw"])
        ELSE \E b \in {ReadBody(a)} :
                 IF Len(b.pkt) < b.len THEN Pushed(b)
                 ELSE IF b.data = <<>> THEN Pushed(NextPacket(b)) ELSE PushLoop(NextPacket(b))

push(chunk) ==
    PushLoop([lenBytes |-> parser.lenBytes, len |-> parser.len, pkt |-> parser.pkt,
              data |-> chunk, found |-> <<>>, failed |-> "no"])

\* windowAdjust() with the window at win.
WindowAdjust(win) ==
    /\ inWin' = MaxWindow
    /\ back' = Append(back, MaxWindow - win)

\* CHANNEL_DATA.  push() returns undefined, so that the window is reopened
\* whenever it is low.  After a fatal error the channel is being closed, and when
\* push() throws the connection is ended: neither is followed any further.
RcvData ==
    LET chunk == Head(link)
    IN  /\ link # <<>> /\ failed = "no"
        /\ link' = Tail(link)
        /\ IF inWin = 0
           THEN lost' = TRUE /\ UNCHANGED <<receiver, back, got>>
           ELSE /\ push(chunk)
                /\ IF inWin - Len(chunk) <= Threshold /\ failed' # "threw"
                   THEN WindowAdjust(inWin - Len(chunk))
                   ELSE inWin' = inWin - Len(chunk) /\ UNCHANGED back
                /\ lost' = (lost \/ Len(chunk) > inWin)
        /\ UNCHANGED <<sender, sent>>

-----------------------------------------------------------------------------
Next ==
    \/ \E size \in Sizes : sendOrBuffer(size)
    \/ Destroy
    \/ RcvAdjust
    \/ RcvData

Spec == Init /\ [][Next]_vars

\* The connection delivers.
FairSpec == Spec /\ WF_vars(RcvAdjust) /\ WF_vars(RcvData)

-----------------------------------------------------------------------------
\* The variables keep their ranges; the packet under construction never grows
\* past its length, and no credit is granted beyond the window.
TypeOK ==
    /\ outWin \in 0..MaxWindow /\ inWin \in 0..MaxWindow
    /\ {open, waitWindow, chunkcb, lost} \subseteq BOOLEAN
    /\ failed \in {"no", "fatal", "threw"}
    /\ parser.lenBytes \in 0..LenBytes
    /\ Len(parser.pkt) <= parser.len \/ (parser.len < 0 /\ parser.pkt = <<>>)
    /\ \A i \in DOMAIN link : Len(link[i]) \in 1..PacketSize
    /\ \A i \in DOMAIN back : back[i] \in 1..MaxWindow

\* The handlers get the packets that were sent, whole, unchanged and in order,
\* wherever the window and the packet size cut them, and none above the maximum;
\* nothing is dropped for want of window.  The fatal error is raised for the first
\* packet above the maximum, before any of its body is taken, and for nothing else;
\* push() throws only for a length whose top bit is set, which no check refuses.
WholePackets ==
    LET next == Len(sent[Len(got) + 1])
    IN  /\ TypeOK /\ ~lost
        /\ IsPrefix(got, sent)
        /\ \A i \in DOMAIN got : Len(got[i]) <= MaxPktLen
        /\ failed = "fatal" => Len(got) < Len(sent) /\ next \in (MaxPktLen + 1)..(Half - 1)
        /\ failed = "threw" => Len(got) < Len(sent) /\ next >= Half
        /\ parser.lenBytes = LenBytes /\ next \in (MaxPktLen + 1)..(Half - 1)
              => failed = "fatal" /\ parser.pkt = <<>>

\* What is sent arrives, unless the sender closes the channel or a packet is
\* too large for the receiver.
AllDelivered ==
    \A n \in 1..MaxPackets : Len(sent) >= n ~> (Len(got) >= n \/ failed # "no" \/ ~open)
=============================================================================
