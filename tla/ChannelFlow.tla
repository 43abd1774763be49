---------------------------- MODULE ChannelFlow -----------------------------
(***************************************************************************)
(* One direction of an open channel: the Writable half of a Channel at the *)
(* sender, the Readable half of the peer's Channel at the receiver, the    *)
(* message handlers of lib/client.js and lib/server.js between them, and   *)
(* the two directions of the connection (in order, nothing lost: SSH runs  *)
(* over TCP).  The sender writes one stream: stdin towards a server,       *)
(* stdout of a server that writes no stderr, a forwarded connection, SFTP. *)
(*                                                                         *)
(* Node's streams are external and are modelled by what the code relies    *)
(* on: _write() is called again only after its callback; _read() is called *)
(* when the buffer is below the highWaterMark and not twice without a      *)
(* push() in between; 'prefinish' comes when end() was called and the last *)
(* write completed; 'end' when push(null) was called and the buffer is     *)
(* empty.                                                                  *)
(***************************************************************************)
EXTENDS ChannelWindow

CONSTANTS MaxWrite,        \* bound: the longest chunk given to write()
          MaxBytes         \* bound: how many bytes are written in all

ASSUME FlowAssumption ==
    /\ MaxWrite \in Nat \ {0}
    /\ MaxBytes \in Nat

VARIABLES
    \* --- the sender's Channel ---
    outWin,                \* outgoing.window
    outState,              \* outgoing.state
    waitWindow,            \* _waitWindow
    chunk,                 \* _chunk: the range of bytes still to be written
    writing,               \* the Writable waits for the callback of a _write()
    ending,                \* end() was called
    finished,              \* 'prefinish' was emitted
    sGone,                 \* the peer's CLOSE came: the id is no longer in the table
    \* --- the wire ---
    link,                  \* from the sender to the receiver
    back,                  \* from the receiver to the sender
    \* --- the receiver's Channel ---
    inWin,                 \* incoming.window
    inState,               \* incoming.state
    rOutState,             \* the receiver's own outgoing.state
    waitDrain,             \* _waitChanDrain
    buf,                   \* bytes in the Readable's buffer
    reading,               \* the Readable called _read() and no push() followed
    ended,                 \* push(null) was called
    endSeen,               \* the consumer saw 'end'
    \* --- history ---
    accepted,              \* bytes given to write()
    sent,                  \* bytes put on the wire
    rcvd,                  \* bytes that arrived
    consumed,              \* bytes the consumer read
    lost,                  \* bytes the receiver threw away
    credited,              \* window that reached the sender so far
    granted,               \* window the receiver gave so far
    aborted                \* a side called close() itself, without ending the stream

sender   == <<outWin, outState, waitWindow, chunk, writing, ending, finished, sGone>>
receiver == <<inWin, inState, rOutState, waitDrain, buf, reading, ended, endSeen>>
counts   == <<accepted, sent, rcvd, consumed, lost, credited, granted, aborted>>
vars     == <<sender, link, back, receiver, counts>>

Init ==
    /\ outWin = MaxWindow /\ outState = "open" /\ waitWindow = FALSE
    /\ chunk = [lo |-> 0, hi |-> 0] /\ writing = FALSE
    /\ ending = FALSE /\ finished = FALSE /\ sGone = FALSE
    /\ link = <<>> /\ back = <<>>
    /\ inWin = MaxWindow /\ inState = "open" /\ rOutState = "open"
    /\ waitDrain = FALSE /\ buf = 0 /\ reading = FALSE
    /\ ended = FALSE /\ endSeen = FALSE
    /\ accepted = 0 /\ sent = 0 /\ rcvd = 0 /\ consumed = 0 /\ lost = 0
    /\ credited = MaxWindow /\ granted = MaxWindow
    /\ aborted = FALSE

-----------------------------------------------------------------------------
(* The sender.                                                             *)

\* _write() of the bytes [lo, hi) when the window is win and _waitWindow is
\* wait: as many as the window allows go out; with bytes left over the chunk
\* is kept for the next WINDOW_ADJUST, otherwise the callback is called.
DoWrite(lo, hi, win, wait) ==
    LET n == Least(hi - lo, win)
    IN  /\ link' = link \o Slices(lo, n)
        /\ sent' = sent + n
        /\ outWin' = win - n
        /\ writing' = (n < hi - lo)
        /\ waitWindow' = (wait \/ n < hi - lo)
        /\ chunk' = IF n < hi - lo THEN [lo |-> lo + n, hi |-> hi] ELSE chunk

\* The application writes n bytes.  A channel that is no longer open takes the
\* chunk and never calls back.
AppWrite(n) ==
    /\ ~writing /\ ~ending /\ accepted + n <= MaxBytes
    /\ accepted' = accepted + n
    /\ IF outState = "open"
       THEN DoWrite(accepted, accepted + n, outWin, waitWindow)
       ELSE writing' = TRUE /\ UNCHANGED <<outWin, waitWindow, chunk, link, sent>>
    /\ UNCHANGED <<outState, ending, finished, sGone, back, receiver,
                   rcvd, consumed, lost, credited, granted, aborted>>

AppEnd ==
    /\ ~ending
    /\ ending' = TRUE
    /\ UNCHANGED <<outWin, outState, waitWindow, chunk, writing, finished, sGone,
                   link, back, receiver, counts>>

\* onFinish(): eof(), and close() too unless the channel is half-open (a client
\* channel with allowHalfOpen).
FinishEarly(half) ==
    /\ ending /\ ~finished
    /\ finished' = TRUE
    /\ outState' = IF outState = "open" THEN "eof" ELSE outState
    /\ link' = IF outState = "open" THEN Append(link, EOF(sent)) ELSE link
    /\ UNCHANGED <<outWin, waitWindow, chunk, writing, ending, sGone, back, receiver, counts>>

Finish(half) ==
    /\ ending /\ ~writing /\ ~finished
    /\ finished' = TRUE
    /\ link' = link \o CASE outState = "open" /\ half  -> <<EOF(sent)>>
                         [] outState = "open" /\ ~half -> <<EOF(sent), CLOSE(sent)>>
                         [] outState = "eof" /\ ~half  -> <<CLOSE(sent)>>
                         [] OTHER                      -> <<>>
    /\ outState' = IF outState \in {"open", "eof"}
                   THEN (IF half THEN "eof" ELSE "closing")
                   ELSE outState
    /\ UNCHANGED <<outWin, waitWindow, chunk, writing, ending, sGone, back, receiver, counts>>

\* close() called by the application, whatever is still to be written, or by
\* destroy() after EOF.
AppClose ==
    /\ outState \in {"open", "eof"}
    /\ outState' = "closing"
    /\ link' = Append(link, CLOSE(sent))
    /\ aborted' = (aborted \/ outState = "open")
    /\ UNCHANGED <<outWin, waitWindow, chunk, writing, ending, finished, sGone, back,
                   receiver, accepted, sent, rcvd, consumed, lost, credited, granted>>

\* CHANNEL_WINDOW_ADJUST
RcvAdjust ==
    /\ back # <<>> /\ Head(back).type = "adjust"
    /\ back' = Tail(back)
    /\ credited' = Head(back).hi
    /\ IF sGone
       THEN UNCHANGED <<outWin, waitWindow, chunk, writing, link, sent>>
       ELSE IF waitWindow /\ outState = "open"
       THEN DoWrite(chunk.lo, chunk.hi, outWin + Amount(Head(back)), FALSE)
       ELSE /\ outWin' = outWin + Amount(Head(back))
            /\ waitWindow' = FALSE
            /\ UNCHANGED <<chunk, writing, link, sent>>
    /\ UNCHANGED <<outState, ending, finished, sGone, receiver,
                   accepted, rcvd, consumed, lost, granted, aborted>>

\* CHANNEL_CLOSE at the sender: onCHANNEL_CLOSE()
RcvCloseReply ==
    /\ back # <<>> /\ Head(back).type = "close"
    /\ back' = Tail(back)
    /\ outState' = "closed"
    /\ link' = IF outState \in {"open", "eof"} THEN Append(link, CLOSE(sent)) ELSE link
    /\ sGone' = TRUE
    /\ ending' = TRUE
    /\ UNCHANGED <<outWin, waitWindow, chunk, writing, finished, receiver, counts>>

-----------------------------------------------------------------------------
(* The receiver.                                                           *)

\* windowAdjust() with the window at win: top it up to MAX_WINDOW.
WindowAdjustUncounted(win) ==
    IF rOutState = "closed" \/ win >= MaxWindow
    THEN inWin' = win /\ UNCHANGED <<back, granted>>
    ELSE /\ inWin' = win
         /\ back' = Append(back, Adjust(granted, granted + MaxWindow - win))
         /\ granted' = granted + MaxWindow - win

WindowAdjust(win) ==
    IF rOutState = "closed" \/ win >= MaxWindow
    THEN inWin' = win /\ UNCHANGED <<back, granted>>
    ELSE /\ inWin' = MaxWindow
         /\ back' = Append(back, Adjust(granted, granted + MaxWindow - win))
         /\ granted' = granted + MaxWindow - win

NoAdjust(win) == inWin' = win /\ UNCHANGED <<back, granted>>

\* CHANNEL_DATA.  push() returns FALSE when the buffer reaches the
\* highWaterMark; the window is then left to _read().
PushTopsUpAlways(len) ==
    /\ waitDrain' = (waitDrain \/ buf + len >= MaxWindow)
    /\ IF inWin - len <= Threshold THEN WindowAdjust(inWin - len) ELSE NoAdjust(inWin - len)

Push(len) ==
    /\ waitDrain' = (waitDrain \/ buf + len >= MaxWindow)
    /\ IF buf + len < MaxWindow /\ inWin - len <= Threshold
       THEN WindowAdjust(inWin - len)
       ELSE NoAdjust(inWin - len)

RcvData ==
    /\ link # <<>> /\ Head(link).type = "data"
    /\ link' = Tail(link)
    /\ rcvd' = Head(link).hi
    /\ IF inState = "closed" \/ inWin = 0
       THEN /\ lost' = lost + Amount(Head(link))
            /\ UNCHANGED <<inWin, waitDrain, buf, reading, back, granted>>
       ELSE /\ buf' = buf + Amount(Head(link))
            /\ reading' = FALSE
            /\ Push(Amount(Head(link)))
            /\ UNCHANGED lost
    /\ UNCHANGED <<sender, inState, rOutState, ended, endSeen,
                   accepted, sent, consumed, credited, aborted>>

\* CHANNEL_EOF
RcvEof ==
    /\ link # <<>> /\ Head(link).type = "eof"
    /\ link' = Tail(link)
    /\ inState' = IF inState = "open" THEN "eof" ELSE inState
    /\ ended' = (ended \/ inState = "open")
    /\ UNCHANGED <<sender, back, inWin, rOutState, waitDrain, buf, reading, endSeen, counts>>

\* CHANNEL_CLOSE at the receiver: onCHANNEL_CLOSE()
RcvClose ==
    /\ link # <<>> /\ Head(link).type = "close"
    /\ link' = Tail(link)
    /\ inState' = "closed"
    /\ ended' = TRUE
    /\ back' = IF rOutState \in {"open", "eof"} THEN Append(back, CLOSE(granted)) ELSE back
    /\ rOutState' = "closed"
    /\ UNCHANGED <<sender, inWin, waitDrain, buf, reading, endSeen, counts>>

\* close() called by the receiving application.
ReaderClose ==
    /\ rOutState \in {"open", "eof"}
    /\ rOutState' = "closing"
    /\ back' = Append(back, CLOSE(granted))
    /\ aborted' = TRUE
    /\ UNCHANGED <<sender, link, inWin, inState, waitDrain, buf, reading, ended, endSeen,
                   accepted, sent, rcvd, consumed, lost, credited, granted>>

\* _read()
ReadWithoutAdjust ==
    /\ reading' = TRUE
    /\ waitDrain' = FALSE
    /\ NoAdjust(inWin)

DoRead ==
    /\ reading' = TRUE
    /\ waitDrain' = FALSE
    /\ IF waitDrain /\ inWin <= Threshold THEN WindowAdjust(inWin) ELSE NoAdjust(inWin)

\* The consumer takes n bytes; Node calls _read() when that leaves the buffer
\* below the highWaterMark.
Read(n) ==
    /\ n <= buf
    /\ buf' = buf - n
    /\ consumed' = consumed + n
    /\ IF ~reading /\ ~ended /\ buf - n < MaxWindow
       THEN DoRead
       ELSE UNCHANGED <<inWin, waitDrain, reading, back, granted>>
    /\ UNCHANGED <<sender, link, inState, rOutState, ended, endSeen,
                   accepted, sent, rcvd, lost, credited, aborted>>

\* Node reads ahead by itself while the buffer is below the highWaterMark.
ReadAhead ==
    /\ ~reading /\ ~ended /\ buf < MaxWindow
    /\ DoRead
    /\ UNCHANGED <<sender, link, inState, rOutState, buf, ended, endSeen,
                   accepted, sent, rcvd, consumed, lost, credited, aborted>>

SeeEnd ==
    /\ ended /\ buf = 0 /\ ~endSeen
    /\ endSeen' = TRUE
    /\ UNCHANGED <<sender, link, back, inWin, inState, rOutState, waitDrain, buf, reading,
                   ended, counts>>

-----------------------------------------------------------------------------
Deliver == RcvAdjust \/ RcvCloseReply \/ RcvData \/ RcvEof \/ RcvClose

Consume == SeeEnd \/ \E n \in 1..(2 * MaxWindow) : Read(n)

Next ==
    \/ \E n \in 1..MaxWrite : AppWrite(n)
    \/ AppEnd \/ AppClose \/ ReaderClose
    \/ \E half \in BOOLEAN : Finish(half)
    \/ ReadAhead
    \/ Deliver
    \/ Consume

Spec == Init /\ [][Next]_vars

\* The connection delivers, Node's event loop runs what is pending, and the
\* consumer keeps reading.
FairSpec ==
    /\ Spec
    /\ WF_vars(Deliver) /\ WF_vars(\E half \in BOOLEAN : Finish(half))
    /\ WF_vars(ReadAhead) /\ WF_vars(Consume)

-----------------------------------------------------------------------------
States == {"open", "eof", "closing", "closed"}

\* The variables keep their ranges: no window is ever negative and the
\* receiver never credits more than MAX_WINDOW.
TypeOK ==
    /\ outWin \in 0..MaxWindow /\ outState \in States /\ waitWindow \in BOOLEAN
    /\ chunk \in [lo : Nat, hi : Nat] /\ writing \in BOOLEAN
    /\ ending \in BOOLEAN /\ finished \in BOOLEAN /\ sGone \in BOOLEAN
    /\ link \in Seq(Message) /\ back \in Seq(Message)
    /\ inWin \in 0..MaxWindow /\ inState \in States /\ rOutState \in States
    /\ waitDrain \in BOOLEAN /\ buf \in Nat /\ reading \in BOOLEAN
    /\ ended \in BOOLEAN /\ endSeen \in BOOLEAN
    /\ accepted \in Nat /\ sent \in Nat /\ rcvd \in Nat /\ consumed \in Nat /\ lost \in Nat
    /\ credited \in Nat /\ granted \in Nat /\ aborted \in BOOLEAN

\* A queue of ranges that runs from position a to position b without gap,
\* overlap or reordering.
Runs(q, a, b) ==
    /\ a <= b
    /\ \A i \in 1..Len(q) : a <= q[i].lo /\ q[i].lo <= q[i].hi /\ q[i].hi <= b
    /\ \A i, j \in 1..Len(q) : i < j => q[i].hi <= q[j].lo
    /\ \A i \in 1..Len(q) - 1 : q[i].hi = q[i + 1].lo
    /\ IF q = <<>> THEN a = b ELSE q[1].lo = a /\ q[Len(q)].hi = b

\* Every byte is on the wire exactly once and in order: what is in flight is
\* exactly what was sent and has not arrived, across blocked and resumed writes.
InOrder == Runs(link, rcvd, sent)

\* Flow control conserves credit: what the sender may still send plus what is
\* in flight in either direction is what the receiver still expects.
CreditConserved ==
    /\ inWin + rcvd = granted
    /\ Runs(back, credited, granted)
    /\ ~sGone => outWin + sent = credited

\* The receiver never has to drop data: the test `incoming.window === 0` of
\* the CHANNEL_DATA handler never meets data, nor does data ever follow CLOSE.
NothingLost == lost = 0

\* Backpressure works: a consumer that stops reading makes the receiver hold
\* less than two windows of data, whatever was granted before.
BoundedBuffer == buf + inWin < 2 * MaxWindow

\* A reader that saw 'end' got every byte that was written, unless a side
\* called close() itself: EOF and CLOSE never overtake a blocked chunk.
NoTruncation == endSeen /\ ~aborted => consumed = accepted

\* WINDOW_ADJUSTs do not pile up: at most two are ever under way.
AdjustsInFlight ==
    ~ \E i, j, k \in 1..Len(back) :
        /\ i < j /\ j < k
        /\ back[i].type = "adjust" /\ back[j].type = "adjust" /\ back[k].type = "adjust"

\* The rest of the inductive invariant.
\* What is on the way to the receiver: data is never empty, and once EOF or
\* CLOSE is sent no data follows.
LinkShape ==
    \A i \in 1..Len(link) :
        /\ link[i].type \in {"data", "eof", "close"}
        /\ link[i].type = "data" => link[i].lo < link[i].hi
        /\ link[i].type # "data" =>
              link[i].lo = link[i].hi /\ link[i].hi = sent /\ outState # "open"

\* What is on the way back: an adjustment is worth half a window at least.
BackShape ==
    \A i \in 1..Len(back) :
        /\ back[i].type \in {"adjust", "close"}
        /\ back[i].type = "adjust" => Amount(back[i]) >= MaxWindow - Threshold
        /\ back[i].type = "close" => back[i].lo = back[i].hi /\ (aborted \/ inState = "closed")

\* The sender is either between writes or blocked with the unsent rest in _chunk.
WriterState ==
    /\ sent <= credited
    /\ outState = "open" =>
          IF writing THEN waitWindow /\ chunk.lo = sent /\ chunk.hi = accepted /\ sent < accepted
                     ELSE ~waitWindow /\ sent = accepted
    /\ outState # "open" /\ ~aborted => sent = accepted /\ ending
    /\ sGone => outState = "closed"

\* CLOSE is the last message, and nothing follows EOF or CLOSE but what was sent before.
CloseIsLast ==
    /\ outState \in {"open", "eof"} =>
          inState # "closed" /\ \A i \in 1..Len(link) : link[i].type # "close"
    /\ \A i \in 1..Len(link) : link[i].type = "close" => i = Len(link)
    /\ inState = "closed" => link = <<>>

\* What arrived is buffered or read, and push(null) came after all of it.
ReaderState ==
    /\ rcvd = consumed + buf
    /\ ended => outState # "open" /\ rcvd = sent
    /\ endSeen => ended /\ buf = 0

\* A channel does not hang: what is written is read, however often the window
\* closes on the way, every write is called back, and an ended stream ends at the
\* reader.
WritesComplete ==
    /\ \A n \in 1..MaxBytes : accepted >= n ~> (consumed >= n \/ aborted)
    /\ writing ~> ~writing \/ aborted
    /\ ending ~> endSeen \/ aborted
=============================================================================
