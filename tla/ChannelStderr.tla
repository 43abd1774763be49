--------------------------- MODULE ChannelStderr ----------------------------
(***************************************************************************)
(* A session on which the server writes both stdout (the Channel itself)   *)
(* and stderr (its ServerStderr), and the client reads both.  The two      *)
(* streams share one window, one _waitWindow at the server and one         *)
(* _waitChanDrain at the client, and the server keeps _chunk and _chunkErr *)
(* after they were written.  Ending and closing is in ChannelFlow.         *)
(*                                                                         *)
(* Node's streams are external, as in ChannelFlow; a callback called twice *)
(* makes the Writable fail (ERR_MULTIPLE_CALLBACK), and what it does then  *)
(* is not modelled.                                                        *)
(***************************************************************************)
EXTENDS ChannelWindow, SequencesExt

CONSTANTS MaxWrite,        \* bound: the longest chunk given to write()
          MaxBytes         \* bound: how many bytes are written to each stream

Streams == {"out", "err"}
NoChunk == [lo |-> 0, hi |-> 0]

VARIABLES
    \* --- the server's Channel ---
    outWin,                \* outgoing.window
    waitWindow,            \* _waitWindow
    chunk,                 \* _chunk and _chunkErr
    pending,               \* the streams waiting for the callback of a _write()
    broken,                \* a callback was called twice
    \* --- the wire ---
    link,                  \* CHANNEL_DATA and CHANNEL_EXTENDED_DATA
    back,                  \* the amounts of the CHANNEL_WINDOW_ADJUSTs
    \* --- the client's Channel ---
    inWin,                 \* incoming.window
    waitDrain,             \* _waitChanDrain
    buf,                   \* bytes in the buffer of each Readable
    reading,               \* the Readables that called _read() with no push() since
    \* --- history ---
    accepted,              \* bytes given to write()
    sent,                  \* position behind the last byte put on the wire
    rcvd,                  \* position behind the last byte that arrived
    lost                   \* bytes the client threw away

server == <<outWin, waitWindow, chunk, pending, broken, accepted, sent>>
client == <<inWin, waitDrain, buf, reading, rcvd, lost>>
vars   == <<server, link, back, client>>

Init ==
    /\ outWin = MaxWindow /\ waitWindow = FALSE /\ chunk = [s \in Streams |-> NoChunk]
    /\ pending = {} /\ broken = FALSE
    /\ link = <<>> /\ back = <<>>
    /\ inWin = MaxWindow /\ waitDrain = FALSE /\ buf = [s \in Streams |-> 0] /\ reading = {}
    /\ accepted = [s \in Streams |-> 0] /\ sent = [s \in Streams |-> 0]
    /\ rcvd = [s \in Streams |-> 0] /\ lost = 0

-----------------------------------------------------------------------------
(* The server.                                                             *)

Tagged(s, q) == [i \in DOMAIN q |-> [stream |-> s, lo |-> q[i].lo, hi |-> q[i].hi]]

\* _write() of Channel or ServerStderr for the bytes [lo, hi), with the window
\* at win, _waitWindow at wait, and the streams open waiting for a callback.
WriteWaitsOnlyAfterSending(s, lo, hi, win, wait, open) ==
    LET n == Least(hi - lo, win)
    IN  /\ link' = link \o Tagged(s, Slices(lo, n))
        /\ sent' = [sent EXCEPT ![s] = lo + n]
        /\ outWin' = win - n
        /\ waitWindow' = (wait \/ (n < hi - lo /\ n > 0))
        /\ chunk' = IF n < hi - lo THEN [chunk EXCEPT ![s] = [lo |-> lo + n, hi |-> hi]] ELSE chunk
        /\ pending' = IF n < hi - lo THEN open ELSE open \ {s}
        /\ broken' = (broken \/ (n = hi - lo /\ s \notin open))

DoWrite(s, lo, hi, win, wait, open) ==
    LET n == Least(hi - lo, win)
    IN  /\ link' = link \o Tagged(s, Slices(lo, n))
        /\ sent' = [sent EXCEPT ![s] = lo + n]
        /\ outWin' = win - n
        /\ waitWindow' = (wait \/ n < hi - lo)
        /\ chunk' = IF n < hi - lo THEN [chunk EXCEPT ![s] = [lo |-> lo + n, hi |-> hi]] ELSE chunk
        /\ pending' = IF n < hi - lo THEN open ELSE open \ {s}
        /\ broken' = (broken \/ (n = hi - lo /\ s \notin open))

AppWrite(s, n) ==
    /\ ~broken /\ s \notin pending /\ accepted[s] + n <= MaxBytes
    /\ accepted' = [accepted EXCEPT ![s] = @ + n]
    /\ DoWrite(s, accepted[s], accepted[s] + n, outWin, waitWindow, pending \cup {s})
    /\ UNCHANGED <<back, client>>

\* Which stream a CHANNEL_WINDOW_ADJUST resumes: the tests look at the chunks
\* alone, and a chunk stays behind when it was written.
ResumedErrFirst == IF chunk["err"] # NoChunk THEN "err" ELSE "out"

Resumed == IF chunk["out"] # NoChunk THEN "out" ELSE "err"

\* CHANNEL_WINDOW_ADJUST
RcvAdjust ==
    /\ back # <<>> /\ ~broken
    /\ back' = Tail(back)
    /\ IF waitWindow
       THEN DoWrite(Resumed, chunk[Resumed].lo, chunk[Resumed].hi,
                    outWin + Head(back), FALSE, pending)
       ELSE /\ outWin' = outWin + Head(back)
            /\ UNCHANGED <<waitWindow, chunk, pending, broken, link, sent>>
    /\ UNCHANGED <<accepted, client>>

-----------------------------------------------------------------------------
(* The client.                                                             *)

WindowAdjust(win) ==
    IF win >= MaxWindow THEN inWin' = win /\ UNCHANGED back
    ELSE inWin' = MaxWindow /\ back' = Append(back, MaxWindow - win)

NoAdjust(win) == inWin' = win /\ UNCHANGED back

\* CHANNEL_DATA for stdout, CHANNEL_EXTENDED_DATA for stderr.
RcvData ==
    LET m   == Head(link)
        len == Amount(m)
    IN  /\ link # <<>>
        /\ link' = Tail(link)
        /\ rcvd' = [rcvd EXCEPT ![m.stream] = m.hi]
        /\ IF inWin = 0
           THEN lost' = lost + len /\ UNCHANGED <<inWin, back, waitDrain, buf, reading>>
           ELSE /\ buf' = [buf EXCEPT ![m.stream] = @ + len]
                /\ reading' = reading \ {m.stream}
                /\ waitDrain' = (waitDrain \/ buf[m.stream] + len >= MaxWindow)
                /\ IF buf[m.stream] + len < MaxWindow /\ inWin - len <= Threshold
                   THEN WindowAdjust(inWin - len)
                   ELSE NoAdjust(inWin - len)
                /\ UNCHANGED lost
        /\ UNCHANGED server

\* _read() of Channel or ClientStderr: both look at the one _waitChanDrain.
DoRead(s) ==
    /\ reading' = reading \cup {s}
    /\ waitDrain' = FALSE
    /\ IF waitDrain /\ inWin <= Threshold THEN WindowAdjust(inWin) ELSE NoAdjust(inWin)

Read(s, n) ==
    /\ n <= buf[s]
    /\ buf' = [buf EXCEPT ![s] = @ - n]
    /\ IF s \notin reading /\ buf[s] - n < MaxWindow
       THEN DoRead(s)
       ELSE UNCHANGED <<inWin, waitDrain, reading, back>>
    /\ UNCHANGED <<server, link, rcvd, lost>>

ReadAhead(s) ==
    /\ s \notin reading /\ buf[s] < MaxWindow
    /\ DoRead(s)
    /\ UNCHANGED <<server, link, buf, rcvd, lost>>

-----------------------------------------------------------------------------
Consume(s) == \E n \in 1..(2 * MaxBytes) : Read(s, n)

Next ==
    \/ \E s \in Streams : (\E n \in 1..MaxWrite : AppWrite(s, n)) \/ ReadAhead(s) \/ Consume(s)
    \/ RcvAdjust
    \/ RcvData

Spec == Init /\ [][Next]_vars

\* The connection delivers, Node's event loop runs what is pending, and both
\* streams are read.
FairSpec ==
    /\ Spec
    /\ WF_vars(RcvAdjust) /\ WF_vars(RcvData)
    /\ \A s \in Streams : WF_vars(ReadAhead(s)) /\ WF_vars(Consume(s))

-----------------------------------------------------------------------------
Positions == [lo : 0..MaxBytes, hi : 0..MaxBytes]

\* The variables keep their ranges.
TypeOK ==
    /\ outWin \in 0..MaxWindow /\ inWin \in 0..MaxWindow
    /\ waitWindow \in BOOLEAN /\ waitDrain \in BOOLEAN /\ broken \in BOOLEAN
    /\ chunk \in [Streams -> Positions] /\ pending \subseteq Streams /\ reading \subseteq Streams
    /\ link \in Seq([stream : Streams, lo : 0..MaxBytes, hi : 0..MaxBytes])
    /\ back \in Seq(1..MaxWindow)
    /\ buf \in [Streams -> Nat] /\ accepted \in [Streams -> 0..MaxBytes]
    /\ sent \in [Streams -> 0..MaxBytes] /\ rcvd \in [Streams -> 0..MaxBytes] /\ lost \in Nat

\* The part of the link that belongs to a stream continues what arrived, up to
\* what was sent, without a gap or a repetition.
ExactlyOnce(s) ==
    LET q == SelectSeq(link, LAMBDA m : m.stream = s)
    IN  /\ \A i \in 1..Len(q) : q[i].lo = (IF i = 1 THEN rcvd[s] ELSE q[i - 1].hi)
        /\ sent[s] = (IF q = <<>> THEN rcvd[s] ELSE Last(q).hi)

\* stderr is never sent twice or out of order, whatever stdout does meanwhile;
\* stdout is as long as no write to stderr had to wait; and the one window is
\* shared without loss, so that the client never drops data for want of window.
StreamsExactlyOnce ==
    /\ TypeOK /\ lost = 0
    /\ ExactlyOnce("err")
    /\ chunk["err"] = NoChunk => ExactlyOnce("out")

\* Every write to stdout is called back, and every write to stderr while no
\* write to stdout had to wait.
WritesComplete ==
    /\ "out" \in pending ~> "out" \notin pending \/ broken
    /\ "err" \in pending ~> "err" \notin pending \/ chunk["out"] # NoChunk \/ broken
=============================================================================
