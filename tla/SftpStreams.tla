---------------------------- MODULE SftpStreams ----------------------------
(***************************************************************************)
(* ReadStream and WriteStream of lib/protocol/SFTP.js.  All read streams   *)
(* of the process read into one shared pool: each reserves a piece of it,  *)
(* hands the part that the answer filled to the application and gives the  *)
(* rest back.  Write streams have the writes of one _writev() under way    *)
(* together.  Both share the life cycle around the remote handle: open(),  *)
(* _destroy() and closeStream(), with destroy() at any moment.             *)
(*                                                                         *)
(* A READ or WRITE carries at most MaxDataLen bytes.  read() and write()   *)
(* send the rest of a longer one when the answer to the first part has     *)
(* come, with the handle they were given, destroyed or not.                *)
(*                                                                         *)
(* Memory is one address space; a pool is a piece of it.  The byte at      *)
(* position p of the file that stream s reads is <<s, p>>; the i-th byte   *)
(* written to a stream is i.                                               *)
(***************************************************************************)
EXTENDS Integers, FiniteSets, Sequences, SequencesExt

CONSTANTS Streams,
          FileSize,        \* bound: bytes of a file that is read or appended to
          HighWaterMarks,  \* values of highWaterMark
          Ends,            \* values of the option end
          Align,           \* 8: what roundUpToMultipleOf8() rounds to
          kMinPoolSpace,
          MaxDataLen,      \* _maxPktLen - PKT_RW_OVERHEAD
          MaxPools,        \* bound: pools allocated
          ChunkLength,     \* bound: bytes of a chunk written to a stream
          MaxWrites        \* bound: chunks written to a stream

ASSUME StreamsAssumption ==
    /\ FileSize \in Nat /\ HighWaterMarks \subseteq Nat \ {0} /\ Ends \subseteq Nat
    /\ Align \in Nat \ {0} /\ kMinPoolSpace \in Nat \ {0}
    /\ MaxDataLen \in Nat \ {0} /\ ChunkLength \in Nat \ {0}
    /\ MaxPools \in Nat /\ MaxWrites \in Nat
    /\ \E h \in HighWaterMarks : \A g \in HighWaterMarks : g <= h

VARIABLES
    writer, append, hwm, end, autoClose,   \* what kind of stream, and its options
    ended,          \* the session has ended: cleanupRequests() ran
    step,           \* the request of open() under way
    deadStep,       \* it was made on an ended session
    opening, handle, destroyed,
    onOpen,         \* closeStream() waits for 'open'
    closing, closed,
    pos,
    \* --- read streams ---
    pool, poolFragments, allocated,
    read,           \* the read under way
    halted,         \* push(null) or a failed read: no more reads
    mem,
    delivered,      \* the slices handed to the application
    \* --- write streams ---
    waiting,        \* the chunks of the write that waits for 'open'
    pending,        \* the writes under way, or what is left of them
    writesLeft, batch, sent, file,
    \* --- history ---
    doneCbs, failCbs,   \* calls of the callback of the current write
    early,          \* bytes sent by an appending stream that did not know its position
    first,          \* where the bytes after these go
    stuck           \* 'open' never comes although closeStream() waits for it

config == <<writer, append, hwm, end, autoClose>>
states == <<opening, handle, destroyed, onOpen, closing, closed>>
life == <<step, deadStep, states, stuck>>
reading == <<pool, poolFragments, allocated, read, halted, mem, delivered>>
writing == <<waiting, pending, writesLeft, batch, sent, file, doneCbs, failCbs>>
position == <<early, first>>
vars == <<config, ended, life, pos, reading, writing, position>>

roundUpToMultipleOf8(n) == ((n + Align - 1) \div Align) * Align
RoundDown(n) == (n \div Align) * Align

NoPool == [base |-> 0, length |-> 0, used |-> 0]
NoRead == [base |-> 0, length |-> 0, start |-> 0, toRead |-> 0, nb |-> 0, dead |-> FALSE]
MaxHwm == CHOOSE h \in HighWaterMarks : \A g \in HighWaterMarks : g <= h
Blank == <<"", 0>>
MaxBytes == MaxWrites * ChunkLength

\* What one request carries of this many bytes.
RequestLength(len) == IF len > MaxDataLen THEN MaxDataLen ELSE len

Each(value) == [s \in Streams |-> value]

\* Read streams share the pool.  A write stream shares nothing with the others,
\* which are then closed from the start.
Init ==
    /\ \E w \in BOOLEAN :
          LET used(s) == w => s = (CHOOSE one \in Streams : TRUE)
          IN  /\ writer = Each(w)
              /\ step = [s \in Streams |-> IF used(s) THEN "open" ELSE "failed"]
              /\ opening = [s \in Streams |-> used(s)]
              /\ destroyed = [s \in Streams |-> ~used(s)]
              /\ closed = [s \in Streams |-> ~used(s)]
              /\ append \in IF w THEN {Each(FALSE), Each(TRUE)} ELSE {Each(FALSE)}
              /\ hwm \in IF w THEN {Each(MaxHwm)} ELSE [Streams -> HighWaterMarks]
              /\ end \in IF w THEN {Each(0)} ELSE [Streams -> Ends]
    /\ autoClose \in BOOLEAN
    /\ ended = FALSE /\ deadStep = Each(FALSE)
    /\ handle = Each(FALSE) /\ onOpen = Each(FALSE) /\ closing = Each("no")
    /\ pos = Each(0)
    /\ pool = NoPool /\ poolFragments = <<>> /\ allocated = 0
    /\ read = Each(NoRead) /\ halted = Each(FALSE)
    /\ mem = [a \in 0..(MaxPools * MaxHwm - 1) |-> Blank] /\ delivered = {}
    /\ waiting = Each(0) /\ pending = Each({}) /\ writesLeft = Each(0)
    /\ batch = Each(0) /\ sent = Each(0)
    /\ file = Each([p \in 0..(FileSize + MaxBytes - 1) |-> -1])
    /\ doneCbs = Each(0) /\ failCbs = Each(0)
    /\ early = Each(0) /\ first = Each(0) /\ stuck = Each(FALSE)

-----------------------------------------------------------------------------
(* The life cycle.                                                         *)

\* A request may be answered unless it was made on an ended session; one that
\* was under way when the session ended fails.
Answered(dead, ok) == ~dead /\ (ended => ~ok)

\* sftp.close(handle, onclose), or onclose() at once without a handle.
CloseStream(s, hasHandle) ==
    IF hasHandle
    THEN closing' = [closing EXCEPT ![s] = IF ended THEN "dead" ELSE "sent"] /\ UNCHANGED closed
    ELSE closed' = [closed EXCEPT ![s] = TRUE] /\ UNCHANGED closing

\* destroy() calls _destroy() once.  While opening, closing waits for 'open'.
DestroysAtOnce(s, isOpening, hasHandle) ==
    IF destroyed[s] THEN UNCHANGED states
    ELSE /\ destroyed' = [destroyed EXCEPT ![s] = TRUE]
         /\ CloseStream(s, hasHandle)
         /\ handle' = [handle EXCEPT ![s] = FALSE]
         /\ opening' = [opening EXCEPT ![s] = FALSE]
         /\ UNCHANGED onOpen

Destroys(s, isOpening, hasHandle) ==
    IF destroyed[s] THEN opening' = [opening EXCEPT ![s] = isOpening]
                         /\ UNCHANGED <<handle, destroyed, onOpen, closing, closed>>
    ELSE /\ destroyed' = [destroyed EXCEPT ![s] = TRUE]
         /\ IF isOpening /\ ~hasHandle
            THEN /\ onOpen' = [onOpen EXCEPT ![s] = TRUE]
                 /\ UNCHANGED <<handle, opening, closing, closed>>
            ELSE /\ CloseStream(s, hasHandle)
                 /\ handle' = [handle EXCEPT ![s] = FALSE]
                 /\ opening' = [opening EXCEPT ![s] = FALSE]
                 /\ UNCHANGED onOpen

\* _write() or _writev() of k chunks, from position p on.
SendWritesAtOnce(s, k, p) ==
    /\ pending' = [pending EXCEPT ![s] =
                      {[pos |-> p, data |-> sent[s] + i * ChunkLength, len |-> ChunkLength,
                        dead |-> ended] : i \in 0..(k - 1)}]
    /\ writesLeft' = [writesLeft EXCEPT ![s] = k]
    /\ batch' = [batch EXCEPT ![s] = k]
    /\ sent' = [sent EXCEPT ![s] = @ + k * ChunkLength]
    /\ doneCbs' = [doneCbs EXCEPT ![s] = 0] /\ failCbs' = [failCbs EXCEPT ![s] = 0]
    /\ pos' = [pos EXCEPT ![s] = p + k * ChunkLength]

SendWrites(s, k, p) ==
    /\ pending' = [pending EXCEPT ![s] =
                      {[pos |-> p + i * ChunkLength, data |-> sent[s] + i * ChunkLength,
                        len |-> ChunkLength, dead |-> ended] : i \in 0..(k - 1)}]
    /\ writesLeft' = [writesLeft EXCEPT ![s] = k]
    /\ batch' = [batch EXCEPT ![s] = k]
    /\ sent' = [sent EXCEPT ![s] = @ + k * ChunkLength]
    /\ doneCbs' = [doneCbs EXCEPT ![s] = 0] /\ failCbs' = [failCbs EXCEPT ![s] = 0]
    /\ pos' = [pos EXCEPT ![s] = p + k * ChunkLength]

\* emit('open'), with the position p: first a write that waits for it (it goes on
\* waiting if the handle is gone), then closeStream(), after which the handle
\* stays set.
Opened(s, p) ==
    /\ step' = [step EXCEPT ![s] = "opened"]
    /\ opening' = [opening EXCEPT ![s] = FALSE]
    /\ IF waiting[s] > 0 /\ handle'[s]
       THEN SendWrites(s, waiting[s], p) /\ waiting' = [waiting EXCEPT ![s] = 0]
       ELSE pos' = [pos EXCEPT ![s] = p]
            /\ UNCHANGED <<waiting, pending, writesLeft, batch, sent, doneCbs, failCbs>>
    /\ onOpen' = [onOpen EXCEPT ![s] = FALSE]
    /\ IF onOpen[s] THEN CloseStream(s, TRUE) ELSE UNCHANGED <<closing, closed>>
    /\ UNCHANGED <<destroyed, deadStep, stuck, file>>

\* The next request of open().
Ask(s, request) ==
    /\ step' = [step EXCEPT ![s] = request]
    /\ deadStep' = [deadStep EXCEPT ![s] = ended]
    /\ opening' = [opening EXCEPT ![s] = FALSE]
    /\ UNCHANGED <<destroyed, onOpen, closing, closed, stuck, pos, writing>>

\* Emits 'error' and destroys, if it is to, a stream that will never open.
NeverOpens(s, destroys) ==
    /\ step' = [step EXCEPT ![s] = "failed"]
    /\ stuck' = [stuck EXCEPT ![s] = onOpen[s]]
    /\ IF destroys THEN Destroys(s, FALSE, handle[s])
       ELSE /\ opening' = [opening EXCEPT ![s] = FALSE]
            /\ UNCHANGED <<handle, destroyed, onOpen, closing, closed>>
    /\ UNCHANGED <<deadStep, pos, writing>>

\* The answer to OPEN: a write stream goes on to set the mode.
OpenAnswered(s, ok) ==
    /\ step[s] = "open" /\ Answered(deadStep[s], ok)
    /\ IF ~ok THEN NeverOpens(s, autoClose)
       ELSE /\ handle' = [handle EXCEPT ![s] = TRUE]
            /\ IF writer[s] THEN Ask(s, "fchmod") ELSE Opened(s, pos[s])
    /\ UNCHANGED <<config, ended, reading, position>>

\* tryAgain(): chmod() after a failed fchmod(), then, for appending, the size.
ModeAnswered(s, ok) ==
    /\ step[s] \in {"fchmod", "chmod"} /\ Answered(deadStep[s], ok)
    /\ UNCHANGED handle
    /\ IF step[s] = "fchmod" /\ ~ok THEN Ask(s, "chmod")
       ELSE IF append[s] THEN Ask(s, "fstat")
       ELSE Opened(s, pos[s])
    /\ UNCHANGED <<config, ended, reading, position>>

\* The size that the server tells: that of the file, or what the writes that are
\* already sent have made of it.
SizesTold(s) == {FileSize} \cup (FileSize + 1)..pos[s]

\* tryStat(): stat() after a failed fstat().  The size becomes the position, also
\* of a stream that has written already.
StatAnswered(s, ok) ==
    /\ step[s] \in {"fstat", "stat"} /\ Answered(deadStep[s], ok)
    /\ IF ok
       THEN /\ UNCHANGED handle
            /\ \E size \in SizesTold(s) :
                  /\ Opened(s, size)
                  /\ early' = [early EXCEPT ![s] = sent[s]]
                  /\ first' = [first EXCEPT ![s] = size]
       ELSE /\ UNCHANGED position
            /\ IF step[s] = "fstat" THEN UNCHANGED handle /\ Ask(s, "stat")
               ELSE NeverOpens(s, TRUE)
    /\ UNCHANGED <<config, ended, reading>>

\* The application calls destroy() or close(), or, with autoClose, the end of
\* the data does ('end', _final()).
Destroy(s) ==
    /\ ~destroyed[s]
    /\ Destroys(s, opening[s], handle[s])
    /\ UNCHANGED <<config, ended, step, deadStep, stuck, pos, reading, writing, position>>

CloseAnswered(s) ==
    /\ closing[s] = "sent"
    /\ closing' = [closing EXCEPT ![s] = "answered"]
    /\ closed' = [closed EXCEPT ![s] = TRUE]
    /\ UNCHANGED <<config, ended, step, deadStep, opening, handle, destroyed, onOpen, stuck,
                   pos, reading, writing, position>>

SessionEnd ==
    /\ ~ended /\ ended' = TRUE
    /\ UNCHANGED <<config, life, pos, reading, writing, position>>

-----------------------------------------------------------------------------
(* Read streams.                                                           *)

\* allocNewPool(): the last fragment given back, or new memory.
allocNewPool(s) ==
    IF poolFragments # <<>>
    THEN /\ poolFragments' = Front(poolFragments)
         /\ UNCHANGED allocated
    ELSE /\ allocated < MaxPools
         /\ allocated' = allocated + 1
         /\ UNCHANGED poolFragments

NewPool(s) ==
    IF poolFragments # <<>> THEN Last(poolFragments)
    ELSE [base |-> allocated * MaxHwm, length |-> hwm[s], used |-> 0]

\* _read(): reserves what it asks for.  `end` is the last position to read.
ReadsWith(s, p) ==
    LET toRead == Min({end[s] - pos[s] + 1, p.length - p.used, hwm[s]})
    IN  IF toRead <= 0
        THEN /\ halted' = [halted EXCEPT ![s] = TRUE]
             /\ pool' = p
             /\ UNCHANGED read
        ELSE /\ read' = [read EXCEPT ![s] =
                            [base |-> p.base, length |-> p.length, start |-> p.used,
                             toRead |-> toRead, nb |-> 0, dead |-> ended]]
             /\ pool' = [p EXCEPT !.used = roundUpToMultipleOf8(@ + toRead)]
             /\ UNCHANGED halted

ReadWhenDestroyed(s) ==
    /\ ~writer[s] /\ handle[s] /\ step[s] = "opened" /\ read[s] = NoRead /\ ~halted[s]
    /\ IF pool.length - pool.used < kMinPoolSpace
       THEN allocNewPool(s) /\ ReadsWith(s, NewPool(s))
       ELSE ReadsWith(s, pool) /\ UNCHANGED <<poolFragments, allocated>>
    /\ UNCHANGED <<config, ended, life, pos, mem, delivered, writing, position>>

Read(s) ==
    /\ ~writer[s] /\ handle[s] /\ step[s] = "opened" /\ read[s] = NoRead /\ ~halted[s]
    /\ ~destroyed[s]
    /\ IF pool.length - pool.used < kMinPoolSpace
       THEN allocNewPool(s) /\ ReadsWith(s, NewPool(s))
       ELSE ReadsWith(s, pool) /\ UNCHANGED <<poolFragments, allocated>>
    /\ UNCHANGED <<config, ended, life, pos, mem, delivered, writing, position>>

\* Gives back what the n bytes of the answer did not fill of reservation r:
\* rewinds the pool if nothing was reserved after it, else keeps a fragment of
\* whole multiples of 8.  Pools are compared by their place; a fragment that is
\* its whole parent is made when no other reservation of the parent is left.
GivesBackAlways(r, n) ==
    IF r.base = pool.base /\ r.length = pool.length
    THEN /\ pool' = [pool EXCEPT !.used = roundUpToMultipleOf8(@ + n - r.toRead)]
         /\ UNCHANGED poolFragments
    ELSE UNCHANGED <<pool, poolFragments>>

GivesBackUnrounded(r, n) ==
    IF r.start + r.toRead = pool.used /\ r.base = pool.base /\ r.length = pool.length
    THEN /\ pool' = [pool EXCEPT !.used = RoundDown(@ + n - r.toRead)]
         /\ UNCHANGED poolFragments
    ELSE UNCHANGED <<pool, poolFragments>>

GivesBack(r, n) ==
    IF r.start + r.toRead = pool.used /\ r.base = pool.base /\ r.length = pool.length
    THEN /\ pool' = [pool EXCEPT !.used = roundUpToMultipleOf8(@ + n - r.toRead)]
         /\ UNCHANGED poolFragments
    ELSE LET alignedEnd == RoundDown(r.start + r.toRead)
             alignedStart == roundUpToMultipleOf8(r.start + n)
         IN  /\ poolFragments' =
                   IF alignedEnd - alignedStart >= kMinPoolSpace
                   THEN Append(poolFragments, [base |-> r.base + alignedStart,
                                               length |-> alignedEnd - alignedStart, used |-> 0])
                   ELSE poolFragments
             /\ UNCHANGED pool

\* read_() goes on with what the n bytes of the answer leave.
GoesOn(s, n) ==
    /\ read' = [read EXCEPT ![s].nb = @ + n, ![s].dead = ended]
    /\ UNCHANGED <<pool, poolFragments, halted, delivered, pos>>

\* The callback of _read() with all n bytes that were read.
Finished(s, n) ==
    LET r == read[s]
    IN  /\ GivesBack(r, n)
        /\ read' = [read EXCEPT ![s] = NoRead]
        /\ delivered' = IF n = 0 THEN delivered
                        ELSE delivered \cup {[stream |-> s, addr |-> r.base + r.start,
                                              pos |-> pos[s], length |-> n]}
        /\ halted' = [halted EXCEPT ![s] = @ \/ n = 0]
        /\ pos' = [pos EXCEPT ![s] = @ + n]

\* An answer with n bytes (0 at the end of the file); also for a stream that was
\* destroyed meanwhile.  Another request follows a full one if any is left.
ReadAnswered(s, n) ==
    LET r    == read[s]
        len  == RequestLength(r.toRead - r.nb)
        from == pos[s] + r.nb
        at   == r.base + r.start + r.nb
    IN  /\ r # NoRead /\ Answered(r.dead, TRUE)
        /\ n <= len
        /\ IF from < FileSize THEN n \in 1..(FileSize - from) ELSE n = 0
        /\ mem' = [a \in DOMAIN mem |->
                      IF a - at \in 0..(n - 1) THEN <<s, from + a - at>> ELSE mem[a]]
        /\ IF n = len /\ r.nb + n < r.toRead THEN GoesOn(s, n) ELSE Finished(s, r.nb + n)
        /\ UNCHANGED <<config, ended, life, allocated, writing, position>>

ReadFails(s) ==
    /\ read[s] # NoRead /\ Answered(read[s].dead, FALSE)
    /\ read' = [read EXCEPT ![s] = NoRead]
    /\ halted' = [halted EXCEPT ![s] = TRUE]
    /\ IF autoClose THEN Destroys(s, opening[s], handle[s]) ELSE UNCHANGED states
    /\ UNCHANGED <<config, ended, step, deadStep, stuck, pos, pool, poolFragments, allocated,
                   mem, delivered, writing, position>>

-----------------------------------------------------------------------------
(* Write streams: the stream machinery calls _write() with one chunk and   *)
(* _writev() with several, when the callback of the last one was called.   *)

\* Waits for 'open' without a handle.  There is one while fchmod() and fstat() are
\* under way: the writes go out at once, to where the stream is by then.
Write(s, k) ==
    /\ writer[s] /\ ~destroyed[s] /\ waiting[s] = 0
    /\ (doneCbs[s] = 1 \/ batch[s] = 0) /\ failCbs[s] = 0
    /\ k > 0 /\ sent[s] + k * ChunkLength <= MaxBytes
    /\ IF handle[s]
       THEN SendWrites(s, k, pos[s]) /\ UNCHANGED waiting
       ELSE /\ waiting' = [waiting EXCEPT ![s] = k]
            /\ UNCHANGED <<pos, pending, writesLeft, batch, sent, doneCbs, failCbs>>
    /\ UNCHANGED <<config, ended, life, reading, file, position>>

\* The callback of one of the writes: onwrite().
OnWrite(s, ok) ==
    IF ok
    THEN /\ writesLeft' = [writesLeft EXCEPT ![s] = @ - 1]
         /\ doneCbs' = [doneCbs EXCEPT ![s] = IF writesLeft[s] = 1 THEN @ + 1 ELSE @]
         /\ UNCHANGED <<failCbs, states>>
    ELSE /\ failCbs' = [failCbs EXCEPT ![s] = @ + 1]
         /\ IF autoClose \/ batch[s] > 1 THEN Destroys(s, opening[s], handle[s])
            ELSE UNCHANGED states
         /\ UNCHANGED <<writesLeft, doneCbs>>

\* write() goes on with what one request left of w.
Rest(w) == [pos |-> w.pos + MaxDataLen, data |-> w.data + MaxDataLen,
            len |-> w.len - MaxDataLen, dead |-> ended]

WriteAnswered(s, w, ok) ==
    /\ w \in pending[s] /\ Answered(w.dead, ok)
    /\ file' = IF ~ok THEN file
               ELSE [file EXCEPT ![s] = [p \in DOMAIN file[s] |->
                        IF p - w.pos \in 0..(RequestLength(w.len) - 1)
                        THEN w.data + (p - w.pos) ELSE file[s][p]]]
    /\ IF ok /\ w.len > MaxDataLen
       THEN /\ pending' = [pending EXCEPT ![s] = (@ \ {w}) \cup {Rest(w)}]
            /\ UNCHANGED <<writesLeft, doneCbs, failCbs, states>>
       ELSE /\ pending' = [pending EXCEPT ![s] = @ \ {w}]
            /\ OnWrite(s, ok)
    /\ UNCHANGED <<config, ended, step, deadStep, stuck, pos, reading, waiting, batch, sent,
                   position>>

-----------------------------------------------------------------------------
Answers(s) ==
    \/ \E ok \in BOOLEAN : OpenAnswered(s, ok) \/ ModeAnswered(s, ok) \/ StatAnswered(s, ok)
    \/ CloseAnswered(s)
    \/ \E n \in 0..MaxHwm : ReadAnswered(s, n)
    \/ ReadFails(s)
    \/ \E w \in pending[s], ok \in BOOLEAN : WriteAnswered(s, w, ok)

Next ==
    \/ \E s \in Streams :
          \/ Answers(s) \/ Destroy(s) \/ Read(s)
          \/ \E k \in 1..MaxWrites : Write(s, k)
    \/ SessionEnd

Spec == Init /\ [][Next]_vars

\* Requests on a session that has not ended are answered.
FairSpec == Spec /\ \A s \in Streams : WF_vars(Answers(s))

-----------------------------------------------------------------------------
Span(from, length) == from..(from + length - 1)

\* The variables keep their ranges; a reservation lies within its pool, and every
\* fragment is aligned and not too small.
TypeOK ==
    /\ \A s \in Streams :
          /\ step[s] \in {"open", "fchmod", "chmod", "fstat", "stat", "opened", "failed"}
          /\ closing[s] \in {"no", "sent", "dead", "answered"}
          /\ read[s].start + read[s].toRead <= read[s].length /\ read[s].nb <= read[s].toRead
          /\ waiting[s] \in 0..MaxWrites /\ early[s] <= sent[s]
          /\ writesLeft[s] \in 0..batch[s]
    /\ pool.used >= 0
    /\ \A i \in DOMAIN poolFragments : /\ poolFragments[i].length >= kMinPoolSpace
                                       /\ poolFragments[i].length % Align = 0

\* The pieces of memory that are reserved for a read under way, free in the pool,
\* free in a fragment, or in the hands of the application, never overlap.
RegionsDisjoint ==
    LET pieces ==
          {<<"reserved", s, Span(read[s].base + read[s].start, read[s].toRead)>> : s \in Streams}
            \cup {<<"free", pool.base, Span(pool.base + pool.used, pool.length - pool.used)>>}
            \cup {<<"fragment", i, Span(poolFragments[i].base, poolFragments[i].length)>> :
                     i \in DOMAIN poolFragments}
            \cup {<<"given", d, Span(d.addr, d.length)>> : d \in delivered}
    IN  TypeOK /\ \A a, b \in pieces : a # b => a[3] \cap b[3] = {}

\* A read stream hands out the bytes of its file one after the other, none twice
\* and none left out, however short the answers are, not beyond `end`, and what it
\* has handed out is never overwritten by a later read of any stream.
DeliveredIntact ==
    /\ \A d \in delivered : \A i \in 0..(d.length - 1) :
          mem[d.addr + i] = <<d.stream, d.pos + i>>
    /\ \A s \in Streams :
          LET mine == {d \in delivered : d.stream = s}
          IN  /\ UNION {Span(d.pos, d.length) : d \in mine} = IF writer[s] THEN {} ELSE 0..(pos[s] - 1)
              /\ \A d, e \in mine : d # e => Span(d.pos, d.length) \cap Span(e.pos, e.length) = {}
              /\ ~writer[s] => pos[s] <= end[s] + 1

\* The callback of a write reports success at most once and not with a failure, and
\* then every byte given to the stream since it knows its position is in the file,
\* in order from that position on.  For an appending stream this is the end of the
\* file, and what was there stays, if nothing was written before it was known.
WrittenInOrder ==
    \A s \in Streams :
        /\ doneCbs[s] > 0 =>
              /\ doneCbs[s] = 1 /\ failCbs[s] = 0
              /\ \A i \in early[s]..(sent[s] - 1) : file[s][first[s] + (i - early[s])] = i
        /\ early[s] = 0 =>
              /\ first[s] \in {0, FileSize}
              /\ step[s] = "opened" /\ append[s] => first[s] = FileSize
              /\ \A p \in 0..(first[s] - 1) : file[s][p] = -1

\* Neither _read() nor _write() begins anything with a handle once closeStream() has
\* asked to close it: what is requested after that is the rest of what was under way.
OnlyGoesOn(s) ==
    /\ read[s] = NoRead => read'[s] = NoRead
    /\ sent'[s] = sent[s]
    /\ \A w \in pending'[s] : \E v \in pending[s] : w = v \/ w = Rest(v)

NoneBegunAfterClose == [][\A s \in Streams : closing[s] # "no" => OnlyGoesOn(s)]_vars

\* A destroyed stream closes its handle and reports it, unless the session ends or
\* 'open', for which it waits, never comes; and it begins nothing after that.
HandleClosed ==
    /\ NoneBegunAfterClose
    /\ \A s \in Streams :
          destroyed[s] ~> \/ /\ closed[s] /\ step[s] \in {"opened", "failed"}
                             /\ handle[s] => closing[s] = "answered"
                          \/ stuck[s] \/ ended
=============================================================================
